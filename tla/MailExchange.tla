---------------------------- MODULE MailExchange ----------------------------
(***************************************************************************)
(* What the mesh promises about an exchange of mail, however many mails    *)
(* there are and whatever the user does with the sessions meanwhile.  Each *)
(* time a question is put to its target somebody watches for the answer,   *)
(* and a watch ends in one follow-up or in none.  A question brings back   *)
(* two follow-ups at most, over any number of exits.  The call that sent a *)
(* mail returns once, and speaks of a reply only when the answer is        *)
(* stored.  No call returns for a follow-up, and nothing follows it up.    *)
(***************************************************************************)
EXTENDS Integers

CONSTANT Mails

VARIABLES
  sent,     \* what each mail was sent as
  watched,  \* how many watch for an answer to it
  back,     \* how many follow-ups it has brought back
  stored,   \* the mails whose answer is stored
  told      \* what the call that sent it returned

Replies == {"saidQueued", "saidDelivered", "saidRejected", "saidReply",
            "saidNoReply", "saidOpen"}

Init ==
  /\ sent = [m \in Mails |-> "none"]
  /\ watched = [m \in Mails |-> 0]
  /\ back = [m \in Mails |-> 0]
  /\ stored = {}
  /\ told = [m \in Mails |-> "nothing"]

Send(m) ==
  /\ sent[m] = "none"
  /\ \E mode \in {"question", "notify"} : sent' = [sent EXCEPT ![m] = mode]
  /\ UNCHANGED <<watched, back, stored, told>>

Put(q) ==
  /\ sent[q] = "question"
  /\ back[q] + watched[q] < 2
  /\ watched' = [watched EXCEPT ![q] = @ + 1]
  /\ UNCHANGED <<sent, back, stored, told>>

Store(q) ==
  /\ sent[q] = "question" /\ watched[q] > 0
  /\ stored' = stored \cup {q}
  /\ UNCHANGED <<sent, watched, back, told>>

FollowUp(q, f) ==
  /\ sent[q] = "question" /\ watched[q] > 0
  /\ sent[f] = "none"
  /\ sent' = [sent EXCEPT ![f] = "followUp"]
  /\ back' = [back EXCEPT ![q] = @ + 1]
  /\ watched' = [watched EXCEPT ![q] = @ - 1]
  /\ UNCHANGED <<stored, told>>

GiveUp(q) ==
  /\ watched[q] > 0
  /\ watched' = [watched EXCEPT ![q] = @ - 1]
  /\ UNCHANGED <<sent, back, stored, told>>

\* What a call may say of the mail it sent.
Truthful(m, reply) ==
  /\ reply \in {"saidReply", "saidNoReply", "saidOpen"} => sent[m] = "question"
  /\ reply = "saidDelivered" => sent[m] = "notify"
  /\ reply = "saidReply" => m \in stored

Tell(m) ==
  /\ told[m] = "nothing"
  /\ sent[m] \in {"question", "notify"}
  /\ \E reply \in Replies : Truthful(m, reply) /\ told' = [told EXCEPT ![m] = reply]
  /\ UNCHANGED <<sent, watched, back, stored>>

Exit ==
  /\ watched' = [m \in Mails |-> 0]
  /\ UNCHANGED <<sent, back, stored, told>>

Next ==
  \/ \E m \in Mails : Send(m) \/ Tell(m)
  \/ \E q \in Mails : Put(q) \/ Store(q) \/ GiveUp(q) \/ \E f \in Mails : FollowUp(q, f)
  \/ Exit

Spec == Init /\ [][Next]_<<sent, watched, back, stored, told>>
=============================================================================
