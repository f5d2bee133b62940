---------------------------- MODULE MailLifecycle ----------------------------
(***************************************************************************)
(* What the mesh promises about one mail: its status moves from queued to  *)
(* delivered, back only while the delivery was refused by a busy target,   *)
(* and once settled it never moves again; and the one reply its sender     *)
(* gets agrees with the status.                                            *)
(***************************************************************************)
CONSTANT Mails

VARIABLES
  status,  \* the status column of each mail
  told     \* what the tool call of each mail returned

Settled == {"answered", "expired", "rejected"}

Init == /\ status = [m \in Mails |-> "none"]
        /\ told = [m \in Mails |-> "nothing"]

MayBecome(old, new) ==
  \/ old = "none"      /\ new = "queued"
  \/ old = "queued"    /\ new \in {"delivered", "expired", "rejected"}
  \/ old = "delivered" /\ new \in {"queued"} \cup Settled

\* The replies that claim something of the mail's status.
Agrees(reply, st) ==
  /\ reply = "saidReply"     => st = "answered"
  /\ reply = "saidRejected"  => st = "rejected"
  /\ reply = "saidNoReply"   => st = "expired"
  /\ reply = "saidDelivered" => st = "delivered"

Move(m) == \E st \in {"queued", "delivered"} \cup Settled :
             /\ MayBecome(status[m], st)
             /\ status' = [status EXCEPT ![m] = st]

Tell(m) == /\ told[m] = "nothing"
           /\ status[m] # "none"
           /\ \E reply \in {"saidQueued", "saidDelivered", "saidRejected",
                            "saidReply", "saidNoReply", "saidOpen"} :
                /\ Agrees(reply, status'[m])
                /\ told' = [told EXCEPT ![m] = reply]

Next == \E m \in Mails : \/ Move(m) /\ UNCHANGED told
                         \/ Tell(m) /\ UNCHANGED status
                         \/ Move(m) /\ Tell(m)

Spec == Init /\ [][Next]_<<status, told>>
=============================================================================
