---------------------------- MODULE Conversation ----------------------------
(***************************************************************************)
(* What a session on a per-turn CLI promises its user, whatever processes  *)
(* and threads it takes.  A message in the transcript is the one of the    *)
(* next turn until that turn begins or the message is withdrawn.  A turn   *)
(* begins when no process of an earlier one is left, and its own never     *)
(* comes back.  A turn is answered once at most; one that is discarded has *)
(* no process any more, and no answer for ever.                            *)
(***************************************************************************)
EXTENDS Integers

VARIABLES
  asked,     \* the messages of the user in the transcript
  begun,     \* the turns begun
  alive,     \* the turns begun whose process lives
  answered,  \* the turns with a reply in the transcript
  discarded  \* the turns cancelled in time

Init ==
  /\ asked = 0 /\ begun = 0
  /\ alive = {} /\ answered = {} /\ discarded = {}

Ask ==
  /\ asked = begun
  /\ asked' = asked + 1
  /\ alive' \subseteq alive
  /\ UNCHANGED <<begun, answered, discarded>>

Withdraw ==
  /\ asked = begun + 1
  /\ asked' = begun
  /\ UNCHANGED <<begun, alive, answered, discarded>>

Begin ==
  /\ asked = begun + 1
  /\ begun' = asked
  /\ alive' \subseteq {asked}
  /\ UNCHANGED <<asked, answered, discarded>>

Answer(t) ==
  /\ t \notin answered \cup discarded
  /\ answered' = answered \cup {t}
  /\ UNCHANGED <<asked, begun, alive, discarded>>

Discard ==
  /\ asked = begun /\ begun # 0
  /\ begun \notin answered \cup discarded
  /\ discarded' = discarded \cup {begun}
  /\ alive' = {}
  /\ UNCHANGED <<asked, begun, answered>>

Dies ==
  /\ alive' \subseteq alive
  /\ UNCHANGED <<asked, begun, answered, discarded>>

Next ==
  \/ Ask \/ Withdraw \/ Begin \/ Discard \/ Dies
  \/ \E t \in 1..begun : Answer(t)

Spec == Init /\ [][Next]_<<asked, begun, alive, answered, discarded>>
=============================================================================
