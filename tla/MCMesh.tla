------------------------------- MODULE MCMesh -------------------------------
(***************************************************************************)
(* Instances of SessionMesh: two root sessions a and b; the calls are       *)
(* chosen so that two mails meet at one target, or one question and its     *)
(* follow-up cross.                                                        *)
(***************************************************************************)
EXTENDS MeshExchange

CONSTANTS a, b

Asks(f, t)  == [from |-> f, to |-> t, mode |-> "question"]
Tells(f, t) == [from |-> f, to |-> t, mode |-> "notify"]

MCRoots       == [s \in Sessions |-> 0]
MCOneQuestion == {Asks(a, b)}
MCOneAsker    == {Asks(a, b), Tells(a, b)}

\* The abstract life cycle, read off the rows and the replies.
Lifecycle == INSTANCE MailLifecycle WITH
  Mails  <- Mails,
  status <- [m \in Mails |-> mail[m].status],
  told   <- [m \in Mails |-> IF disp[m] \in Said \ {"done", "dead"}
                             THEN disp[m] ELSE "nothing"]

\* With one question at a time, status and reply follow the promised life
\* cycle through busy targets, refused turns, expiries and restarts.
FollowsLifecycle == Lifecycle!Spec
=============================================================================
