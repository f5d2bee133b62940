---------------------------- MODULE MeshExchange ----------------------------
(***************************************************************************)
(* SessionMesh read as a MailExchange: one state function for each of its  *)
(* variables.                                                              *)
(***************************************************************************)
EXTENDS SessionMesh

Sent    == [m \in Mails |-> IF m \notin Used THEN "none"
                           ELSE IF mail[m].re # 0 THEN "followUp" ELSE mail[m].mode]
Watched == [m \in Mails |-> Cardinality(AtWork(m))]
Back    == [m \in Mails |-> Cardinality(FollowUps(m))]
Stored  == {m \in Used : mail[m].answer \in Row}

\* A dispatch that nobody waits for, or that died with the process, says nothing.
Told    == [m \in Mails |-> IF disp[m] \in Said \ {"done", "dead"} THEN disp[m] ELSE "nothing"]

Exchange == INSTANCE MailExchange WITH
  sent <- Sent, watched <- Watched, back <- Back, stored <- Stored, told <- Told

\* The rows, the watchers and the replies of the mesh make an exchange as
\* promised: turns and follow-ups are bounded over exits, calls return once
\* and truthfully, and stored answers stay (message_session, pump_kick,
\* watch_answer, push_follow_up_answer).
FollowsExchange == Exchange!Spec
=============================================================================
