----------------------------- MODULE SessionMesh -----------------------------
(***************************************************************************)
(* The Session Mesh mailbox of Relay: session_fabric/mod.rs over the       *)
(* session_mail table of db/session_fabric.rs.  One session mails another; *)
(* the mail becomes a turn of the target session, now if the target is     *)
(* idle, through a drain pump when it is busy.  A question also arms a     *)
(* watcher that takes the target's output as the answer and hands it to    *)
(* the asking tool call, or, when that call has already returned, mails    *)
(* it back as a follow-up.                                                 *)
(*                                                                         *)
(* Tasks run on several threads, so a step is one hold of the database     *)
(* lock, of the waiter map or of the pump set, or one atomic test of the   *)
(* target's busy flag; a read whose result only the next step of the same  *)
(* task uses is one step with it.  Deadlines may pass at any time, so a    *)
(* deadline test is a choice.                                              *)
(***************************************************************************)
EXTENDS Integers, Sequences, FiniteSets, SequencesExt

CONSTANTS
  Sessions,         \* chat sessions
  Builtin,          \* those run by ChatManager; the others run a CLI harness
  Calls,            \* bound: the message_session calls the sessions make
  Outputs,          \* what a turn may leave: "none", "ack", "content"
  SpawnDepth,       \* a session's distance from the root of its spawn tree
  MaxMail,          \* bound: rows the session_mail table can hold
  MaxMailPerHour,   \* MAX_MAIL_PER_HOUR (all modelled mail is of one hour)
  MaxQueueDepth,    \* MAX_QUEUE_DEPTH
  MaxFollowupDepth, \* MAX_FOLLOWUP_DEPTH
  MaxUserTurns,     \* bound: turns the user starts
  MaxReplies,       \* bound: turns of a session that leave output
  MaxRestarts       \* bound: exits of the process

ASSUME MeshAssumption ==
  /\ Sessions # {}
  /\ Builtin \subseteq Sessions
  /\ Calls \subseteq [from: Sessions, to: Sessions, mode: {"question", "notify"}]
  /\ Outputs \subseteq {"none", "ack", "content"}
  /\ SpawnDepth \in [Sessions -> Nat]
  /\ MaxMail \in Nat /\ MaxMailPerHour \in Nat /\ MaxQueueDepth \in Nat
  /\ MaxFollowupDepth \in Nat /\ MaxUserTurns \in Nat
  /\ MaxReplies \in Nat /\ MaxRestarts \in Nat

VARIABLES
  mail,      \* the session_mail rows; a row's index is its insertion order
  cleared,   \* sends that passed the guards and have not inserted their row
  disp,      \* where the code that inserted a row is with it, or what it said
  mark,      \* the watermark the dispatcher of a row read
  waiters,   \* FabricRuntime.answer_waiters: the parked senders
  box,       \* what a parked sender sent to its receiver
  pump,      \* the drain pump of a target; st = "off" outside the pump set
  watch,     \* the answer watchers spawned for a row, oldest first
  turn,      \* the turn a session is running
  rows,      \* the assistant rows of a session's transcript
  unsaved,   \* replies of turns that are over, not in the transcript yet
  userTurns, \* how many turns the user has started
  restarts   \* how often the process has exited

vars == <<mail, cleared, disp, mark, waiters, box, pump, watch, turn, rows,
          unsaved, userTurns, restarts>>

-----------------------------------------------------------------------------
(* Data *)

Mails    == 1..MaxMail
NoTurn   == -1
UserTurn == 0

Modes    == {"question", "notify"}
Statuses == {"none", "queued", "delivered", "answered", "expired", "rejected"}

\* An assistant row of a transcript: whether is_bare_ack holds of its text.
Row == {"ack", "content"}

\* What a watcher has for the asker: a row it found, or the text made up at
\* expiry.
Answers == Row \cup {"none", "notice"}

\* re = 0 for a mail a tool call sent, else the question it follows up.
MailRow == [status: Statuses, from: Sessions, to: Sessions, mode: Modes,
            depth: Nat, re: Nat, answer: Answers]

AnySession == CHOOSE s \in Sessions : TRUE

NoRow == [status |-> "none", from |-> AnySession, to |-> AnySession,
          mode |-> "notify", depth |-> 0, re |-> 0, answer |-> "none"]

\* Steps of message_session / deliver_or_queue / deliver_mail for one row.
Dispatching == {"park", "check", "backlog", "kick", "deliver", "run", "requeue", "reject", "dropped"}
\* A question whose receiver is awaited, and whose timeout has just fired.
Waiting     == {"wait", "timedOut"}
\* The replies of the tool call; "done" ends a dispatch nobody waits for.
Said        == {"saidQueued", "saidDelivered", "saidRejected", "saidReply",
                "saidNoReply", "saidOpen", "done", "dead"}
DispStates  == {"none"} \cup Dispatching \cup Waiting \cup Said

PumpStates == {"off", "pick", "have", "deliver", "run", "resolve", "turnwait", "exit"}
Pump    == [st: PumpStates, mail: 0..MaxMail, mark: Nat, late: BOOLEAN]
PumpOff == [st |-> "off", mail |-> 0, mark |-> 0, late |-> FALSE]

\* "resolve", "notice" and "giveUp" have set the mail's status and go to the
\* waiter with an answer, an expiry that may be followed up, and no answer.
WatchStates  == {"poll", "collect", "resolve", "notice", "giveUp", "push", "insert", "done"}
Watcher == [st: WatchStates, mark: Nat, rearmed: BOOLEAN, answer: Answers]

Used == {m \in Mails : mail[m].status # "none"}
\* ORDER BY created_at; mails of one second are taken in the order of their rows.
Oldest(S) == CHOOSE m \in S : \A k \in S : m <= k
NextId == Oldest(Mails \ Used)

QueuedMailFor(t) == {m \in Used : mail[m].status = "queued" /\ mail[m].to = t}
CountMailFrom(s) == Cardinality({m \in Used : mail[m].from = s})

SessionBusy(s) == turn[s] # NoTurn

SetStatus(m, s) == mail' = [mail EXCEPT ![m].status = s]

-----------------------------------------------------------------------------
TypeOK ==
  /\ mail \in [Mails -> MailRow]
  /\ cleared \in SUBSET Calls
  /\ disp \in [Mails -> DispStates]
  /\ mark \in [Mails -> Nat]
  /\ waiters \in SUBSET Mails
  /\ box \in [Mails -> {"empty", "answer", "none"}]
  /\ pump \in [Sessions -> Pump]
  /\ watch \in [Mails -> Seq(Watcher)]
  /\ turn \in [Sessions -> NoTurn..MaxMail]
  /\ rows \in [Sessions -> Seq(Row)]
  /\ unsaved \in [Sessions -> Seq(Row)]
  /\ userTurns \in 0..MaxUserTurns
  /\ restarts \in 0..MaxRestarts

Init ==
  /\ mail = [m \in Mails |-> NoRow]
  /\ cleared = {}
  /\ disp = [m \in Mails |-> "none"]
  /\ mark = [m \in Mails |-> 0]
  /\ waiters = {}
  /\ box = [m \in Mails |-> "empty"]
  /\ pump = [s \in Sessions |-> PumpOff]
  /\ watch = [m \in Mails |-> <<>>]
  /\ turn = [s \in Sessions |-> NoTurn]
  /\ rows = [s \in Sessions |-> <<>>]
  /\ unsaved = [s \in Sessions |-> <<>>]
  /\ userTurns = 0
  /\ restarts = 0

-----------------------------------------------------------------------------
(* resolve_waiter: takes the sender out of the map; the send succeeds while *)
(* the tool call still holds the receiver.                                  *)

ReceiverAlive(m) == disp[m] \in Dispatching \cup Waiting

WaiterTakes(m) == m \in waiters /\ ReceiverAlive(m)

ResolveWaiter(m, value) ==
  /\ waiters' = waiters \ {m}
  /\ box' = IF WaiterTakes(m) THEN [box EXCEPT ![m] = value] ELSE box

-----------------------------------------------------------------------------
(* mesh_message_session up to the inserted row *)

\* The guards run under one hold of the database lock, the insert under the
\* next one.
SendGuards(call) ==
  /\ call \notin cleared
  /\ Cardinality(Used) + Cardinality(cleared) < MaxMail
  /\ call.from # call.to
  /\ CountMailFrom(call.from) < MaxMailPerHour
  /\ SpawnDepth[call.from] < 2
  /\ cleared' = cleared \cup {call}
  /\ UNCHANGED <<mail, disp, mark, waiters, box, pump, watch, turn, rows, unsaved,
                 userTurns, restarts>>

InsertMail(id, from, to, mode, depth, re) ==
  mail' = [mail EXCEPT ![id] =
             [status |-> "queued", from |-> from, to |-> to, mode |-> mode,
              depth |-> depth, re |-> re, answer |-> "none"]]

SendInsert(call) ==
  /\ call \in cleared
  /\ Used # Mails
  /\ cleared' = cleared \ {call}
  /\ InsertMail(NextId, call.from, call.to, call.mode, SpawnDepth[call.from], 0)
  /\ disp' = [disp EXCEPT ![NextId] = IF call.mode = "question" THEN "park" ELSE "check"]
  /\ UNCHANGED <<mark, waiters, box, pump, watch, turn, rows, unsaved,
                 userTurns, restarts>>

\* Fault: the waiter is parked by an early look at the target.
ParkWaiter_idle(m) ==
  /\ disp[m] = "park"
  /\ waiters' = IF SessionBusy(mail[m].to) THEN waiters ELSE waiters \cup {m}
  /\ disp' = [disp EXCEPT ![m] = "check"]
  /\ UNCHANGED <<mail, cleared, mark, box, pump, watch, turn, rows, unsaved,
                 userTurns, restarts>>

ParkWaiter(m) ==
  /\ disp[m] = "park"
  /\ waiters' = waiters \cup {m}
  /\ disp' = [disp EXCEPT ![m] = "check"]
  /\ UNCHANGED <<mail, cleared, mark, box, pump, watch, turn, rows, unsaved,
                 userTurns, restarts>>

-----------------------------------------------------------------------------
(* deliver_or_queue, deliver_mail and the rest of the sending code *)

\* Fault: the dispatch of a follow-up goes on like that of a call.
Tell_all(m, result) == disp' = [disp EXCEPT ![m] = result]

\* What the dispatch of a row hands back: the tool call goes on with it,
\* push_follow_up_answer ignores it.
Tell(m, result) ==
  disp' = [disp EXCEPT ![m] = IF mail[m].re = 0 THEN result ELSE "done"]

\* pump_kick: a second kick of a live pump is a no-op.
PumpKick(t) ==
  pump' = IF pump[t].st = "off"
          THEN [pump EXCEPT ![t] = [PumpOff EXCEPT !.st = "pick"]]
          ELSE pump

\* The sender's own row is already queued, so it counts in the backlog.
MailboxFull(t) == Cardinality(QueuedMailFor(t)) >= MaxQueueDepth

TestBusy(m) ==
  /\ disp[m] = "check"
  /\ disp' = [disp EXCEPT ![m] = IF SessionBusy(mail[m].to) THEN "backlog" ELSE "deliver"]
  /\ UNCHANGED <<mail, cleared, mark, waiters, box, pump, watch, turn, rows, unsaved,
                 userTurns, restarts>>

\* An overflow is an error like any other: "reject" for a tool call.
CountBacklog(m) ==
  /\ disp[m] = "backlog"
  /\ IF MailboxFull(mail[m].to) THEN Tell(m, "reject")
                               ELSE disp' = [disp EXCEPT ![m] = "kick"]
  /\ UNCHANGED <<mail, cleared, mark, waiters, box, pump, watch, turn, rows, unsaved,
                 userTurns, restarts>>

KickPump(m) ==
  /\ disp[m] = "kick"
  /\ PumpKick(mail[m].to)
  /\ Tell(m, "saidQueued")
  /\ UNCHANGED <<mail, cleared, mark, waiters, box, watch, turn, rows, unsaved,
                 userTurns, restarts>>

\* deliver_mail up to run_turn: the watermark and the status.
MarkDelivered(m) ==
  /\ disp[m] = "deliver"
  /\ mark' = [mark EXCEPT ![m] = Len(rows[mail[m].to])]
  /\ SetStatus(m, "delivered")
  /\ disp' = [disp EXCEPT ![m] = "run"]
  /\ UNCHANGED <<cleared, waiters, box, pump, watch, turn, rows, unsaved,
                 userTurns, restarts>>

\* A harness refuses a turn while one is running; the built-in engine cancels
\* the running one and starts.
CanStart(s) == s \in Builtin \/ ~SessionBusy(s)

StartTurn(m) == turn' = [turn EXCEPT ![mail[m].to] = m]

NewWatcher(m, wm) ==
  watch' = IF mail[m].mode = "question"
           THEN [watch EXCEPT ![m] = Append(@,
                  [st |-> "poll", mark |-> wm, rearmed |-> FALSE, answer |-> "none"])]
           ELSE watch

RunTurnOk(m) ==
  /\ disp[m] = "run"
  /\ CanStart(mail[m].to)
  /\ StartTurn(m)
  /\ NewWatcher(m, mark[m])
  /\ mark' = [mark EXCEPT ![m] = 0]
  /\ IF mail[m].mode = "question"
     THEN disp' = [disp EXCEPT ![m] = "wait"]
     ELSE Tell(m, "saidDelivered")
  /\ UNCHANGED <<mail, cleared, waiters, box, pump, rows, unsaved, userTurns, restarts>>

\* "a turn is already running": a tool call requeues the row for the pump; a
\* follow-up's error is dropped and its row stays delivered.
RunTurnBusy(m) ==
  /\ disp[m] = "run"
  /\ ~CanStart(mail[m].to)
  /\ mark' = [mark EXCEPT ![m] = 0]
  /\ Tell(m, "requeue")
  /\ UNCHANGED <<mail, cleared, waiters, box, pump, watch, turn, rows, unsaved,
                 userTurns, restarts>>

\* Any other error of the send path: no CLI, no key, a failed spawn.
RunTurnFails(m) ==
  /\ disp[m] = "run"
  /\ mark' = [mark EXCEPT ![m] = 0]
  /\ Tell(m, "reject")
  /\ UNCHANGED <<mail, cleared, waiters, box, pump, watch, turn, rows, unsaved,
                 userTurns, restarts>>

Requeue(m) ==
  /\ disp[m] = "requeue"
  /\ SetStatus(m, "queued")
  /\ disp' = [disp EXCEPT ![m] = "kick"]
  /\ UNCHANGED <<cleared, mark, waiters, box, pump, watch, turn, rows, unsaved,
                 userTurns, restarts>>

\* The waiter goes first, the status follows under the next lock.
DropWaiter(m) ==
  /\ disp[m] = "reject"
  /\ waiters' = waiters \ {m}
  /\ disp' = [disp EXCEPT ![m] = "dropped"]
  /\ UNCHANGED <<mail, cleared, mark, box, pump, watch, turn, rows, unsaved,
                 userTurns, restarts>>

Reject(m) ==
  /\ disp[m] = "dropped"
  /\ SetStatus(m, "rejected")
  /\ disp' = [disp EXCEPT ![m] = "saidRejected"]
  /\ UNCHANGED <<cleared, mark, waiters, box, pump, watch, turn, rows, unsaved,
                 userTurns, restarts>>

\* The awaited receiver yields, or its timeout fires; the receiver is dropped
\* only when the call returns, a moment later.
TakeReply(m) ==
  /\ disp[m] = "wait"
  /\ box[m] # "empty"
  /\ disp' = [disp EXCEPT ![m] = IF box[m] = "answer" THEN "saidReply" ELSE "saidNoReply"]
  /\ UNCHANGED <<mail, cleared, mark, waiters, box, pump, watch, turn, rows, unsaved,
                 userTurns, restarts>>

TimeoutFires(m) ==
  /\ disp[m] = "wait"
  /\ box[m] = "empty"
  /\ disp' = [disp EXCEPT ![m] = "timedOut"]
  /\ UNCHANGED <<mail, cleared, mark, waiters, box, pump, watch, turn, rows, unsaved,
                 userTurns, restarts>>

TimeoutReturns(m) ==
  /\ disp[m] = "timedOut"
  /\ disp' = [disp EXCEPT ![m] = "saidOpen"]
  /\ UNCHANGED <<mail, cleared, mark, waiters, box, pump, watch, turn, rows, unsaved,
                 userTurns, restarts>>

-----------------------------------------------------------------------------
(* The drain pump of a target (the task pump_kick spawns) *)

PumpGoto(t, st) ==
  pump' = [pump EXCEPT ![t] = [PumpOff EXCEPT !.st = st, !.late = pump[t].late]]

PumpPick(t) ==
  /\ pump[t].st = "pick"
  /\ IF QueuedMailFor(t) = {}
     THEN PumpGoto(t, "exit")
     ELSE pump' = [pump EXCEPT ![t].st = "have", ![t].mail = Oldest(QueuedMailFor(t))]
  /\ UNCHANGED <<mail, cleared, disp, mark, waiters, box, watch, turn, rows, unsaved,
                 userTurns, restarts>>

\* Fault: an expired mail is not taken out of the queue.
PumpExpire_unwritten(t) ==
  /\ pump[t].st = "have"
  /\ pump' = [pump EXCEPT ![t].st = "resolve", ![t].late = TRUE]
  /\ UNCHANGED <<mail, cleared, disp, mark, waiters, box, watch, turn, rows, unsaved,
                 userTurns, restarts>>

\* PUMP_CEILING_SECS have passed, and stay passed, since the pump was spawned.
PumpExpire(t) ==
  /\ pump[t].st = "have"
  /\ SetStatus(pump[t].mail, "expired")
  /\ pump' = [pump EXCEPT ![t].st = "resolve", ![t].late = TRUE]
  /\ UNCHANGED <<cleared, disp, mark, waiters, box, watch, turn, rows, unsaved,
                 userTurns, restarts>>

\* A busy target: sleep and look again.
PumpTestBusy(t) ==
  /\ pump[t].st = "have" /\ ~pump[t].late
  /\ IF SessionBusy(t) THEN PumpGoto(t, "pick")
                       ELSE pump' = [pump EXCEPT ![t].st = "deliver"]
  /\ UNCHANGED <<mail, cleared, disp, mark, waiters, box, watch, turn, rows, unsaved,
                 userTurns, restarts>>

\* Fault: the status is not written, so the row is picked again.
PumpMarkDelivered_unwritten(t) ==
  /\ pump[t].st = "deliver"
  /\ pump' = [pump EXCEPT ![t].st = "run", ![t].mark = Len(rows[t])]
  /\ UNCHANGED <<mail, cleared, disp, mark, waiters, box, watch, turn, rows, unsaved,
                 userTurns, restarts>>

PumpMarkDelivered(t) ==
  /\ pump[t].st = "deliver"
  /\ SetStatus(pump[t].mail, "delivered")
  /\ pump' = [pump EXCEPT ![t].st = "run", ![t].mark = Len(rows[t])]
  /\ UNCHANGED <<cleared, disp, mark, waiters, box, watch, turn, rows, unsaved,
                 userTurns, restarts>>

\* Fault: only a turn of the sender's own is watched.
PumpRunOk_unwatched(t) ==
  /\ pump[t].st = "run"
  /\ CanStart(t)
  /\ StartTurn(pump[t].mail)
  /\ PumpGoto(t, "turnwait")
  /\ UNCHANGED <<mail, cleared, disp, mark, waiters, box, watch, rows, unsaved, userTurns,
                 restarts>>

PumpRunOk(t) ==
  /\ pump[t].st = "run"
  /\ CanStart(t)
  /\ StartTurn(pump[t].mail)
  /\ NewWatcher(pump[t].mail, pump[t].mark)
  /\ PumpGoto(t, "turnwait")
  /\ UNCHANGED <<mail, cleared, disp, mark, waiters, box, rows, unsaved, userTurns, restarts>>

PumpRunBusy(t) ==
  /\ pump[t].st = "run"
  /\ ~CanStart(t)
  /\ SetStatus(pump[t].mail, "queued")
  /\ PumpGoto(t, "pick")
  /\ UNCHANGED <<cleared, disp, mark, waiters, box, watch, turn, rows, unsaved,
                 userTurns, restarts>>

PumpRunFails(t) ==
  /\ pump[t].st = "run"
  /\ SetStatus(pump[t].mail, "rejected")
  /\ pump' = [pump EXCEPT ![t].st = "resolve", ![t].mark = 0]
  /\ UNCHANGED <<cleared, disp, mark, waiters, box, watch, turn, rows, unsaved,
                 userTurns, restarts>>

\* Every terminal path of the pump resolves the parked waiter.
PumpResolve(t) ==
  /\ pump[t].st = "resolve"
  /\ ResolveWaiter(pump[t].mail, "none")
  /\ PumpGoto(t, "pick")
  /\ UNCHANGED <<mail, cleared, disp, mark, watch, turn, rows, unsaved,
                 userTurns, restarts>>

\* The delivered turn ended, or its WATCHER_CEILING_SECS passed.
PumpTurnOver(t) ==
  /\ pump[t].st = "turnwait"
  /\ PumpGoto(t, "pick")
  /\ UNCHANGED <<mail, cleared, disp, mark, waiters, box, watch, turn, rows, unsaved,
                 userTurns, restarts>>

\* The loop is over; only now does the target leave the pump set.
PumpExit(t) ==
  /\ pump[t].st = "exit"
  /\ pump' = [pump EXCEPT ![t] = PumpOff]
  /\ UNCHANGED <<mail, cleared, disp, mark, waiters, box, watch, turn, rows, unsaved,
                 userTurns, restarts>>

-----------------------------------------------------------------------------
(* watch_answer and push_follow_up_answer *)

SetWatch(m, w, st) == watch' = [watch EXCEPT ![m][w].st = st]

WatcherDone == [st |-> "done", mark |-> 0, rearmed |-> FALSE, answer |-> "none"]
EndWatch(m, w) == watch' = [watch EXCEPT ![m][w] = WatcherDone]

\* The ceiling passed while the target still runs: one more window.
WatchRearm(m, w) ==
  /\ watch[m][w].st = "poll"
  /\ ~watch[m][w].rearmed
  /\ SessionBusy(mail[m].to)
  /\ watch' = [watch EXCEPT ![m][w].rearmed = TRUE]
  /\ UNCHANGED <<mail, cleared, disp, mark, waiters, box, pump, turn, rows, unsaved,
                 userTurns, restarts>>

\* The row is settled before the waiter is looked up.
Settle(m, w, st, a) ==
  watch' = [watch EXCEPT ![m][w] = [WatcherDone EXCEPT !.st = st, !.answer = a]]

\* Fault: a busy target is waited for without end.
WatchExpire_idle(m, w) ==
  /\ watch[m][w].st = "poll"
  /\ ~SessionBusy(mail[m].to)
  /\ SetStatus(m, "expired")
  /\ Settle(m, w, "notice", "notice")
  /\ UNCHANGED <<cleared, disp, mark, waiters, box, pump, turn, rows, unsaved,
                 userTurns, restarts>>

\* The final expiry.
WatchExpire(m, w) ==
  /\ watch[m][w].st = "poll"
  /\ watch[m][w].rearmed \/ ~SessionBusy(mail[m].to)
  /\ SetStatus(m, "expired")
  /\ Settle(m, w, "notice", "notice")
  /\ UNCHANGED <<cleared, disp, mark, waiters, box, pump, turn, rows, unsaved,
                 userTurns, restarts>>

WatchIdle(m, w) ==
  /\ watch[m][w].st = "poll"
  /\ ~SessionBusy(mail[m].to)
  /\ SetWatch(m, w, "collect")
  /\ UNCHANGED <<mail, cleared, disp, mark, waiters, box, pump, turn, rows, unsaved,
                 userTurns, restarts>>

\* last_assistant_message_after: the newest row past the watermark.
LastAssistantMessageAfter(s, wm) == IF Len(rows[s]) > wm THEN Last(rows[s]) ELSE "none"

\* Fault: the status is written without the answer.
WatchAnswered_unstored(m, w) ==
  /\ watch[m][w].st = "collect"
  /\ LET newest == LastAssistantMessageAfter(mail[m].to, watch[m][w].mark)
     IN  /\ newest # "none"
         /\ SetStatus(m, "answered")
         /\ Settle(m, w, "resolve", newest)
  /\ UNCHANGED <<cleared, disp, mark, waiters, box, pump, turn, rows, unsaved,
                 userTurns, restarts>>

WatchAnswered(m, w) ==
  /\ watch[m][w].st = "collect"
  /\ LET newest == LastAssistantMessageAfter(mail[m].to, watch[m][w].mark)
     IN  /\ newest # "none"
         /\ mail' = [mail EXCEPT ![m].status = "answered", ![m].answer = newest]
         /\ Settle(m, w, "resolve", newest)
  /\ UNCHANGED <<cleared, disp, mark, waiters, box, pump, turn, rows, unsaved,
                 userTurns, restarts>>

\* Fault: the waiter is told before the row is settled, which is forgotten.
WatchNoAnswer_open(m, w) ==
  /\ watch[m][w].st = "collect"
  /\ LastAssistantMessageAfter(mail[m].to, watch[m][w].mark) = "none"
  /\ Settle(m, w, "giveUp", "none")
  /\ UNCHANGED <<mail, cleared, disp, mark, waiters, box, pump, turn, rows, unsaved,
                 userTurns, restarts>>

WatchNoAnswer(m, w) ==
  /\ watch[m][w].st = "collect"
  /\ LastAssistantMessageAfter(mail[m].to, watch[m][w].mark) = "none"
  /\ SetStatus(m, "expired")
  /\ Settle(m, w, "giveUp", "none")
  /\ UNCHANGED <<cleared, disp, mark, waiters, box, pump, turn, rows, unsaved,
                 userTurns, restarts>>

\* A parked call takes the answer; without one an answer or notice is mailed.
WatchResolve(m, w) ==
  /\ watch[m][w].st \in {"resolve", "notice", "giveUp"}
  /\ ResolveWaiter(m, IF watch[m][w].st = "resolve" THEN "answer" ELSE "none")
  /\ IF WaiterTakes(m) \/ watch[m][w].st = "giveUp"
     THEN EndWatch(m, w)
     ELSE SetWatch(m, w, "push")
  /\ UNCHANGED <<mail, cleared, disp, mark, pump, turn, rows, unsaved,
                 userTurns, restarts>>

\* The budget is counted under one hold of the lock, the row inserted under
\* the next.
MayPush(m, w) ==
  /\ mail[m].depth + 1 <= MaxFollowupDepth
  /\ watch[m][w].answer # "ack"
  /\ CountMailFrom(mail[m].to) < MaxMailPerHour

PushGuards(m, w) ==
  /\ watch[m][w].st = "push"
  /\ IF MayPush(m, w) THEN SetWatch(m, w, "insert") ELSE EndWatch(m, w)
  /\ UNCHANGED <<mail, cleared, disp, mark, waiters, box, pump, turn, rows, unsaved,
                 userTurns, restarts>>

\* Fault: the follow-up is itself a question.
PushInsert_asks(m, w) ==
  /\ watch[m][w].st = "insert"
  /\ Used # Mails
  /\ InsertMail(NextId, mail[m].to, mail[m].from, "question", mail[m].depth + 1, m)
  /\ disp' = [disp EXCEPT ![NextId] = "check"]
  /\ EndWatch(m, w)
  /\ UNCHANGED <<cleared, mark, waiters, box, pump, turn, rows, unsaved,
                 userTurns, restarts>>

\* Fault: the watcher goes on after its follow-up.
PushInsert_again(m, w) ==
  /\ watch[m][w].st = "insert"
  /\ Used # Mails
  /\ InsertMail(NextId, mail[m].to, mail[m].from, "notify", mail[m].depth + 1, m)
  /\ disp' = [disp EXCEPT ![NextId] = "check"]
  /\ SetWatch(m, w, "push")
  /\ UNCHANGED <<cleared, mark, waiters, box, pump, turn, rows, unsaved,
                 userTurns, restarts>>

PushInsert(m, w) ==
  /\ watch[m][w].st = "insert"
  /\ Used # Mails
  /\ InsertMail(NextId, mail[m].to, mail[m].from, "notify", mail[m].depth + 1, m)
  /\ disp' = [disp EXCEPT ![NextId] = "check"]
  /\ EndWatch(m, w)
  /\ UNCHANGED <<cleared, mark, waiters, box, pump, turn, rows, unsaved,
                 userTurns, restarts>>

\* The insert may fail at any time; its error is dropped.
PushInsertFails(m, w) ==
  /\ watch[m][w].st = "insert"
  /\ EndWatch(m, w)
  /\ UNCHANGED <<mail, cleared, disp, mark, waiters, box, pump, turn, rows, unsaved,
                 userTurns, restarts>>

-----------------------------------------------------------------------------
(* The sessions' own turns, and the process *)

\* The user's message follows the same rule as a mailed turn.
UserSends(s) ==
  /\ userTurns < MaxUserTurns
  /\ CanStart(s)
  /\ userTurns' = userTurns + 1
  /\ turn' = [turn EXCEPT ![s] = UserTurn]
  /\ UNCHANGED <<mail, cleared, disp, mark, waiters, box, pump, watch, rows, unsaved, restarts>>

\* A harness's reader clears the busy flag, then saves the reply; the built-in
\* engine saves it first.  A turn that was cancelled or failed leaves nothing.
TurnEnds(s, output) ==
  /\ SessionBusy(s)
  /\ output = "none" \/ Len(rows[s]) + Len(unsaved[s]) < MaxReplies
  /\ turn' = [turn EXCEPT ![s] = NoTurn]
  /\ rows' = IF output # "none" /\ s \in Builtin
             THEN [rows EXCEPT ![s] = Append(@, output)] ELSE rows
  /\ unsaved' = IF output # "none" /\ s \notin Builtin
                THEN [unsaved EXCEPT ![s] = Append(@, output)] ELSE unsaved
  /\ UNCHANGED <<mail, cleared, disp, mark, waiters, box, pump, watch, userTurns, restarts>>

\* Each turn has a reader of its own: they save in any order.
SaveReply(s, i) ==
  /\ rows' = [rows EXCEPT ![s] = Append(@, unsaved[s][i])]
  /\ unsaved' = [unsaved EXCEPT ![s] = RemoveAt(@, i)]
  /\ UNCHANGED <<mail, cleared, disp, mark, waiters, box, pump, watch, turn,
                 userTurns, restarts>>

\* Waiters, pumps, watchers, turns and their readers live in the process; the table does not.
Restart ==
  /\ restarts < MaxRestarts
  /\ restarts' = restarts + 1
  /\ cleared' = {}
  /\ disp' = [m \in Mails |-> IF disp[m] \in Dispatching \cup Waiting
                              THEN "dead" ELSE disp[m]]
  /\ waiters' = {}
  /\ pump' = [s \in Sessions |-> PumpOff]
  /\ watch' = [m \in Mails |-> <<>>]
  /\ turn' = [s \in Sessions |-> NoTurn]
  /\ unsaved' = [s \in Sessions |-> <<>>]
  /\ UNCHANGED <<mail, mark, box, rows, userTurns>>

-----------------------------------------------------------------------------
DispatchStep(m) ==
  \/ ParkWaiter(m) \/ TestBusy(m) \/ CountBacklog(m) \/ KickPump(m) \/ MarkDelivered(m)
  \/ RunTurnOk(m) \/ RunTurnBusy(m) \/ RunTurnFails(m)
  \/ Requeue(m) \/ DropWaiter(m) \/ Reject(m)
  \/ TakeReply(m) \/ TimeoutFires(m) \/ TimeoutReturns(m)

PumpStep(t) ==
  \/ PumpPick(t) \/ PumpExpire(t) \/ PumpTestBusy(t) \/ PumpMarkDelivered(t)
  \/ PumpRunOk(t) \/ PumpRunBusy(t) \/ PumpRunFails(t) \/ PumpResolve(t)
  \/ PumpTurnOver(t) \/ PumpExit(t)

WatchStep(m, w) ==
  \/ WatchRearm(m, w) \/ WatchExpire(m, w) \/ WatchIdle(m, w)
  \/ WatchAnswered(m, w) \/ WatchNoAnswer(m, w) \/ WatchResolve(m, w)
  \/ PushGuards(m, w) \/ PushInsert(m, w) \/ PushInsertFails(m, w)

SessionStep(s) ==
  \/ UserSends(s)
  \/ \E output \in Outputs : TurnEnds(s, output)
  \/ \E i \in DOMAIN unsaved[s] : SaveReply(s, i)

Next ==
  \/ \E call \in Calls : SendGuards(call)
  \/ \E call \in cleared : SendInsert(call)
  \/ \E m \in Mails : DispatchStep(m)
  \/ \E m \in Mails : \E w \in DOMAIN watch[m] : WatchStep(m, w)
  \/ \E t \in Sessions : PumpStep(t)
  \/ \E s \in Sessions : SessionStep(s)
  \/ Restart

Spec == Init /\ [][Next]_vars

\* The tasks run when they can; a tool call's timeout, a watcher's and a
\* pump's ceiling pass; a turn need not end.  A pump past its ceiling stays
\* past it, so it expires the row it picks: strong fairness.
Fairness ==
  /\ \A call \in Calls : WF_vars(SendInsert(call))
  /\ \A m \in Mails : WF_vars(DispatchStep(m))
  /\ \A m \in Mails : \A w \in 1..MaxMail :
        WF_vars(w \in DOMAIN watch[m] /\ WatchStep(m, w))
  /\ \A t \in Sessions : WF_vars(PumpStep(t)) /\ SF_vars(PumpExpire(t))

FairSpec == Spec /\ Fairness

-----------------------------------------------------------------------------
(* Properties *)

\* The watcher has not been to the waiter map yet.
Watching(m) == {w \in DOMAIN watch[m] : watch[m][w].st \notin {"push", "insert", "done"}}
LiveWatcher(m) == Watching(m) # {}

\* A question whose call is parked without a reply still has its sender in
\* answer_waiters and a watcher that will use it: whatever watcher, pump or
\* racing redelivery got there first, the call is not left to its timeout.
AskerWatched ==
  \A m \in Mails :
    disp[m] = "wait" /\ box[m] = "empty" => m \in waiters /\ LiveWatcher(m)

\* Requeueing is bounded: whatever the sender and the pump race to do with a
\* question, it is put to its target at most twice.
AtMostTwoTurns == \A m \in Mails : Len(watch[m]) <= 2

\* No ping-pong of automatic mail: a follow-up answers a question that a tool
\* call sent the other way, and asks nothing itself.
NoPingPong ==
  \A f \in Used : mail[f].re # 0 =>
    /\ mail[f].mode = "notify"
    /\ mail[f].re \in Mails
    /\ mail[mail[f].re].mode = "question" /\ mail[mail[f].re].re = 0
    /\ mail[f].from = mail[mail[f].re].to /\ mail[f].to = mail[mail[f].re].from

\* A question brings back at most one follow-up for each time it was put to
\* its target, and none while a watcher for it is still at work on the last.
FollowUps(m)  == {f \in Used : mail[f].re = m}
Finished(m)   == {w \in DOMAIN watch[m] : watch[m][w].st = "done"}
FollowUpsCounted ==
  restarts = 0 => \A m \in Used : Cardinality(FollowUps(m)) <= Cardinality(Finished(m))

\* A call that returned a reply has an answer stored with its mail, a row of a
\* transcript and not a text made up at expiry; nothing erases it later.
ReplyIsStored ==
  \A m \in Mails : disp[m] = "saidReply" => mail[m].answer \in Row

\* A delivered question does not stay open: its watcher, a requeue or a
\* refusal settles it even if the turn never ends.
QuestionSettles ==
  \A m \in Mails :
    (mail[m].mode = "question" /\ mail[m].status = "delivered")
      ~> (mail[m].status # "delivered" \/ restarts > 0)

Pumping(t) == pump[t].st \in {"pick", "have", "deliver", "run", "resolve", "turnwait"}

\* While a pump works for its target a queued mail leaves the queue, busy
\* target, failing turns and older mail notwithstanding.
PumpDrains ==
  \A m \in Mails :
    (mail[m].status = "queued" /\ Pumping(mail[m].to))
      ~> (mail[m].status # "queued" \/ restarts > 0)

-----------------------------------------------------------------------------
(* The invariants that the safety properties rest on *)

\* The mail a pump has in hand is a row of the table.
PumpHasMail ==
  \A t \in Sessions :
    pump[t].st \in {"have", "deliver", "run", "resolve"} => pump[t].mail \in Used

\* From the moment its waiter is parked until it is dropped or awaited no more,
\* a question without a reply has its sender in answer_waiters.
Parked ==
  \A m \in Mails :
    /\ disp[m] \in (Dispatching \ {"park", "dropped"}) \cup Waiting
    /\ mail[m].mode = "question"
    /\ box[m] = "empty"
    => m \in waiters

OnlyQuestionsWait == \A m \in Mails : disp[m] \in Waiting => mail[m].mode = "question"

\* A row is there before anything is done with it, and stays.
RowsInUse ==
  /\ \A m \in Mails : disp[m] # "none" => m \in Used
  /\ \A m \in Mails : watch[m] # <<>> => m \in Used /\ mail[m].mode = "question"

\* A follow-up answers a question, and no question is a follow-up.
FollowUpsAnswer ==
  \A f \in Used :
    /\ mail[f].mode = "question" => mail[f].re = 0
    /\ mail[f].re # 0 => mail[f].re \in Used

\* No tool call speaks for a follow-up: its dispatch ends without a word.
FollowUpsUntold ==
  \A f \in Used : mail[f].re # 0 =>
    disp[f] \in {"check", "backlog", "kick", "deliver", "run", "done", "dead"}

\* A pump handles the mail of its own target.
PumpsOwnMail ==
  \A t \in Sessions :
    pump[t].st \in {"have", "deliver", "run"} => mail[pump[t].mail].to = t

\* An answer is in the row before a watcher, a receiver or a call speaks of it.
AnswersStored ==
  \A m \in Mails :
    /\ box[m] = "answer" => m \in Used /\ mail[m].answer \in Row
    /\ \A w \in DOMAIN watch[m] : watch[m][w].st = "resolve" => mail[m].answer \in Row

\* How often a question may still be put to its target: once by its sender,
\* and by the pump once for the row it has in hand and once for the row in the
\* queue, which are one and the same until the pump has set its status.
SenderTurns(m) ==
  IF disp[m] \in {"park", "check", "backlog", "deliver", "run", "requeue"} THEN 1 ELSE 0
InHand(m, sts) == pump[mail[m].to].mail = m /\ pump[mail[m].to].st \in sts
PumpTurns(m) ==
  IF InHand(m, {"have", "deliver"}) THEN 1
  ELSE (IF InHand(m, {"run"}) THEN 1 ELSE 0) + (IF mail[m].status = "queued" THEN 1 ELSE 0)
TurnsLeft(m) == SenderTurns(m) + PumpTurns(m)

TurnsBounded == \A m \in Mails : Len(watch[m]) + TurnsLeft(m) <= 2

\* A delivered question is in somebody's hands, who will settle it or put it
\* back: the code that starts its turn, or a watcher that has not settled it.
\* Whoever of sender and pump wins the row, it is never left delivered (the
\* safety half of QuestionSettles).
Attended(m) ==
  \/ disp[m] \in {"run", "requeue", "reject", "dropped"}
  \/ InHand(m, {"run"})
  \/ \E w \in DOMAIN watch[m] : watch[m][w].st \in {"poll", "collect"}
DeliveredIsAttended ==
  restarts = 0 => \A m \in Mails :
    mail[m].mode = "question" /\ mail[m].status = "delivered" => Attended(m)

\* A question brings back two follow-ups at most, even over restarts: each is
\* the end of a watcher, and each watcher of a turn.
AtWork(m) == {w \in DOMAIN watch[m] : watch[m][w].st # "done"}
FollowUpsBounded ==
  \A m \in Used : Cardinality(FollowUps(m)) + Cardinality(AtWork(m)) + TurnsLeft(m) <= 2

MeshInv == /\ TypeOK /\ PumpHasMail /\ Parked /\ OnlyQuestionsWait
           /\ RowsInUse /\ FollowUpsAnswer /\ AskerWatched /\ NoPingPong
           /\ PumpsOwnMail /\ AnswersStored /\ ReplyIsStored
           /\ TurnsBounded /\ FollowUpsCounted /\ FollowUpsBounded /\ FollowUpsUntold
           /\ DeliveredIsAttended

-----------------------------------------------------------------------------
(* What the tool's own reply says, and the code does not do *)

\* What the text of a queued reply promises: there is a pump to deliver it.
QueuedHasPump ==
  \A m \in Mails :
    disp[m] = "saidQueued" /\ mail[m].status = "queued" => Pumping(mail[m].to)
=============================================================================
