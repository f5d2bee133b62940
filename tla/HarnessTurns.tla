---------------------------- MODULE HarnessTurns ----------------------------
(***************************************************************************)
(* One chat session on a per-turn CLI (agent_sessions/mod.rs, perturn.rs): *)
(* each turn is a process of its own, with a thread that reads its output, *)
(* one that listens to its stderr and two watchdogs.  They share with      *)
(* sends, cancels and liveness probes the session's busy flag, its process *)
(* generation and the slot of its child.                                   *)
(*                                                                         *)
(* The per-session mutex is held for a whole send and for one action by    *)
(* everybody else; the atomics are read and written one at a time.         *)
(***************************************************************************)
EXTENDS Integers, FiniteSets

CONSTANTS
  MaxTurns,  \* bound: the turns that start
  MaxFaults  \* bound: spawns that fail, and allowances that are spent

ASSUME TurnsAssumption == MaxTurns \in Nat \ {0} /\ MaxFaults \in Nat

\* A turn is named by the generation its send will give it.
Turns == 1..MaxTurns

VARIABLES
  flag,      \* turn_in_flight
  gen,       \* proc_generation
  slot,      \* entry.child, 0 for None
  sending,   \* where the send in progress is; it holds the session's mutex
  proc,      \* the CLI process of each turn
  reader,    \* its stdout reader
  killers,   \* turns with a watchdog or a stderr sink on its way to kill
  terminal,  \* turns whose terminal frame was read
  cancelled, \* turns whose cancelled flag is set
  reported,  \* turns whose error_reported is set
  failed,    \* turns whose reader found error_reported set
  users,     \* the number of user rows
  partial,   \* turns with a crash-flush row
  replies,   \* turns with their reply persisted
  late,      \* history: turns cancelled when their reader had decided already
  mute,      \* turns whose CLI has written its last line
  left       \* what is left of MaxFaults

vars == <<flag, gen, slot, sending, proc, reader, killers, terminal, cancelled,
          reported, failed, users, partial, replies, late, mute, left>>

threads == <<reader, killers>>
history == <<terminal, cancelled, reported, failed, partial, replies, late, mute>>

ReaderSteps == {"off", "read", "kill", "tail", "check", "clear", "fin", "persist", "done"}

TypeOK ==
  /\ flag \in BOOLEAN /\ gen \in 0..MaxTurns /\ slot \in 0..MaxTurns
  /\ sending \in {"no", "spawn", "flag", "slot", "bump"}
  /\ proc \in [Turns -> {"none", "run", "gone"}]
  /\ reader \in [Turns -> ReaderSteps]
  /\ \A set \in {killers, terminal, cancelled, reported, failed, partial, replies, late, mute} :
       set \subseteq Turns
  /\ users \in 0..MaxTurns
  /\ left \in 0..MaxFaults

Init ==
  /\ flag = FALSE /\ gen = 0 /\ slot = 0 /\ sending = "no"
  /\ proc = [t \in Turns |-> "none"]
  /\ reader = [t \in Turns |-> "off"]
  /\ killers = {} /\ terminal = {} /\ cancelled = {} /\ reported = {} /\ failed = {}
  /\ partial = {} /\ replies = {} /\ late = {} /\ mute = {}
  /\ users = 0
  /\ left = MaxFaults

-----------------------------------------------------------------------------
(* The child slot *)

Lives(t) == proc[t] = "run"

\* kill_child_tree on the process of t.
Killed(t) == [proc EXCEPT ![t] = IF Lives(t) THEN "gone" ELSE @]

\* child.take() and kill.
KillSlot ==
  /\ proc' = IF slot = 0 THEN proc ELSE Killed(slot)
  /\ slot' = 0

\* Fault: whatever is in the slot is killed.
KillChildIfGeneration_any(t) == sending = "no" /\ KillSlot

\* kill_child_if_generation, for a thread of turn t.
KillChildIfGeneration(t) ==
  /\ sending = "no"
  /\ IF gen = t THEN KillSlot ELSE UNCHANGED <<proc, slot>>

\* turn_running_signals: a per-turn CLI raises neither reader flag, so only the
\* child counts.
ActuallyRunning == slot # 0 /\ Lives(slot)

-----------------------------------------------------------------------------
(* send *)

\* Accepted if no turn is in flight, or if the one that is counts as dead: then
\* the flag is healed.  After a change of harness the old child is killed.  The
\* user's row is in before the turn starts.
Send(switch) ==
  /\ sending = "no" /\ gen < MaxTurns
  /\ ~flag \/ ~ActuallyRunning
  /\ flag' = FALSE
  /\ IF switch THEN KillSlot ELSE UNCHANGED <<proc, slot>>
  /\ users' = users + 1
  /\ sending' = "spawn"
  /\ UNCHANGED <<gen, threads, history, left>>

\* Fault: the row of a turn that never started stays.
SpawnFails_keeps ==
  /\ sending = "spawn" /\ left > 0
  /\ left' = left - 1
  /\ sending' = "no"
  /\ UNCHANGED <<flag, gen, slot, proc, users, threads, history>>

\* No process, or its stdin breaks and it is killed: the user's row goes again.
SpawnFails ==
  /\ sending = "spawn" /\ left > 0
  /\ left' = left - 1
  /\ users' = users - 1
  /\ sending' = "no"
  /\ UNCHANGED <<flag, gen, slot, proc, threads, history>>

Spawn ==
  /\ sending = "spawn"
  /\ proc' = [proc EXCEPT ![gen + 1] = "run"]
  /\ sending' = "flag"
  /\ UNCHANGED <<flag, gen, slot, users, threads, history, left>>

RaiseFlag ==
  /\ sending = "flag"
  /\ flag' = TRUE
  /\ sending' = "slot"
  /\ UNCHANGED <<gen, slot, proc, users, threads, history, left>>

\* Fault: the slot is overwritten, and its old process left to itself.
TakeSlot_drops ==
  /\ sending = "slot"
  /\ slot' = gen + 1
  /\ sending' = "bump"
  /\ UNCHANGED <<flag, gen, proc, users, threads, history, left>>

\* The old child, if any, is killed before the slot is overwritten.
TakeSlot ==
  /\ sending = "slot"
  /\ proc' = IF slot = 0 THEN proc ELSE Killed(slot)
  /\ slot' = gen + 1
  /\ sending' = "bump"
  /\ UNCHANGED <<flag, gen, users, threads, history, left>>

\* The generation goes up, the threads of the turn start, the mutex is released.
Bump ==
  /\ sending = "bump"
  /\ gen' = gen + 1
  /\ reader' = [reader EXCEPT ![gen + 1] = "read"]
  /\ sending' = "no"
  /\ UNCHANGED <<flag, slot, proc, killers, users, history, left>>

-----------------------------------------------------------------------------
(* cancel and the liveness probe *)

Decided == {"persist", "done"}

\* teardown_turn of the current turn, whatever became of it.
Cancel ==
  /\ sending = "no" /\ gen # 0 /\ gen \notin cancelled
  /\ cancelled' = cancelled \union {gen}
  /\ late' = IF reader[gen] \in Decided THEN late \union {gen} ELSE late
  /\ KillSlot
  /\ flag' = FALSE
  /\ UNCHANGED <<gen, sending, users, threads, terminal, reported, failed,
                 partial, replies, mute, left>>

\* turn_liveness and reconcile_wedged_turns: a flag whose turn counts as dead is
\* cleared.
Probe ==
  /\ sending = "no" /\ flag /\ ~ActuallyRunning
  /\ flag' = FALSE
  /\ UNCHANGED <<gen, slot, sending, proc, users, threads, history, left>>

-----------------------------------------------------------------------------
(* The process, and what its reader makes of its output *)

\* The CLI exits, or is killed from outside.
Exits(t) ==
  /\ Lives(t) /\ reader[t] # "off"
  /\ proc' = [proc EXCEPT ![t] = "gone"]
  /\ UNCHANGED <<flag, gen, slot, sending, users, threads, history, left>>

\* The CLI hangs: no line comes any more, on stdout or stderr.  A CLI that does
\* not may write for ever, and each line puts the silent-hang watchdog off.
FallsSilent(t) ==
  /\ Lives(t) /\ reader[t] = "read" /\ t \notin mute
  /\ mute' = mute \union {t}
  /\ UNCHANGED <<flag, gen, slot, sending, proc, users, threads, terminal,
                 cancelled, reported, failed, partial, replies, late, left>>

\* is_turn_terminal_frame: the turn is over, though the CLI may linger.
ReaderSeesEnd(t) ==
  /\ reader[t] = "read" /\ t \notin terminal \union mute
  /\ terminal' = terminal \union {t}
  /\ UNCHANGED <<flag, gen, slot, sending, proc, users, threads, cancelled,
                 reported, failed, partial, replies, late, mute, left>>

ReaderGoes(t, step) == reader' = [reader EXCEPT ![t] = step]

\* PartialFlush: a snapshot of the reply so far.
ReaderFlushes(t) ==
  /\ reader[t] = "read" /\ t \notin partial \union mute
  /\ partial' = partial \union {t}
  /\ UNCHANGED <<flag, gen, slot, sending, proc, users, threads, terminal,
                 cancelled, reported, failed, replies, late, mute, left>>

\* A spent allowance or the repeat breaker: reported once, the CLI is killed.
ReaderAborts(t) ==
  /\ reader[t] = "read" /\ t \notin mute /\ left > 0
  /\ left' = left - 1
  /\ reported' = reported \union {t}
  /\ ReaderGoes(t, "kill")
  /\ UNCHANGED <<flag, gen, slot, sending, proc, users, killers, terminal,
                 cancelled, failed, partial, replies, late, mute>>

ReaderKills(t) ==
  /\ reader[t] = "kill"
  /\ KillChildIfGeneration(t)
  /\ ReaderGoes(t, "tail")
  /\ UNCHANGED <<flag, gen, sending, users, killers, history, left>>

Eof(t) ==
  /\ reader[t] = "read"
  /\ ReaderGoes(t, "tail")
  /\ UNCHANGED <<flag, gen, slot, sending, proc, users, killers, history, left>>

ReaderEof(t) == ~Lives(t) /\ Eof(t)

\* The output may also end while the process lingers.
Lingers(t) == Lives(t) /\ Eof(t)

\* Was the turn reported as failed?  Either way the snapshot goes.
ReaderTail(t) ==
  /\ reader[t] = "tail"
  /\ failed' = IF t \in reported THEN failed \union {t} ELSE failed
  /\ partial' = partial \ {t}
  /\ ReaderGoes(t, "check")
  /\ UNCHANGED <<flag, gen, slot, sending, proc, users, killers, terminal,
                 cancelled, reported, replies, late, mute, left>>

AfterFlag(t) == IF t \in failed THEN "done" ELSE "fin"

\* should_clear_in_flight compares the generations ...
ReaderChecks(t) ==
  /\ reader[t] = "check"
  /\ ReaderGoes(t, IF gen = t THEN "clear" ELSE AfterFlag(t))
  /\ UNCHANGED <<flag, gen, slot, sending, proc, users, killers,
                 history, left>>

\* Fault: the flag is forgotten.
ReaderClears_forgets(t) ==
  /\ reader[t] = "clear"
  /\ ReaderGoes(t, AfterFlag(t))
  /\ UNCHANGED <<flag, gen, slot, sending, proc, users, killers,
                 history, left>>

\* ... and the flag goes in another step.
ReaderClears(t) ==
  /\ reader[t] = "clear"
  /\ flag' = FALSE
  /\ ReaderGoes(t, AfterFlag(t))
  /\ UNCHANGED <<gen, slot, sending, proc, users, killers, history,
                 left>>

\* Fault: a cancelled turn is kept.
ReaderDecides_keeps(t) ==
  /\ reader[t] = "fin"
  /\ ReaderGoes(t, "persist")
  /\ UNCHANGED <<flag, gen, slot, sending, proc, users, killers, history, left>>

\* A cancelled turn is discarded.
ReaderDecides(t) ==
  /\ reader[t] = "fin"
  /\ ReaderGoes(t, IF t \in cancelled THEN "done" ELSE "persist")
  /\ UNCHANGED <<flag, gen, slot, sending, proc, users, killers,
                 history, left>>

\* finish_turn.
ReaderPersists(t) ==
  /\ reader[t] = "persist"
  /\ replies' = replies \union {t}
  /\ ReaderGoes(t, "done")
  /\ UNCHANGED <<flag, gen, slot, sending, proc, users, killers, terminal,
                 cancelled, reported, failed, partial, late, mute, left>>

-----------------------------------------------------------------------------
(* The watchdogs and the stderr sink *)

\* The turn of t is over, or no longer this one: a watchdog that finds it so
\* returns, and takes no other step.
Superseded(t) == t \in cancelled \/ gen # t \/ ~flag

\* The completion watchdog: the terminal frame was read, and after the grace the
\* CLI is still there.
WatchArms(t) ==
  /\ reader[t] # "off" /\ t \in terminal /\ ~Superseded(t) /\ t \notin killers
  /\ killers' = killers \union {t}
  /\ UNCHANGED <<flag, gen, slot, sending, proc, users, reader, history, left>>

\* Fault: the error is reported and the CLI is left to itself.
Trips_spares(t) ==
  /\ t \notin reported
  /\ reported' = reported \union {t}
  /\ UNCHANGED <<flag, gen, slot, sending, proc, users, reader, killers,
                 terminal, cancelled, failed, partial, replies, late, mute>>

\* Who swaps error_reported reports the error, and then kills.
Trips(t) ==
  /\ t \notin reported
  /\ reported' = reported \union {t}
  /\ killers' = killers \union {t}
  /\ UNCHANGED <<flag, gen, slot, sending, proc, users, reader, terminal,
                 cancelled, failed, partial, replies, late, mute>>

\* The silent-hang watchdog: no line for SILENT_TURN_TIMEOUT, at whatever point.
SilentTrips(t) == reader[t] # "off" /\ ~Superseded(t) /\ Trips(t) /\ UNCHANGED left

\* handle_harness_stderr_line, for a line that says the allowance is spent.  It
\* does not look at the generation, and it may be late.
SinkTrips(t) ==
  /\ reader[t] # "off" /\ flag /\ t \notin cancelled /\ left > 0
  /\ left' = left - 1
  /\ Trips(t)

\* Whoever it is, it comes for the mutex some time later.
Kills(t) ==
  /\ t \in killers
  /\ KillChildIfGeneration(t)
  /\ killers' = killers \ {t}
  /\ UNCHANGED <<flag, gen, sending, users, reader, history, left>>

-----------------------------------------------------------------------------
SendGoesOn == Spawn \/ RaiseFlag \/ TakeSlot \/ Bump

ReaderStep(t) ==
  \/ ReaderKills(t) \/ ReaderEof(t) \/ ReaderTail(t) \/ ReaderChecks(t)
  \/ ReaderClears(t) \/ ReaderDecides(t) \/ ReaderPersists(t)

Next ==
  \/ Send(TRUE) \/ Send(FALSE) \/ SpawnFails \/ SendGoesOn
  \/ Cancel \/ Probe
  \/ \E t \in Turns :
       \/ Exits(t) \/ FallsSilent(t) \/ Lingers(t)
       \/ ReaderSeesEnd(t) \/ ReaderFlushes(t) \/ ReaderAborts(t)
       \/ ReaderStep(t) \/ WatchArms(t) \/ SilentTrips(t) \/ SinkTrips(t) \/ Kills(t)

Spec == Init /\ [][Next]_vars

\* Threads go on, the completion watchdog's grace runs out, and so does the
\* timeout of a CLI that is mute.  No CLI has to end, exit or fall silent, nobody
\* has to send, cancel or probe, and no call has to fail.
FairSpec ==
  /\ Spec
  /\ WF_vars(SendGoesOn)
  /\ \A t \in Turns : /\ WF_vars(ReaderStep(t)) /\ WF_vars(WatchArms(t))
                      /\ WF_vars(t \in mute /\ SilentTrips(t))
                      /\ WF_vars(Kills(t))

-----------------------------------------------------------------------------
(* Properties *)

\* A process that lives is within the session's reach: it is the child in the
\* slot, or the send that spawned it still holds the mutex.
NoOrphanProcess ==
  \A t \in Turns :
    Lives(t) => slot = t \/ (t = gen + 1 /\ sending \in {"flag", "slot"})

\* The threads of a turn never kill the process of another one, however late
\* they come.
KillsOwnOnly ==
  [][\A t \in Turns : Kills(t) \/ ReaderKills(t) =>
       \A u \in Turns \ {t} : proc'[u] = proc[u]]_vars

\* A turn cancelled before its reader looked leaves neither a reply nor a
\* snapshot once the reader is done, and a snapshot never stands beside a reply.
CancelDiscards ==
  /\ \A t \in cancelled \ late : t \notin replies
  /\ \A t \in Turns : t \in partial => reader[t] \in {"read", "kill", "tail"}

\* The user's rows are those of the turns that started and of the send in
\* progress: a refused or failed send leaves none.
UserRowsMatch == users = gen + (IF sending = "no" THEN 0 ELSE 1)

\* A session that reads busy has somebody at its turn who will lower the flag: a
\* reader that has not passed its comparison of the generations, or passed it.
\* Only one thread wins error_reported, so a reader still waiting for output of
\* a turn that was reported has whoever won it on its way to kill, or a CLI that
\* is gone (the safety half of TurnEnds).
BusyIsAttended ==
  flag /\ sending = "no" =>
    /\ gen # 0 /\ reader[gen] \in {"read", "kill", "tail", "check", "clear"}
    /\ reader[gen] = "read" /\ gen \in reported => gen \in killers \/ ~Lives(gen)

\* What the user sees of it all.
Talk == INSTANCE Conversation WITH
  asked <- users, begun <- gen,
  alive <- {t \in 1..gen : Lives(t)},
  answered <- replies, discarded <- cancelled \ late

\* The turns of a session are a conversation as promised: messages alternate
\* with turns however sends fail, one process at a time serves the turns that
\* began, and neither a second answer nor one of a turn discarded is ever
\* stored, however late its threads come (send, teardown_turn, finish_turn).
FollowsConversation == Talk!Spec

\* The turn of t has come to a point from which it has to end: its process is
\* gone, its terminal frame was read, it was reported as failed, or its CLI hangs.
Closing(t) == ~Lives(t) \/ t \in terminal \union reported \union mute

\* From there the busy flag of the turn is lowered in the end, unless a newer turn
\* took over: a watchdog, the sink or the reader ends it.  A CLI that writes on
\* and on without a terminal frame keeps its turn as long as it likes.
TurnEnds == \A t \in Turns : gen = t /\ flag /\ Closing(t) ~> gen # t \/ ~flag
=============================================================================
