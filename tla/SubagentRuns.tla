---------------------------- MODULE SubagentRuns ----------------------------
(***************************************************************************)
(* Subagent runs and their concurrency slots: the live-run registry of     *)
(* chat/subagents.rs and its three spawn surfaces, the Run button and the  *)
(* mesh's agent: spawn of session_fabric/mod.rs and the automations of     *)
(* automations.rs.  A spawn acquires a slot, creates a session and a       *)
(* history row, arms a watcher that gives the slot back when the session   *)
(* goes idle, and dispatches the first turn.                               *)
(*                                                                         *)
(* One action per hold of the registry or database lock, and per           *)
(* observation of the session's busy flag.                                 *)
(***************************************************************************)
EXTENDS Integers, FiniteSets

CONSTANTS
  Agents,      \* subagent definitions
  Runs,        \* bound: the runs that may be spawned
  Surfaces,    \* where they are spawned: "manual", "mesh", "automation"
  Cap,         \* max_concurrent of each definition, at least 1
  AppCap,      \* MAX_ACTIVE_SUBAGENT
  LongTurns,   \* may a turn outlast the watcher's release ceiling?
  MaxRestarts  \* bound: exits of the process

ASSUME RunsAssumption ==
  /\ IsFiniteSet(Runs)
  /\ Surfaces \subseteq {"manual", "mesh", "automation"}
  /\ Cap \in [Agents -> Nat \ {0}] /\ AppCap \in Nat
  /\ LongTurns \in BOOLEAN
  /\ MaxRestarts \in Nat

VARIABLES
  defined,  \* the definitions in the subagents table
  running,  \* running_set: how many slots each agent's runs are counted for
  agent,    \* the definition a run was resolved to
  surface,  \* the surface that spawned it
  pc,       \* where the spawn is, then what the run's session does
  watcher,  \* the slot-release watcher of a run
  outcome,  \* the last chat:done / chat:error its listeners heard
  row,      \* the status of its subagent_runs row
  restarts,
  hasty,    \* history: runs of this process whose watcher gave up on their setup
  twice     \* history: runs of this process whose failed start gave back the watcher's slot

past == <<hasty, twice>>

vars == <<defined, running, agent, surface, pc, watcher, outcome, row, restarts, past>>

\* "turn" is the run's first turn, "chat" one its user starts later.
Steps == {"unborn", "resolved", "slot", "setup", "turn", "failed", "released",
          "returned", "settled", "idle", "chat", "gone"}
WatcherSteps == {"off", "grace", "hold", "release", "settle", "done"}

TypeOK ==
  /\ defined \in SUBSET Agents
  /\ running \in [Agents -> Nat]
  /\ agent \in [Runs -> Agents]
  /\ surface \in [Runs -> {"manual", "mesh", "automation"}]
  /\ pc \in [Runs -> Steps]
  /\ watcher \in [Runs -> WatcherSteps]
  /\ outcome \in [Runs -> {"none", "ok", "error"}]
  /\ row \in [Runs -> {"none", "running", "ok", "error"}]
  /\ restarts \in 0..MaxRestarts
  /\ hasty \subseteq Runs /\ twice \subseteq Runs

Init ==
  /\ defined = Agents
  /\ running = [g \in Agents |-> 0]
  /\ agent \in [Runs -> Agents]
  /\ surface \in [Runs -> Surfaces]
  /\ pc = [r \in Runs |-> "unborn"]
  /\ watcher = [r \in Runs |-> "off"]
  /\ outcome = [r \in Runs |-> "none"]
  /\ row = [r \in Runs |-> "none"]
  /\ restarts = 0
  /\ hasty = {} /\ twice = {}

-----------------------------------------------------------------------------
(* The live-run registry *)

\* The slots of all agents, numbered for each: as many as the counts' sum.
Slots == UNION {{g} \X (1..running[g]) : g \in Agents}
Active == Cardinality(Slots)

TryAcquireRunning(g) ==
  /\ Active < AppCap
  /\ running[g] < Cap[g]
  /\ running' = [running EXCEPT ![g] = @ + 1]

\* bump_running(g, -1) saturates at zero.
Release(g) ==
  running' = [running EXCEPT ![g] = IF @ > 0 THEN @ - 1 ELSE 0]

SessionBusy(r) == pc[r] \in {"turn", "chat"}

Goto(r, step) == pc' = [pc EXCEPT ![r] = step]

\* Fault: the last writer of the row wins.
Finish_last(r, status) == row' = [row EXCEPT ![r] = status]

\* finish_subagent_run: only a row that still reads "running" settles.
Finish(r, status) ==
  row' = IF row[r] = "running" THEN [row EXCEPT ![r] = status] ELSE row

-----------------------------------------------------------------------------
(* Spawning *)

\* resolve_by_id_or_name, long before the slot is taken.
Resolve(r) ==
  /\ pc[r] = "unborn" /\ agent[r] \in defined
  /\ Goto(r, "resolved")
  /\ UNCHANGED <<defined, running, agent, surface, watcher, outcome, row, restarts, past>>

Acquire(r) ==
  /\ pc[r] = "resolved"
  /\ TryAcquireRunning(agent[r])
  /\ Goto(r, "slot")
  /\ UNCHANGED <<defined, agent, surface, watcher, outcome, row, restarts, past>>

\* No room, or create_chat_session fails: the spawn ends without a session.
AcquireFails(r) ==
  /\ pc[r] = "resolved"
  /\ Active >= AppCap \/ running[agent[r]] >= Cap[agent[r]]
  /\ Goto(r, "gone")
  /\ UNCHANGED <<defined, running, agent, surface, watcher, outcome, row, restarts, past>>

CreateFails(r) ==
  /\ pc[r] = "slot" /\ surface[r] # "automation"
  /\ Release(agent[r])
  /\ Goto(r, "gone")
  /\ UNCHANGED <<defined, agent, surface, watcher, outcome, row, restarts, past>>

\* The session, the history row, the outcome listeners and the watcher.
Arm(r) ==
  /\ pc[r] = "slot" /\ surface[r] # "automation"
  /\ row' = [row EXCEPT ![r] = "running"]
  /\ watcher' = [watcher EXCEPT ![r] = "grace"]
  /\ Goto(r, "setup")
  /\ UNCHANGED <<defined, running, agent, surface, outcome, restarts, past>>

\* run_turn, after the worktree is provisioned and the engine is up.
Dispatch(r) ==
  /\ pc[r] = "setup"
  /\ Goto(r, "turn")
  /\ UNCHANGED <<defined, running, agent, surface, watcher, outcome, row, restarts, past>>

DispatchFails(r) ==
  /\ pc[r] = "setup"
  /\ Goto(r, IF surface[r] = "manual" THEN "failed" ELSE "returned")
  /\ UNCHANGED <<defined, running, agent, surface, watcher, outcome, row, restarts, past>>

\* The fail-fast path of subagent_spawn releases and settles at once; the mesh
\* spawn only returns its error text.
FailFastRelease(r) ==
  /\ pc[r] = "failed"
  /\ Release(agent[r])
  /\ Goto(r, "released")
  /\ twice' = twice \union {r}
  /\ UNCHANGED <<defined, agent, surface, watcher, outcome, row, restarts, hasty>>

FailFastSettle(r) ==
  /\ pc[r] = "released"
  /\ Finish(r, "error")
  /\ Goto(r, "returned")
  /\ UNCHANGED <<defined, running, agent, surface, watcher, outcome, restarts, past>>

-----------------------------------------------------------------------------
(* An automation's one-shot holds the slot itself; it has no watcher. *)

OneShotStarts(r) ==
  /\ pc[r] = "slot" /\ surface[r] = "automation"
  /\ row' = [row EXCEPT ![r] = "running"]
  /\ Goto(r, "turn")
  /\ UNCHANGED <<defined, running, agent, surface, watcher, outcome, restarts, past>>

OneShotReturns(r, status) ==
  /\ pc[r] = "turn" /\ surface[r] = "automation"
  /\ outcome' = [outcome EXCEPT ![r] = status]
  /\ Finish(r, status)
  /\ Goto(r, "settled")
  /\ UNCHANGED <<defined, running, agent, surface, watcher, restarts, past>>

OneShotReleases(r) ==
  /\ pc[r] = "settled"
  /\ Release(agent[r])
  /\ Goto(r, "gone")
  /\ UNCHANGED <<defined, agent, surface, watcher, outcome, row, restarts, past>>

-----------------------------------------------------------------------------
(* The turns of the run's session *)

\* The listeners are dropped once the watcher has settled the row.
TurnEnds(r, status) ==
  /\ SessionBusy(r) /\ surface[r] # "automation"
  /\ outcome' = IF watcher[r] = "done" THEN outcome ELSE [outcome EXCEPT ![r] = status]
  /\ Goto(r, "idle")
  /\ UNCHANGED <<defined, running, agent, surface, watcher, row, restarts, past>>

\* The session is an ordinary one: its user may go on with it.
UserChats(r) ==
  /\ pc[r] \in {"idle", "returned"}
  /\ Goto(r, "chat")
  /\ UNCHANGED <<defined, running, agent, surface, watcher, outcome, row, restarts, past>>

-----------------------------------------------------------------------------
(* The slot-release watcher, the same task in both spawn functions *)

WatcherGoto(r, step) == watcher' = [watcher EXCEPT ![r] = step]

SeesBusy(r) ==
  /\ watcher[r] = "grace"
  /\ SessionBusy(r)
  /\ WatcherGoto(r, "hold")
  /\ UNCHANGED <<defined, running, agent, surface, pc, outcome, row, restarts, past>>

\* Fault: the wait for the first turn has no deadline.
GraceOver_afterTurn(r) ==
  /\ watcher[r] = "grace"
  /\ pc[r] = "idle"
  /\ WatcherGoto(r, "release")
  /\ UNCHANGED <<defined, running, agent, surface, pc, outcome, row, restarts, past>>

\* SUBAGENT_START_GRACE_MS passed without a sign of the first turn.
GraceOver(r) ==
  /\ watcher[r] = "grace"
  /\ ~SessionBusy(r)
  /\ WatcherGoto(r, "release")
  /\ hasty' = IF pc[r] \in {"setup", "failed", "released"} THEN hasty \union {r} ELSE hasty
  /\ UNCHANGED <<defined, running, agent, surface, pc, outcome, row, restarts, twice>>

SeesIdle(r) ==
  /\ watcher[r] = "hold"
  /\ ~SessionBusy(r)
  /\ WatcherGoto(r, "release")
  /\ UNCHANGED <<defined, running, agent, surface, pc, outcome, row, restarts, past>>

\* Fault: past the ceiling the row is settled and the slot forgotten.
CeilingOver_keeps(r) ==
  /\ watcher[r] = "hold"
  /\ SessionBusy(r)
  /\ LongTurns
  /\ WatcherGoto(r, "settle")
  /\ UNCHANGED <<defined, running, agent, surface, pc, outcome, row, restarts, past>>

\* SUBAGENT_SLOT_RELEASE_CEILING_SECS passed.
CeilingOver(r) ==
  /\ watcher[r] = "hold"
  /\ SessionBusy(r)
  /\ LongTurns
  /\ WatcherGoto(r, "release")
  /\ UNCHANGED <<defined, running, agent, surface, pc, outcome, row, restarts, past>>

\* Fault: a watcher that gave the slot back at the ceiling waits on.
WatcherReleases_again(r) ==
  /\ watcher[r] = "release"
  /\ Release(agent[r])
  /\ WatcherGoto(r, IF SessionBusy(r) THEN "hold" ELSE "settle")
  /\ UNCHANGED <<defined, agent, surface, pc, outcome, row, restarts, past>>

WatcherReleases(r) ==
  /\ watcher[r] = "release"
  /\ Release(agent[r])
  /\ WatcherGoto(r, "settle")
  /\ UNCHANGED <<defined, agent, surface, pc, outcome, row, restarts, past>>

\* subagent_run_settle_pair: no event heard reads "ok".
WatcherSettles(r) ==
  /\ watcher[r] = "settle"
  /\ Finish(r, IF outcome[r] = "error" THEN "error" ELSE "ok")
  /\ WatcherGoto(r, "done")
  /\ UNCHANGED <<defined, running, agent, surface, pc, outcome, restarts, past>>

-----------------------------------------------------------------------------
\* chat::subagents::delete refuses while the registry counts a live run.
Delete(g) ==
  /\ g \in defined
  /\ running[g] = 0
  /\ defined' = defined \ {g}
  /\ UNCHANGED <<running, agent, surface, pc, watcher, outcome, row, restarts, past>>

\* The registry and the watchers die with the process; at boot the rows older
\* than STALE_RUNNING_SECS are swept.
Restart(stale) ==
  /\ restarts < MaxRestarts
  /\ restarts' = restarts + 1
  /\ stale \subseteq {r \in Runs : row[r] = "running"}
  /\ row' = [r \in Runs |-> IF r \in stale THEN "error" ELSE row[r]]
  /\ running' = [g \in Agents |-> 0]
  /\ pc' = [r \in Runs |-> IF pc[r] = "unborn" THEN "unborn" ELSE "gone"]
  /\ watcher' = [r \in Runs |-> IF watcher[r] = "off" THEN "off" ELSE "done"]
  /\ hasty' = {} /\ twice' = {}
  /\ UNCHANGED <<defined, agent, surface, outcome>>

-----------------------------------------------------------------------------
SpawnStep(r) ==
  \/ Acquire(r) \/ AcquireFails(r) \/ CreateFails(r) \/ Arm(r)
  \/ Dispatch(r) \/ DispatchFails(r) \/ FailFastRelease(r) \/ FailFastSettle(r)
  \/ OneShotStarts(r) \/ OneShotReleases(r)

TurnOver(r) ==
  \E status \in {"ok", "error"} : TurnEnds(r, status) \/ OneShotReturns(r, status)

WatcherStep(r) ==
  \/ SeesBusy(r) \/ GraceOver(r) \/ SeesIdle(r) \/ CeilingOver(r)
  \/ WatcherReleases(r) \/ WatcherSettles(r)

Next ==
  \/ \E r \in Runs : Resolve(r) \/ SpawnStep(r) \/ TurnOver(r) \/ WatcherStep(r)
                     \/ UserChats(r)
  \/ \E g \in Agents : Delete(g)
  \/ \E stale \in SUBSET Runs : Restart(stale)

Spec == Init /\ [][Next]_vars

\* The tasks run, and a watcher's own clock runs out, so it acts on a turn that
\* never ends.  No turn has to end, a one-shot's neither: the tool loop of a
\* bot's job has no bound.
FairSpec ==
  /\ Spec
  /\ \A r \in Runs : WF_vars(SpawnStep(r)) /\ WF_vars(WatcherStep(r))

-----------------------------------------------------------------------------
(* Properties *)

\* The run still has to give its slot back.
Owes(r) == \/ pc[r] = "slot"
           \/ surface[r] = "automation" /\ pc[r] \in {"turn", "settled"}
           \/ watcher[r] \in {"grace", "hold", "release"}

Holders(g) == {r \in Runs : agent[r] = g /\ Owes(r)}
Doubles(g) == {r \in twice : agent[r] = g}

\* No slot leaks: the registry never counts more runs of an agent than there
\* are that will still release, through failures at every step, double
\* releases and restarts; so an agent with no run left can be deleted.
NoSlotLeak ==
  \A g \in Agents : running[g] <= Cardinality(Holders(g))

\* A slot is given back too often only by a start that failed: then its watcher
\* gives it back again, and takes the slot of another run.  What exceeds
\* max_concurrent, through spawns of all surfaces at once, late watchers and
\* releases in any order, is at most one run for each such start.
HoldersBounded ==
  \A g \in Agents : Cardinality(Holders(g)) <= Cap[g] + Cardinality(Doubles(g))

WithinAgentCaps == \A g \in Agents : running[g] <= Cap[g]
WithinAppCap == Active <= AppCap
WithinCaps == WithinAppCap /\ WithinAgentCaps

\* A history row reads "ok" only if the run's turn did not end in an error and
\* its spawn did not report one: first settle, last event and start grace
\* together order the two writers of the row.  A run whose setup outlasted the
\* grace is settled before its start can fail.
OkIsTrue ==
  \A r \in Runs : row[r] = "ok" =>
     /\ outcome[r] # "error"
     /\ surface[r] = "manual" /\ r \notin hasty =>
          pc[r] \notin {"setup", "failed", "released", "returned"}

\* In the end every slot of an agent is back, whatever failed and however long
\* the turns of its sessions last; only a one-shot that never returns keeps one.
SlotsReturn ==
  \A g \in Agents :
    \/ <>[](running[g] = 0)
    \/ \E r \in Runs : <>[](surface[r] = "automation" /\ agent[r] = g /\ pc[r] = "turn")

-----------------------------------------------------------------------------
(* The invariants that the safety properties rest on *)

\* Before its session exists a run has neither watcher nor history row; a
\* one-shot, and no other run, never has a watcher nor a session to go on with.
BornBare ==
  \A r \in Runs :
    /\ pc[r] \in {"unborn", "resolved", "slot"} => watcher[r] = "off" /\ row[r] = "none"
    /\ surface[r] = "automation" =>
         /\ watcher[r] = "off"
         /\ pc[r] \in {"unborn", "resolved", "slot", "turn", "settled", "gone"}
    /\ pc[r] = "settled" => surface[r] = "automation"

\* Within the start grace no watcher gives up on a run that is still starting,
\* so the spawn that fails is the first to settle the row.
GraceCovers ==
  \A r \in Runs \ hasty :
    /\ pc[r] \in {"setup", "failed", "released"} => watcher[r] = "grace" /\ row[r] = "running"
    /\ pc[r] = "returned" /\ surface[r] = "manual" => row[r] = "error"

\* A row is settled "ok" by the last writer there is for its run.
OkIsLast ==
  \A r \in Runs : row[r] = "ok" =>
    \/ watcher[r] = "done" /\ outcome[r] # "error"
    \/ surface[r] = "automation" /\ pc[r] \in {"settled", "gone"} /\ outcome[r] # "error"

\* A slot that is held and not counted has been given back by a failed start,
\* which a run comes to once.
Balanced ==
  /\ \A g \in Agents : Cardinality(Holders(g)) <= running[g] + Cardinality(Doubles(g))
  /\ \A r \in twice : pc[r] \in {"released", "returned", "chat", "idle", "gone"}

\* The counts have a sum.
SlotsFinite == IsFiniteSet(Slots)

RunsInv == /\ TypeOK /\ BornBare /\ NoSlotLeak /\ SlotsFinite /\ WithinCaps
           /\ Balanced /\ GraceCovers /\ OkIsLast
=============================================================================
