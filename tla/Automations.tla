---------------------------- MODULE Automations ----------------------------
(***************************************************************************)
(* Scheduled runs of automations.rs: the 30 s tick of the app and the      *)
(* run-due pass of the relay-automation binary, which share one database   *)
(* and keep each other out with a lock file per automation, and, inside a  *)
(* process, with the RUNNING set.                                          *)
(*                                                                         *)
(* One action per hold of a lock, per operation on the lock file and per   *)
(* database call.  A pid is told apart by nothing but whether its process  *)
(* still lives.                                                            *)
(***************************************************************************)
EXTENDS Integers, FiniteSets

CONSTANTS
  Procs,      \* the processes that open the database
  App,        \* the one with the window; the others are relay-automation
  Autos,      \* the enabled cron automations
  BotJobs,    \* those bound to a bot, which the owner may disable
  Attempts,   \* bound: the calls of prepare_run in progress at one time
  None,       \* no attempt
  MaxSlots,   \* bound: cron slots that come due, per automation
  MaxEvents   \* bound: presses of a button, processes that die, calls that fail,
              \* runs that go on for six hours

ASSUME AutomationsAssumption ==
  /\ App \in Procs /\ None \notin Attempts /\ BotJobs \subseteq Autos
  /\ Autos # {}
  /\ {MaxSlots, MaxEvents} \subseteq Nat

VARIABLES
  up,       \* the processes that are running
  running,  \* RUNNING of each process
  cancel,   \* CANCEL of each process: whose stop flag an automation's is
  lock,     \* the lock file of each automation
  att,      \* the attempts
  todo,     \* what a pass of the scheduler has still to launch
  cur,      \* the attempt a pass waits for
  slot,     \* the cron slots that have come due
  lastRun,  \* last_run_at, as the slot it falls in
  botsOn,   \* is the owner of the bot jobs enabled?
  kept,     \* history: automations refused with their guards held
  bare,     \* history: automations one of whose runs lacked its lock file
  aged,     \* history: automations one of whose runs had its file turn stale by age
  left      \* what is left of MaxEvents

vars == <<up, running, cancel, lock, att, todo, cur, slot, lastRun,
          botsOn, kept, bare, aged, left>>

MAX_PREPARE_DEPTH == 3

NoLock == [by |-> App, pid |-> FALSE, alive |-> FALSE, old |-> FALSE, here |-> FALSE]

Idle == [pc |-> "idle", proc |-> App, auto |-> CHOOSE a \in Autos : TRUE,
         sched |-> FALSE, depth |-> 0, locked |-> FALSE, stale |-> FALSE]

\* Where an attempt is: up to "bind" it prepares, from "record" it finalizes.
Steps == {"idle", "guard", "publish", "lock", "pid", "bind", "exec", "record",
          "leave", "uncancel", "unlock", "steal"}

LockFile == [by : Procs, pid : BOOLEAN, alive : BOOLEAN, old : BOOLEAN, here : BOOLEAN]

Attempt == [pc : Steps, proc : Procs, auto : Autos, sched : BOOLEAN,
            depth : 0..(MAX_PREPARE_DEPTH - 1), locked : BOOLEAN, stale : BOOLEAN]

TypeOK ==
  /\ up \in SUBSET Procs
  /\ running \in [Procs -> SUBSET Autos]
  /\ cancel \in [Procs -> [Autos -> Attempts \union {None}]]
  /\ lock \in [Autos -> LockFile]
  /\ att \in [Attempts -> Attempt]
  /\ todo \in [Procs -> SUBSET Autos]
  /\ cur \in [Procs -> Attempts \union {None}]
  /\ slot \in [Autos -> 0..MaxSlots]
  /\ lastRun \in [Autos -> 0..MaxSlots]
  /\ botsOn \in BOOLEAN
  /\ kept \in SUBSET Autos
  /\ bare \in SUBSET Autos
  /\ aged \in SUBSET Autos
  /\ left \in 0..MaxEvents

Init ==
  /\ up = {App}
  /\ running = [p \in Procs |-> {}]
  /\ cancel = [p \in Procs |-> [a \in Autos |-> None]]
  /\ lock = [a \in Autos |-> NoLock]
  /\ att = [r \in Attempts |-> Idle]
  /\ todo = [p \in Procs |-> {}]
  /\ cur = [p \in Procs |-> None]
  /\ slot = [a \in Autos |-> 0]
  /\ lastRun = [a \in Autos |-> 0]
  /\ botsOn = TRUE
  /\ kept = {}
  /\ bare = {}
  /\ aged = {}
  /\ left = MaxEvents

-----------------------------------------------------------------------------
(* The scheduler *)

\* due_automations: the next fire after the last run is not in the future.
Due(a) == lastRun[a] < slot[a]

\* Time passes a slot of a's schedule.
SlotComes(a) ==
  /\ slot[a] < MaxSlots
  /\ slot' = [slot EXCEPT ![a] = @ + 1]
  /\ UNCHANGED <<up, running, cancel, lock, att, todo, cur, lastRun, botsOn,
                 kept, bare, aged, left>>

\* The app's tick leaves out what it runs itself; run-due takes every due row.
Tick(p) ==
  /\ p \in up /\ todo[p] = {} /\ cur[p] = None
  /\ \E a \in Autos : Due(a)
  /\ todo' = [todo EXCEPT ![p] =
       {a \in Autos : Due(a)} \ (IF p = App THEN running[p] ELSE {})]
  /\ UNCHANGED <<up, running, cancel, lock, att, cur, slot, lastRun, botsOn,
                 kept, bare, aged, left>>

Free == {r \in Attempts : att[r].pc = "idle"}

Fresh == CHOOSE r \in Free : TRUE

Begin(r, p, a, scheduled) ==
  att' = [att EXCEPT ![r] = [Idle EXCEPT !.pc = "guard", !.proc = p, !.auto = a,
                                         !.sched = scheduled]]

\* The pass hands its next automation to prepare_run, however long ago the
\* pass read that it was due.
LaunchDue(p, a) ==
  /\ cur[p] = None /\ a \in todo[p]
  /\ Free # {}
  /\ Begin(Fresh, p, a, TRUE)
  /\ cur' = [cur EXCEPT ![p] = Fresh]
  /\ todo' = [todo EXCEPT ![p] = @ \ {a}]
  /\ UNCHANGED <<up, running, cancel, lock, slot, lastRun, botsOn, kept, bare,
                 aged, left>>

\* launch_run returns once the run has its thread, run_blocking when it is over.
PassGoesOn(p) ==
  /\ cur[p] # None
  /\ att[cur[p]].pc \in {"idle"} \union
       (IF p = App THEN {"exec", "record", "leave", "uncancel", "unlock"} ELSE {})
  /\ cur' = [cur EXCEPT ![p] = None]
  /\ UNCHANGED <<up, running, cancel, lock, att, todo, slot, lastRun, botsOn,
                 kept, bare, aged, left>>

\* run_automation_now, a webhook call or a file event, in a thread of its own.
RunNow(a) ==
  /\ App \in up /\ left > 0
  /\ Free # {} /\ Begin(Fresh, App, a, FALSE)
  /\ left' = left - 1
  /\ UNCHANGED <<up, running, cancel, lock, todo, cur, slot, lastRun, botsOn,
                 kept, bare, aged>>

\* The owner enables or disables the bot.
ToggleBots ==
  /\ left > 0
  /\ botsOn' = ~botsOn
  /\ left' = left - 1
  /\ UNCHANGED <<up, running, cancel, lock, att, todo, cur, slot, lastRun,
                 kept, bare, aged>>

-----------------------------------------------------------------------------
(* prepare_run *)

Goto(r, step) == att' = [att EXCEPT ![r].pc = step]

\* Guard 1: no other run of this process, or the attempt is recorded as skipped.
Guard(r) ==
  /\ att[r].pc = "guard"
  /\ IF att[r].auto \in running[att[r].proc]
       THEN att' = [att EXCEPT ![r] = Idle] /\ UNCHANGED running
       ELSE /\ running' = [running EXCEPT ![att[r].proc] = @ \union {att[r].auto}]
            /\ Goto(r, "publish")
  /\ UNCHANGED <<up, cancel, lock, todo, cur, slot, lastRun, botsOn, kept,
                 bare, aged, left>>

\* The stop flag goes into CANCEL, under another lock than RUNNING.  stop_run
\* sets the flag it finds there, and the turn of that run ends.
Publish(r) ==
  /\ att[r].pc = "publish"
  /\ cancel' = [cancel EXCEPT ![att[r].proc][att[r].auto] = r]
  /\ Goto(r, "lock")
  /\ UNCHANGED <<up, running, lock, todo, cur, slot, lastRun, botsOn, kept,
                 bare, aged, left>>

\* Guard 2: create_new makes the lock file, still empty.
CreateLock(r) ==
  /\ att[r].pc = "lock" /\ ~lock[att[r].auto].here
  /\ lock' = [lock EXCEPT ![att[r].auto] =
       [by |-> att[r].proc, pid |-> FALSE, alive |-> TRUE, old |-> FALSE, here |-> TRUE]]
  /\ att' = [att EXCEPT ![r] = [@ EXCEPT !.pc = "pid", !.locked = TRUE]]
  /\ UNCHANGED <<up, running, cancel, todo, cur, slot, lastRun, botsOn, kept,
                 bare, aged, left>>

\* fs::write, which would also make the file anew, or take over another's.
WritePid(r) ==
  /\ att[r].pc = "pid"
  /\ lock' = [lock EXCEPT ![att[r].auto] =
       [by |-> att[r].proc, pid |-> TRUE, alive |-> TRUE, old |-> FALSE, here |-> TRUE]]
  /\ Goto(r, "bind")
  /\ UNCHANGED <<up, running, cancel, todo, cur, slot, lastRun, botsOn, kept,
                 bare, aged, left>>

\* create_new fails for another reason: the run goes on without the file.
CreateLockHiccup(r) ==
  /\ att[r].pc = "lock" /\ left > 0
  /\ Goto(r, "bind")
  /\ bare' = bare \union {att[r].auto}
  /\ left' = left - 1
  /\ UNCHANGED <<up, running, cancel, lock, todo, cur, slot, lastRun, botsOn,
                 kept, aged>>

\* Fault: any file with a pid is taken for a dead process's.
Stale_anypid(a) == lock[a].old \/ lock[a].pid

\* Fault: a file without a pid never goes stale.
Stale_pidonly(a) == lock[a].pid /\ ~lock[a].alive

\* A recorded pid counts as long as its process lives and the file is young;
\* without a pid only the age counts.
Stale(a) == lock[a].old \/ (lock[a].pid /\ ~lock[a].alive)

\* The file exists.  The guards go first, then, if it was stale, the file.
FoundLock(r) ==
  /\ att[r].pc = "lock" /\ lock[att[r].auto].here
  /\ att' = [att EXCEPT ![r] = [@ EXCEPT !.pc = "leave", !.stale = Stale(att[r].auto)]]
  /\ UNCHANGED <<up, running, cancel, lock, todo, cur, slot, lastRun, botsOn,
                 kept, bare, aged, left>>

\* remove_file on the path, whoever's file is there by now; then once more
\* from the start, three times at most.
Steal(r) ==
  /\ att[r].pc = "steal"
  /\ lock' = [lock EXCEPT ![att[r].auto] = NoLock]
  /\ bare' = IF lock[att[r].auto].here /\ ~Stale(att[r].auto)
               THEN bare \union {att[r].auto} ELSE bare
  /\ att' = [att EXCEPT ![r] =
       IF att[r].depth + 1 >= MAX_PREPARE_DEPTH
         THEN Idle
         ELSE [att[r] EXCEPT !.pc = "guard", !.depth = @ + 1, !.stale = FALSE]]
  /\ UNCHANGED <<up, running, cancel, todo, cur, slot, lastRun, botsOn, kept,
                 aged, left>>

Refused(r) == att[r].auto \in BotJobs /\ ~botsOn

\* The run's session and its row are there: the turn may start.
Bind(r) ==
  /\ att[r].pc = "bind" /\ ~Refused(r)
  /\ Goto(r, "exec")
  /\ UNCHANGED <<up, running, cancel, lock, todo, cur, slot, lastRun, botsOn,
                 kept, bare, aged, left>>

\* Fault: the error returns with the guards held.
BindFails_keeps(r) ==
  /\ att[r].pc = "bind" /\ ~Refused(r) /\ left > 0
  /\ att' = [att EXCEPT ![r] = Idle]
  /\ left' = left - 1
  /\ UNCHANGED <<up, running, cancel, lock, todo, cur, slot, lastRun, botsOn,
                 kept, bare, aged>>

\* A database call of the preparation fails: release_guards.
BindFails(r) ==
  /\ att[r].pc = "bind" /\ ~Refused(r) /\ left > 0
  /\ Goto(r, "leave")
  /\ left' = left - 1
  /\ UNCHANGED <<up, running, cancel, lock, todo, cur, slot, lastRun, botsOn,
                 kept, bare, aged>>

\* The job's bot is disabled or deleted: recorded as skipped, and the attempt
\* is over without release_guards.
BindRefused(r) ==
  /\ att[r].pc = "bind" /\ Refused(r)
  /\ kept' = kept \union {att[r].auto}
  /\ att' = [att EXCEPT ![r] = Idle]
  /\ UNCHANGED <<up, running, cancel, lock, todo, cur, slot, lastRun, botsOn,
                 bare, aged, left>>

-----------------------------------------------------------------------------
(* The run and finalize *)

\* execute returns: the turn ended, failed or was stopped, or it was a CLI's and
\* hit MAX_RUN_SECS.
ExecEnds(r) ==
  /\ att[r].pc = "exec"
  /\ Goto(r, "record")
  /\ UNCHANGED <<up, running, cancel, lock, todo, cur, slot, lastRun, botsOn,
                 kept, bare, aged, left>>

\* record_run, whose second try may fail too.  Only a scheduled run moves the
\* cron clock, to the present.
Record(r) ==
  /\ att[r].pc = "record"
  /\ \E recorded \in BOOLEAN :
       /\ recorded \/ left > 0
       /\ left' = IF recorded THEN left ELSE left - 1
       /\ lastRun' = IF recorded /\ att[r].sched
                       THEN [lastRun EXCEPT ![att[r].auto] = slot[att[r].auto]]
                       ELSE lastRun
  /\ Goto(r, "leave")
  /\ UNCHANGED <<up, running, cancel, lock, todo, cur, slot, botsOn, kept,
                 bare, aged>>

\* release_guards, its three steps: RUNNING,
Leave(r) ==
  /\ att[r].pc = "leave"
  /\ running' = [running EXCEPT ![att[r].proc] = @ \ {att[r].auto}]
  /\ Goto(r, "uncancel")
  /\ UNCHANGED <<up, cancel, lock, todo, cur, slot, lastRun, botsOn, kept,
                 bare, aged, left>>

\* CANCEL,
Uncancel(r) ==
  /\ att[r].pc = "uncancel"
  /\ cancel' = [cancel EXCEPT ![att[r].proc][att[r].auto] = None]
  /\ att' = [att EXCEPT ![r] =
       IF att[r].locked THEN [att[r] EXCEPT !.pc = "unlock"]
       ELSE IF att[r].stale THEN [att[r] EXCEPT !.pc = "steal"] ELSE Idle]
  /\ UNCHANGED <<up, running, lock, todo, cur, slot, lastRun, botsOn, kept,
                 bare, aged, left>>

Mine(r) == /\ lock[att[r].auto].here /\ lock[att[r].auto].alive
           /\ lock[att[r].auto].by = att[r].proc

\* Fault: the file stays.
Unlock_forgets(r) ==
  /\ att[r].pc = "unlock"
  /\ att' = [att EXCEPT ![r] = Idle]
  /\ UNCHANGED <<up, running, cancel, lock, todo, cur, slot, lastRun, botsOn,
                 kept, bare, aged, left>>

\* and the lock file, whoever's it is by now.
Unlock(r) ==
  /\ att[r].pc = "unlock"
  /\ lock' = [lock EXCEPT ![att[r].auto] = NoLock]
  /\ bare' = IF lock[att[r].auto].here /\ ~Mine(r)
               THEN bare \union {att[r].auto} ELSE bare
  /\ att' = [att EXCEPT ![r] = Idle]
  /\ UNCHANGED <<up, running, cancel, todo, cur, slot, lastRun, botsOn, kept,
                 aged, left>>

-----------------------------------------------------------------------------
(* Processes *)

\* p is gone with all it had in memory; its files and rows stay.
Dies(p) ==
  /\ p \in up
  /\ up' = up \ {p}
  /\ running' = [running EXCEPT ![p] = {}]
  /\ cancel' = [cancel EXCEPT ![p] = [a \in Autos |-> None]]
  /\ lock' = [a \in Autos |->
       IF lock[a].here /\ lock[a].by = p THEN [lock[a] EXCEPT !.alive = FALSE]
                                         ELSE lock[a]]
  /\ att' = [r \in Attempts |-> IF att[r].proc = p THEN Idle ELSE att[r]]
  /\ todo' = [todo EXCEPT ![p] = {}]
  /\ cur' = [cur EXCEPT ![p] = None]
  /\ UNCHANGED <<slot, lastRun, botsOn, kept, bare, aged>>

Crash(p) ==
  /\ left > 0
  /\ left' = left - 1
  /\ Dies(p)

\* relay-automation run-due has nothing left to do.
Exit(p) ==
  /\ p # App /\ todo[p] = {} /\ cur[p] = None
  /\ Dies(p)
  /\ UNCHANGED left

\* The app is started.
BootApp ==
  /\ App \notin up
  /\ up' = up \union {App}
  /\ UNCHANGED <<running, cancel, lock, att, todo, cur, slot, lastRun, botsOn,
                 kept, bare, aged, left>>

\* The task of the OS scheduler fires, every minute.
BootTask(p) ==
  /\ p # App /\ p \notin up
  /\ \E a \in Autos : Due(a)
  /\ up' = up \union {p}
  /\ todo' = [todo EXCEPT ![p] = {a \in Autos : Due(a)}]
  /\ UNCHANGED <<running, cancel, lock, att, cur, slot, lastRun, botsOn, kept,
                 bare, aged, left>>

InProgress(a) == \E r \in Attempts : att[r].locked /\ att[r].auto = a

\* The file turns six hours old by the clock on the wall, whatever the run does
\* whose file it is: a bot's job has no MAX_RUN_SECS, and the machine may sleep.
LockAges(a) ==
  /\ lock[a].here /\ ~Stale(a)
  /\ lock' = [lock EXCEPT ![a].old = TRUE]
  /\ IF InProgress(a)
       THEN left > 0 /\ left' = left - 1 /\ aged' = aged \union {a}
       ELSE UNCHANGED <<left, aged>>
  /\ UNCHANGED <<up, running, cancel, att, todo, cur, slot, lastRun, botsOn,
                 kept, bare>>

-----------------------------------------------------------------------------
Prepare(r) ==
  \/ Guard(r) \/ Publish(r) \/ CreateLock(r) \/ WritePid(r) \/ FoundLock(r)
  \/ Steal(r) \/ Bind(r) \/ BindRefused(r)

Finalize(r) == Record(r) \/ Leave(r) \/ Uncancel(r) \/ Unlock(r)

Pass(p) == Tick(p) \/ (\E a \in Autos : LaunchDue(p, a)) \/ PassGoesOn(p)

Next ==
  \/ \E a \in Autos : SlotComes(a) \/ RunNow(a) \/ LockAges(a)
  \/ \E p \in Procs : Pass(p) \/ Crash(p) \/ Exit(p) \/ BootTask(p)
  \/ \E r \in Attempts :
       Prepare(r) \/ CreateLockHiccup(r) \/ BindFails(r) \/ ExecEnds(r) \/ Finalize(r)
  \/ BootApp \/ ToggleBots

Spec == Init /\ [][Next]_vars

\* Threads go on and files age.  Nothing makes a turn end, and nobody has to
\* start the app, register the task with the OS, crash, or press a button.
FairSpec ==
  /\ Spec
  /\ \A r \in Attempts : WF_vars(Prepare(r)) /\ WF_vars(Finalize(r))
  /\ \A p \in Procs : WF_vars(Pass(p)) /\ WF_vars(Exit(p))
  /\ \A a \in Autos : WF_vars(LockAges(a))

-----------------------------------------------------------------------------
(* Properties *)

Working(r) == att[r].pc \in {"exec", "record"}

\* Between the insertion into RUNNING and the removal.
Entered(r) ==
  att[r].pc \in {"publish", "lock", "pid", "bind", "exec", "record", "leave"}

\* Two runs of one automation never work at the same time: never in one process,
\* and in two only if a run went on without its lock file, lost it to the removal
\* of a file that was stale when it was read, or worked until its own file was
\* six hours old.
ExclusiveRuns ==
  \A r, s \in Attempts :
    r # s /\ Working(r) /\ Working(s) /\ att[r].auto = att[s].auto =>
      att[r].proc # att[s].proc /\ att[r].auto \in bare \union aged

\* What is in RUNNING of a process has an attempt of this process that will
\* take it out again: else the automation never runs there until a restart.
\* The jobs of a disabled bot are the exception: their refusal returns
\* with both guards held.
GuardsHaveRun ==
  \A p \in Procs, a \in Autos \ kept :
    a \in running[p] =>
      \E r \in Attempts : Entered(r) /\ att[r].proc = p /\ att[r].auto = a

\* A lock file of a live process has an attempt of this process behind it.
LocksHaveRun ==
  \A a \in Autos \ kept :
    lock[a].here /\ lock[a].alive =>
      \E r \in Attempts : att[r].proc = lock[a].by /\ att[r].auto = a /\ att[r].locked

\* The promise of B-28 to a long legitimate run: the lock file of a process that
\* lives, with its pid in it, is never taken for stale.
LivePidNeverStale ==
  [][\A r \in Attempts :
       FoundLock(r) /\ lock[att[r].auto].pid /\ lock[att[r].auto].alive
         => ~att'[r].stale]_vars

\* While the app stays open a slot that came due is served, whichever process
\* dies on the way, unless one run of the automation never ends.
DueServed ==
  \A a \in Autos :
    \/ []<>(lastRun[a] = slot[a] \/ a \in kept \/ App \notin up)
    \/ \E r \in Attempts : <>[](att[r].pc = "exec" /\ att[r].auto = a)
=============================================================================
