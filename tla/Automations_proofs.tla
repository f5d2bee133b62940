------------------------- MODULE Automations_proofs -------------------------
(***************************************************************************)
(* What TLAPS proves of Automations for any number of processes,           *)
(* automations and attempts in progress: types, that runs exclude each     *)
(* other, and that RUNNING and the lock files always have an attempt       *)
(* behind them.                                                            *)
(***************************************************************************)
EXTENDS Automations, TLAPS

\* An attempt that made the lock file has not let go of it.
LockedPhase ==
  \A r \in Attempts :
    /\ att[r].locked => att[r].pc \in {"pid", "bind", "exec", "record", "leave",
                                       "uncancel", "unlock"}
    /\ att[r].pc \in {"pid", "unlock"} => att[r].locked

\* Within a process the attempts between the two ends of RUNNING are at
\* different automations, all in RUNNING.
EnteredOnce ==
  /\ \A r \in Attempts : Entered(r) => att[r].auto \in running[att[r].proc]
  /\ \A r, s \in Attempts :
       Entered(r) /\ Entered(s) /\ att[r].proc = att[s].proc /\ att[r].auto = att[s].auto
         => r = s

\* Automations for which something kept the lock file from doing its work.
Exposed == bare \union aged

\* Unless an automation is exposed: who prepared past the lock has it, the file of
\* who has it is there, his, and young, and nobody else has it.
LockOwned ==
  \A r \in Attempts :
    att[r].auto \notin Exposed =>
      /\ att[r].pc \in {"bind", "exec", "record"} => att[r].locked
      /\ att[r].locked => Mine(r) /\ ~lock[att[r].auto].old
      /\ \A s \in Attempts :
           att[r].locked /\ att[s].locked /\ att[s].auto = att[r].auto => r = s

AutosInv == /\ TypeOK /\ LockedPhase /\ EnteredOnce /\ LockOwned
            /\ GuardsHaveRun /\ LocksHaveRun

-----------------------------------------------------------------------------
\* Of the attempts that are idle there is one to begin with.
LEMMA FreshIdle == Free # {} => Fresh \in Attempts /\ att[Fresh].pc = "idle"
BY DEF Free, Fresh

\* The records an attempt or a lock file goes through are typed.
LEMMA IdleType == Idle \in Attempt
<1>1. (CHOOSE a \in Autos : TRUE) \in Autos
  BY AutomationsAssumption
<1> QED BY <1>1, AutomationsAssumption DEF Idle, Attempt, Steps, MAX_PREPARE_DEPTH

LEMMA BeginType ==
  ASSUME NEW p \in Procs, NEW a \in Autos, NEW b \in BOOLEAN
  PROVE  [Idle EXCEPT !.pc = "guard", !.proc = p, !.auto = a, !.sched = b] \in Attempt
BY IdleType DEF Attempt, Steps

LEMMA StepType ==
  ASSUME NEW x \in Attempt, NEW step \in Steps
  PROVE  [x EXCEPT !.pc = step] \in Attempt
BY DEF Attempt

LEMMA NoLockType == NoLock \in LockFile
BY AutomationsAssumption DEF NoLock, LockFile

\* The initial state has every part of the invariant.
LEMMA InitInv == Init => AutosInv
<1> SUFFICES ASSUME Init PROVE AutosInv
  OBVIOUS
<1>1. TypeOK
  <2>1. 0 \in 0..MaxSlots /\ MaxEvents \in 0..MaxEvents
    BY AutomationsAssumption
  <2> QED BY <2>1, AutomationsAssumption, IdleType, NoLockType DEF Init, TypeOK
<1>2. \A r \in Attempts : att[r].pc = "idle" /\ ~att[r].locked
  BY DEF Init, Idle
<1>3. LockedPhase /\ EnteredOnce /\ LockOwned
  BY <1>2 DEF LockedPhase, EnteredOnce, LockOwned, Entered
<1>4. GuardsHaveRun /\ LocksHaveRun
  BY DEF Init, GuardsHaveRun, LocksHaveRun, NoLock
<1> QED BY <1>1, <1>3, <1>4 DEF AutosInv

-----------------------------------------------------------------------------
(* Types *)

\* The scheduler and the owner keep every variable typed.
LEMMA TypeSchedule ==
  ASSUME TypeOK, NEW p \in Procs, NEW a \in Autos,
         SlotComes(a) \/ RunNow(a) \/ LockAges(a) \/ Pass(p) \/ ToggleBots
  PROVE  TypeOK'
<1> USE DEF TypeOK
<1>1. CASE SlotComes(a)
  BY <1>1, AutomationsAssumption DEF SlotComes
<1>2. CASE RunNow(a)
  <2>1. Fresh \in Attempts
    BY <1>2, FreshIdle DEF RunNow
  <2>2. att' \in [Attempts -> Attempt]
    BY <1>2, <2>1, BeginType, AutomationsAssumption DEF RunNow, Begin
  <2> QED BY <1>2, <2>2, AutomationsAssumption DEF RunNow
<1>3. CASE LockAges(a)
  <2>1. lock' \in [Autos -> LockFile]
    BY <1>3 DEF LockAges, LockFile
  <2>2. left' \in 0..MaxEvents /\ aged' \in SUBSET Autos
    BY <1>3, AutomationsAssumption DEF LockAges
  <2> QED BY <1>3, <2>1, <2>2 DEF LockAges
<1>4. CASE Tick(p)
  BY <1>4 DEF Tick
<1>5. CASE \E b \in Autos : LaunchDue(p, b)
  <2>1. PICK b \in Autos : LaunchDue(p, b)
    BY <1>5
  <2>2. Fresh \in Attempts
    BY <2>1, FreshIdle DEF LaunchDue
  <2>3. att' \in [Attempts -> Attempt]
    BY <2>1, <2>2, BeginType DEF LaunchDue, Begin
  <2> QED BY <2>1, <2>2, <2>3 DEF LaunchDue
<1>6. CASE PassGoesOn(p)
  BY <1>6 DEF PassGoesOn
<1>7. CASE ToggleBots
  BY <1>7, AutomationsAssumption DEF ToggleBots
<1> QED BY <1>1, <1>2, <1>3, <1>4, <1>5, <1>6, <1>7 DEF Pass

\* The preparation keeps every variable typed.
LEMMA TypePrepare ==
  ASSUME TypeOK, NEW r \in Attempts,
         Prepare(r) \/ CreateLockHiccup(r) \/ BindFails(r)
  PROVE  TypeOK'
<1> USE DEF TypeOK, Goto
<1>0. att[r] \in Attempt /\ att[r].auto \in Autos /\ att[r].proc \in Procs
  BY DEF Attempt
<1>s. {"leave", "publish", "lock", "bind", "exec"} \subseteq Steps
  BY DEF Steps
<1>1. CASE Guard(r)
  <2>1. att' \in [Attempts -> Attempt]
    BY <1>1, <1>0, <1>s, IdleType, StepType DEF Guard
  <2> QED BY <1>1, <1>0, <2>1 DEF Guard
<1>2. CASE Publish(r) \/ Bind(r)
  <2>1. [att[r] EXCEPT !.pc = "lock"] \in Attempt /\ [att[r] EXCEPT !.pc = "exec"] \in Attempt
    BY <1>0, <1>s, StepType
  <2>2. att' \in [Attempts -> Attempt]
    <3>1. CASE Publish(r)
      BY <3>1, <2>1 DEF Publish
    <3>2. CASE Bind(r)
      BY <3>2, <2>1 DEF Bind
    <3> QED BY <1>2, <3>1, <3>2
  <2>3. cancel' \in [Procs -> [Autos -> Attempts \union {None}]]
    <3>1. CASE Publish(r)
      <4>1. [cancel[att[r].proc] EXCEPT ![att[r].auto] = r] \in [Autos -> Attempts \union {None}]
        BY <1>0
      <4> QED BY <3>1, <1>0, <4>1 DEF Publish
    <3>2. CASE Bind(r)
      BY <3>2 DEF Bind
    <3> QED BY <1>2, <3>1, <3>2
  <2> QED BY <1>2, <2>2, <2>3 DEF Publish, Bind
<1>3. CASE CreateLock(r)
  <2>1. att' \in [Attempts -> Attempt]
    BY <1>3, <1>0 DEF CreateLock, Attempt, Steps
  <2>2. lock' \in [Autos -> LockFile]
    BY <1>3, <1>0 DEF CreateLock, LockFile
  <2> QED BY <1>3, <2>1, <2>2 DEF CreateLock
<1>4. CASE WritePid(r)
  <2>1. att' \in [Attempts -> Attempt]
    BY <1>4, <1>0, <1>s, StepType DEF WritePid
  <2>2. lock' \in [Autos -> LockFile]
    BY <1>4, <1>0 DEF WritePid, LockFile
  <2> QED BY <1>4, <2>1, <2>2 DEF WritePid
<1>5. CASE FoundLock(r)
  <2>1. Stale(att[r].auto) \in BOOLEAN
    BY <1>0 DEF Stale, LockFile
  <2>2. att' \in [Attempts -> Attempt]
    BY <1>5, <1>0, <2>1 DEF FoundLock, Attempt, Steps
  <2> QED BY <1>5, <2>2 DEF FoundLock
<1>6. CASE Steal(r)
  <2>1. CASE att[r].depth + 1 >= MAX_PREPARE_DEPTH
    <3>1. att' \in [Attempts -> Attempt]
      BY <1>6, <2>1, IdleType DEF Steal
    <3> QED BY <1>6, <1>0, <3>1, NoLockType DEF Steal
  <2>2. CASE ~(att[r].depth + 1 >= MAX_PREPARE_DEPTH)
    <3>0. att[r].depth + 1 \in 0..(MAX_PREPARE_DEPTH - 1)
      BY <1>0, <2>2 DEF Attempt, MAX_PREPARE_DEPTH
    <3>1. [att[r] EXCEPT !.pc = "guard", !.depth = @ + 1, !.stale = FALSE] \in Attempt
      BY <1>0, <3>0 DEF Attempt, Steps
    <3>2. att' \in [Attempts -> Attempt]
      BY <1>6, <2>2, <3>1 DEF Steal
    <3> QED BY <1>6, <1>0, <3>2, NoLockType DEF Steal
  <2> QED BY <2>1, <2>2
<1>7. CASE BindRefused(r)
  BY <1>7, <1>0, IdleType DEF BindRefused
<1>8. CASE CreateLockHiccup(r) \/ BindFails(r)
  <2>1. att' \in [Attempts -> Attempt]
    BY <1>8, <1>0, <1>s, StepType DEF CreateLockHiccup, BindFails
  <2>2. left' \in 0..MaxEvents
    BY <1>8, AutomationsAssumption DEF CreateLockHiccup, BindFails
  <2> QED BY <1>8, <1>0, <2>1, <2>2 DEF CreateLockHiccup, BindFails
<1> QED BY <1>1, <1>2, <1>3, <1>4, <1>5, <1>6, <1>7, <1>8 DEF Prepare

\* The end of a run keeps every variable typed.
LEMMA TypeFinalize ==
  ASSUME TypeOK, NEW r \in Attempts, ExecEnds(r) \/ Finalize(r)
  PROVE  TypeOK'
<1> USE DEF TypeOK, Goto
<1>0. att[r] \in Attempt /\ att[r].auto \in Autos /\ att[r].proc \in Procs
  BY DEF Attempt
<1>s. {"record", "leave", "uncancel", "unlock", "steal"} \subseteq Steps
  BY DEF Steps
<1>1. CASE ExecEnds(r) \/ Leave(r)
  <2>1. [att[r] EXCEPT !.pc = "record"] \in Attempt /\ [att[r] EXCEPT !.pc = "uncancel"] \in Attempt
    BY <1>0, <1>s, StepType
  <2>2. att' \in [Attempts -> Attempt]
    BY <1>1, <2>1 DEF ExecEnds, Leave
  <2> QED BY <1>1, <1>0, <2>2 DEF ExecEnds, Leave
<1>2. CASE Record(r)
  <2>1. att' \in [Attempts -> Attempt]
    BY <1>2, <1>0, <1>s, StepType DEF Record
  <2>2. left' \in 0..MaxEvents
    BY <1>2, AutomationsAssumption DEF Record
  <2> QED BY <1>2, <1>0, <2>1, <2>2 DEF Record
<1>3. CASE Uncancel(r)
  <2>1. att' \in [Attempts -> Attempt]
    BY <1>3, <1>0, <1>s, StepType, IdleType DEF Uncancel
  <2> QED BY <1>3, <1>0, <2>1 DEF Uncancel
<1>4. CASE Unlock(r)
  BY <1>4, <1>0, NoLockType, IdleType DEF Unlock
<1> QED BY <1>1, <1>2, <1>3, <1>4 DEF Finalize

\* Processes that come and go keep every variable typed.
LEMMA TypeProcess ==
  ASSUME TypeOK, NEW p \in Procs, Crash(p) \/ Exit(p) \/ BootTask(p) \/ BootApp
  PROVE  TypeOK'
<1> USE DEF TypeOK
<1>1. CASE Crash(p) \/ Exit(p)
  <2>1. left' \in 0..MaxEvents
    BY <1>1, AutomationsAssumption DEF Crash, Exit
  <2>2. Dies(p)
    BY <1>1 DEF Crash, Exit
  <2>3. lock' \in [Autos -> LockFile]
    BY <2>2 DEF Dies, LockFile
  <2>4. att' \in [Attempts -> Attempt]
    BY <2>2, IdleType DEF Dies
  <2> QED BY <2>1, <2>2, <2>3, <2>4 DEF Dies
<1>2. CASE BootTask(p)
  BY <1>2 DEF BootTask
<1>3. CASE BootApp
  BY <1>3, AutomationsAssumption DEF BootApp
<1> QED BY <1>1, <1>2, <1>3

LEMMA TypeNext == TypeOK /\ [Next]_vars => TypeOK'
<1> SUFFICES ASSUME TypeOK, [Next]_vars PROVE TypeOK'
  OBVIOUS
<1>0. App \in Procs /\ Autos # {}
  BY AutomationsAssumption
<1>1. ASSUME NEW a \in Autos, SlotComes(a) \/ RunNow(a) \/ LockAges(a) PROVE TypeOK'
  BY <1>0, <1>1, TypeSchedule
<1>2. ASSUME NEW p \in Procs, Pass(p) PROVE TypeOK'
  BY <1>0, <1>2, TypeSchedule
<1>3. ASSUME NEW p \in Procs, Crash(p) \/ Exit(p) \/ BootTask(p) PROVE TypeOK'
  BY <1>3, TypeProcess
<1>4. ASSUME NEW r \in Attempts, Prepare(r) \/ CreateLockHiccup(r) \/ BindFails(r)
      PROVE  TypeOK'
  BY <1>4, TypePrepare
<1>5. ASSUME NEW r \in Attempts, ExecEnds(r) \/ Finalize(r) PROVE TypeOK'
  BY <1>5, TypeFinalize
<1>6. CASE BootApp
  BY <1>0, <1>6, TypeProcess
<1>7. CASE ToggleBots
  BY <1>0, <1>7, TypeSchedule
<1>8. CASE UNCHANGED vars
  BY <1>8 DEF vars, TypeOK
<1> QED BY <1>1, <1>2, <1>3, <1>4, <1>5, <1>6, <1>7, <1>8 DEF Next

-----------------------------------------------------------------------------
(* Steps that change one attempt at most, or begin one *)

\* The attempts other than r are as they were.
Only(r) == \A s \in Attempts \ {r} : att'[s] = att[s]

\* An attempt that begins disturbs nothing: it has nothing yet.
LEMMA BeginInv ==
  ASSUME AutosInv, TypeOK', NEW p \in Procs, NEW a \in Autos, NEW b \in BOOLEAN,
         Free # {}, Begin(Fresh, p, a, b), UNCHANGED <<running, lock, bare, aged, kept>>
  PROVE  AutosInv'
<1> DEFINE f == Fresh
<1>1. f \in Attempts /\ att[f].pc = "idle" /\ ~att[f].locked
  BY FreshIdle DEF AutosInv, LockedPhase
<1>2. att'[f].pc = "guard" /\ ~att'[f].locked /\ \A s \in Attempts : s # f => att'[s] = att[s]
  BY <1>1 DEF Begin, AutosInv, TypeOK, Idle
<1> HIDE DEF f
<1>3. LockedPhase'
  BY <1>1, <1>2 DEF AutosInv, LockedPhase
<1>4. EnteredOnce'
  BY <1>1, <1>2 DEF AutosInv, EnteredOnce, Entered
<1>5. LockOwned'
  BY <1>1, <1>2 DEF AutosInv, LockOwned, Exposed, Mine
<1>6. GuardsHaveRun'
  BY <1>1, <1>2 DEF AutosInv, GuardsHaveRun, Entered
<1>7. LocksHaveRun'
  BY <1>1, <1>2 DEF AutosInv, LocksHaveRun
<1> QED BY <1>3, <1>4, <1>5, <1>6, <1>7 DEF AutosInv

\* A step of one attempt that keeps what it holds and moves no file.
LEMMA MoveInv ==
  ASSUME AutosInv, TypeOK', NEW r \in Attempts, Only(r),
         UNCHANGED <<running, lock, kept>>, Exposed \subseteq Exposed',
         att'[r].auto = att[r].auto, att'[r].proc = att[r].proc,
         att'[r].locked = att[r].locked,
         Entered(r)' <=> Entered(r),
         att'[r].locked => att'[r].pc \in {"pid", "bind", "exec", "record", "leave",
                                           "uncancel", "unlock"},
         att'[r].pc \in {"pid", "unlock"} => att'[r].locked,
         att[r].auto \notin Exposed' /\ att'[r].pc \in {"bind", "exec", "record"} => att'[r].locked
  PROVE  AutosInv'
<1>0. \A s \in Attempts : /\ att'[s].auto = att[s].auto /\ att'[s].proc = att[s].proc
                          /\ att'[s].locked = att[s].locked /\ Entered(s)' = Entered(s)
                          /\ s # r => att'[s].pc = att[s].pc
  BY DEF Only, Entered
<1>3. LockedPhase'
  BY <1>0 DEF AutosInv, LockedPhase
<1>4. EnteredOnce'
  BY <1>0 DEF AutosInv, EnteredOnce
<1>5. LockOwned'
  BY <1>0 DEF AutosInv, LockOwned, Exposed, Mine
<1>6. GuardsHaveRun'
  BY <1>0 DEF AutosInv, GuardsHaveRun
<1>7. LocksHaveRun'
  BY <1>0 DEF AutosInv, LocksHaveRun
<1> QED BY <1>3, <1>4, <1>5, <1>6, <1>7 DEF AutosInv

\* An attempt that holds nothing ends.
LEMMA EndInv ==
  ASSUME AutosInv, TypeOK', NEW r \in Attempts, Only(r), att'[r] = Idle,
         UNCHANGED <<running, lock, kept>>, Exposed \subseteq Exposed',
         ~Entered(r), ~att[r].locked
  PROVE  AutosInv'
<1>0. ~Entered(r)' /\ ~att'[r].locked /\ att'[r].pc = "idle"
  BY DEF Idle, Entered
<1>1. \A s \in Attempts : s # r => att'[s] = att[s]
  BY DEF Only
<1>3. LockedPhase'
  BY <1>0, <1>1 DEF AutosInv, LockedPhase
<1>4. EnteredOnce'
  BY <1>0, <1>1 DEF AutosInv, EnteredOnce, Entered
<1>5. LockOwned'
  BY <1>0, <1>1 DEF AutosInv, LockOwned, Exposed, Mine
<1>6. GuardsHaveRun'
  BY <1>0, <1>1 DEF AutosInv, GuardsHaveRun, Entered
<1>7. LocksHaveRun'
  BY <1>0, <1>1 DEF AutosInv, LocksHaveRun
<1> QED BY <1>3, <1>4, <1>5, <1>6, <1>7 DEF AutosInv

-----------------------------------------------------------------------------
(* The steps that take or give up something *)

\* Guard 1 lets one attempt in, or ends an attempt that has nothing.
LEMMA GuardInv ==
  ASSUME AutosInv, TypeOK', NEW r \in Attempts, Guard(r)
  PROVE  AutosInv'
<1>0. att[r] \in Attempt /\ att[r].proc \in Procs /\ ~att[r].locked /\ ~Entered(r)
  BY DEF AutosInv, TypeOK, Attempt, LockedPhase, Guard, Entered
<1>1. Only(r)
  BY DEF AutosInv, TypeOK, Guard, Only, Goto
<1>2. CASE att[r].auto \in running[att[r].proc]
  <2>1. att'[r] = Idle
    BY <1>2 DEF Guard, AutosInv, TypeOK
  <2> QED BY <1>0, <1>1, <1>2, <2>1, EndInv DEF Guard, Exposed
<1>3. CASE att[r].auto \notin running[att[r].proc]
  <2>1. /\ running' = [running EXCEPT ![att[r].proc] = @ \union {att[r].auto}]
        /\ att'[r] = [att[r] EXCEPT !.pc = "publish"]
    BY <1>3 DEF Guard, Goto, AutosInv, TypeOK
  <2>2. /\ att'[r].auto = att[r].auto /\ att'[r].proc = att[r].proc
        /\ ~att'[r].locked /\ att'[r].pc = "publish"
    BY <1>0, <2>1 DEF Attempt
  <2>3. \A s \in Attempts : s # r => att'[s] = att[s]
    BY <1>1 DEF Only
  <2>4. \A s \in Attempts : att[s].proc \in Procs
    BY DEF AutosInv, TypeOK, Attempt
  <2>5. /\ \A p \in Procs : running[p] \subseteq running'[p]
        /\ \A p \in Procs : \A a \in running'[p] :
             a \in running[p] \/ (p = att[r].proc /\ a = att[r].auto)
        /\ att[r].auto \in running'[att[r].proc]
    BY <1>0, <2>1 DEF AutosInv, TypeOK
  <2>6. LockedPhase'
    BY <2>2, <2>3 DEF AutosInv, LockedPhase
  <2>7. EnteredOnce'
    <3>1. \A s \in Attempts : Entered(s)' => att'[s].auto \in running'[att'[s].proc]
      BY <2>2, <2>3, <2>4, <2>5 DEF AutosInv, EnteredOnce, Entered
    <3>2. \A s \in Attempts : s # r /\ Entered(s)' => ~(att'[s].proc = att[r].proc /\ att'[s].auto = att[r].auto)
      BY <1>3, <2>3 DEF AutosInv, EnteredOnce, Entered
    <3>3. \A s, t \in Attempts :
            s # r /\ t # r /\ Entered(s)' /\ Entered(t)' /\ att'[s].proc = att'[t].proc
              /\ att'[s].auto = att'[t].auto => s = t
      BY <2>3 DEF AutosInv, EnteredOnce, Entered
    <3> QED BY <2>2, <3>1, <3>2, <3>3 DEF EnteredOnce
  <2>8. LockOwned'
    BY <2>2, <2>3 DEF Guard, AutosInv, LockOwned, Mine, Exposed
  <2>9. GuardsHaveRun'
    <3>1. Entered(r)'
      BY <2>2 DEF Entered
    <3> QED BY <1>0, <2>2, <2>3, <2>5, <3>1 DEF Guard, AutosInv, GuardsHaveRun, Entered
  <2>10. LocksHaveRun'
    BY <1>0, <2>3 DEF Guard, AutosInv, LocksHaveRun
  <2> QED BY <2>6, <2>7, <2>8, <2>9, <2>10 DEF AutosInv
<1> QED BY <1>2, <1>3

\* create_new, for who finds no file.
LEMMA CreateLockInv ==
  ASSUME AutosInv, TypeOK', NEW r \in Attempts, CreateLock(r)
  PROVE  AutosInv'
<1> DEFINE mine == [by |-> att[r].proc, pid |-> FALSE, alive |-> TRUE, old |-> FALSE, here |-> TRUE]
<1>0. att[r] \in Attempt /\ att[r].proc \in Procs /\ att[r].auto \in Autos
  BY DEF AutosInv, TypeOK, Attempt
<1>1. att'[r] = [att[r] EXCEPT !.pc = "pid", !.locked = TRUE]
  BY DEF CreateLock, AutosInv, TypeOK
<1>2. /\ att'[r].auto = att[r].auto /\ att'[r].proc = att[r].proc
      /\ att'[r].locked /\ att'[r].pc = "pid"
  BY <1>0, <1>1 DEF Attempt
<1>b. /\ att[r].pc = "lock" /\ ~lock[att[r].auto].here
      /\ UNCHANGED <<running, kept, bare, aged>>
  BY DEF CreateLock
<1>3. \A s \in Attempts : s # r => att'[s] = att[s]
  BY DEF CreateLock, AutosInv, TypeOK
<1>4. lock'[att[r].auto] = mine /\ \A a \in Autos : a # att[r].auto => lock'[a] = lock[a]
  BY <1>0 DEF CreateLock, AutosInv, TypeOK
<1>5. \A s \in Attempts : att[s].auto \in Autos
  BY DEF AutosInv, TypeOK, Attempt
<1>6. LockedPhase'
  BY <1>2, <1>3 DEF AutosInv, LockedPhase
<1>7. EnteredOnce'
  BY <1>2, <1>b, <1>3 DEF AutosInv, EnteredOnce, Entered
<1>8. LockOwned'
  <2>1. \A s \in Attempts : s # r /\ att[s].auto = att[r].auto /\ att[s].auto \notin Exposed => ~att[s].locked
    BY <1>b DEF AutosInv, LockOwned, Exposed, Mine
  <2> QED BY <1>2, <1>b, <1>3, <1>4, <1>5, <2>1 DEF AutosInv, LockOwned, Exposed, Mine
<1>9. GuardsHaveRun'
  BY <1>2, <1>b, <1>3 DEF AutosInv, GuardsHaveRun, Entered
<1>10. LocksHaveRun'
  <2>1. ~att[r].locked
    BY <1>b DEF AutosInv, LockedPhase
  <2> QED BY <1>b, <1>2, <1>3, <1>4, <2>1 DEF AutosInv, LocksHaveRun
<1> QED BY <1>6, <1>7, <1>8, <1>9, <1>10 DEF AutosInv

\* The pid is written into the writer's own file, unless the automation is exposed.
LEMMA WritePidInv ==
  ASSUME AutosInv, TypeOK', NEW r \in Attempts, WritePid(r)
  PROVE  AutosInv'
<1>0. att[r] \in Attempt /\ att[r].proc \in Procs /\ att[r].auto \in Autos /\ att[r].locked
  BY DEF AutosInv, TypeOK, Attempt, WritePid, LockedPhase
<1>1. att'[r] = [att[r] EXCEPT !.pc = "bind"]
  BY DEF WritePid, Goto, AutosInv, TypeOK
<1>2. /\ att'[r].auto = att[r].auto /\ att'[r].proc = att[r].proc
      /\ att'[r].locked /\ att'[r].pc = "bind" /\ att[r].pc = "pid"
  BY <1>0, <1>1 DEF Attempt, WritePid
<1>3. \A s \in Attempts : s # r => att'[s] = att[s]
  BY DEF WritePid, Goto, AutosInv, TypeOK
<1>4. /\ lock'[att[r].auto].here /\ lock'[att[r].auto].alive /\ ~lock'[att[r].auto].old
      /\ lock'[att[r].auto].by = att[r].proc
      /\ \A a \in Autos : a # att[r].auto => lock'[a] = lock[a]
  BY <1>0 DEF WritePid, AutosInv, TypeOK
<1>5. \A s \in Attempts : att[s].auto \in Autos
  BY DEF AutosInv, TypeOK, Attempt
<1>6. LockedPhase'
  BY <1>2, <1>3 DEF AutosInv, LockedPhase
<1>7. EnteredOnce'
  BY <1>2, <1>3 DEF WritePid, AutosInv, EnteredOnce, Entered
<1>8. LockOwned'
  BY <1>0, <1>2, <1>3, <1>4, <1>5 DEF WritePid, AutosInv, LockOwned, Mine, Exposed
<1>9. GuardsHaveRun'
  BY <1>2, <1>3 DEF WritePid, AutosInv, GuardsHaveRun, Entered
<1>10. LocksHaveRun'
  BY <1>2, <1>3, <1>4 DEF WritePid, AutosInv, LocksHaveRun
<1> QED BY <1>6, <1>7, <1>8, <1>9, <1>10 DEF AutosInv

\* The automation goes bare unless the removed file was still stale, and then it
\* was nobody's or the automation is exposed already.
LEMMA StealInv ==
  ASSUME AutosInv, TypeOK', NEW r \in Attempts, Steal(r)
  PROVE  AutosInv'
<1>0. att[r].auto \in Autos /\ ~att[r].locked /\ ~Entered(r)
  BY DEF AutosInv, TypeOK, Attempt, Steal, LockedPhase, Entered
<1>1. \A s \in Attempts : s # r => att'[s] = att[s]
  BY DEF Steal, AutosInv, TypeOK
<1>2. ~att'[r].locked /\ ~Entered(r)' /\ att'[r].pc \in {"idle", "guard"}
  <2>1. att'[r] = Idle \/ att'[r] = [att[r] EXCEPT !.pc = "guard", !.depth = @ + 1, !.stale = FALSE]
    BY DEF Steal, AutosInv, TypeOK
  <2>2. att[r] \in Attempt
    BY DEF AutosInv, TypeOK
  <2>3. ~att'[r].locked /\ att'[r].pc \in {"idle", "guard"}
    <3>1. CASE att'[r] = Idle
      BY <3>1 DEF Idle
    <3>2. CASE att'[r] = [att[r] EXCEPT !.pc = "guard", !.depth = @ + 1, !.stale = FALSE]
      BY <1>0, <2>2, <3>2 DEF Attempt
    <3> QED BY <2>1, <3>1, <3>2
  <2> QED BY <2>3 DEF Entered
<1>3. ~lock'[att[r].auto].here /\ \A a \in Autos : a # att[r].auto => lock'[a] = lock[a]
  BY <1>0 DEF Steal, AutosInv, TypeOK, NoLock
<1>4. \A s \in Attempts : att[s].auto \in Autos
  BY DEF AutosInv, TypeOK, Attempt
<1>5. LockedPhase'
  BY <1>1, <1>2 DEF AutosInv, LockedPhase
<1>6. EnteredOnce'
  BY <1>1, <1>2 DEF Steal, AutosInv, EnteredOnce, Entered
<1>7. LockOwned'
  <2>1. \A s \in Attempts : att[s].auto = att[r].auto /\ att[s].auto \notin Exposed' => ~att[s].locked
    BY DEF Steal, AutosInv, LockOwned, Mine, Stale, Exposed
  <2>2. Exposed \subseteq Exposed'
    BY DEF Steal, Exposed
  <2> QED BY <1>1, <1>2, <1>3, <1>4, <2>1, <2>2 DEF AutosInv, LockOwned, Exposed, Mine
<1>8. GuardsHaveRun'
  BY <1>0, <1>1, <1>2 DEF Steal, AutosInv, GuardsHaveRun, Entered
<1>9. LocksHaveRun'
  BY <1>0, <1>1, <1>2, <1>3 DEF Steal, AutosInv, LocksHaveRun
<1> QED BY <1>5, <1>6, <1>7, <1>8, <1>9 DEF AutosInv

\* The refusal leaves an attempt's place in RUNNING and its file behind, and the
\* automation counts as kept.
LEMMA RefusedInv ==
  ASSUME AutosInv, TypeOK', NEW r \in Attempts, BindRefused(r)
  PROVE  AutosInv'
<1>0. att'[r] = Idle /\ \A s \in Attempts : s # r => att'[s] = att[s]
  BY DEF BindRefused, AutosInv, TypeOK
<1>1. ~att'[r].locked /\ att'[r].pc = "idle" /\ ~Entered(r)'
  BY <1>0 DEF Idle, Entered
<1>2. UNCHANGED <<running, lock, bare, aged>> /\ kept' = kept \union {att[r].auto}
  BY DEF BindRefused
<1>3. LockedPhase'
  BY <1>0, <1>1 DEF AutosInv, LockedPhase
<1>4. EnteredOnce'
  BY <1>0, <1>1, <1>2 DEF AutosInv, EnteredOnce, Entered
<1>5. LockOwned'
  BY <1>0, <1>1, <1>2 DEF AutosInv, LockOwned, Exposed, Mine
<1>6. GuardsHaveRun'
  BY <1>0, <1>1, <1>2 DEF AutosInv, GuardsHaveRun, Entered
<1>7. LocksHaveRun'
  BY <1>0, <1>1, <1>2 DEF AutosInv, LocksHaveRun
<1> QED BY <1>3, <1>4, <1>5, <1>6, <1>7 DEF AutosInv

\* An attempt takes out of RUNNING what no other attempt of its process entered.
LEMMA LeaveInv ==
  ASSUME AutosInv, TypeOK', NEW r \in Attempts, Leave(r)
  PROVE  AutosInv'
<1>0. att[r] \in Attempt /\ att[r].pc = "leave"
  BY DEF AutosInv, TypeOK, Leave
<1>a. att'[r] = [att[r] EXCEPT !.pc = "uncancel"]
  BY DEF Leave, Goto, AutosInv, TypeOK
<1>1. \A s \in Attempts : s # r => att'[s] = att[s]
  BY DEF Leave, Goto, AutosInv, TypeOK
<1>2. /\ att'[r].auto = att[r].auto /\ att'[r].proc = att[r].proc
      /\ att'[r].locked = att[r].locked /\ att'[r].pc = "uncancel"
  BY <1>0, <1>a DEF Attempt
<1>3. UNCHANGED <<lock, bare, aged, kept>>
  BY DEF Leave
<1>4. \A p \in Procs : /\ running'[p] \subseteq running[p]
                       /\ p # att[r].proc => running'[p] = running[p]
                       /\ p = att[r].proc => running'[p] = running[p] \ {att[r].auto}
  BY DEF Leave, AutosInv, TypeOK
<1>5. \A s \in Attempts : att[s].proc \in Procs
  BY DEF AutosInv, TypeOK, Attempt
<1>6. Entered(r) /\ ~Entered(r)'
  BY <1>0, <1>2 DEF Entered
<1>7. LockedPhase'
  BY <1>0, <1>1, <1>2 DEF AutosInv, LockedPhase
<1>8. EnteredOnce'
  <2>1. \A s \in Attempts : Entered(s)' => s # r /\ Entered(s)
    BY <1>1, <1>6 DEF Entered
  <2>2. \A s \in Attempts :
          Entered(s)' => ~(att[s].proc = att[r].proc /\ att[s].auto = att[r].auto)
    BY <1>6, <2>1 DEF AutosInv, EnteredOnce
  <2> QED BY <1>1, <1>4, <1>5, <2>1, <2>2 DEF AutosInv, EnteredOnce
<1>9. LockOwned'
  BY <1>1, <1>2, <1>3 DEF AutosInv, LockOwned, Exposed, Mine
<1>10. GuardsHaveRun'
  <2> SUFFICES ASSUME NEW p \in Procs, NEW a \in Autos \ kept, a \in running'[p]
               PROVE  \E s \in Attempts : Entered(s)' /\ att'[s].proc = p /\ att'[s].auto = a
    BY <1>3 DEF GuardsHaveRun
  <2>1. PICK s \in Attempts : Entered(s) /\ att[s].proc = p /\ att[s].auto = a
    BY <1>4 DEF AutosInv, GuardsHaveRun
  <2>2. s # r
    BY <1>4, <2>1
  <2> QED BY <1>1, <2>1, <2>2 DEF Entered
<1>11. LocksHaveRun'
  BY <1>1, <1>2, <1>3 DEF AutosInv, LocksHaveRun
<1> QED BY <1>7, <1>8, <1>9, <1>10, <1>11 DEF AutosInv

\* The file that goes is the attempt's own, unless the automation is exposed.
LEMMA UnlockInv ==
  ASSUME AutosInv, TypeOK', NEW r \in Attempts, Unlock(r)
  PROVE  AutosInv'
<1>0. att[r].auto \in Autos /\ att[r].locked /\ att[r].pc = "unlock" /\ ~Entered(r)
  BY DEF AutosInv, TypeOK, Attempt, Unlock, LockedPhase, Entered
<1>1. att'[r] = Idle /\ \A s \in Attempts : s # r => att'[s] = att[s]
  BY DEF Unlock, AutosInv, TypeOK
<1>2. ~att'[r].locked /\ att'[r].pc = "idle" /\ ~Entered(r)'
  BY <1>1 DEF Idle, Entered
<1>3. ~lock'[att[r].auto].here /\ \A a \in Autos : a # att[r].auto => lock'[a] = lock[a]
  BY <1>0 DEF Unlock, AutosInv, TypeOK, NoLock
<1>4. \A s \in Attempts : att[s].auto \in Autos
  BY DEF AutosInv, TypeOK, Attempt
<1>b. UNCHANGED <<running, kept>> /\ Exposed \subseteq Exposed'
  BY DEF Unlock, Exposed
<1>5. LockedPhase'
  BY <1>1, <1>2 DEF AutosInv, LockedPhase
<1>6. EnteredOnce'
  BY <1>1, <1>2, <1>b DEF AutosInv, EnteredOnce, Entered
<1>7. LockOwned'
  <2>1. \A s \in Attempts :
          s # r /\ att[s].auto = att[r].auto /\ att[s].auto \notin Exposed => ~att[s].locked
    BY <1>0 DEF AutosInv, LockOwned
  <2> QED BY <1>1, <1>2, <1>3, <1>4, <1>b, <2>1 DEF AutosInv, LockOwned, Exposed, Mine
<1>8. GuardsHaveRun'
  BY <1>0, <1>1, <1>2, <1>b DEF AutosInv, GuardsHaveRun, Entered
<1>9. LocksHaveRun'
  BY <1>1, <1>2, <1>3, <1>b DEF AutosInv, LocksHaveRun
<1> QED BY <1>5, <1>6, <1>7, <1>8, <1>9 DEF AutosInv

\* A dead process takes its attempts and its RUNNING along; its files are nobody's.
LEMMA DiesInv ==
  ASSUME AutosInv, TypeOK', NEW p \in Procs, Dies(p)
  PROVE  AutosInv'
<1>1. \A r \in Attempts : /\ att[r].proc = p => att'[r] = Idle
                          /\ att[r].proc # p => att'[r] = att[r]
  BY DEF Dies
<1>2. Idle.pc = "idle" /\ ~Idle.locked
  BY DEF Idle
<1>3. /\ running'[p] = {}
      /\ \A q \in Procs : q # p => running'[q] = running[q]
  BY DEF Dies, AutosInv, TypeOK
<1>4. \A a \in Autos :
        IF lock[a].here /\ lock[a].by = p
          THEN lock'[a].here /\ ~lock'[a].alive
          ELSE lock'[a] = lock[a]
  BY DEF Dies, AutosInv, TypeOK, LockFile
<1>5. \A r \in Attempts : att[r].auto \in Autos /\ att[r].proc \in Procs
  BY DEF AutosInv, TypeOK, Attempt
<1>6. UNCHANGED <<bare, aged, kept>>
  BY DEF Dies
<1>7. LockedPhase'
  BY <1>1, <1>2 DEF AutosInv, LockedPhase
<1>8. EnteredOnce'
  BY <1>1, <1>2, <1>3, <1>5 DEF AutosInv, EnteredOnce, Entered
<1>9. LockOwned'
  BY <1>1, <1>2, <1>4, <1>5, <1>6 DEF AutosInv, LockOwned, Exposed, Mine
<1>10. GuardsHaveRun'
  BY <1>1, <1>3, <1>6 DEF AutosInv, GuardsHaveRun, Entered
<1>11. LocksHaveRun'
  BY <1>1, <1>4, <1>6 DEF AutosInv, LocksHaveRun
<1> QED BY <1>7, <1>8, <1>9, <1>10, <1>11 DEF AutosInv

\* A file that grows old under an attempt exposes its automation.
LEMMA AgesInv ==
  ASSUME AutosInv, TypeOK', NEW a \in Autos, LockAges(a)
  PROVE  AutosInv'
<1>1. /\ \A b \in Autos : b # a => lock'[b] = lock[b]
      /\ lock'[a].here = lock[a].here /\ lock'[a].by = lock[a].by
      /\ lock'[a].alive = lock[a].alive
  <2>1. lock[a] \in LockFile
    BY DEF AutosInv, TypeOK
  <2>2. lock' = [lock EXCEPT ![a] = [lock[a] EXCEPT !.old = TRUE]]
    BY DEF LockAges
  <2>3. lock'[a] = [lock[a] EXCEPT !.old = TRUE]
    BY <2>2 DEF AutosInv, TypeOK
  <2>4. /\ lock'[a].here = lock[a].here /\ lock'[a].by = lock[a].by
        /\ lock'[a].alive = lock[a].alive
    BY <2>1, <2>3 DEF LockFile
  <2> QED BY <2>2, <2>4 DEF AutosInv, TypeOK
<1>2. /\ UNCHANGED <<running, att, bare, kept>> /\ aged \subseteq aged'
      /\ InProgress(a) => a \in aged'
  BY DEF LockAges
<1>3. \A r \in Attempts : att[r].auto \in Autos
  BY DEF AutosInv, TypeOK, Attempt
<1>4. LockedPhase' /\ EnteredOnce' /\ GuardsHaveRun'
  BY <1>2 DEF AutosInv, LockedPhase, EnteredOnce, GuardsHaveRun, Entered
<1>5. LockOwned'
  BY <1>1, <1>2, <1>3 DEF AutosInv, LockOwned, Exposed, Mine, InProgress
<1>6. LocksHaveRun'
  BY <1>1, <1>2 DEF AutosInv, LocksHaveRun
<1> QED BY <1>4, <1>5, <1>6 DEF AutosInv

\* What touches neither attempts, RUNNING nor files.
LEMMA StillInv ==
  ASSUME AutosInv, TypeOK', UNCHANGED <<running, lock, att, bare, aged, kept>>
  PROVE  AutosInv'
BY DEF AutosInv, LockedPhase, EnteredOnce, LockOwned, GuardsHaveRun, LocksHaveRun,
       Entered, Mine, Exposed

-----------------------------------------------------------------------------
(* All the steps *)

\* The steps of one attempt.
LEMMA AttemptInv ==
  ASSUME AutosInv, TypeOK', NEW r \in Attempts,
         Prepare(r) \/ CreateLockHiccup(r) \/ BindFails(r) \/ ExecEnds(r) \/ Finalize(r)
  PROVE  AutosInv'
<1>0. att[r] \in Attempt /\ att \in [Attempts -> Attempt]
  BY DEF AutosInv, TypeOK
<1>1. ASSUME NEW step \in Steps, Goto(r, step)
      PROVE  /\ Only(r)
             /\ att'[r].auto = att[r].auto /\ att'[r].proc = att[r].proc
             /\ att'[r].locked = att[r].locked /\ att'[r].pc = step
  <2>1. att' = [att EXCEPT ![r] = [att[r] EXCEPT !.pc = step]]
    BY <1>1 DEF Goto
  <2>2. Only(r) /\ att'[r] = [att[r] EXCEPT !.pc = step]
    BY <1>0, <2>1 DEF Only
  <2> QED BY <1>0, <2>2 DEF Attempt
<1>2. LockedPhase /\ LockOwned
  BY DEF AutosInv
<1>3. CASE Publish(r)
  <2>1. Goto(r, "lock") /\ att[r].pc = "publish" /\ UNCHANGED <<running, lock, kept, bare, aged>>
    BY <1>3 DEF Publish
  <2> QED BY <1>1, <1>2, <2>1, MoveInv DEF Entered, LockedPhase, Steps, Exposed
<1>4. CASE Bind(r)
  <2>1. Goto(r, "exec") /\ att[r].pc = "bind" /\ UNCHANGED <<running, lock, kept, bare, aged>>
    BY <1>4 DEF Bind
  <2> QED BY <1>1, <1>2, <2>1, MoveInv DEF Entered, LockedPhase, LockOwned, Steps, Exposed
<1>5. CASE FoundLock(r)
  <2>1. att[r].pc = "lock" /\ UNCHANGED <<running, lock, kept, bare, aged>>
    BY <1>5 DEF FoundLock
  <2>2. att'[r] = [att[r] EXCEPT !.pc = "leave", !.stale = Stale(att[r].auto)] /\ Only(r)
    BY <1>0, <1>5 DEF FoundLock, Only
  <2>3. /\ att'[r].auto = att[r].auto /\ att'[r].proc = att[r].proc
        /\ att'[r].locked = att[r].locked /\ att'[r].pc = "leave"
    BY <1>0, <2>2 DEF Attempt
  <2>4. ~att[r].locked
    BY <1>2, <2>1 DEF LockedPhase
  <2>5. Entered(r)' <=> Entered(r)
    BY <2>1, <2>3 DEF Entered
  <2> QED BY <2>1, <2>2, <2>3, <2>4, <2>5, MoveInv DEF Exposed
<1>6. CASE BindFails(r)
  <2>1. Goto(r, "leave") /\ att[r].pc = "bind" /\ UNCHANGED <<running, lock, kept, bare, aged>>
    BY <1>6 DEF BindFails
  <2> QED BY <1>1, <1>2, <2>1, MoveInv DEF Entered, LockedPhase, Steps, Exposed
<1>7. CASE ExecEnds(r)
  <2>1. Goto(r, "record") /\ att[r].pc = "exec" /\ UNCHANGED <<running, lock, kept, bare, aged>>
    BY <1>7 DEF ExecEnds
  <2> QED BY <1>1, <1>2, <2>1, MoveInv DEF Entered, LockedPhase, LockOwned, Steps, Exposed
<1>8. CASE Record(r)
  <2>1. Goto(r, "leave") /\ att[r].pc = "record" /\ UNCHANGED <<running, lock, kept, bare, aged>>
    BY <1>8 DEF Record
  <2> QED BY <1>1, <1>2, <2>1, MoveInv DEF Entered, LockedPhase, Steps, Exposed
<1>9. CASE CreateLockHiccup(r)
  <2>1. /\ Goto(r, "bind") /\ att[r].pc = "lock" /\ UNCHANGED <<running, lock, kept, aged>>
        /\ bare' = bare \union {att[r].auto}
    BY <1>9 DEF CreateLockHiccup
  <2> QED BY <1>1, <1>2, <2>1, MoveInv DEF Entered, LockedPhase, Steps, Exposed
<1>10. CASE Uncancel(r)
  <2>0. att[r].pc = "uncancel" /\ UNCHANGED <<running, lock, kept, bare, aged>>
    BY <1>10 DEF Uncancel
  <2>1. CASE att[r].locked
    <3>1. Goto(r, "unlock")
      BY <1>10, <2>1 DEF Uncancel, Goto
    <3> QED BY <1>1, <1>2, <2>0, <2>1, <3>1, MoveInv DEF Entered, LockedPhase, Steps, Exposed
  <2>2. CASE ~att[r].locked /\ att[r].stale
    <3>1. Goto(r, "steal")
      BY <1>10, <2>2 DEF Uncancel, Goto
    <3> QED BY <1>1, <1>2, <2>0, <2>2, <3>1, MoveInv DEF Entered, LockedPhase, Steps, Exposed
  <2>3. CASE ~att[r].locked /\ ~att[r].stale
    <3>1. att'[r] = Idle /\ Only(r)
      BY <1>0, <1>10, <2>3 DEF Uncancel, Only
    <3>2. ~Entered(r)
      BY <2>0 DEF Entered
    <3> QED BY <2>0, <2>3, <3>1, <3>2, EndInv DEF Exposed
  <2>4. att[r].locked \in BOOLEAN /\ att[r].stale \in BOOLEAN
    BY <1>0 DEF Attempt
  <2> QED BY <2>1, <2>2, <2>3, <2>4
<1>11. CASE Guard(r) \/ CreateLock(r) \/ WritePid(r) \/ Steal(r) \/ BindRefused(r)
           \/ Leave(r) \/ Unlock(r)
  BY <1>11, GuardInv, CreateLockInv, WritePidInv, StealInv, RefusedInv, LeaveInv, UnlockInv
<1> QED BY <1>3, <1>4, <1>5, <1>6, <1>7, <1>8, <1>9, <1>10, <1>11 DEF Prepare, Finalize

\* Every step keeps the invariant.
LEMMA NextInv == AutosInv /\ [Next]_vars => AutosInv'
<1> SUFFICES ASSUME AutosInv, [Next]_vars PROVE AutosInv'
  OBVIOUS
<1>0. TypeOK'
  BY TypeNext DEF AutosInv
<1>1. ASSUME NEW a \in Autos, SlotComes(a) \/ RunNow(a) \/ LockAges(a) PROVE AutosInv'
  <2>1. CASE SlotComes(a)
    BY <1>0, <2>1, StillInv DEF SlotComes
  <2>2. CASE RunNow(a)
    <3>1. Free # {} /\ Begin(Fresh, App, a, FALSE) /\ UNCHANGED <<running, lock, bare, aged, kept>>
      BY <2>2 DEF RunNow
    <3> QED BY <1>0, <3>1, BeginInv, AutomationsAssumption
  <2>3. CASE LockAges(a)
    BY <1>0, <2>3, AgesInv
  <2> QED BY <1>1, <2>1, <2>2, <2>3
<1>2. ASSUME NEW p \in Procs, Pass(p) PROVE AutosInv'
  <2>1. CASE Tick(p)
    BY <1>0, <2>1, StillInv DEF Tick
  <2>2. ASSUME NEW a \in Autos, LaunchDue(p, a) PROVE AutosInv'
    <3>1. Free # {} /\ Begin(Fresh, p, a, TRUE) /\ UNCHANGED <<running, lock, bare, aged, kept>>
      BY <2>2 DEF LaunchDue
    <3> QED BY <1>0, <3>1, BeginInv
  <2>3. CASE PassGoesOn(p)
    BY <1>0, <2>3, StillInv DEF PassGoesOn
  <2> QED BY <1>2, <2>1, <2>2, <2>3 DEF Pass
<1>3. ASSUME NEW p \in Procs, Crash(p) \/ Exit(p) PROVE AutosInv'
  BY <1>0, <1>3, DiesInv DEF Crash, Exit
<1>4. ASSUME NEW p \in Procs, BootTask(p) PROVE AutosInv'
  BY <1>0, <1>4, StillInv DEF BootTask
<1>5. ASSUME NEW r \in Attempts,
             Prepare(r) \/ CreateLockHiccup(r) \/ BindFails(r) \/ ExecEnds(r) \/ Finalize(r)
      PROVE  AutosInv'
  BY <1>0, <1>5, AttemptInv
<1>6. CASE BootApp \/ ToggleBots
  BY <1>0, <1>6, StillInv DEF BootApp, ToggleBots
<1>7. CASE UNCHANGED vars
  BY <1>0, <1>7, StillInv DEF vars
<1> QED BY <1>1, <1>2, <1>3, <1>4, <1>5, <1>6, <1>7 DEF Next

\* The invariant holds throughout.
LEMMA Invariance == Spec => []AutosInv
<1> QED BY InitInv, NextInv, PTL DEF Spec

-----------------------------------------------------------------------------
\* Every variable keeps its type, for all processes, automations and bounds.
THEOREM TypeCorrect == Spec => []TypeOK
<1>1. AutosInv => TypeOK
  BY DEF AutosInv
<1> QED BY <1>1, Invariance, PTL

\* Who works on an automation that neither lacked its file nor outlived it made the
\* file and still owns it, and within a process RUNNING alone is enough.  Nothing
\* is assumed of how long a run takes.
THEOREM Exclusive == Spec => []ExclusiveRuns
<1>1. AutosInv => ExclusiveRuns
  BY DEF AutosInv, ExclusiveRuns, EnteredOnce, LockOwned, Exposed, Entered, Working
<1> QED BY <1>1, Invariance, PTL

\* No failure path but the refusal of a bot's job leaves RUNNING occupied.
THEOREM NoRunningLeak == Spec => []GuardsHaveRun
<1>1. AutosInv => GuardsHaveRun
  BY DEF AutosInv
<1> QED BY <1>1, Invariance, PTL

\* Nor a lock file of a process that lives.
THEOREM NoLockLeak == Spec => []LocksHaveRun
<1>1. AutosInv => LocksHaveRun
  BY DEF AutosInv
<1> QED BY <1>1, Invariance, PTL
=============================================================================
