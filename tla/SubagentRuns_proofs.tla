------------------------- MODULE SubagentRuns_proofs -------------------------
(***************************************************************************)
(* What TLAPS proves of SubagentRuns for any number of definitions, runs   *)
(* and restarts and any caps: types, that no slot leaks, by how much a     *)
(* definition's runs may exceed its cap, and that a row reads "ok" only    *)
(* truthfully.                                                             *)
(***************************************************************************)
EXTENDS SubagentRuns, TLAPS, FiniteSetTheorems

-----------------------------------------------------------------------------
(* The steps as they touch one run *)

\* A step gives a slot to a run that owed none, or takes it back from one run,
\* or moves no slot and loses no run that owes one.
TakesSlot(r) ==
  /\ running' = [running EXCEPT ![agent[r]] = @ + 1]
  /\ Active < AppCap /\ running[agent[r]] < Cap[agent[r]]
  /\ ~Owes(r) /\ Owes(r)'
  /\ \A x \in Runs \ {r} : Owes(x)' = Owes(x)

GivesSlot(r) ==
  /\ Release(agent[r])
  /\ \A x \in Runs \ {r} : Owes(x)' = Owes(x)

MovesNoSlot ==
  /\ running' = running
  /\ \A x \in Runs : Owes(x) => Owes(x)'

\* A registry that counts nothing is within the app-wide cap.
LEMMA EmptyRegistry ==
  ASSUME \A g \in Agents : running[g] = 0
  PROVE  SlotsFinite /\ WithinAppCap
<1>1. \A g \in Agents : {g} \X (1..running[g]) = {}
  OBVIOUS
<1>2. Slots = {}
  BY <1>1 DEF Slots
<1>3. IsFiniteSet(Slots) /\ Cardinality(Slots) = 0
  BY <1>2, FS_EmptySet
<1> QED BY <1>3, RunsAssumption DEF SlotsFinite, WithinAppCap, Active

\* The initial state has every part of the invariant.
LEMMA InitInv == Init => RunsInv
<1> SUFFICES ASSUME Init PROVE RunsInv
  OBVIOUS
<1> USE DEF Init
<1>1. TypeOK
  <2>1. surface \in [Runs -> {"manual", "mesh", "automation"}]
    BY RunsAssumption
  <2>2. 0 \in 0..MaxRestarts
    BY RunsAssumption
  <2> QED BY <2>1, <2>2 DEF TypeOK, Steps, WatcherSteps
<1>2. BornBare /\ GraceCovers /\ OkIsLast
  BY DEF BornBare, GraceCovers, OkIsLast
<1>6. Balanced
  <2> SUFFICES ASSUME NEW g \in Agents
               PROVE  Cardinality(Holders(g)) <= running[g] + Cardinality(Doubles(g))
    BY DEF Balanced
  <2>1. Holders(g) = {} /\ Doubles(g) = {}
    BY DEF Holders, Doubles, Owes
  <2> QED BY <2>1, FS_EmptySet
<1>3. NoSlotLeak
  <2> SUFFICES ASSUME NEW g \in Agents
               PROVE  0 <= Cardinality(Holders(g))
    BY DEF NoSlotLeak, Holders
  <2>1. IsFiniteSet(Holders(g))
    BY RunsAssumption, FS_Subset DEF Holders
  <2> QED BY <2>1, FS_CardinalityType
<1>4. WithinAgentCaps
  BY RunsAssumption DEF WithinAgentCaps
<1>5. SlotsFinite /\ WithinAppCap
  <2>1. \A g \in Agents : running[g] = 0
    OBVIOUS
  <2> QED BY <2>1, EmptyRegistry
<1> QED BY <1>1, <1>2, <1>3, <1>4, <1>5, <1>6 DEF RunsInv, WithinCaps

-----------------------------------------------------------------------------
(* Types *)

\* A release keeps the registry typed; so does settling the row.
LEMMA ReleaseType ==
  ASSUME TypeOK, NEW g \in Agents, Release(g)
  PROVE  running' \in [Agents -> Nat]
BY DEF TypeOK, Release

\* Settling a row keeps the history typed.
LEMMA FinishType ==
  ASSUME TypeOK, NEW r \in Runs, NEW st \in {"ok", "error"}, Finish(r, st)
  PROVE  row' \in [Runs -> {"none", "running", "ok", "error"}]
BY DEF TypeOK, Finish

\* The spawn code and the sessions keep every variable typed.
LEMMA TypeSpawn ==
  ASSUME TypeOK, NEW r \in Runs, SpawnStep(r) \/ Resolve(r) \/ UserChats(r)
  PROVE  TypeOK'
<1> USE DEF TypeOK, Goto, Steps, WatcherSteps, past
<1>0. agent[r] \in Agents
  OBVIOUS
<1>1. CASE Resolve(r) \/ UserChats(r) \/ AcquireFails(r) \/ Dispatch(r) \/ DispatchFails(r)
  BY <1>1 DEF Resolve, UserChats, AcquireFails, Dispatch, DispatchFails
<1>2. CASE Acquire(r)
  BY <1>0, <1>2 DEF Acquire, TryAcquireRunning
<1>3. CASE CreateFails(r) \/ FailFastRelease(r) \/ OneShotReleases(r)
  BY <1>0, <1>3, ReleaseType DEF CreateFails, FailFastRelease, OneShotReleases
<1>4. CASE Arm(r) \/ OneShotStarts(r)
  BY <1>4 DEF Arm, OneShotStarts
<1>5. CASE FailFastSettle(r)
  BY <1>5, FinishType DEF FailFastSettle
<1> QED BY <1>1, <1>2, <1>3, <1>4, <1>5 DEF SpawnStep

\* The watcher, the one-shots and the ends of turns keep every variable typed.
LEMMA TypeWatch ==
  ASSUME TypeOK, NEW r \in Runs, WatcherStep(r) \/ TurnOver(r)
  PROVE  TypeOK'
<1> USE DEF TypeOK, Goto, WatcherGoto, Steps, WatcherSteps, past
<1>0. agent[r] \in Agents
  OBVIOUS
<1>1. CASE SeesBusy(r) \/ GraceOver(r) \/ SeesIdle(r) \/ CeilingOver(r)
  BY <1>1 DEF SeesBusy, GraceOver, SeesIdle, CeilingOver
<1>2. CASE WatcherReleases(r)
  BY <1>0, <1>2, ReleaseType DEF WatcherReleases
<1>3. CASE WatcherSettles(r)
  BY <1>3, FinishType DEF WatcherSettles
<1>4. CASE TurnOver(r)
  <2>1. PICK st \in {"ok", "error"} : TurnEnds(r, st) \/ OneShotReturns(r, st)
    BY <1>4 DEF TurnOver
  <2>2. CASE TurnEnds(r, st)
    BY <2>2 DEF TurnEnds
  <2>3. CASE OneShotReturns(r, st)
    BY <2>3, FinishType DEF OneShotReturns
  <2> QED BY <2>1, <2>2, <2>3
<1> QED BY <1>1, <1>2, <1>3, <1>4 DEF WatcherStep

\* Every step keeps every variable typed.
LEMMA TypeNext == TypeOK /\ [Next]_vars => TypeOK'
<1> SUFFICES ASSUME TypeOK, [Next]_vars PROVE TypeOK'
  OBVIOUS
<1>1. CASE \E r \in Runs : Resolve(r) \/ SpawnStep(r) \/ UserChats(r)
  BY <1>1, TypeSpawn
<1>2. CASE \E r \in Runs : TurnOver(r) \/ WatcherStep(r)
  BY <1>2, TypeWatch
<1>3. CASE \E g \in Agents : Delete(g)
  BY <1>3 DEF Delete, past, TypeOK
<1>4. CASE \E stale \in SUBSET Runs : Restart(stale)
  BY <1>4, RunsAssumption DEF Restart, TypeOK, Steps, WatcherSteps
<1>5. CASE UNCHANGED vars
  BY <1>5 DEF vars, past, TypeOK
<1> QED BY <1>1, <1>2, <1>3, <1>4, <1>5 DEF Next

-----------------------------------------------------------------------------
(* A run before its session, and a one-shot *)

\* Nothing but Arm makes a watcher, nothing but Arm and the one-shot a history row.
LEMMA BornBareNext == TypeOK /\ BornBare /\ [Next]_vars => BornBare'
<1> SUFFICES ASSUME TypeOK, BornBare, [Next]_vars PROVE BornBare'
  OBVIOUS
<1> USE DEF TypeOK, BornBare, Goto, WatcherGoto
<1>1. ASSUME NEW r \in Runs, Resolve(r) \/ SpawnStep(r) \/ UserChats(r) PROVE BornBare'
  <2>1. CASE Resolve(r) \/ UserChats(r) \/ AcquireFails(r) \/ Dispatch(r) \/ DispatchFails(r)
    BY <2>1 DEF Resolve, UserChats, AcquireFails, Dispatch, DispatchFails
  <2>2. CASE Acquire(r) \/ CreateFails(r) \/ FailFastRelease(r) \/ OneShotReleases(r)
    BY <2>2 DEF Acquire, CreateFails, FailFastRelease, OneShotReleases
  <2>3. CASE Arm(r) \/ OneShotStarts(r)
    BY <2>3 DEF Arm, OneShotStarts
  <2>4. CASE FailFastSettle(r)
    BY <2>4 DEF FailFastSettle, Finish
  <2> QED BY <1>1, <2>1, <2>2, <2>3, <2>4 DEF SpawnStep
<1>2. ASSUME NEW r \in Runs, TurnOver(r) \/ WatcherStep(r) PROVE BornBare'
  <2>1. CASE SeesBusy(r) \/ GraceOver(r) \/ SeesIdle(r) \/ CeilingOver(r) \/ WatcherReleases(r)
    BY <2>1 DEF SeesBusy, GraceOver, SeesIdle, CeilingOver, WatcherReleases
  <2>2. CASE WatcherSettles(r)
    BY <2>2 DEF WatcherSettles, Finish
  <2>3. CASE TurnOver(r)
    BY <2>3 DEF TurnOver, TurnEnds, OneShotReturns, SessionBusy, Finish
  <2> QED BY <1>2, <2>1, <2>2, <2>3 DEF WatcherStep
<1>3. CASE \E g \in Agents : Delete(g)
  BY <1>3 DEF Delete
<1>4. CASE \E stale \in SUBSET Runs : Restart(stale)
  BY <1>4 DEF Restart
<1>5. CASE UNCHANGED vars
  BY <1>5 DEF vars
<1> QED BY <1>1, <1>2, <1>3, <1>4, <1>5 DEF Next

-----------------------------------------------------------------------------
(* Slots *)

\* Every spawn step takes one slot, gives one back or moves none.
LEMMA SpawnSlots ==
  ASSUME TypeOK, BornBare, NEW r \in Runs, SpawnStep(r) \/ Resolve(r) \/ UserChats(r)
  PROVE  TakesSlot(r) \/ GivesSlot(r) \/ MovesNoSlot
<1> USE DEF TypeOK, BornBare, Goto, Owes
<1>1. CASE Resolve(r) \/ UserChats(r) \/ AcquireFails(r) \/ Dispatch(r) \/ DispatchFails(r)
  BY <1>1 DEF Resolve, UserChats, AcquireFails, Dispatch, DispatchFails, MovesNoSlot
<1>2. CASE Acquire(r)
  BY <1>2 DEF Acquire, TryAcquireRunning, TakesSlot
<1>3. CASE CreateFails(r) \/ FailFastRelease(r) \/ OneShotReleases(r)
  BY <1>3 DEF CreateFails, FailFastRelease, OneShotReleases, GivesSlot
<1>4. CASE Arm(r) \/ OneShotStarts(r)
  BY <1>4 DEF Arm, OneShotStarts, MovesNoSlot
<1>5. CASE FailFastSettle(r)
  BY <1>5 DEF FailFastSettle, MovesNoSlot
<1> QED BY <1>1, <1>2, <1>3, <1>4, <1>5 DEF SpawnStep

\* Every other step of a run gives a slot back or moves none.
LEMMA WatchSlots ==
  ASSUME TypeOK, BornBare, NEW r \in Runs, TurnOver(r) \/ WatcherStep(r)
  PROVE  GivesSlot(r) \/ MovesNoSlot
<1> USE DEF TypeOK, BornBare, Goto, WatcherGoto, Owes
<1>1. CASE SeesBusy(r) \/ GraceOver(r) \/ SeesIdle(r) \/ CeilingOver(r)
  BY <1>1 DEF SeesBusy, GraceOver, SeesIdle, CeilingOver, MovesNoSlot
<1>2. CASE WatcherReleases(r)
  BY <1>2 DEF WatcherReleases, GivesSlot
<1>3. CASE WatcherSettles(r)
  BY <1>3 DEF WatcherSettles, MovesNoSlot
<1>4. CASE TurnOver(r)
  BY <1>4 DEF TurnOver, TurnEnds, OneShotReturns, SessionBusy, MovesNoSlot
<1> QED BY <1>1, <1>2, <1>3, <1>4 DEF WatcherStep

\* The runs counted against a definition are finitely many, and losing one of
\* them lowers their number by one at most.
LEMMA HoldersFinite ==
  ASSUME NEW g \in Agents
  PROVE  IsFiniteSet(Holders(g)) /\ Cardinality(Holders(g)) \in Nat
<1>1. IsFiniteSet(Holders(g))
  BY RunsAssumption, FS_Subset DEF Holders
<1> QED BY <1>1, FS_CardinalityType

\* A set that keeps all members of another but one is at most one smaller.
LEMMA OneLess ==
  ASSUME NEW S, IsFiniteSet(S), NEW T, IsFiniteSet(T), NEW x, S \ {x} \subseteq T
  PROVE  Cardinality(S) - 1 <= Cardinality(T) /\ Cardinality(S) \in Nat /\ Cardinality(T) \in Nat
<1>1. /\ IsFiniteSet(S \ {x})
      /\ Cardinality(S \ {x}) = IF x \in S THEN Cardinality(S) - 1 ELSE Cardinality(S)
  BY FS_RemoveElement
<1>2. Cardinality(S \ {x}) <= Cardinality(T)
  BY <1>1, FS_Subset
<1>3. Cardinality(S) \in Nat /\ Cardinality(T) \in Nat
  BY FS_CardinalityType
<1> QED BY <1>1, <1>2, <1>3

\* One step of the kinds above keeps both slot invariants.
LEMMA SlotStep ==
  ASSUME TypeOK, NoSlotLeak, WithinAgentCaps, agent' = agent, NEW r \in Runs,
         TakesSlot(r) \/ GivesSlot(r) \/ MovesNoSlot
  PROVE  NoSlotLeak' /\ WithinAgentCaps'
<1> SUFFICES ASSUME NEW g \in Agents
             PROVE  running'[g] <= Cardinality(Holders(g)') /\ running'[g] <= Cap[g]
  BY DEF NoSlotLeak, WithinAgentCaps, Holders
<1>1. running[g] \in Nat /\ running[g] <= Cardinality(Holders(g)) /\ running[g] <= Cap[g]
  BY DEF TypeOK, NoSlotLeak, WithinAgentCaps, Holders
<1>2. Cap[g] \in Nat /\ agent[r] \in Agents
  BY RunsAssumption DEF TypeOK
<1>3. IsFiniteSet(Holders(g)) /\ Cardinality(Holders(g)) \in Nat
  BY HoldersFinite
<1>4. IsFiniteSet(Holders(g)')
  BY RunsAssumption, FS_Subset DEF Holders
<1>5. Cardinality(Holders(g)') \in Nat
  BY <1>4, FS_CardinalityType
<1>6. CASE TakesSlot(r)
  <2>1. CASE agent[r] = g
    <3>1. Holders(g)' = Holders(g) \cup {r} /\ r \notin Holders(g)
      BY <1>6, <2>1 DEF TakesSlot, Holders
    <3>2. Cardinality(Holders(g)') = Cardinality(Holders(g)) + 1
      BY <1>3, <3>1, FS_AddElement
    <3>3. running'[g] = running[g] + 1 /\ running[g] < Cap[g]
      BY <1>6, <2>1 DEF TakesSlot, TypeOK
    <3> QED BY <1>1, <1>2, <1>3, <3>2, <3>3
  <2>2. CASE agent[r] # g
    <3>1. Holders(g)' = Holders(g)
      BY <1>6, <2>2 DEF TakesSlot, Holders
    <3>2. running'[g] = running[g]
      BY <1>6, <2>2, <1>2 DEF TakesSlot, TypeOK
    <3> QED BY <1>1, <3>1, <3>2
  <2> QED BY <2>1, <2>2
<1>7. CASE GivesSlot(r)
  <2>1. CASE agent[r] = g
    <3>1. Holders(g) \ {r} \subseteq Holders(g)'
      BY <1>7 DEF GivesSlot, Holders
    <3>2. Cardinality(Holders(g)) - 1 <= Cardinality(Holders(g)')
      BY <1>3, <1>4, <3>1, OneLess
    <3>3. running'[g] = IF running[g] > 0 THEN running[g] - 1 ELSE 0
      BY <1>7, <2>1 DEF GivesSlot, Release, TypeOK
    <3> QED BY <1>1, <1>2, <1>3, <1>5, <3>2, <3>3
  <2>2. CASE agent[r] # g
    <3>1. Holders(g)' = Holders(g)
      BY <1>7, <2>2 DEF GivesSlot, Holders
    <3>2. running'[g] = running[g]
      BY <1>7, <2>2, <1>2 DEF GivesSlot, Release, TypeOK
    <3> QED BY <1>1, <3>1, <3>2
  <2> QED BY <2>1, <2>2
<1>8. CASE MovesNoSlot
  <2>1. Holders(g) \subseteq Holders(g)'
    BY <1>8 DEF MovesNoSlot, Holders
  <2>2. Cardinality(Holders(g)) <= Cardinality(Holders(g)')
    BY <1>4, <2>1, FS_Subset
  <2> QED BY <1>1, <1>3, <1>5, <1>8, <2>2 DEF MovesNoSlot
<1> QED BY <1>6, <1>7, <1>8

\* What a slot taken, given back or left alone does to the slots counted.
LEMMA SlotsChange ==
  ASSUME TypeOK, NEW r \in Runs, TakesSlot(r) \/ GivesSlot(r) \/ MovesNoSlot
  PROVE  \/ Slots' \subseteq Slots
         \/ Active < AppCap /\ \E x : Slots' \subseteq Slots \cup {x}
<1>1. agent[r] \in Agents /\ running[agent[r]] \in Nat
  BY DEF TypeOK
<1>2. CASE TakesSlot(r)
  <2> DEFINE n == running[agent[r]] + 1
  <2>1. ASSUME NEW g \in Agents, NEW i \in 1..running'[g]
        PROVE  i \in 1..running[g] \/ (g = agent[r] /\ i = n)
    BY <1>1, <1>2, <2>1 DEF TakesSlot, TypeOK
  <2>2. Slots' \subseteq Slots \cup {<<agent[r], n>>}
    BY <2>1 DEF Slots
  <2> QED BY <1>2, <2>2 DEF TakesSlot
<1>3. CASE GivesSlot(r)
  <2>1. ASSUME NEW g \in Agents, NEW i \in 1..running'[g]
        PROVE  i \in 1..running[g]
    BY <1>1, <1>3, <2>1 DEF GivesSlot, Release, TypeOK
  <2> QED BY <2>1 DEF Slots
<1>4. CASE MovesNoSlot
  BY <1>4 DEF MovesNoSlot, Slots
<1> QED BY <1>2, <1>3, <1>4

\* The sum over all definitions stays within the app-wide cap.
LEMMA AppCapStep ==
  ASSUME TypeOK, SlotsFinite, WithinAppCap, NEW r \in Runs,
         TakesSlot(r) \/ GivesSlot(r) \/ MovesNoSlot
  PROVE  SlotsFinite' /\ WithinAppCap'
<1>1. IsFiniteSet(Slots) /\ Active \in Nat /\ Active <= AppCap /\ AppCap \in Nat
  BY RunsAssumption, FS_CardinalityType DEF SlotsFinite, WithinAppCap, Active
<1>2. CASE Slots' \subseteq Slots
  <2>1. IsFiniteSet(Slots') /\ Cardinality(Slots') <= Active
    BY <1>1, <1>2, FS_Subset DEF Active
  <2>2. Cardinality(Slots') \in Nat
    BY <2>1, FS_CardinalityType
  <2> QED BY <1>1, <2>1, <2>2 DEF SlotsFinite, WithinAppCap, Active
<1>3. CASE Active < AppCap /\ \E x : Slots' \subseteq Slots \cup {x}
  <2>1. PICK x : Slots' \subseteq Slots \cup {x}
    BY <1>3
  <2>2. /\ IsFiniteSet(Slots \cup {x})
        /\ Cardinality(Slots \cup {x}) = IF x \in Slots THEN Active ELSE Active + 1
    BY <1>1, FS_AddElement DEF Active
  <2>3. IsFiniteSet(Slots') /\ Cardinality(Slots') <= Cardinality(Slots \cup {x})
    BY <2>1, <2>2, FS_Subset
  <2>4. Cardinality(Slots') \in Nat
    BY <2>3, FS_CardinalityType
  <2>5. Cardinality(Slots') <= AppCap
    BY <1>1, <1>3, <2>2, <2>3, <2>4
  <2> QED BY <2>3, <2>5 DEF SlotsFinite, WithinAppCap, Active
<1> QED BY <1>2, <1>3, SlotsChange

\* No step leaves more slots counted than runs that owe one, nor a count past its cap.
LEMMA SlotsNext ==
  TypeOK /\ BornBare /\ NoSlotLeak /\ SlotsFinite /\ WithinCaps /\ [Next]_vars
    => NoSlotLeak' /\ SlotsFinite' /\ WithinCaps'
<1> DEFINE Kept == NoSlotLeak' /\ SlotsFinite' /\ WithinAppCap' /\ WithinAgentCaps'
<1> SUFFICES ASSUME TypeOK, BornBare, NoSlotLeak, SlotsFinite, WithinAppCap,
                    WithinAgentCaps, [Next]_vars
             PROVE  Kept
  BY DEF WithinCaps
<1>1. ASSUME NEW r \in Runs, Resolve(r) \/ SpawnStep(r) \/ UserChats(r) PROVE Kept
  <2>1. agent' = agent
    BY <1>1 DEF Resolve, UserChats, SpawnStep, Acquire, AcquireFails, CreateFails, Arm,
       Dispatch, DispatchFails, FailFastRelease, FailFastSettle, OneShotStarts, OneShotReleases
  <2>2. TakesSlot(r) \/ GivesSlot(r) \/ MovesNoSlot
    BY <1>1, SpawnSlots
  <2> QED BY <2>1, <2>2, SlotStep, AppCapStep
<1>2. ASSUME NEW r \in Runs, TurnOver(r) \/ WatcherStep(r) PROVE Kept
  <2>1. agent' = agent
    BY <1>2 DEF TurnOver, TurnEnds, OneShotReturns, WatcherStep, SeesBusy, GraceOver,
       SeesIdle, CeilingOver, WatcherReleases, WatcherSettles
  <2>2. GivesSlot(r) \/ MovesNoSlot
    BY <1>2, WatchSlots
  <2> QED BY <2>1, <2>2, SlotStep, AppCapStep
<1>3. CASE (\E g \in Agents : Delete(g)) \/ UNCHANGED vars
  BY <1>3 DEF Delete, vars, NoSlotLeak, WithinAgentCaps, Owes, Holders, SlotsFinite, WithinAppCap,
              Active, Slots
<1>4. CASE \E stale \in SUBSET Runs : Restart(stale)
  <2>1. running' = [g \in Agents |-> 0]
    BY <1>4 DEF Restart
  <2>2. ASSUME NEW g \in Agents PROVE 0 <= Cardinality(Holders(g)')
    <3>1. IsFiniteSet(Holders(g)')
      BY RunsAssumption, FS_Subset DEF Holders
    <3> QED BY <3>1, FS_CardinalityType
  <2>3. \A g \in Agents : 0 <= Cap[g]
    BY RunsAssumption
  <2>4. SlotsFinite' /\ WithinAppCap'
    <3>1. \A g \in Agents : {g} \X (1..running'[g]) = {}
      BY <2>1
    <3>2. Slots' = {}
      BY <3>1 DEF Slots
    <3>3. IsFiniteSet(Slots') /\ Cardinality(Slots') = 0
      BY <3>2, FS_EmptySet
    <3> QED BY <3>3, RunsAssumption DEF SlotsFinite, WithinAppCap, Active
  <2> QED BY <2>1, <2>2, <2>3, <2>4 DEF NoSlotLeak, WithinAgentCaps, Holders
<1> QED BY <1>1, <1>2, <1>3, <1>4 DEF Next

-----------------------------------------------------------------------------
(* Slots held and not counted *)

\* A step that gives back the slot of a run that owed one, one that gives back
\* a slot its watcher still owes, and one that frees no slot and takes none.
GivesOwn(r) ==
  /\ Release(agent[r])
  /\ Owes(r) /\ ~Owes(r)' /\ \A x \in Runs \ {r} : Owes(x)' = Owes(x)
  /\ twice' = twice

GivesTwice(r) ==
  /\ Release(agent[r])
  /\ \A x \in Runs : Owes(x)' = Owes(x)
  /\ r \notin twice /\ twice' = twice \union {r}

GivesNone == running' = running /\ twice' = twice /\ \A x \in Runs : Owes(x)' => Owes(x)

\* The kinds of the spawn's steps.
LEMMA SpawnGives ==
  ASSUME TypeOK, BornBare, Balanced, NEW r \in Runs, SpawnStep(r) \/ Resolve(r) \/ UserChats(r)
  PROVE  /\ (TakesSlot(r) /\ twice' = twice) \/ GivesOwn(r) \/ GivesTwice(r) \/ GivesNone
         /\ \A x \in twice' : pc'[x] \in {"released", "returned", "chat", "idle", "gone"}
<1> USE DEF TypeOK, BornBare, Balanced, Goto, Owes, past
<1>1. CASE Resolve(r) \/ UserChats(r) \/ AcquireFails(r) \/ Dispatch(r) \/ DispatchFails(r)
  BY <1>1 DEF Resolve, UserChats, AcquireFails, Dispatch, DispatchFails, GivesNone
<1>2. CASE Acquire(r)
  BY <1>2 DEF Acquire, TryAcquireRunning, TakesSlot
<1>3. CASE CreateFails(r)
  <2>1. GivesOwn(r)
    BY <1>3 DEF CreateFails, GivesOwn
  <2>2. r \notin twice
    BY <1>3 DEF CreateFails
  <2> QED BY <1>3, <2>1, <2>2 DEF CreateFails
<1>7. CASE OneShotReleases(r)
  <2>1. surface[r] = "automation" /\ r \notin twice
    BY <1>7 DEF OneShotReleases
  <2>3. Owes(r) /\ ~Owes(r)'
    <3>1. watcher[r] = "off" /\ pc'[r] = "gone" /\ surface' = surface /\ watcher' = watcher
      BY <1>7, <2>1 DEF OneShotReleases
    <3>2. pc[r] = "settled"
      BY <1>7 DEF OneShotReleases
    <3>3. surface'[r] = "automation" /\ watcher'[r] = "off"
      BY <2>1, <3>1
    <3> QED BY <2>1, <3>1, <3>2, <3>3
  <2>4. \A x \in Runs \ {r} : Owes(x)' = Owes(x)
    BY <1>7 DEF OneShotReleases
  <2>2. GivesOwn(r)
    BY <1>7, <2>3, <2>4 DEF OneShotReleases, GivesOwn
  <2>5. \A x \in twice' : pc'[x] \in {"released", "returned", "chat", "idle", "gone"}
    <3>1. twice' = twice
      BY <1>7 DEF OneShotReleases
    <3>2. \A x \in Runs \ {r} : pc'[x] = pc[x]
      BY <1>7 DEF OneShotReleases
    <3> QED BY <2>1, <3>1, <3>2
  <2> QED BY <2>2, <2>5
<1>4. CASE FailFastRelease(r)
  BY <1>4 DEF FailFastRelease, GivesTwice
<1>5. CASE Arm(r) \/ OneShotStarts(r)
  BY <1>5 DEF Arm, OneShotStarts, GivesNone
<1>6. CASE FailFastSettle(r)
  BY <1>6 DEF FailFastSettle, GivesNone
<1> QED BY <1>1, <1>2, <1>3, <1>7, <1>4, <1>5, <1>6 DEF SpawnStep

\* The kinds of all other steps of a run.
LEMMA WatchGives ==
  ASSUME TypeOK, BornBare, Balanced, NEW r \in Runs, TurnOver(r) \/ WatcherStep(r)
  PROVE  /\ GivesOwn(r) \/ GivesNone
         /\ \A x \in twice' : pc'[x] \in {"released", "returned", "chat", "idle", "gone"}
<1> USE DEF TypeOK, BornBare, Balanced, Goto, WatcherGoto, Owes, past
<1>1. CASE SeesBusy(r) \/ GraceOver(r) \/ SeesIdle(r) \/ CeilingOver(r)
  BY <1>1 DEF SeesBusy, GraceOver, SeesIdle, CeilingOver, GivesNone
<1>2. CASE WatcherReleases(r)
  BY <1>2 DEF WatcherReleases, GivesOwn
<1>3. CASE WatcherSettles(r)
  BY <1>3 DEF WatcherSettles, GivesNone
<1>4. CASE TurnOver(r)
  BY <1>4 DEF TurnOver, TurnEnds, OneShotReturns, SessionBusy, GivesNone
<1> QED BY <1>1, <1>2, <1>3, <1>4 DEF WatcherStep

\* The runs that gave back twice are finitely many.
LEMMA DoublesFinite ==
  ASSUME TypeOK, NEW g \in Agents
  PROVE  IsFiniteSet(Doubles(g)) /\ Cardinality(Doubles(g)) \in Nat
<1>1. IsFiniteSet(Doubles(g))
  BY RunsAssumption, FS_Subset DEF Doubles, TypeOK
<1> QED BY <1>1, FS_CardinalityType

\* One step of the kinds above leaves no more slots held and not counted than
\* runs that gave back twice.
LEMMA BalanceStep ==
  ASSUME TypeOK, Balanced, agent' = agent, NEW r \in Runs,
         (TakesSlot(r) /\ twice' = twice) \/ GivesOwn(r) \/ GivesTwice(r) \/ GivesNone
  PROVE  \A g \in Agents : Cardinality(Holders(g)') <= running'[g] + Cardinality(Doubles(g)')
<1> SUFFICES ASSUME NEW g \in Agents
             PROVE  Cardinality(Holders(g)') <= running'[g] + Cardinality(Doubles(g)')
  OBVIOUS
<1> DEFINE held == Cardinality(Holders(g))
           dbl == Cardinality(Doubles(g))
<1>1. /\ running[g] \in Nat /\ held \in Nat /\ dbl \in Nat /\ held <= running[g] + dbl
      /\ IsFiniteSet(Holders(g)) /\ IsFiniteSet(Doubles(g))
  BY HoldersFinite, DoublesFinite DEF TypeOK, Balanced
<1>2. CASE TakesSlot(r) /\ twice' = twice
  <2>1. Doubles(g)' = Doubles(g)
    BY <1>2 DEF Doubles
  <2>2. CASE agent[r] = g
    <3>1. Holders(g)' = Holders(g) \cup {r} /\ r \notin Holders(g)
      BY <1>2, <2>2 DEF TakesSlot, Holders
    <3>2. Cardinality(Holders(g)') = held + 1
      BY <1>1, <3>1, FS_AddElement
    <3>3. running'[g] = running[g] + 1
      BY <1>2, <2>2 DEF TakesSlot, TypeOK
    <3> QED BY <1>1, <2>1, <3>2, <3>3
  <2>3. CASE agent[r] # g
    <3>1. Holders(g)' = Holders(g) /\ running'[g] = running[g]
      BY <1>2, <2>3 DEF TakesSlot, Holders, TypeOK
    <3> QED BY <1>1, <2>1, <3>1
  <2> QED BY <2>2, <2>3
<1>3. CASE GivesOwn(r)
  <2>1. Doubles(g)' = Doubles(g)
    BY <1>3 DEF Doubles, GivesOwn
  <2>2. CASE agent[r] = g
    <3>1. Holders(g)' = Holders(g) \ {r} /\ r \in Holders(g)
      BY <1>3, <2>2 DEF GivesOwn, Holders
    <3>2. Cardinality(Holders(g)') = held - 1
      BY <1>1, <3>1, FS_RemoveElement
    <3>3. running'[g] >= running[g] - 1
      BY <1>1, <1>3, <2>2 DEF GivesOwn, Release, TypeOK
    <3>4. running'[g] \in Nat
      BY <1>1, <1>3, <2>2 DEF GivesOwn, Release, TypeOK
    <3> QED BY <1>1, <2>1, <3>2, <3>3, <3>4
  <2>3. CASE agent[r] # g
    <3>1. Holders(g)' = Holders(g) /\ running'[g] = running[g]
      BY <1>3, <2>3 DEF GivesOwn, Release, Holders, TypeOK
    <3> QED BY <1>1, <2>1, <3>1
  <2> QED BY <2>2, <2>3
<1>4. CASE GivesTwice(r)
  <2>1. Holders(g)' = Holders(g)
    BY <1>4 DEF Holders, GivesTwice
  <2>2. CASE agent[r] = g
    <3>1. Doubles(g)' = Doubles(g) \cup {r} /\ r \notin Doubles(g)
      BY <1>4, <2>2 DEF GivesTwice, Doubles
    <3>2. Cardinality(Doubles(g)') = dbl + 1
      BY <1>1, <3>1, FS_AddElement
    <3>3. running'[g] >= running[g] - 1 /\ running'[g] \in Nat
      BY <1>1, <1>4, <2>2 DEF GivesTwice, Release, TypeOK
    <3> QED BY <1>1, <2>1, <3>2, <3>3
  <2>3. CASE agent[r] # g
    <3>1. Doubles(g)' = Doubles(g) /\ running'[g] = running[g]
      BY <1>4, <2>3 DEF GivesTwice, Release, Doubles, TypeOK
    <3> QED BY <1>1, <2>1, <3>1
  <2> QED BY <2>2, <2>3
<1>5. CASE GivesNone
  <2>1. Holders(g)' \subseteq Holders(g) /\ Doubles(g)' = Doubles(g) /\ running' = running
    BY <1>5 DEF GivesNone, Holders, Doubles
  <2>2. Cardinality(Holders(g)') <= held /\ IsFiniteSet(Holders(g)')
    BY <1>1, <2>1, FS_Subset
  <2>3. Cardinality(Holders(g)') \in Nat
    BY <2>2, FS_CardinalityType
  <2> QED BY <1>1, <2>1, <2>2, <2>3
<1> QED BY <1>2, <1>3, <1>4, <1>5

\* Held slots and counted ones stay balanced.
LEMMA BalanceNext == TypeOK /\ BornBare /\ Balanced /\ [Next]_vars => Balanced'
<1> SUFFICES ASSUME TypeOK, BornBare, Balanced, [Next]_vars PROVE Balanced'
  OBVIOUS
<1>1. ASSUME NEW r \in Runs, Resolve(r) \/ SpawnStep(r) \/ UserChats(r) PROVE Balanced'
  <2>1. agent' = agent
    BY <1>1 DEF Resolve, UserChats, SpawnStep, Acquire, AcquireFails, CreateFails, Arm,
       Dispatch, DispatchFails, FailFastRelease, FailFastSettle, OneShotStarts, OneShotReleases
  <2> QED BY <1>1, <2>1, SpawnGives, BalanceStep DEF Balanced
<1>2. ASSUME NEW r \in Runs, TurnOver(r) \/ WatcherStep(r) PROVE Balanced'
  <2>1. agent' = agent
    BY <1>2 DEF TurnOver, TurnEnds, OneShotReturns, WatcherStep, SeesBusy, GraceOver,
       SeesIdle, CeilingOver, WatcherReleases, WatcherSettles
  <2> QED BY <1>2, <2>1, WatchGives, BalanceStep DEF Balanced
<1>3. CASE (\E g \in Agents : Delete(g)) \/ UNCHANGED vars
  BY <1>3 DEF Delete, vars, past, Balanced, Holders, Doubles, Owes
<1>4. CASE \E stale \in SUBSET Runs : Restart(stale)
  <2>1. twice' = {} /\ running' = [g \in Agents |-> 0] /\ agent' = agent
    BY <1>4 DEF Restart
  <2>2. \A g \in Agents : Holders(g)' = {}
    BY <1>4 DEF Restart, Holders, Owes, TypeOK
  <2>3. \A g \in Agents : Doubles(g)' = {}
    BY <2>1 DEF Doubles
  <2>4. ASSUME NEW g \in Agents
        PROVE  Cardinality(Holders(g)') <= running'[g] + Cardinality(Doubles(g)')
    <3>1. Holders(g)' = {} /\ Doubles(g)' = {} /\ running'[g] = 0
      BY <2>1, <2>2, <2>3
    <3>2. Cardinality({}) = 0
      BY FS_EmptySet
    <3>3. Cardinality(Holders(g)') = 0 /\ Cardinality(Doubles(g)') = 0
      BY <3>1, <3>2
    <3> QED BY <3>1, <3>3
  <2> QED BY <2>1, <2>4 DEF Balanced
<1> QED BY <1>1, <1>2, <1>3, <1>4 DEF Next

-----------------------------------------------------------------------------
(* What a row that reads "ok" means *)

\* A run that is starting is within its grace, and one whose start failed has its error on record.
LEMMA GraceNext ==
  TypeOK /\ BornBare /\ GraceCovers /\ [Next]_vars => GraceCovers'
<1> SUFFICES ASSUME TypeOK, BornBare, GraceCovers, [Next]_vars
             PROVE  GraceCovers'
  OBVIOUS
<1> USE DEF TypeOK, BornBare, GraceCovers, Goto, WatcherGoto, past
<1>1. ASSUME NEW r \in Runs, Resolve(r) \/ SpawnStep(r) \/ UserChats(r) PROVE GraceCovers'
  <2>1. CASE Resolve(r) \/ UserChats(r) \/ AcquireFails(r) \/ Dispatch(r) \/ DispatchFails(r)
    BY <2>1 DEF Resolve, UserChats, AcquireFails, Dispatch, DispatchFails
  <2>2. CASE Acquire(r) \/ CreateFails(r) \/ FailFastRelease(r) \/ OneShotReleases(r)
    BY <2>2 DEF Acquire, CreateFails, FailFastRelease, OneShotReleases
  <2>3. CASE Arm(r) \/ OneShotStarts(r)
    BY <2>3 DEF Arm, OneShotStarts
  <2>4. CASE FailFastSettle(r)
    BY <2>4 DEF FailFastSettle, Finish
  <2> QED BY <1>1, <2>1, <2>2, <2>3, <2>4 DEF SpawnStep
<1>2. ASSUME NEW r \in Runs, TurnOver(r) \/ WatcherStep(r) PROVE GraceCovers'
  <2>1. CASE GraceOver(r) \/ SeesIdle(r) \/ WatcherReleases(r)
    BY <2>1 DEF GraceOver, SeesIdle, WatcherReleases
  <2>2. CASE SeesBusy(r) \/ CeilingOver(r)
    BY <2>2 DEF SeesBusy, CeilingOver, SessionBusy
  <2>3. CASE WatcherSettles(r)
    BY <2>3 DEF WatcherSettles, Finish
  <2>4. CASE TurnOver(r)
    <3>1. PICK st \in {"ok", "error"} : TurnEnds(r, st) \/ OneShotReturns(r, st)
      BY <2>4 DEF TurnOver
    <3>2. CASE TurnEnds(r, st)
      BY <3>2 DEF TurnEnds, SessionBusy
    <3>3. CASE OneShotReturns(r, st)
      BY <3>3 DEF OneShotReturns, Finish
    <3> QED BY <3>1, <3>2, <3>3
  <2> QED BY <1>2, <2>1, <2>2, <2>3, <2>4 DEF WatcherStep
<1>3. CASE (\E g \in Agents : Delete(g)) \/ UNCHANGED vars
  BY <1>3 DEF Delete, vars
<1>4. CASE \E stale \in SUBSET Runs : Restart(stale)
  BY <1>4 DEF Restart
<1> QED BY <1>1, <1>2, <1>3, <1>4 DEF Next

\* Once a row reads ok no later writer or event contradicts it.
LEMMA OkIsLastNext ==
  TypeOK /\ BornBare /\ OkIsLast /\ [Next]_vars => OkIsLast'
<1> SUFFICES ASSUME TypeOK, BornBare, OkIsLast, [Next]_vars PROVE OkIsLast'
  OBVIOUS
<1> USE DEF TypeOK, BornBare, OkIsLast, Goto, WatcherGoto
<1>1. ASSUME NEW r \in Runs, Resolve(r) \/ SpawnStep(r) \/ UserChats(r) PROVE OkIsLast'
  <2>1. CASE Resolve(r) \/ UserChats(r) \/ AcquireFails(r) \/ Dispatch(r) \/ DispatchFails(r)
    BY <2>1 DEF Resolve, UserChats, AcquireFails, Dispatch, DispatchFails
  <2>2. CASE Acquire(r) \/ CreateFails(r) \/ FailFastRelease(r) \/ OneShotReleases(r)
    BY <2>2 DEF Acquire, CreateFails, FailFastRelease, OneShotReleases
  <2>3. CASE Arm(r) \/ OneShotStarts(r)
    BY <2>3 DEF Arm, OneShotStarts
  <2>4. CASE FailFastSettle(r)
    BY <2>4 DEF FailFastSettle, Finish
  <2> QED BY <1>1, <2>1, <2>2, <2>3, <2>4 DEF SpawnStep
<1>2. ASSUME NEW r \in Runs, TurnOver(r) \/ WatcherStep(r) PROVE OkIsLast'
  <2>1. CASE SeesBusy(r) \/ GraceOver(r) \/ SeesIdle(r) \/ CeilingOver(r) \/ WatcherReleases(r)
    BY <2>1 DEF SeesBusy, GraceOver, SeesIdle, CeilingOver, WatcherReleases
  <2>2. CASE WatcherSettles(r)
    BY <2>2 DEF WatcherSettles, Finish
  <2>3. CASE TurnOver(r)
    <3>1. PICK st \in {"ok", "error"} : TurnEnds(r, st) \/ OneShotReturns(r, st)
      BY <2>3 DEF TurnOver
    <3>2. CASE TurnEnds(r, st)
      BY <3>2 DEF TurnEnds
    <3>3. CASE OneShotReturns(r, st)
      BY <3>3 DEF OneShotReturns, Finish
    <3> QED BY <3>1, <3>2, <3>3
  <2> QED BY <1>2, <2>1, <2>2, <2>3 DEF WatcherStep
<1>3. CASE (\E g \in Agents : Delete(g)) \/ UNCHANGED vars
  BY <1>3 DEF Delete, vars
<1>4. CASE \E stale \in SUBSET Runs : Restart(stale)
  <2>1. \A r \in Runs : row'[r] = "ok" => row[r] = "ok"
    BY <1>4 DEF Restart
  <2> QED BY <1>4, <2>1 DEF Restart
<1> QED BY <1>1, <1>2, <1>3, <1>4 DEF Next

-----------------------------------------------------------------------------
\* The invariant is inductive.
LEMMA RunsInvNext == RunsInv /\ [Next]_vars => RunsInv'
BY TypeNext, BornBareNext, SlotsNext, BalanceNext, GraceNext, OkIsLastNext DEF RunsInv

\* In every behaviour of the spawns, watchers and restarts the registry, the
\* watchers and the history rows keep the relations the code rests on.
THEOREM RunsInvariant == Spec => []RunsInv
<1>1. Init => RunsInv
  BY InitInv
<1>2. RunsInv /\ [Next]_vars => RunsInv'
  BY RunsInvNext
<1> QED BY <1>1, <1>2, PTL DEF Spec

\* The variables keep their types.
THEOREM RunsTypeCorrect == Spec => []TypeOK
<1>1. RunsInv => TypeOK
  BY DEF RunsInv
<1> QED BY <1>1, RunsInvariant, PTL

\* The registry never counts more runs of a definition than will still
\* release, so no failure, double release or restart leaks a slot.
THEOREM SlotsDoNotLeak == Spec => []NoSlotLeak
<1>1. RunsInv => NoSlotLeak
  BY DEF RunsInv
<1> QED BY <1>1, RunsInvariant, PTL

\* A definition's runs exceed max_concurrent by no more than the starts that
\* failed and gave back a slot their watcher gave back again.
THEOREM HoldersWithinCap == Spec => []HoldersBounded
<1>1. RunsInv => HoldersBounded
  <2> SUFFICES ASSUME RunsInv, NEW g \in Agents
               PROVE  Cardinality(Holders(g)) <= Cap[g] + Cardinality(Doubles(g))
    BY DEF HoldersBounded
  <2>1. Cardinality(Holders(g)) <= running[g] + Cardinality(Doubles(g)) /\ running[g] <= Cap[g]
    BY DEF RunsInv, Balanced, WithinCaps, WithinAgentCaps
  <2>2. /\ running[g] \in Nat /\ Cap[g] \in Nat
        /\ Cardinality(Holders(g)) \in Nat /\ Cardinality(Doubles(g)) \in Nat
    BY RunsAssumption, HoldersFinite, DoublesFinite DEF RunsInv, TypeOK
  <2> QED BY <2>1, <2>2
<1> QED BY <1>1, RunsInvariant, PTL

\* A history row that reads "ok" belongs to a run that neither ended in an error
\* nor, if its setup stayed within SUBAGENT_START_GRACE_MS, failed to start.
THEOREM OkRowsAreTrue == Spec => []OkIsTrue
<1>1. RunsInv => OkIsTrue
  <2> SUFFICES ASSUME RunsInv, NEW r \in Runs, row[r] = "ok"
               PROVE  /\ outcome[r] # "error"
                      /\ surface[r] = "manual" /\ r \notin hasty =>
                           pc[r] \notin {"setup", "failed", "released", "returned"}
    BY DEF OkIsTrue
  <2>1. OkIsLast /\ GraceCovers
    BY DEF RunsInv
  <2> QED BY <2>1 DEF OkIsLast, GraceCovers
<1> QED BY <1>1, RunsInvariant, PTL
=============================================================================
