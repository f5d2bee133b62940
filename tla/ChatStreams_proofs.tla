------------------------ MODULE ChatStreams_proofs ------------------------
(***************************************************************************)
(* What TLAPS proves of ChatStreams for any number of sends and cancels:   *)
(* types, that no card is left without an answer, that subagents stay      *)
(* within reach, and that without overlapping sends the turn that runs is  *)
(* the registered one.                                                     *)
(***************************************************************************)
EXTENDS ChatStreams, TLAPS

\* Where a send is after it has dropped the stream before its own.
Cleared == {"kids", "pending", "selection", "slot", "reset", "spawn", "insert"}

\* Only a turn whose send has spawned it has a task.
TaskSpawned == \A t \in Turns : pc[t] \notin {"insert", "done"} => task[t] = "none"

\* Sends that do not overlap are one at a time.
OneSend ==
  ~overlapped =>
    \A t, u \in Turns : pc[t] \notin {"idle", "done"} /\ pc[u] \notin {"idle", "done"} => t = u

\* Between its cancel and its insert a send finds no handle registered.
NoHandle == ~overlapped => \A t \in Turns : pc[t] \in Cleared => streams = None

StreamsInv == /\ TypeOK /\ TaskSpawned /\ OneSend /\ NoHandle
              /\ LiveIsRegistered /\ CardAnswerable /\ ChildReachable

-----------------------------------------------------------------------------
LEMMA InitInv == Init => StreamsInv
<1> SUFFICES ASSUME Init PROVE StreamsInv
  OBVIOUS
<1> USE DEF Init
<1>1. TypeOK
  BY DEF TypeOK, CallSteps, TaskSteps
<1>2. TaskSpawned /\ OneSend /\ NoHandle
  BY DEF TaskSpawned, OneSend, NoHandle, Callers
<1>3. LiveIsRegistered /\ CardAnswerable /\ ChildReachable
  BY DEF LiveIsRegistered, CardAnswerable, ChildReachable, Alive
<1> QED BY <1>1, <1>2, <1>3 DEF StreamsInv

-----------------------------------------------------------------------------
(* Types *)

LEMMA TypeCalls ==
  ASSUME TypeOK, NEW c \in Callers, Begins(c) \/ CancelStep(c)
  PROVE  TypeOK'
<1> USE DEF TypeOK, maps, Goes
<1>1. \A step \in CallSteps : [pc EXCEPT ![c] = step] \in [Callers -> CallSteps]
  OBVIOUS
<1>2. CASE Begins(c)
  BY <1>1, <1>2 DEF Begins, CallSteps
<1>3. CASE DropStream(c)
  BY <1>1, <1>3 DEF DropStream, CallSteps
<1>4. CASE AbortChildren(c)
  BY <1>1, <1>4 DEF AbortChildren, CallSteps
<1>5. CASE DropPending(c)
  BY <1>1, <1>5 DEF DropPending, CallSteps, Sent
<1>6. CASE DropSelection(c)
  BY <1>1, <1>6 DEF DropSelection, CallSteps
<1>7. CASE DropSlot(c)
  BY <1>1, <1>7 DEF DropSlot, CallSteps
<1> QED BY <1>2, <1>3, <1>4, <1>5, <1>6, <1>7 DEF CancelStep

LEMMA TypeSend ==
  ASSUME TypeOK, NEW t \in Turns, SendStep(t)
  PROVE  TypeOK'
<1> USE DEF TypeOK, maps, Goes, Steps, Callers
<1>1. CASE ResetSlot(t)
  BY <1>1 DEF ResetSlot, CallSteps
<1>2. CASE Spawn(t)
  BY <1>2 DEF Spawn, CallSteps, TaskSteps
<1>3. CASE Insert(t)
  BY <1>3 DEF Insert, CallSteps
<1> QED BY <1>1, <1>2, <1>3 DEF SendStep

LEMMA TypeTask ==
  ASSUME TypeOK, NEW t \in Turns, TaskStep(t)
  PROVE  TypeOK'
<1> USE DEF TypeOK, maps, Steps
<1>1. \A step \in TaskSteps : [task EXCEPT ![t] = step] \in [Turns -> TaskSteps]
  OBVIOUS
<1>2. CASE Wakes(t) \/ Awaits(t) \/ Ends(t) \/ JoinEnds(t)
  BY <1>1, <1>2 DEF Wakes, Awaits, Ends, JoinEnds, TaskSteps
<1>3. CASE Dropped(t) \/ ShowsCard(t) \/ CardAnswered(t)
  BY <1>1, <1>3 DEF Dropped, ShowsCard, CardAnswered, TaskSteps
<1>4. CASE SpawnsChild(t) \/ RegisterChild(t)
  BY <1>1, <1>4 DEF SpawnsChild, RegisterChild, TaskSteps
<1>5. CASE RemoveStreamIfCurrent(t) \/ ClearLateAttach(t)
  BY <1>1, <1>5 DEF RemoveStreamIfCurrent, ClearLateAttach, TaskSteps
<1> QED BY <1>2, <1>3, <1>4, <1>5 DEF TaskStep

\* What subagents and the user do with the turn of t.
Others(t) == \/ ChildEnds(t) \/ Reap(t) \/ ParkSelection(t) \/ SendAnswer(t)
             \/ \E how \in {"all", "part", "deny"} : UserAnswers(t, how)

LEMMA TypeOthers ==
  ASSUME TypeOK, NEW t \in Turns, Others(t)
  PROVE  TypeOK'
<1> USE DEF TypeOK, maps
<1>1. CASE ChildEnds(t) \/ Reap(t)
  BY <1>1 DEF ChildEnds, Reap
<1>2. CASE ParkSelection(t)
  BY <1>2 DEF ParkSelection
<1>3. CASE SendAnswer(t)
  BY <1>3 DEF SendAnswer, Sent
<1>4. ASSUME NEW how \in {"all", "part", "deny"}, UserAnswers(t, how) PROVE TypeOK'
  BY <1>4 DEF UserAnswers
<1> QED BY <1>1, <1>2, <1>3, <1>4 DEF Others

-----------------------------------------------------------------------------
(* Cards and subagents *)

\* A card keeps its way to an answer.
LEMMA CardKept ==
  ASSUME StreamsInv, [Next]_vars
  PROVE  CardAnswerable'
<1> USE DEF StreamsInv, TypeOK, CardAnswerable, maps, Steps, Goes
<1>1. ASSUME NEW c \in Callers, Begins(c) \/ CancelStep(c) PROVE CardAnswerable'
  BY <1>1 DEF Begins, CancelStep, DropStream, AbortChildren, DropPending, DropSelection,
              DropSlot, Sent
<1>2. ASSUME NEW t \in Turns, SendStep(t) PROVE CardAnswerable'
  BY <1>2 DEF SendStep, ResetSlot, Spawn, Insert
<1>3. ASSUME NEW t \in Turns, TaskStep(t) PROVE CardAnswerable'
  BY <1>3 DEF TaskStep, Wakes, Awaits, Dropped, ShowsCard, CardAnswered, SpawnsChild,
              RegisterChild, JoinEnds, Ends, RemoveStreamIfCurrent, ClearLateAttach
<1>4. ASSUME NEW t \in Turns, Others(t) PROVE CardAnswerable'
  <2>1. CASE ChildEnds(t) \/ Reap(t) \/ ParkSelection(t)
    BY <2>1 DEF ChildEnds, Reap, ParkSelection
  <2>2. CASE SendAnswer(t)
    BY <2>2 DEF SendAnswer, Sent
  <2>3. ASSUME NEW how \in {"all", "part", "deny"}, UserAnswers(t, how) PROVE CardAnswerable'
    BY <2>3 DEF UserAnswers
  <2> QED BY <1>4, <2>1, <2>2, <2>3 DEF Others
<1>5. CASE UNCHANGED vars
  BY <1>5 DEF vars
<1> QED BY <1>1, <1>2, <1>3, <1>4, <1>5 DEF Next, Others

\* A subagent stays within reach.
LEMMA ChildKept ==
  ASSUME StreamsInv, [Next]_vars
  PROVE  ChildReachable'
<1> USE DEF StreamsInv, TypeOK, ChildReachable, maps, Steps, Goes
<1>1. ASSUME NEW c \in Callers, Begins(c) \/ CancelStep(c) PROVE ChildReachable'
  BY <1>1 DEF Begins, CancelStep, DropStream, AbortChildren, DropPending, DropSelection,
              DropSlot
<1>2. ASSUME NEW t \in Turns, SendStep(t) PROVE ChildReachable'
  <2>1. \A u \in Turns : task[u] = "reg" => task'[u] = "reg"
    BY <1>2 DEF SendStep, ResetSlot, Spawn, Insert, TaskSpawned
  <2> QED BY <1>2, <2>1 DEF SendStep, ResetSlot, Spawn, Insert
<1>3. ASSUME NEW t \in Turns, TaskStep(t) PROVE ChildReachable'
  BY <1>3 DEF TaskStep, Wakes, Awaits, Dropped, ShowsCard, CardAnswered, SpawnsChild,
              RegisterChild, JoinEnds, Ends, RemoveStreamIfCurrent, ClearLateAttach
<1>4. ASSUME NEW t \in Turns, Others(t) PROVE ChildReachable'
  BY <1>4 DEF Others, ChildEnds, Reap, ParkSelection, SendAnswer, UserAnswers
<1>5. CASE UNCHANGED vars
  BY <1>5 DEF vars
<1> QED BY <1>1, <1>2, <1>3, <1>4, <1>5 DEF Next, Others

-----------------------------------------------------------------------------
(* One turn at a time *)

\* Each kind of step, with what it does to sends, tasks and handles.
LEMMA SpawnedKept ==
  ASSUME StreamsInv, [Next]_vars
  PROVE  TaskSpawned'
<1> USE DEF StreamsInv, TypeOK, TaskSpawned, maps, Steps, Goes
<1>1. ASSUME NEW c \in Callers, Begins(c) \/ CancelStep(c) PROVE TaskSpawned'
  BY <1>1 DEF Begins, CancelStep, DropStream, AbortChildren, DropPending, DropSelection,
              DropSlot, Callers
<1>2. ASSUME NEW t \in Turns, SendStep(t) PROVE TaskSpawned'
  BY <1>2 DEF SendStep, ResetSlot, Spawn, Insert, Callers
<1>3. ASSUME NEW t \in Turns, TaskStep(t) PROVE TaskSpawned'
  BY <1>3 DEF TaskStep, Wakes, Awaits, Dropped, ShowsCard, CardAnswered, SpawnsChild,
              RegisterChild, JoinEnds, Ends, RemoveStreamIfCurrent, ClearLateAttach
<1>4. ASSUME NEW t \in Turns, Others(t) PROVE TaskSpawned'
  BY <1>4 DEF Others, ChildEnds, Reap, ParkSelection, SendAnswer, UserAnswers
<1>5. CASE UNCHANGED vars
  BY <1>5 DEF vars
<1> QED BY <1>1, <1>2, <1>3, <1>4, <1>5 DEF Next, Others

\* Tasks, subagents and answers move no send.
LEMMA SendsStay ==
  ASSUME NEW t \in Turns, TaskStep(t) \/ Others(t)
  PROVE  pc' = pc /\ overlapped' = overlapped
<1>1. CASE TaskStep(t)
  BY <1>1 DEF TaskStep, Wakes, Awaits, Dropped, ShowsCard, CardAnswered, SpawnsChild,
              RegisterChild, JoinEnds, Ends, RemoveStreamIfCurrent, ClearLateAttach
<1>2. CASE Others(t)
  BY <1>2 DEF Others, ChildEnds, Reap, ParkSelection, SendAnswer, UserAnswers
<1> QED BY <1>1, <1>2

LEMMA OneSendKept ==
  ASSUME StreamsInv, [Next]_vars
  PROVE  OneSend'
<1> USE DEF StreamsInv, TypeOK, OneSend, Goes, Callers
<1>1. ASSUME NEW c \in Callers, Begins(c) PROVE OneSend'
  BY <1>1 DEF Begins
<1>2. ASSUME NEW c \in Callers, CancelStep(c) PROVE OneSend'
  BY <1>2 DEF CancelStep, DropStream, AbortChildren, DropPending, DropSelection, DropSlot
<1>3. ASSUME NEW t \in Turns, SendStep(t) PROVE OneSend'
  BY <1>3 DEF SendStep, ResetSlot, Spawn, Insert
<1>4. ASSUME NEW t \in Turns, TaskStep(t) \/ Others(t) PROVE OneSend'
  BY <1>4, SendsStay
<1>5. CASE UNCHANGED vars
  BY <1>5 DEF vars
<1> QED BY <1>1, <1>2, <1>3, <1>4, <1>5 DEF Next, Others

\* Only an insert registers a handle.
LEMMA HandlesOnlyGo ==
  ASSUME NEW t \in Turns, TaskStep(t) \/ Others(t)
  PROVE  streams' \in {streams, None}
<1>1. CASE TaskStep(t)
  BY <1>1 DEF TaskStep, Wakes, Awaits, Dropped, ShowsCard, CardAnswered, SpawnsChild,
              RegisterChild, JoinEnds, Ends, RemoveStreamIfCurrent, ClearLateAttach, maps
<1>2. CASE Others(t)
  BY <1>2 DEF Others, ChildEnds, Reap, ParkSelection, SendAnswer, UserAnswers, maps
<1> QED BY <1>1, <1>2

LEMMA NoHandleKept ==
  ASSUME StreamsInv, [Next]_vars
  PROVE  NoHandle'
<1> USE DEF StreamsInv, TypeOK, NoHandle, Goes, Callers, Cleared
<1>1. ASSUME NEW c \in Callers, Begins(c) PROVE NoHandle'
  BY <1>1 DEF Begins, maps
<1>2. ASSUME NEW c \in Callers, CancelStep(c) PROVE NoHandle'
  BY <1>2 DEF CancelStep, DropStream, AbortChildren, DropPending, DropSelection, DropSlot
<1>3. ASSUME NEW t \in Turns, ResetSlot(t) \/ Spawn(t) PROVE NoHandle'
  BY <1>3 DEF ResetSlot, Spawn, maps
<1>4. ASSUME NEW t \in Turns, Insert(t) PROVE NoHandle'
  BY <1>4 DEF Insert, OneSend
<1>5. ASSUME NEW t \in Turns, TaskStep(t) \/ Others(t) PROVE NoHandle'
  BY <1>5, SendsStay, HandlesOnlyGo
<1>6. CASE UNCHANGED vars
  BY <1>6 DEF vars
<1> QED BY <1>1, <1>2, <1>3, <1>4, <1>5, <1>6 DEF Next, Others, SendStep

\* The turn that runs stays the registered one.
LEMMA LiveKept ==
  ASSUME StreamsInv, [Next]_vars
  PROVE  LiveIsRegistered'
<1> USE DEF StreamsInv, TypeOK, LiveIsRegistered, Alive, maps, Steps, Goes, Callers
<1>1. ASSUME NEW c \in Callers, Begins(c) \/ CancelStep(c) PROVE LiveIsRegistered'
  BY <1>1 DEF Begins, CancelStep, DropStream, AbortChildren, DropPending, DropSelection,
              DropSlot
<1>2. ASSUME NEW t \in Turns, ResetSlot(t) PROVE LiveIsRegistered'
  BY <1>2 DEF ResetSlot
<1>3. ASSUME NEW t \in Turns, Spawn(t) PROVE LiveIsRegistered'
  BY <1>3 DEF Spawn
<1>4. ASSUME NEW t \in Turns, Insert(t) PROVE LiveIsRegistered'
  <2>1. ~overlapped => streams = None
    BY <1>4 DEF Insert, NoHandle, Cleared
  <2>2. ~overlapped => \A u \in Turns : pc[u] = "insert" => u = t
    BY <1>4 DEF Insert, OneSend
  <2> QED BY <1>4, <2>1, <2>2, StreamsAssumption DEF Insert
<1>5. ASSUME NEW t \in Turns, TaskStep(t) PROVE LiveIsRegistered'
  BY <1>5 DEF TaskStep, Wakes, Awaits, Dropped, ShowsCard, CardAnswered, SpawnsChild,
              RegisterChild, JoinEnds, Ends, RemoveStreamIfCurrent, ClearLateAttach
<1>6. ASSUME NEW t \in Turns, Others(t) PROVE LiveIsRegistered'
  BY <1>6 DEF Others, ChildEnds, Reap, ParkSelection, SendAnswer, UserAnswers
<1>7. CASE UNCHANGED vars
  BY <1>7 DEF vars
<1> QED BY <1>1, <1>2, <1>3, <1>4, <1>5, <1>6, <1>7 DEF Next, Others, SendStep

-----------------------------------------------------------------------------
LEMMA TypeKept ==
  ASSUME TypeOK, [Next]_vars
  PROVE  TypeOK'
<1>1. CASE UNCHANGED vars
  BY <1>1 DEF vars, TypeOK
<1> QED BY <1>1, TypeCalls, TypeSend, TypeTask, TypeOthers DEF Next, Others

LEMMA StepInv == StreamsInv /\ [Next]_vars => StreamsInv'
<1> SUFFICES ASSUME StreamsInv, [Next]_vars PROVE StreamsInv'
  OBVIOUS
<1>1. TypeOK'
  BY TypeKept DEF StreamsInv
<1> QED BY <1>1, SpawnedKept, OneSendKept, NoHandleKept, LiveKept, CardKept, ChildKept DEF StreamsInv

LEMMA Invariant == Spec => []StreamsInv
<1> QED BY InitInv, StepInv, PTL DEF Spec

\* Type correctness.
THEOREM TypeCorrect == Spec => []TypeOK
<1>1. StreamsInv => TypeOK
  BY DEF StreamsInv
<1> QED BY <1>1, Invariant, PTL

\* A turn at its card can still be answered, however answers, cancels and sends
\* interleave.
THEOREM CardsAnswerable == Spec => []CardAnswerable
<1>1. StreamsInv => CardAnswerable
  BY DEF StreamsInv
<1> QED BY <1>1, Invariant, PTL

\* A subagent that runs is within the reach of the next cancel.
THEOREM ChildrenReachable == Spec => []ChildReachable
<1>1. StreamsInv => ChildReachable
  BY DEF StreamsInv
<1> QED BY <1>1, Invariant, PTL

\* Sends that do not overlap leave at most the registered turn running.
THEOREM Registered == Spec => []LiveIsRegistered
<1>1. StreamsInv => LiveIsRegistered
  BY DEF StreamsInv
<1> QED BY <1>1, Invariant, PTL
=============================================================================
