------------------------ MODULE HarnessTurns_proofs ------------------------
(***************************************************************************)
(* What TLAPS proves of HarnessTurns for any number of turns and of        *)
(* faults: types, that no process is out of the session's reach, that a    *)
(* turn's threads kill no process but its own, that a cancelled turn is    *)
(* discarded, that the user's rows match the turns, that a busy session    *)
(* has somebody at its turn, and that the turns implement Conversation.    *)
(***************************************************************************)
EXTENDS HarnessTurns, TLAPS

\* A send in progress has a generation left for its turn.
RoomToSend == sending # "no" => gen < MaxTurns

\* The turns with a reader are those up to the generation.
ReadersStarted == \A t \in Turns : reader[t] = "off" <=> t > gen

\* The slot holds the current turn, or the next one just before the generation
\* goes up.
SlotIsCurrent == IF sending = "bump" THEN slot = gen + 1 ELSE slot \in {0, gen}

\* A reader about to persist has found its turn not cancelled, or it was cancelled
\* since.
CancelledStops ==
  /\ late \subseteq cancelled
  /\ \A t \in cancelled \ late : reader[t] # "persist"
  /\ \A t \in replies : reader[t] = "done"

TurnsInv == /\ TypeOK /\ RoomToSend /\ ReadersStarted /\ SlotIsCurrent
            /\ NoOrphanProcess /\ CancelledStops /\ CancelDiscards /\ UserRowsMatch

-----------------------------------------------------------------------------
\* Killing what is in the slot empties it, leaves the other processes alone and
\* brings none to life.
LEMMA KillSlotEffect ==
  ASSUME TypeOK, KillSlot
  PROVE  /\ slot' = 0
         /\ proc' \in [Turns -> {"none", "run", "gone"}]
         /\ \A u \in Turns : u # slot => proc'[u] = proc[u]
         /\ \A u \in Turns : Lives(u)' => Lives(u) /\ u # slot
BY TurnsAssumption DEF KillSlot, Killed, Lives, TypeOK, Turns

\* The same of a kill that compares the generations.
LEMMA KillChildEffect ==
  ASSUME TypeOK, NEW t \in Turns, KillChildIfGeneration(t)
  PROVE  /\ sending = "no"
         /\ slot' \in {0, slot}
         /\ proc' \in [Turns -> {"none", "run", "gone"}]
         /\ \A u \in Turns : Lives(u)' => Lives(u) /\ (u = slot => slot' = slot)
         /\ \A u \in Turns : u # slot \/ gen # t => proc'[u] = proc[u]
<1>1. CASE gen = t
  <2>1. KillSlot /\ sending = "no"
    BY <1>1 DEF KillChildIfGeneration
  <2> QED BY <1>1, <2>1, KillSlotEffect
<1>2. CASE gen # t
  BY <1>2 DEF KillChildIfGeneration, TypeOK, Lives
<1> QED BY <1>1, <1>2

\* The initial state has every part of the invariant.
LEMMA InitInv == Init => TurnsInv
<1> SUFFICES ASSUME Init PROVE TurnsInv
  OBVIOUS
<1> USE TurnsAssumption DEF Init, Turns
<1>1. TypeOK
  <2>1. 0 \in 0..MaxTurns /\ MaxFaults \in 0..MaxFaults
    OBVIOUS
  <2>2. /\ proc \in [Turns -> {"none", "run", "gone"}]
        /\ reader \in [Turns -> ReaderSteps]
    BY DEF ReaderSteps
  <2> QED BY <2>1, <2>2 DEF TypeOK
<1>2. RoomToSend /\ ReadersStarted /\ SlotIsCurrent /\ NoOrphanProcess
  BY DEF RoomToSend, ReadersStarted, SlotIsCurrent, NoOrphanProcess, Lives
<1>3. CancelledStops /\ CancelDiscards /\ UserRowsMatch
  BY DEF CancelledStops, CancelDiscards, UserRowsMatch
<1> QED BY <1>1, <1>2, <1>3 DEF TurnsInv

-----------------------------------------------------------------------------
(* Each step preserves the invariant *)

\* A step that changes neither the send, the readers nor what a turn leaves
\* preserves what the invariant says of them.
LEMMA RestKept ==
  ASSUME TurnsInv, UNCHANGED <<gen, sending, users, reader, cancelled, partial, replies, late>>
  PROVE  (RoomToSend /\ ReadersStarted /\ CancelledStops /\ CancelDiscards /\ UserRowsMatch)'
BY DEF TurnsInv, RoomToSend, ReadersStarted, CancelledStops, CancelDiscards, UserRowsMatch

\* A step that at most kills what is in the slot keeps the slot and the processes
\* in order.
LEMMA SlotKept ==
  ASSUME TurnsInv, UNCHANGED <<gen, sending>>, slot' = slot \/ (sending = "no" /\ slot' = 0),
         \A u \in Turns : Lives(u)' => Lives(u) /\ (u = slot => slot' = slot)
  PROVE  (SlotIsCurrent /\ NoOrphanProcess)'
BY TurnsAssumption DEF TurnsInv, SlotIsCurrent, NoOrphanProcess, TypeOK, Turns

\* The send.
LEMMA SendInv ==
  ASSUME TurnsInv, NEW switch \in BOOLEAN, Send(switch)
  PROVE  TurnsInv'
<1> USE TurnsAssumption DEF TurnsInv, Send, threads, history
<1>1. /\ slot' \in {0, slot}
      /\ proc' \in [Turns -> {"none", "run", "gone"}]
      /\ \A u \in Turns : Lives(u)' => Lives(u) /\ (u = slot => slot' = slot)
  BY KillSlotEffect DEF TypeOK, Lives
<1>2. users = gen /\ gen < MaxTurns /\ gen \in Nat
  BY DEF UserRowsMatch, TypeOK
<1>3. TypeOK'
  <2>1. users' \in 0..MaxTurns /\ slot' \in 0..MaxTurns
    BY <1>1, <1>2 DEF TypeOK
  <2>2. flag' \in BOOLEAN /\ sending' = "spawn" /\ left' = left
    OBVIOUS
  <2> QED BY <1>1, <2>1, <2>2 DEF TypeOK
<1>4. SlotIsCurrent' /\ NoOrphanProcess'
  BY <1>1 DEF SlotIsCurrent, NoOrphanProcess, TypeOK
<1>5. RoomToSend' /\ ReadersStarted' /\ CancelledStops' /\ CancelDiscards'
  BY DEF RoomToSend, ReadersStarted, CancelledStops, CancelDiscards
<1>6. UserRowsMatch'
  BY <1>2 DEF UserRowsMatch
<1> QED BY <1>3, <1>4, <1>5, <1>6

LEMMA SpawnFailsInv == ASSUME TurnsInv, SpawnFails PROVE TurnsInv'
<1> USE TurnsAssumption DEF TurnsInv, SpawnFails, threads, history
<1>1. users = gen + 1 /\ gen < MaxTurns /\ gen \in Nat
  BY DEF UserRowsMatch, TypeOK, RoomToSend
<1>2. TypeOK'
  BY <1>1 DEF TypeOK
<1>3. SlotIsCurrent' /\ NoOrphanProcess'
  BY DEF SlotIsCurrent, NoOrphanProcess, Lives
<1>4. RoomToSend' /\ ReadersStarted' /\ CancelledStops' /\ CancelDiscards'
  BY DEF RoomToSend, ReadersStarted, CancelledStops, CancelDiscards
<1>5. UserRowsMatch'
  BY <1>1 DEF UserRowsMatch
<1> QED BY <1>2, <1>3, <1>4, <1>5

LEMMA SpawnInv == ASSUME TurnsInv, Spawn PROVE TurnsInv'
<1> USE TurnsAssumption DEF TurnsInv, Spawn, threads, history
<1>1. gen < MaxTurns /\ gen + 1 \in Turns
  BY DEF RoomToSend, TypeOK, Turns
<1>2. TypeOK'
  BY <1>1 DEF TypeOK
<1>3. SlotIsCurrent' /\ NoOrphanProcess'
  BY <1>1 DEF SlotIsCurrent, NoOrphanProcess, Lives, TypeOK
<1>4. RoomToSend' /\ ReadersStarted' /\ CancelledStops' /\ CancelDiscards' /\ UserRowsMatch'
  BY DEF RoomToSend, ReadersStarted, CancelledStops, CancelDiscards, UserRowsMatch
<1> QED BY <1>2, <1>3, <1>4

LEMMA RaiseFlagInv == ASSUME TurnsInv, RaiseFlag PROVE TurnsInv'
<1> USE TurnsAssumption DEF TurnsInv, RaiseFlag, threads, history
<1>1. TypeOK'
  BY DEF TypeOK
<1>2. SlotIsCurrent' /\ NoOrphanProcess'
  BY DEF SlotIsCurrent, NoOrphanProcess, Lives
<1>3. RoomToSend' /\ ReadersStarted' /\ CancelledStops' /\ CancelDiscards' /\ UserRowsMatch'
  BY DEF RoomToSend, ReadersStarted, CancelledStops, CancelDiscards, UserRowsMatch
<1> QED BY <1>1, <1>2, <1>3

\* The process in the old slot dies, so only the new one is left.
LEMMA TakeSlotInv == ASSUME TurnsInv, TakeSlot PROVE TurnsInv'
<1> USE TurnsAssumption DEF TurnsInv, TakeSlot, threads, history
<1>1. gen + 1 \in Turns /\ slot \in {0, gen} /\ gen \in 0..MaxTurns
  BY DEF RoomToSend, SlotIsCurrent, TypeOK, Turns
<1>2. TypeOK'
  BY <1>1 DEF TypeOK, Killed, Turns
<1>3. \A u \in Turns : Lives(u)' => Lives(u) /\ u # slot
  BY <1>1 DEF Killed, Lives, TypeOK, Turns
<1>4. \A u \in Turns : Lives(u)' => u = gen + 1
  BY <1>3 DEF NoOrphanProcess
<1>5. SlotIsCurrent' /\ NoOrphanProcess'
  BY <1>4 DEF SlotIsCurrent, NoOrphanProcess
<1>6. RoomToSend' /\ ReadersStarted' /\ CancelledStops' /\ CancelDiscards' /\ UserRowsMatch'
  BY DEF RoomToSend, ReadersStarted, CancelledStops, CancelDiscards, UserRowsMatch
<1> QED BY <1>2, <1>5, <1>6

LEMMA BumpInv == ASSUME TurnsInv, Bump PROVE TurnsInv'
<1> USE TurnsAssumption DEF TurnsInv, Bump, history
<1>1. gen + 1 \in Turns /\ gen \in 0..MaxTurns /\ reader[gen + 1] = "off"
  BY DEF RoomToSend, ReadersStarted, TypeOK, Turns
<1>2. TypeOK'
  BY <1>1 DEF TypeOK, ReaderSteps, Turns
<1>3. slot = gen + 1
  BY DEF SlotIsCurrent
<1>4. \A u \in Turns : Lives(u)' => u = slot
  BY DEF NoOrphanProcess, Lives
<1>5. NoOrphanProcess'
  BY <1>4 DEF NoOrphanProcess
<1>6. SlotIsCurrent'
  BY <1>1, <1>3 DEF SlotIsCurrent
<1>7. RoomToSend' /\ UserRowsMatch'
  BY <1>1 DEF RoomToSend, UserRowsMatch
<1>8. ReadersStarted'
  BY <1>1 DEF ReadersStarted, TypeOK, Turns
<1>9. CancelledStops' /\ CancelDiscards'
  BY <1>1 DEF CancelledStops, CancelDiscards, TypeOK
<1> QED BY <1>2, <1>5, <1>6, <1>7, <1>8, <1>9

\* What everybody else does, but the threads of turns.
LEMMA CancelInv == ASSUME TurnsInv, Cancel PROVE TurnsInv'
<1> USE TurnsAssumption DEF TurnsInv, Cancel, threads
<1>1. gen \in Turns
  BY DEF TypeOK, Turns
<1>2. TypeOK'
  <2>1. cancelled' \subseteq Turns /\ late' \subseteq Turns
    BY <1>1 DEF TypeOK
  <2>2. slot' \in 0..MaxTurns /\ proc' \in [Turns -> {"none", "run", "gone"}]
    BY KillSlotEffect
  <2>3. UNCHANGED <<gen, sending, users, reader, killers, terminal, reported, failed,
                    partial, replies, mute, left>> /\ flag' = FALSE
    OBVIOUS
  <2>4. TypeOK
    OBVIOUS
  <2> HIDE DEF TurnsInv, Cancel
  <2>5. \A set \in {killers, terminal, reported, failed, partial, replies, mute} : set \subseteq Turns
    BY <2>4 DEF TypeOK
  <2>6. (\A set \in {killers, terminal, cancelled, reported, failed, partial, replies, late, mute} :
           set \subseteq Turns)'
    BY <2>1, <2>3, <2>5
  <2> QED BY <2>2, <2>3, <2>4, <2>6 DEF TypeOK
<1>3. SlotIsCurrent' /\ NoOrphanProcess'
  BY KillSlotEffect, SlotKept
<1>4. CancelledStops' /\ CancelDiscards'
  <2>1. \A t \in cancelled' \ late' : t \in cancelled \ late \/ reader[t] \notin Decided
    OBVIOUS
  <2> QED BY <2>1 DEF CancelledStops, CancelDiscards, Decided, TypeOK
<1>5. RoomToSend' /\ ReadersStarted' /\ UserRowsMatch'
  BY DEF RoomToSend, ReadersStarted, UserRowsMatch
<1> QED BY <1>2, <1>3, <1>4, <1>5

LEMMA ProbeInv == ASSUME TurnsInv, Probe PROVE TurnsInv'
<1> USE DEF Probe, threads, history
<1>1. TypeOK'
  BY DEF TurnsInv, TypeOK
<1>2. SlotIsCurrent' /\ NoOrphanProcess'
  BY SlotKept DEF Lives
<1> QED BY <1>1, <1>2, RestKept DEF TurnsInv

\* A CLI that exits, a watchdog or stderr sink that decides to kill, and the kill.
LEMMA OthersInv ==
  ASSUME TurnsInv, NEW t \in Turns,
         Exits(t) \/ WatchArms(t) \/ SilentTrips(t) \/ SinkTrips(t) \/ Kills(t)
  PROVE  TurnsInv'
<1> USE TurnsAssumption DEF threads, history
<1>1. UNCHANGED <<gen, sending, users, reader, cancelled, partial, replies, late>>
  BY DEF Exits, WatchArms, SilentTrips, SinkTrips, Trips, Kills
<1>2. TypeOK' /\ SlotIsCurrent' /\ NoOrphanProcess'
  <2> USE DEF TurnsInv
  <2>1. CASE Exits(t)
    <3>1. TypeOK'
      BY <2>1 DEF Exits, TypeOK
    <3>2. slot' = slot /\ \A u \in Turns : Lives(u)' => Lives(u)
      BY <2>1 DEF Exits, Lives, TypeOK
    <3> QED BY <1>1, <3>1, <3>2, SlotKept
  <2>2. CASE WatchArms(t) \/ SilentTrips(t) \/ SinkTrips(t)
    <3>1. TypeOK'
      BY <2>2 DEF WatchArms, SilentTrips, SinkTrips, Trips, TypeOK
    <3>2. UNCHANGED <<slot, proc>>
      BY <2>2 DEF WatchArms, SilentTrips, SinkTrips, Trips
    <3> QED BY <1>1, <3>1, <3>2, SlotKept DEF Lives
  <2>3. CASE Kills(t)
    <3>1. TypeOK'
      BY <2>3, KillChildEffect DEF Kills, TypeOK
    <3> QED BY <1>1, <2>3, <3>1, KillChildEffect, SlotKept DEF Kills
  <2> QED BY <2>1, <2>2, <2>3, <1>1 DEF Exits
<1> QED BY <1>1, <1>2, RestKept DEF TurnsInv

\* A reader goes from one step to another within its thread.
LEMMA ReaderKept ==
  ASSUME TurnsInv, NEW t \in Turns, NEW step \in ReaderSteps \ {"off"},
         reader[t] # "off", ReaderGoes(t, step), UNCHANGED <<gen, sending, users>>
  PROVE  /\ reader' \in [Turns -> ReaderSteps]
         /\ reader'[t] = step
         /\ \A u \in Turns \ {t} : reader'[u] = reader[u]
         /\ (RoomToSend /\ ReadersStarted /\ UserRowsMatch)'
BY DEF TurnsInv, ReaderGoes, TypeOK, RoomToSend, ReadersStarted, UserRowsMatch

\* What the reader does while it reads, and a CLI that falls silent.
LEMMA ReadingInv ==
  ASSUME TurnsInv, NEW t \in Turns, ReaderSeesEnd(t) \/ ReaderFlushes(t) \/ FallsSilent(t)
  PROVE  TurnsInv'
<1> USE DEF ReaderSeesEnd, ReaderFlushes, FallsSilent, threads
<1>1. UNCHANGED <<gen, sending, users, slot, proc, reader, cancelled, replies, late>>
  OBVIOUS
<1>2. TypeOK'
  BY DEF TurnsInv, TypeOK
<1>3. SlotIsCurrent' /\ NoOrphanProcess'
  BY <1>1, SlotKept DEF Lives
<1>4. CancelDiscards' /\ CancelledStops' /\ RoomToSend' /\ ReadersStarted' /\ UserRowsMatch'
  BY DEF TurnsInv, CancelDiscards, CancelledStops, RoomToSend, ReadersStarted, UserRowsMatch
<1> QED BY <1>2, <1>3, <1>4 DEF TurnsInv

\* A step of the reader that leaves its row for its successor: it neither comes
\* to persisting, nor ends with a snapshot.
LEMMA ReaderGoesInv ==
  ASSUME TurnsInv, NEW t \in Turns, NEW step \in ReaderSteps \ {"off", "persist"},
         reader[t] \notin {"off", "done"}, ReaderGoes(t, step),
         UNCHANGED <<gen, sending, users, slot, cancelled, terminal, replies, late, mute>>,
         killers' = killers, flag' \in BOOLEAN, left' \in 0..MaxFaults,
         reported' \subseteq Turns, failed' \subseteq Turns,
         partial' \subseteq partial,
         t \notin partial' \/ step \in {"kill", "tail"},
         proc' = proc
  PROVE  TurnsInv'
<1>1. TypeOK' /\ ReadersStarted' /\ RoomToSend' /\ UserRowsMatch'
  BY ReaderKept DEF TurnsInv, TypeOK
<1>2. SlotIsCurrent' /\ NoOrphanProcess'
  BY SlotKept DEF Lives
<1>3. CancelledStops' /\ CancelDiscards'
  <2>1. t \notin replies
    BY DEF TurnsInv, CancelledStops
  <2> QED BY <2>1, ReaderKept DEF TurnsInv, CancelledStops, CancelDiscards, TypeOK
<1> QED BY <1>1, <1>2, <1>3 DEF TurnsInv

\* The reader's steps that touch neither the slot nor the stored reply.
LEMMA ReaderPlainInv ==
  ASSUME TurnsInv, NEW t \in Turns,
         ReaderAborts(t) \/ Eof(t) \/ ReaderTail(t) \/ ReaderChecks(t) \/ ReaderClears(t)
  PROVE  TurnsInv'
<1> USE DEF history, ReaderSteps
<1>0. TypeOK /\ (t \in partial => reader[t] \in {"read", "kill", "tail"})
  BY DEF TurnsInv, CancelDiscards
<1>1. CASE ReaderAborts(t)
  <2>1. left' \in 0..MaxFaults /\ reported' \subseteq Turns
    BY <1>0, <1>1, TurnsAssumption DEF ReaderAborts, TypeOK
  <2>2. failed \subseteq Turns /\ flag \in BOOLEAN
    BY <1>0 DEF TypeOK
  <2> QED BY <1>0, <1>1, <2>1, <2>2, ReaderGoesInv DEF ReaderAborts
<1>2. CASE Eof(t)
  BY <1>0, <1>2, ReaderGoesInv DEF Eof, TypeOK
<1>3. CASE ReaderTail(t)
  <2>1. failed' \subseteq Turns /\ partial' = partial \ {t}
    BY <1>0, <1>3 DEF ReaderTail, TypeOK
  <2> QED BY <1>0, <1>3, <2>1, ReaderGoesInv DEF ReaderTail, TypeOK
<1>4. CASE ReaderChecks(t)
  <2>1. AfterFlag(t) \in {"done", "fin"}
    BY DEF AfterFlag
  <2>2. (IF gen = t THEN "clear" ELSE AfterFlag(t)) \in {"clear", "done", "fin"}
    BY <2>1
  <2> QED BY <1>0, <1>4, <2>2, ReaderGoesInv DEF ReaderChecks, TypeOK
<1>5. CASE ReaderClears(t)
  <2>1. AfterFlag(t) \in {"done", "fin"}
    BY DEF AfterFlag
  <2> QED BY <1>0, <1>5, <2>1, ReaderGoesInv DEF ReaderClears, TypeOK
<1> QED BY <1>1, <1>2, <1>3, <1>4, <1>5

\* The reader's kill.
LEMMA ReaderKillsInv == ASSUME TurnsInv, NEW t \in Turns, ReaderKills(t) PROVE TurnsInv'
<1> USE DEF ReaderKills, history
<1>1. TypeOK /\ KillChildIfGeneration(t)
  BY DEF TurnsInv
<1>2. "tail" \in ReaderSteps \ {"off"}
  BY DEF ReaderSteps
<1>3. TypeOK' /\ ReadersStarted' /\ RoomToSend' /\ UserRowsMatch'
  <2>1. slot' \in 0..MaxTurns /\ proc' \in [Turns -> {"none", "run", "gone"}]
    BY <1>1, KillChildEffect, TurnsAssumption DEF TypeOK
  <2>2. /\ reader' \in [Turns -> ReaderSteps]
        /\ ReadersStarted' /\ RoomToSend' /\ UserRowsMatch'
    BY <1>2, ReaderKept
  <2> QED BY <1>1, <2>1, <2>2 DEF TypeOK
<1>4. SlotIsCurrent' /\ NoOrphanProcess'
  BY <1>1, KillChildEffect, SlotKept
<1>5. CancelledStops' /\ CancelDiscards'
  <2>1. t \notin replies
    BY DEF TurnsInv, CancelledStops
  <2> QED BY <1>2, <2>1, ReaderKept DEF TurnsInv, CancelledStops, CancelDiscards, TypeOK
<1> QED BY <1>3, <1>4, <1>5 DEF TurnsInv

\* The decision, and the reply it lets through.
LEMMA ReaderDecidesInv ==
  ASSUME TurnsInv, NEW t \in Turns, ReaderDecides(t) \/ ReaderPersists(t)
  PROVE  TurnsInv'
<1> USE DEF history
<1>1. PICK step \in {"done", "persist"} :
         /\ ReaderGoes(t, step)
         /\ step = "persist" => t \notin cancelled
         /\ replies' \subseteq replies \union {t}
         /\ t \in replies' => (step = "done" /\ reader[t] = "persist") \/ t \in replies
  BY DEF ReaderDecides, ReaderPersists
<1>2. /\ reader[t] \notin {"off", "done"} /\ t \notin partial /\ t \notin replies
      /\ reader[t] = "persist" => t \notin cancelled \ late
  BY DEF TurnsInv, CancelDiscards, CancelledStops, ReaderDecides, ReaderPersists
<1>3. UNCHANGED <<gen, sending, users, slot, proc, flag, killers, terminal, cancelled,
                  reported, failed, partial, late, mute, left>>
  BY DEF ReaderDecides, ReaderPersists
<1>4. step \in ReaderSteps \ {"off"}
  BY DEF ReaderSteps
<1>5. TypeOK' /\ ReadersStarted' /\ RoomToSend' /\ UserRowsMatch'
  BY <1>1, <1>2, <1>3, <1>4, ReaderKept DEF TurnsInv, TypeOK
<1>6. SlotIsCurrent' /\ NoOrphanProcess'
  BY <1>3, SlotKept DEF Lives
<1>7. CancelledStops' /\ CancelDiscards'
  BY <1>1, <1>2, <1>3, <1>4, ReaderKept DEF TurnsInv, CancelledStops, CancelDiscards, TypeOK
<1> QED BY <1>5, <1>6, <1>7 DEF TurnsInv

\* A step of the specification preserves the invariant.
LEMMA StepInv == TurnsInv /\ [Next]_vars => TurnsInv'
<1> SUFFICES ASSUME TurnsInv, [Next]_vars PROVE TurnsInv'
  OBVIOUS
<1>1. CASE Send(TRUE) \/ Send(FALSE)
  BY <1>1, SendInv
<1>2. CASE SpawnFails \/ SendGoesOn
  BY <1>2, SpawnFailsInv, SpawnInv, RaiseFlagInv, TakeSlotInv, BumpInv DEF SendGoesOn
<1>3. CASE Cancel \/ Probe
  BY <1>3, CancelInv, ProbeInv
<1>4. ASSUME NEW t \in Turns,
             Exits(t) \/ WatchArms(t) \/ SilentTrips(t) \/ SinkTrips(t) \/ Kills(t)
      PROVE  TurnsInv'
  BY <1>4, OthersInv
<1>5. ASSUME NEW t \in Turns,
             \/ Lingers(t) \/ ReaderSeesEnd(t) \/ ReaderFlushes(t) \/ FallsSilent(t)
             \/ ReaderAborts(t) \/ ReaderStep(t)
      PROVE  TurnsInv'
  BY <1>5, ReadingInv, ReaderPlainInv, ReaderKillsInv, ReaderDecidesInv
     DEF Lingers, ReaderStep, ReaderEof
<1>6. CASE UNCHANGED vars
  BY <1>6 DEF vars, threads, history, TurnsInv, TypeOK, RoomToSend, ReadersStarted, SlotIsCurrent,
              NoOrphanProcess, Lives, CancelledStops, CancelDiscards, UserRowsMatch
<1> QED BY <1>1, <1>2, <1>3, <1>4, <1>5, <1>6 DEF Next

LEMMA Invariant == Spec => []TurnsInv
<1>1. Init => TurnsInv
  BY InitInv
<1>2. TurnsInv /\ [Next]_vars => TurnsInv'
  BY StepInv
<1> QED BY <1>1, <1>2, PTL DEF Spec

-----------------------------------------------------------------------------
(* A busy session has somebody at its turn *)

\* A send lowers the flag first and raises it for a turn that has a process.
FlagIsDown == sending \in {"spawn", "flag"} => ~flag

\* Only turns that started are reported.
ReportsStarted == \A t \in reported : reader[t] # "off"

BusyInv == FlagIsDown /\ ReportsStarted /\ BusyIsAttended

\* The steps of a send: it leaves the flag up only with a turn that just began.
LEMMA BusySend ==
  ASSUME TurnsInv, BusyInv,
         Send(TRUE) \/ Send(FALSE) \/ SpawnFails \/ SendGoesOn
  PROVE  BusyInv'
<1> USE TurnsAssumption DEF BusyInv, threads, history
<1>1. CASE Send(TRUE) \/ Send(FALSE) \/ SpawnFails
  BY <1>1 DEF Send, SpawnFails, FlagIsDown, ReportsStarted, BusyIsAttended
<1>2. CASE Spawn \/ RaiseFlag \/ TakeSlot
  BY <1>2 DEF Spawn, RaiseFlag, TakeSlot, FlagIsDown, ReportsStarted, BusyIsAttended
<1>3. CASE Bump
  <2>1. gen + 1 \in Turns /\ reader[gen + 1] = "off" /\ gen \in Nat
    BY <1>3 DEF Bump, TurnsInv, RoomToSend, ReadersStarted, TypeOK, Turns
  <2>2. gen' = gen + 1 /\ reader' = [reader EXCEPT ![gen + 1] = "read"]
    BY <1>3 DEF Bump
  <2>3. reader \in [Turns -> ReaderSteps] /\ reported \subseteq Turns /\ reported' = reported
    BY <1>3 DEF Bump, TurnsInv, TypeOK
  <2>4. gen + 1 \notin reported
    BY <2>1 DEF ReportsStarted
  <2>5. BusyIsAttended'
    BY <2>1, <2>2, <2>3, <2>4 DEF BusyIsAttended
  <2>6. FlagIsDown' /\ ReportsStarted'
    BY <1>3, <2>1, <2>2, <2>3 DEF Bump, FlagIsDown, ReportsStarted
  <2> QED BY <2>5, <2>6
<1> QED BY <1>1, <1>2, <1>3 DEF SendGoesOn

\* Who lowers the flag, and what happens to a process or to who is on its way to it.
LEMMA BusyOthers ==
  ASSUME TurnsInv, BusyInv,
         \/ Cancel \/ Probe
         \/ \E t \in Turns : Exits(t) \/ WatchArms(t) \/ SilentTrips(t) \/ SinkTrips(t) \/ Kills(t)
  PROVE  BusyInv'
<1> USE DEF BusyInv, threads, history
<1>1. CASE Cancel \/ Probe
  BY <1>1 DEF Cancel, Probe, FlagIsDown, ReportsStarted, BusyIsAttended
<1>2. ASSUME NEW t \in Turns, Exits(t) PROVE BusyInv'
  <2>1. Lives(gen)' => Lives(gen)
    BY <1>2 DEF Exits, Lives, TurnsInv, TypeOK
  <2> QED BY <1>2, <2>1 DEF Exits, FlagIsDown, ReportsStarted, BusyIsAttended
<1>3. ASSUME NEW t \in Turns, WatchArms(t) \/ SilentTrips(t) \/ SinkTrips(t) PROVE BusyInv'
  <2>1. UNCHANGED <<flag, gen, sending, proc, reader>> /\ reader[t] # "off"
    BY <1>3 DEF WatchArms, SilentTrips, SinkTrips, Trips
  <2>2. /\ reported' \subseteq reported \union {t} /\ killers' = killers \union {t}
        /\ reported' # reported => t \in killers'
    BY <1>3 DEF WatchArms, SilentTrips, SinkTrips, Trips
  <2> QED BY <2>1, <2>2 DEF FlagIsDown, ReportsStarted, BusyIsAttended, Lives
<1>4. ASSUME NEW t \in Turns, Kills(t) PROVE BusyInv'
  <2>1. /\ sending = "no" /\ UNCHANGED <<flag, gen, sending, reader, reported>>
        /\ killers' = killers \ {t}
    BY <1>4 DEF Kills, KillChildIfGeneration
  <2>2. \A u \in Turns : Lives(u)' => Lives(u)
    BY <1>4, KillChildEffect DEF TurnsInv, Kills
  <2>3. ASSUME t = gen PROVE ~Lives(gen)'
    <3>1. KillSlot
      BY <1>4, <2>3 DEF Kills, KillChildIfGeneration
    <3>2. Lives(gen)' => Lives(gen) /\ gen # slot
      BY <2>1, <2>3, <3>1, KillSlotEffect DEF TurnsInv, Lives
    <3>3. Lives(gen) => slot = gen
      BY <2>1, <2>3 DEF TurnsInv, NoOrphanProcess
    <3> QED BY <3>2, <3>3
  <2>4. gen # 0 => gen \in Turns
    BY DEF TurnsInv, TypeOK, Turns
  <2>5. BusyIsAttended'
    BY <2>1, <2>2, <2>3, <2>4 DEF BusyIsAttended
  <2> QED BY <2>1, <2>5 DEF FlagIsDown, ReportsStarted
<1> QED BY <1>1, <1>2, <1>3, <1>4

\* The reader of a turn: until it is past the comparison, or has lowered the flag,
\* the turn is its own.
LEMMA BusyReader ==
  ASSUME TurnsInv, BusyInv, NEW t \in Turns,
         \/ Lingers(t) \/ ReaderSeesEnd(t) \/ ReaderFlushes(t) \/ FallsSilent(t)
         \/ ReaderAborts(t) \/ ReaderStep(t)
  PROVE  BusyInv'
<1> USE DEF BusyInv, threads, history
<1>0. reader \in [Turns -> ReaderSteps] /\ TypeOK
  BY DEF TurnsInv, TypeOK
<1>1. CASE ReaderSeesEnd(t) \/ ReaderFlushes(t) \/ FallsSilent(t)
  BY <1>1 DEF ReaderSeesEnd, ReaderFlushes, FallsSilent, FlagIsDown, ReportsStarted, BusyIsAttended, Lives
<1>2. CASE ReaderAborts(t) \/ Eof(t) \/ ReaderTail(t)
  <2>1. /\ UNCHANGED <<flag, gen, sending, proc, killers>>
        /\ reported' \subseteq reported \union {t} /\ reader[t] # "off"
        /\ \E step \in {"kill", "tail", "check"} : reader' = [reader EXCEPT ![t] = step]
        /\ reader[t] \in {"read", "kill", "tail"}
        /\ t \in reported' => t \in reported \/ reader'[t] = "kill"
    BY <1>0, <1>2 DEF ReaderAborts, Eof, ReaderTail, ReaderGoes
  <2> QED BY <1>0, <2>1 DEF FlagIsDown, ReportsStarted, BusyIsAttended, Lives
<1>3. CASE ReaderKills(t)
  <2>1. /\ UNCHANGED <<flag, gen, sending, killers, reported>>
        /\ reader' = [reader EXCEPT ![t] = "tail"] /\ reader[t] = "kill"
    BY <1>3 DEF ReaderKills, ReaderGoes
  <2>2. \A u \in Turns : Lives(u)' => Lives(u)
    BY <1>0, <1>3, KillChildEffect DEF ReaderKills
  <2>3. gen # 0 => gen \in Turns
    BY <1>0 DEF TypeOK, Turns
  <2> QED BY <1>0, <2>1, <2>2, <2>3 DEF FlagIsDown, ReportsStarted, BusyIsAttended
<1>4. CASE ReaderChecks(t)
  <2>1. /\ UNCHANGED <<flag, gen, sending, proc, killers, reported>>
        /\ reader[t] = "check" /\ (gen = t => reader' = [reader EXCEPT ![t] = "clear"])
        /\ \E step \in {"clear", "done", "fin"} : reader' = [reader EXCEPT ![t] = step]
    BY <1>4 DEF ReaderChecks, ReaderGoes, AfterFlag
  <2> QED BY <1>0, <2>1 DEF FlagIsDown, ReportsStarted, BusyIsAttended, Lives
<1>5. CASE ReaderClears(t)
  <2>1. /\ ~flag' /\ UNCHANGED <<sending, reported>>
        /\ \E step \in {"done", "fin"} : reader' = [reader EXCEPT ![t] = step]
    BY <1>5 DEF ReaderClears, ReaderGoes, AfterFlag
  <2> QED BY <1>0, <2>1 DEF FlagIsDown, ReportsStarted, BusyIsAttended
<1>6. CASE ReaderDecides(t) \/ ReaderPersists(t)
  <2>1. /\ UNCHANGED <<flag, gen, sending, proc, killers, reported>>
        /\ reader[t] \in {"fin", "persist"}
        /\ \E step \in {"persist", "done"} : reader' = [reader EXCEPT ![t] = step]
    BY <1>6 DEF ReaderDecides, ReaderPersists, ReaderGoes
  <2> QED BY <1>0, <2>1 DEF FlagIsDown, ReportsStarted, BusyIsAttended, Lives
<1> QED BY <1>1, <1>2, <1>3, <1>4, <1>5, <1>6 DEF Lingers, ReaderStep, ReaderEof

\* A busy flag has a reader that will lower it, and a reported turn a kill to come.
THEOREM BusyAttended == Spec => []BusyIsAttended
<1>1. Init => BusyInv
  BY DEF Init, BusyInv, FlagIsDown, ReportsStarted, BusyIsAttended
<1>2. TurnsInv /\ BusyInv /\ [Next]_vars => BusyInv'
  <2> SUFFICES ASSUME TurnsInv, BusyInv, [Next]_vars PROVE BusyInv'
    OBVIOUS
  <2>1. CASE Next
    BY <2>1, BusySend, BusyOthers, BusyReader DEF Next
  <2>2. CASE UNCHANGED vars
    BY <2>2 DEF vars, threads, history, BusyInv, FlagIsDown, ReportsStarted, BusyIsAttended, Lives
  <2> QED BY <2>1, <2>2
<1>3. BusyInv => BusyIsAttended
  BY DEF BusyInv
<1> QED BY <1>1, <1>2, <1>3, Invariant, PTL DEF Spec

-----------------------------------------------------------------------------
\* Every variable keeps its type.
THEOREM TypeCorrect == Spec => []TypeOK
<1>1. TurnsInv => TypeOK
  BY DEF TurnsInv
<1> QED BY <1>1, Invariant, PTL

\* A process that lives is the child in the slot, or still with the send that
\* spawned it: a cancel and the watchdogs of the current turn reach it.
THEOREM NoOrphan == Spec => []NoOrphanProcess
<1>1. TurnsInv => NoOrphanProcess
  BY DEF TurnsInv
<1> QED BY <1>1, Invariant, PTL

\* A turn cancelled in time leaves neither a reply nor a snapshot.
THEOREM CancelledDiscarded == Spec => []CancelDiscards
<1>1. TurnsInv => CancelDiscards
  BY DEF TurnsInv
<1> QED BY <1>1, Invariant, PTL

\* The user's rows are those of the turns that started, however sends fail.
THEOREM RowsMatch == Spec => []UserRowsMatch
<1>1. TurnsInv => UserRowsMatch
  BY DEF TurnsInv
<1> QED BY <1>1, Invariant, PTL

\* A thread of a turn, late as it may be, kills no process of another turn.
THEOREM OwnKills == Spec => KillsOwnOnly
<1>1. ASSUME TurnsInv, NEW t \in Turns, Kills(t) \/ ReaderKills(t), NEW u \in Turns \ {t}
      PROVE  proc'[u] = proc[u]
  <2>1. TypeOK /\ KillChildIfGeneration(t) /\ sending = "no"
    BY <1>1 DEF TurnsInv, Kills, ReaderKills, KillChildIfGeneration
  <2>2. u # slot \/ gen # t
    BY <1>1, <2>1 DEF TurnsInv, SlotIsCurrent, Turns
  <2> QED BY <1>1, <2>1, <2>2, KillChildEffect
<1>2. TurnsInv /\ [Next]_vars => [\A t \in Turns : Kills(t) \/ ReaderKills(t) =>
                                    \A u \in Turns \ {t} : proc'[u] = proc[u]]_vars
  BY <1>1
<1> QED BY <1>2, Invariant, PTL DEF Spec, KillsOwnOnly

-----------------------------------------------------------------------------
(* The turns implement the conversation *)

Running == {t \in 1..gen : Lives(t)}
Discarded == cancelled \ late
Seen == <<users, gen, Running, replies, Discarded>>

\* A step that leaves alone what the user sees, but for processes that die, is a
\* death of the conversation or no step of it.
LEMMA DiesStep ==
  ASSUME UNCHANGED <<users, gen, replies, cancelled, late>>, TypeOK,
         \A u \in 1..gen : Lives(u)' => Lives(u)
  PROVE  Talk!Next
<1>1. Running' \subseteq Running
  BY DEF Running, Lives
<1>2. Talk!Dies
  BY <1>1 DEF Talk!Dies, Running
<1> QED BY <1>2 DEF Talk!Next

LEMMA ConversationInit == Init => Talk!Init
<1> SUFFICES ASSUME Init PROVE Talk!Init
  OBVIOUS
<1>1. 1..gen = {}
  BY DEF Init
<1> QED BY <1>1 DEF Init, Talk!Init

\* The message of a send, and its end.
LEMMA SendTalks ==
  ASSUME TurnsInv, Send(TRUE) \/ Send(FALSE) \/ SpawnFails
  PROVE  Talk!Next
<1> USE DEF TurnsInv, threads, history
<1>1. CASE Send(TRUE) \/ Send(FALSE)
  <2>1. users = gen /\ UNCHANGED <<gen, replies, cancelled, late>> /\ users' = users + 1
    BY <1>1 DEF Send, UserRowsMatch, TypeOK
  <2>2. \A u \in Turns : Lives(u)' => Lives(u)
    BY <1>1, KillSlotEffect DEF Send, Lives
  <2>3. 1..gen \subseteq Turns
    BY TurnsAssumption DEF TypeOK, Turns
  <2>4. Running' \subseteq Running
    BY <2>1, <2>2, <2>3 DEF Running
  <2>5. Talk!Ask
    BY <2>1, <2>4 DEF Talk!Ask, Running
  <2> QED BY <2>5 DEF Talk!Next
<1>2. CASE SpawnFails
  <2>1. users = gen + 1 /\ users' = users - 1 /\ gen \in Nat
    BY <1>2 DEF SpawnFails, UserRowsMatch, TypeOK
  <2>2. UNCHANGED <<gen, proc, replies, cancelled, late>>
    BY <1>2 DEF SpawnFails
  <2>3. users' = gen
    BY <2>1
  <2>4. Talk!Withdraw
    BY <2>1, <2>2, <2>3 DEF Talk!Withdraw, Lives
  <2> QED BY <2>4 DEF Talk!Next
<1> QED BY <1>1, <1>2

\* The rest of a send: the turn begins with the generation, and by then the process
\* of the turn before has been killed.
LEMMA BeginTalks ==
  ASSUME TurnsInv, SendGoesOn
  PROVE  Talk!Next
<1> USE TurnsAssumption DEF TurnsInv, threads, history
<1>1. 1..gen \subseteq Turns /\ gen \in Nat /\ TypeOK
  BY DEF TypeOK, Turns
<1>2. CASE Spawn \/ RaiseFlag \/ TakeSlot
  <2>1. UNCHANGED <<users, gen, replies, cancelled, late>>
    BY <1>2 DEF Spawn, RaiseFlag, TakeSlot
  <2>2. \A u \in 1..gen : Lives(u)' => Lives(u)
    <3>1. CASE Spawn
      BY <1>1, <3>1 DEF Spawn, Lives, TypeOK
    <3>2. CASE RaiseFlag \/ TakeSlot
      BY <1>1, <3>2 DEF RaiseFlag, TakeSlot, Killed, Lives, TypeOK
    <3> QED BY <1>2, <3>1, <3>2
  <2> QED BY <1>1, <2>1, <2>2, DiesStep
<1>3. CASE Bump
  <2>1. /\ users = gen + 1 /\ gen' = gen + 1 /\ slot = gen + 1 /\ gen + 1 \in Turns
        /\ UNCHANGED <<users, proc, replies, cancelled, late>>
    BY <1>1, <1>3 DEF Bump, UserRowsMatch, SlotIsCurrent, RoomToSend, TypeOK, Turns
  <2>2. \A u \in Turns : Lives(u) => u = gen + 1
    BY <1>3, <2>1 DEF Bump, NoOrphanProcess
  <2>3. Running' \subseteq {users}
    <3>1. 1..(gen + 1) \subseteq Turns
      BY <2>1 DEF Turns
    <3> QED BY <2>1, <2>2, <3>1 DEF Running, Lives
  <2>4. Talk!Begin
    BY <2>1, <2>3 DEF Talk!Begin, Running
  <2> QED BY <2>4 DEF Talk!Next
<1> QED BY <1>2, <1>3 DEF SendGoesOn

\* A cancel discards the current turn, unless its reader had decided already.
LEMMA CancelTalks ==
  ASSUME TurnsInv, Cancel
  PROVE  Talk!Next
<1> USE TurnsAssumption DEF TurnsInv
<1>1. /\ users = gen /\ gen \in Turns /\ 1..gen \subseteq Turns
      /\ UNCHANGED <<users, gen, replies>>
  BY DEF Cancel, threads, UserRowsMatch, TypeOK, Turns
<1>2. \A u \in Turns : Lives(u)' => Lives(u) /\ u # slot
  BY KillSlotEffect DEF Cancel
<1>3. \A u \in 1..gen : ~Lives(u)'
  BY <1>1, <1>2 DEF Cancel, NoOrphanProcess
<1>4. CASE reader[gen] \in Decided
  <2>1. Discarded' = Discarded
    BY <1>4 DEF Cancel, Discarded
  <2>2. Running' \subseteq Running
    BY <1>1, <1>3 DEF Running
  <2>3. Talk!Dies
    BY <1>1, <2>1, <2>2 DEF Talk!Dies, Running, Discarded
  <2> QED BY <2>3 DEF Talk!Next
<1>5. CASE reader[gen] \notin Decided
  <2>1. gen \notin replies \cup Discarded
    BY <1>5 DEF Cancel, CancelledStops, Decided, Discarded
  <2>2. Discarded' = Discarded \cup {gen}
    <3>1. gen \notin late
      BY DEF Cancel, CancelledStops
    <3> QED BY <1>5, <3>1 DEF Cancel, Discarded
  <2>3. Running' = {}
    BY <1>1, <1>3 DEF Running
  <2>4. gen # 0
    BY DEF Cancel
  <2>5. Talk!Discard
    BY <1>1, <2>1, <2>2, <2>3, <2>4 DEF Talk!Discard, Running, Discarded
  <2> QED BY <2>5 DEF Talk!Next
<1> QED BY <1>4, <1>5

\* What everybody else does: processes die, and a reader stores its reply.
LEMMA ThreadsTalk ==
  ASSUME TurnsInv, NEW t \in Turns,
         \/ Probe \/ Exits(t) \/ FallsSilent(t) \/ Lingers(t) \/ ReaderSeesEnd(t) \/ ReaderFlushes(t)
         \/ ReaderAborts(t) \/ ReaderStep(t) \/ WatchArms(t) \/ SilentTrips(t)
         \/ SinkTrips(t) \/ Kills(t)
  PROVE  Talk!Next
<1> USE DEF threads, history
<1>1. TypeOK /\ 1..gen \subseteq Turns
  BY TurnsAssumption DEF TurnsInv, TypeOK, Turns
<1>2. CASE \/ Probe \/ FallsSilent(t) \/ Eof(t) \/ ReaderSeesEnd(t) \/ ReaderFlushes(t) \/ ReaderAborts(t)
           \/ ReaderTail(t) \/ ReaderChecks(t) \/ ReaderClears(t) \/ ReaderDecides(t)
           \/ WatchArms(t) \/ SilentTrips(t) \/ SinkTrips(t)
  <2>1. UNCHANGED <<users, gen, proc, replies, cancelled, late>>
    BY <1>2 DEF Probe, FallsSilent, Eof, ReaderSeesEnd, ReaderFlushes, ReaderAborts, ReaderTail, ReaderChecks,
                ReaderClears, ReaderDecides, WatchArms, SilentTrips, SinkTrips, Trips
  <2> QED BY <1>1, <2>1, DiesStep DEF Lives
<1>3. CASE Exits(t)
  <2>1. UNCHANGED <<users, gen, replies, cancelled, late>>
    BY <1>3 DEF Exits
  <2>2. \A u \in Turns : Lives(u)' => Lives(u)
    BY <1>1, <1>3 DEF Exits, Lives, TypeOK
  <2> QED BY <1>1, <2>1, <2>2, DiesStep
<1>4. CASE ReaderKills(t) \/ Kills(t)
  <2>1. UNCHANGED <<users, gen, replies, cancelled, late>> /\ KillChildIfGeneration(t)
    BY <1>4 DEF ReaderKills, Kills
  <2>2. \A u \in Turns : Lives(u)' => Lives(u)
    BY <1>1, <2>1, KillChildEffect
  <2> QED BY <1>1, <2>1, <2>2, DiesStep
<1>5. CASE ReaderPersists(t)
  <2>1. /\ UNCHANGED <<users, gen, proc, cancelled, late>>
        /\ reader[t] = "persist" /\ replies' = replies \cup {t}
    BY <1>5 DEF ReaderPersists
  <2>2. t \notin replies \cup Discarded
    BY <2>1 DEF TurnsInv, CancelledStops, Discarded
  <2>3. t \in 1..gen
    BY <1>1, <2>1 DEF TurnsInv, ReadersStarted, TypeOK, Turns
  <2>4. Talk!Answer(t)
    BY <2>1, <2>2 DEF Talk!Answer, Lives, Discarded
  <2> QED BY <2>3, <2>4 DEF Talk!Next
<1> QED BY <1>2, <1>3, <1>4, <1>5 DEF Lingers, ReaderStep, ReaderEof

\* There is a turn to speak of, also for a step that is of none.
LEMMA TurnsExist == 1 \in Turns
BY TurnsAssumption DEF Turns

\* The turns of a session on a per-turn CLI implement the conversation: messages
\* and turns alternate, turns are served by one process, and answered once or not at all.
THEOREM IsConversation == Spec => FollowsConversation
<1>1. Init => Talk!Init
  BY ConversationInit
<1>2. TurnsInv /\ [Next]_vars => [Talk!Next]_Seen
  <2> SUFFICES ASSUME TurnsInv, [Next]_vars PROVE Talk!Next \/ UNCHANGED Seen
    OBVIOUS
  <2>1. CASE Next
    BY <2>1, SendTalks, BeginTalks, CancelTalks, ThreadsTalk, TurnsExist DEF Next
  <2>2. CASE UNCHANGED vars
    BY <2>2 DEF vars, history, Seen, Running, Discarded, Lives
  <2> QED BY <2>1, <2>2
<1> QED BY <1>1, <1>2, Invariant, PTL DEF Spec, FollowsConversation, Talk!Spec, Seen, Running, Discarded
=============================================================================
