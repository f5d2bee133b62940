-------------------------- MODULE SessionMesh_proofs --------------------------
(***************************************************************************)
(* What TLAPS proves of SessionMesh for every set of sessions, every bound *)
(* and every cap: its type invariant, that a parked asker is watched, that *)
(* follow-ups answer questions and do not bounce, that a reply is stored,  *)
(* and how often a question is put to its target and followed up.          *)
(***************************************************************************)
EXTENDS MeshExchange, TLAPS, FiniteSetTheorems, SequenceTheorems, WellFoundedInduction

-----------------------------------------------------------------------------
(* The row an insert takes *)

\* The smallest number of a set is one of its members.
LEMMA OldestIn ==
  ASSUME NEW S, S \subseteq Nat, S # {}
  PROVE  Oldest(S) \in S
<1> DEFINE T == {1..x : x \in S}
           R == StrictSubsetOrdering(Nat)
<1>1. T # {} /\ T \subseteq FiniteSubsetsOf(Nat)
  <2>1. \A x \in S : 1..x \subseteq Nat /\ IsFiniteSet(1..x)
    BY FS_Interval
  <2> QED BY <2>1 DEF FiniteSubsetsOf
<1>2. PICK t \in T : \A u \in T : ~ (<<u, t>> \in R)
  <2> HIDE DEF T, R
  <2>1. IsWellFoundedOn(R, FiniteSubsetsOf(Nat))
    BY FS_StrictSubsetOrderingWellFounded DEF R
  <2> QED BY <1>1, <2>1, WFMin
<1>3. PICK x \in S : t = 1..x
  OBVIOUS
<1>4. ASSUME NEW y \in S, y < x PROVE FALSE
  <2>1. 1..y \subseteq 1..x /\ 1..y # 1..x
    <3>1. x \in 1..x /\ x \notin 1..y
      BY <1>4
    <3> QED BY <1>4, <3>1
  <2>2. <<1..y, 1..x>> \in R
    BY <2>1 DEF StrictSubsetOrdering
  <2> QED BY <1>2, <1>3, <2>2
<1>5. \A y \in S : x <= y
  BY <1>4
<1> QED BY <1>5 DEF Oldest

\* An insert takes a free row.
LEMMA NextIdFree ==
  ASSUME Used # Mails
  PROVE  NextId \in Mails /\ NextId \notin Used
<1>1. Mails \ Used # {} /\ Mails \ Used \subseteq Nat
  BY DEF Used, Mails
<1> QED BY <1>1, OldestIn DEF NextId

-----------------------------------------------------------------------------
(* Type correctness *)

\* The empty table and the idle tasks are typed.
LEMMA TypeInit == Init => TypeOK
<1> SUFFICES ASSUME Init PROVE TypeOK
  OBVIOUS
<1>1. AnySession \in Sessions
  BY MeshAssumption DEF AnySession
<1>2. NoRow \in MailRow
  BY <1>1 DEF NoRow, MailRow, Statuses, Modes, Answers
<1>3. PumpOff \in Pump
  BY MeshAssumption DEF PumpOff, Pump, PumpStates
<1>4. NoTurn \in NoTurn..MaxMail /\ 0 \in 0..MaxUserTurns /\ 0 \in 0..MaxRestarts
  BY MeshAssumption DEF NoTurn
<1> QED BY <1>2, <1>3, <1>4 DEF Init, TypeOK, DispStates

\* A status or a fresh row keeps the table typed.
LEMMA SetStatusType ==
  ASSUME TypeOK, NEW m \in Mails, NEW st \in Statuses, SetStatus(m, st)
  PROVE  mail' \in [Mails -> MailRow]
BY DEF TypeOK, SetStatus, MailRow

\* ... so does a fresh row, when its columns are typed.
LEMMA InsertMailType ==
  ASSUME TypeOK, NEW id \in Mails, NEW from \in Sessions, NEW to \in Sessions,
         NEW mode \in Modes, NEW depth \in Nat, NEW re \in Nat,
         InsertMail(id, from, to, mode, depth, re)
  PROVE  mail' \in [Mails -> MailRow]
BY DEF TypeOK, InsertMail, MailRow, Statuses, Answers

\* A watcher is armed with a watermark and no answer.
LEMMA NewWatcherType ==
  ASSUME TypeOK, NEW m \in Mails, NEW wm \in Nat, NewWatcher(m, wm)
  PROVE  watch' \in [Mails -> Seq(Watcher)]
<1> DEFINE x == [st |-> "poll", mark |-> wm, rearmed |-> FALSE, answer |-> "none"]
<1>1. x \in Watcher
  BY DEF Watcher, WatchStates, Answers
<1>2. watch[m] \in Seq(Watcher)
  BY DEF TypeOK
<1>3. Append(watch[m], x) \in Seq(Watcher)
  BY <1>1, <1>2, AppendProperties
<1>4. watch' = [watch EXCEPT ![m] = Append(watch[m], x)] \/ watch' = watch
  BY DEF NewWatcher
<1> HIDE DEF x
<1> QED BY <1>3, <1>4 DEF TypeOK

\* A kick leaves the pumps typed, whether it spawns one or not.
LEMMA PumpKickType ==
  ASSUME TypeOK, NEW t \in Sessions, PumpKick(t)
  PROVE  pump' \in [Sessions -> Pump]
<1>1. PumpOff \in Pump
  BY MeshAssumption DEF PumpOff, Pump, PumpStates
<1>2. [PumpOff EXCEPT !.st = "pick"] \in Pump
  BY <1>1 DEF Pump, PumpStates
<1> QED BY <1>2 DEF PumpKick, TypeOK

\* The sending code keeps every variable typed.
LEMMA DispatchType ==
  ASSUME TypeOK, NEW m \in Mails, DispatchStep(m)
  PROVE  TypeOK'
<1> USE DEF TypeOK
<1>1. mail[m] \in MailRow /\ mail[m].to \in Sessions /\ mail[m].mode \in Modes
  BY DEF MailRow
<1>2. CASE ParkWaiter(m)
  BY <1>2 DEF ParkWaiter, DispStates, Dispatching
<1>3. CASE TestBusy(m)
  BY <1>3 DEF TestBusy, DispStates, Dispatching
<1>4. CASE CountBacklog(m)
  BY <1>4 DEF CountBacklog, Tell, DispStates, Dispatching, Said
<1>5. CASE KickPump(m)
  <2>1. pump' \in [Sessions -> Pump]
    BY <1>1, <1>5, PumpKickType DEF KickPump
  <2> QED BY <1>5, <2>1 DEF KickPump, Tell, DispStates, Said
<1>6. CASE MarkDelivered(m)
  <2>1. mail' \in [Mails -> MailRow]
    BY <1>6, SetStatusType DEF MarkDelivered, Statuses
  <2>2. Len(rows[mail[m].to]) \in Nat
    BY <1>1, LenProperties
  <2>3. mark' \in [Mails -> Nat]
    BY <1>6, <2>2 DEF MarkDelivered
  <2> QED BY <1>6, <2>1, <2>3 DEF MarkDelivered, DispStates, Dispatching
<1>7. CASE RunTurnOk(m)
  <2>1. turn' \in [Sessions -> NoTurn..MaxMail]
    BY <1>1, <1>7, MeshAssumption DEF RunTurnOk, StartTurn, Mails, NoTurn
  <2>2. watch' \in [Mails -> Seq(Watcher)]
    <3>1. mark[m] \in Nat
      OBVIOUS
    <3> QED BY <1>7, <3>1, NewWatcherType DEF RunTurnOk
  <2>3. disp' \in [Mails -> DispStates]
    BY <1>7 DEF RunTurnOk, Tell, DispStates, Waiting, Said
  <2> QED BY <1>7, <2>1, <2>2, <2>3 DEF RunTurnOk
<1>8. CASE RunTurnBusy(m)
  BY <1>8 DEF RunTurnBusy, Tell, DispStates, Dispatching, Said
<1>9. CASE RunTurnFails(m)
  BY <1>9 DEF RunTurnFails, Tell, DispStates, Dispatching, Said
<1>10. CASE Requeue(m)
  <2>1. mail' \in [Mails -> MailRow]
    BY <1>10, SetStatusType DEF Requeue, Statuses
  <2> QED BY <1>10, <2>1 DEF Requeue, DispStates, Dispatching
<1>11. CASE DropWaiter(m)
  BY <1>11 DEF DropWaiter, DispStates, Dispatching
<1>12. CASE Reject(m)
  <2>1. mail' \in [Mails -> MailRow]
    BY <1>12, SetStatusType DEF Reject, Statuses
  <2> QED BY <1>12, <2>1 DEF Reject, DispStates, Said
<1>13. CASE TakeReply(m)
  BY <1>13 DEF TakeReply, DispStates, Said
<1>14. CASE TimeoutFires(m)
  BY <1>14 DEF TimeoutFires, DispStates, Waiting
<1>15. CASE TimeoutReturns(m)
  BY <1>15 DEF TimeoutReturns, DispStates, Said
<1> QED
  BY <1>2, <1>3, <1>4, <1>5, <1>6, <1>7, <1>8, <1>9, <1>10, <1>11, <1>12, <1>13,
     <1>14, <1>15 DEF DispatchStep

\* A pump between two mails is typed.
LEMMA PumpGotoType ==
  ASSUME TypeOK, NEW t \in Sessions, NEW st \in PumpStates, PumpGoto(t, st)
  PROVE  pump' \in [Sessions -> Pump]
<1>1. PumpOff \in Pump /\ pump[t].late \in BOOLEAN
  BY MeshAssumption DEF PumpOff, Pump, PumpStates, TypeOK
<1>2. [PumpOff EXCEPT !.st = st, !.late = pump[t].late] \in Pump
  BY <1>1 DEF Pump
<1> QED BY <1>2 DEF PumpGoto, TypeOK

\* The drain pump keeps every variable typed, as it only handles rows of the table.
LEMMA PumpType ==
  ASSUME TypeOK, PumpHasMail, NEW t \in Sessions, PumpStep(t)
  PROVE  TypeOK'
<1> USE DEF TypeOK
<1>1. pump[t] \in Pump
  OBVIOUS
<1>2. CASE PumpPick(t)
  <2>1. pump' \in [Sessions -> Pump]
    <3>1. CASE QueuedMailFor(t) = {}
      BY <1>2, <3>1, PumpGotoType DEF PumpPick, PumpStates
    <3>2. CASE QueuedMailFor(t) # {}
      <4> DEFINE o == Oldest(QueuedMailFor(t))
      <4>1. QueuedMailFor(t) \subseteq 1..MaxMail /\ QueuedMailFor(t) \subseteq Nat
        BY DEF QueuedMailFor, Used, Mails
      <4>2. o \in 0..MaxMail
        <5>1. o \in QueuedMailFor(t)
          BY <3>2, <4>1, OldestIn
        <5> QED BY <4>1, <5>1, MeshAssumption
      <4>3. [pump[t] EXCEPT !.st = "have", !.mail = o] \in Pump
        BY <1>1, <4>2 DEF Pump, PumpStates
      <4>4. pump' = [pump EXCEPT ![t] = [pump[t] EXCEPT !.st = "have", !.mail = o]]
        BY <1>2, <3>2 DEF PumpPick
      <4> QED BY <4>3, <4>4
    <3> QED BY <3>1, <3>2
  <2> QED BY <1>2, <2>1 DEF PumpPick
<1>3. CASE PumpExpire(t)
  <2>1. mail' \in [Mails -> MailRow]
    BY <1>3, SetStatusType DEF PumpExpire, PumpHasMail, Used, Statuses
  <2> QED BY <1>3, <2>1 DEF PumpExpire, Pump, PumpStates
<1>4. CASE PumpTestBusy(t)
  <2>1. pump' \in [Sessions -> Pump]
    <3>1. CASE SessionBusy(t)
      BY <1>4, <3>1, PumpGotoType DEF PumpTestBusy, PumpStates
    <3>2. CASE ~SessionBusy(t)
      <4>1. [pump[t] EXCEPT !.st = "deliver"] \in Pump
        BY <1>1 DEF Pump, PumpStates
      <4> QED BY <1>4, <3>2, <4>1 DEF PumpTestBusy
    <3> QED BY <3>1, <3>2
  <2> QED BY <1>4, <2>1 DEF PumpTestBusy
<1>5. CASE PumpMarkDelivered(t)
  <2>1. mail' \in [Mails -> MailRow]
    BY <1>5, SetStatusType DEF PumpMarkDelivered, PumpHasMail, Used, Statuses
  <2>2. Len(rows[t]) \in Nat
    BY LenProperties
  <2> QED BY <1>5, <2>1, <2>2 DEF PumpMarkDelivered, Pump, PumpStates
<1>6. CASE PumpRunOk(t)
  <2>1. pump[t].mail \in Mails /\ pump[t].mark \in Nat
    BY <1>6 DEF PumpRunOk, PumpHasMail, Used, Pump
  <2>2. turn' \in [Sessions -> NoTurn..MaxMail]
    <3>1. pump[t].mail \in NoTurn..MaxMail
      BY <2>1, MeshAssumption DEF Mails, NoTurn
    <3>2. mail[pump[t].mail] \in MailRow /\ mail[pump[t].mail].to \in Sessions
      BY <2>1 DEF MailRow
    <3> QED BY <1>6, <3>1, <3>2 DEF PumpRunOk, StartTurn
  <2>3. watch' \in [Mails -> Seq(Watcher)]
    <3>1. pump[t].mail \in Mails /\ pump[t].mark \in Nat
      BY <2>1 DEF Pump
    <3> QED BY <1>6, <3>1, NewWatcherType DEF PumpRunOk
  <2>4. pump' \in [Sessions -> Pump]
    BY <1>6, PumpGotoType DEF PumpRunOk, PumpStates
  <2> QED BY <1>6, <2>2, <2>3, <2>4 DEF PumpRunOk
<1>7. CASE PumpRunBusy(t)
  <2>1. mail' \in [Mails -> MailRow]
    BY <1>7, SetStatusType DEF PumpRunBusy, PumpHasMail, Used, Statuses
  <2>2. pump' \in [Sessions -> Pump]
    BY <1>7, PumpGotoType DEF PumpRunBusy, PumpStates
  <2> QED BY <1>7, <2>1, <2>2 DEF PumpRunBusy
<1>8. CASE PumpRunFails(t)
  <2>1. mail' \in [Mails -> MailRow]
    BY <1>8, SetStatusType DEF PumpRunFails, PumpHasMail, Used, Statuses
  <2> QED BY <1>8, <2>1 DEF PumpRunFails, Pump, PumpStates
<1>9. CASE PumpResolve(t)
  <2>1. pump' \in [Sessions -> Pump]
    BY <1>9, PumpGotoType DEF PumpResolve, PumpStates
  <2> QED BY <1>9, <2>1 DEF PumpResolve, ResolveWaiter
<1>10. CASE PumpTurnOver(t)
  BY <1>10, PumpGotoType DEF PumpTurnOver, PumpStates
<1>11. CASE PumpExit(t)
  <2>1. PumpOff \in Pump
    BY MeshAssumption DEF PumpOff, Pump, PumpStates
  <2> QED BY <1>11, <2>1 DEF PumpExit
<1> QED
  BY <1>2, <1>3, <1>4, <1>5, <1>6, <1>7, <1>8, <1>9, <1>10, <1>11 DEF PumpStep

\* Any change of one watcher keeps the sequence typed.
LEMMA WatchChange ==
  ASSUME TypeOK, NEW m \in Mails, NEW w \in DOMAIN watch[m], NEW x \in Watcher,
         watch' = [watch EXCEPT ![m] = [watch[m] EXCEPT ![w] = x]]
  PROVE  watch' \in [Mails -> Seq(Watcher)]
<1>1. watch[m] \in Seq(Watcher) /\ w \in 1..Len(watch[m])
  BY LenProperties DEF TypeOK
<1>2. [watch[m] EXCEPT ![w] = x] \in Seq(Watcher)
  BY <1>1, ExceptSeq
<1> QED BY <1>2 DEF TypeOK

\* Moving a watcher to its next step keeps it typed.
LEMMA SetWatchType ==
  ASSUME TypeOK, NEW m \in Mails, NEW w \in DOMAIN watch[m], NEW st \in WatchStates,
         SetWatch(m, w, st)
  PROVE  watch' \in [Mails -> Seq(Watcher)]
<1>1. watch[m][w] \in Watcher
  BY ElementOfSeq, LenProperties DEF TypeOK
<1>2. [watch[m][w] EXCEPT !.st = st] \in Watcher
  BY <1>1 DEF Watcher
<1>3. watch' = [watch EXCEPT ![m] = [watch[m] EXCEPT ![w] = [watch[m][w] EXCEPT !.st = st]]]
  BY DEF SetWatch
<1> QED BY <1>2, <1>3, WatchChange

\* A finished watcher is typed.
LEMMA EndWatchType ==
  ASSUME TypeOK, NEW m \in Mails, NEW w \in DOMAIN watch[m], EndWatch(m, w)
  PROVE  watch' \in [Mails -> Seq(Watcher)]
<1>1. WatcherDone \in Watcher
  BY DEF WatcherDone, Watcher, WatchStates, Answers
<1>2. watch' = [watch EXCEPT ![m] = [watch[m] EXCEPT ![w] = WatcherDone]]
  BY DEF EndWatch
<1> QED BY <1>1, <1>2, WatchChange

\* A watcher that carries an answer or a notice is typed.
LEMMA SettleType ==
  ASSUME TypeOK, NEW m \in Mails, NEW w \in DOMAIN watch[m], NEW st \in WatchStates,
         NEW a \in Answers, Settle(m, w, st, a)
  PROVE  watch' \in [Mails -> Seq(Watcher)]
<1>1. [WatcherDone EXCEPT !.st = st, !.answer = a] \in Watcher
  BY DEF WatcherDone, Watcher
<1>2. watch' = [watch EXCEPT ![m] =
                  [watch[m] EXCEPT ![w] = [WatcherDone EXCEPT !.st = st, !.answer = a]]]
  BY DEF Settle
<1> QED BY <1>1, <1>2, WatchChange

\* What a watcher finds past its watermark is a row of the transcript.
LEMMA LastMessageIsRow ==
  ASSUME TypeOK, NEW s \in Sessions, NEW wm \in Nat
  PROVE  LastAssistantMessageAfter(s, wm) \in Row \cup {"none"}
<1>1. CASE Len(rows[s]) > wm
  <2>1. rows[s] \in Seq(Row) /\ Len(rows[s]) \in 1..Len(rows[s])
    BY <1>1, LenProperties DEF TypeOK
  <2>2. Last(rows[s]) \in Row
    BY <2>1, ElementOfSeq DEF Last
  <2> QED BY <1>1, <2>2 DEF LastAssistantMessageAfter
<1>2. CASE ~ (Len(rows[s]) > wm)
  BY <1>2 DEF LastAssistantMessageAfter
<1> QED BY <1>1, <1>2

\* The answer watchers keep every variable typed, their follow-up rows included.
LEMMA WatchType ==
  ASSUME TypeOK, NEW m \in Mails, NEW w \in DOMAIN watch[m], WatchStep(m, w)
  PROVE  TypeOK'
<1> USE DEF TypeOK
<1>1. /\ mail[m] \in MailRow
      /\ mail[m].to \in Sessions /\ mail[m].from \in Sessions /\ mail[m].depth \in Nat
      /\ watch[m][w] \in Watcher
  <2>1. watch[m][w] \in Watcher
    BY ElementOfSeq, LenProperties
  <2> QED BY <2>1 DEF MailRow
<1>2. CASE WatchRearm(m, w)
  <2>1. [watch[m][w] EXCEPT !.rearmed = TRUE] \in Watcher
    BY <1>1 DEF Watcher
  <2>2. watch' = [watch EXCEPT ![m] =
                    [watch[m] EXCEPT ![w] = [watch[m][w] EXCEPT !.rearmed = TRUE]]]
    BY <1>2 DEF WatchRearm
  <2>3. watch' \in [Mails -> Seq(Watcher)]
    BY <2>1, <2>2, WatchChange
  <2> QED BY <1>2, <2>3 DEF WatchRearm
<1>3. CASE WatchExpire(m, w)
  <2>1. mail' \in [Mails -> MailRow]
    BY <1>3, SetStatusType DEF WatchExpire, Statuses
  <2>2. watch' \in [Mails -> Seq(Watcher)]
    BY <1>3, SettleType DEF WatchExpire, WatchStates, Answers
  <2> QED BY <1>3, <2>1, <2>2 DEF WatchExpire
<1>4. CASE WatchIdle(m, w)
  BY <1>4, SetWatchType DEF WatchIdle, WatchStates
<1>5. CASE WatchAnswered(m, w)
  <2> DEFINE a == LastAssistantMessageAfter(mail[m].to, watch[m][w].mark)
  <2>1. a \in Answers
    BY <1>1, LastMessageIsRow DEF Watcher, Answers
  <2>2. [mail[m] EXCEPT !.status = "answered", !.answer = a] \in MailRow
    BY <1>1, <2>1 DEF MailRow, Statuses
  <2>3. mail' = [mail EXCEPT ![m] = [mail[m] EXCEPT !.status = "answered", !.answer = a]]
    BY <1>5 DEF WatchAnswered
  <2>4. Settle(m, w, "resolve", a)
    BY <1>5 DEF WatchAnswered
  <2>5. watch' \in [Mails -> Seq(Watcher)]
    BY <2>1, <2>4, SettleType DEF WatchStates
  <2>6. mail' \in [Mails -> MailRow]
    BY <2>2, <2>3
  <2> QED BY <1>5, <2>5, <2>6 DEF WatchAnswered
<1>6. CASE WatchNoAnswer(m, w)
  <2>1. mail' \in [Mails -> MailRow]
    BY <1>6, SetStatusType DEF WatchNoAnswer, Statuses
  <2>2. watch' \in [Mails -> Seq(Watcher)]
    BY <1>6, SettleType DEF WatchNoAnswer, WatchStates, Answers
  <2> QED BY <1>6, <2>1, <2>2 DEF WatchNoAnswer
<1>7. CASE WatchResolve(m, w)
  <2>1. watch' \in [Mails -> Seq(Watcher)]
    BY <1>7, EndWatchType, SetWatchType DEF WatchResolve, WatchStates
  <2> QED BY <1>7, <2>1 DEF WatchResolve, ResolveWaiter
<1>8. CASE PushGuards(m, w)
  <2>1. watch' \in [Mails -> Seq(Watcher)]
    BY <1>8, EndWatchType, SetWatchType DEF PushGuards, WatchStates
  <2> QED BY <1>8, <2>1 DEF PushGuards
<1>9. CASE PushInsert(m, w)
  <2>1. NextId \in Mails
    BY <1>9, NextIdFree DEF PushInsert
  <2>2. mail' \in [Mails -> MailRow]
    <3>1. mail[m].depth + 1 \in Nat /\ m \in Nat /\ "notify" \in Modes
      BY <1>1 DEF Mails, Modes
    <3>2. InsertMail(NextId, mail[m].to, mail[m].from, "notify", mail[m].depth + 1, m)
      BY <1>9 DEF PushInsert
    <3> QED BY <1>1, <2>1, <3>1, <3>2, InsertMailType
  <2>3. watch' \in [Mails -> Seq(Watcher)]
    BY <1>9, EndWatchType DEF PushInsert
  <2> QED BY <1>9, <2>1, <2>2, <2>3 DEF PushInsert, DispStates, Dispatching
<1>10. CASE PushInsertFails(m, w)
  BY <1>10, EndWatchType DEF PushInsertFails
<1> QED
  BY <1>2, <1>3, <1>4, <1>5, <1>6, <1>7, <1>8, <1>9, <1>10 DEF WatchStep

\* The guards and the insert of message_session keep every variable typed.
LEMMA SendType ==
  ASSUME TypeOK, NEW call \in Calls, SendGuards(call) \/ SendInsert(call)
  PROVE  TypeOK'
<1> USE DEF TypeOK
<1>1. /\ call.from \in Sessions /\ call.to \in Sessions /\ call.mode \in Modes
      /\ SpawnDepth[call.from] \in Nat
  BY MeshAssumption DEF Modes
<1>2. CASE SendGuards(call)
  BY <1>2 DEF SendGuards
<1>3. CASE SendInsert(call)
  <2>1. NextId \in Mails
    BY <1>3, NextIdFree DEF SendInsert
  <2>2. mail' \in [Mails -> MailRow]
    BY <1>1, <1>3, <2>1, InsertMailType DEF SendInsert
  <2> QED BY <1>3, <2>1, <2>2 DEF SendInsert, DispStates, Dispatching
<1> QED BY <1>2, <1>3

\* The sessions' own turns keep every variable typed.
LEMMA SessionType ==
  ASSUME TypeOK, NEW s \in Sessions,
         SessionStep(s)
  PROVE  TypeOK'
<1> USE DEF TypeOK
<1>1. CASE UserSends(s)
  <2>1. turn' \in [Sessions -> NoTurn..MaxMail]
    BY <1>1, MeshAssumption DEF UserSends, NoTurn, UserTurn
  <2>2. userTurns' \in 0..MaxUserTurns
    BY <1>1, MeshAssumption DEF UserSends
  <2> QED BY <1>1, <2>1, <2>2 DEF UserSends
<1>2. ASSUME NEW output \in Outputs, TurnEnds(s, output) PROVE TypeOK'
  <2>1. turn' \in [Sessions -> NoTurn..MaxMail]
    BY <1>2, MeshAssumption DEF TurnEnds, NoTurn
  <2>2. CASE output = "none"
    BY <1>2, <2>1, <2>2 DEF TurnEnds
  <2>3. CASE output # "none"
    <3>1. output \in Row
      BY <2>3, MeshAssumption DEF Row
    <3>2. Append(rows[s], output) \in Seq(Row) /\ Append(unsaved[s], output) \in Seq(Row)
      BY <3>1, AppendProperties
    <3>3. rows' \in [Sessions -> Seq(Row)] /\ unsaved' \in [Sessions -> Seq(Row)]
      BY <1>2, <3>2 DEF TurnEnds
    <3> QED BY <1>2, <2>1, <3>3 DEF TurnEnds
  <2> QED BY <2>2, <2>3
<1>3. ASSUME NEW i \in DOMAIN unsaved[s], SaveReply(s, i) PROVE TypeOK'
  <2>1. i \in 1..Len(unsaved[s]) /\ unsaved[s][i] \in Row
    BY ElementOfSeq, LenProperties
  <2>2. Append(rows[s], unsaved[s][i]) \in Seq(Row)
    BY <2>1, AppendProperties
  <2>3. RemoveAt(unsaved[s], i) \in Seq(Row)
    BY <2>1, LenProperties, SubSeqProperties, ConcatProperties DEF RemoveAt
  <2>4. rows' \in [Sessions -> Seq(Row)] /\ unsaved' \in [Sessions -> Seq(Row)]
    BY <1>3, <2>2, <2>3 DEF SaveReply
  <2> QED BY <1>3, <2>4 DEF SaveReply
<1> QED BY <1>1, <1>2, <1>3 DEF SessionStep

\* So does an exit of the process.
LEMMA RestartType ==
  ASSUME TypeOK, Restart
  PROVE  TypeOK'
<1>1. PumpOff \in Pump /\ NoTurn \in NoTurn..MaxMail
  BY MeshAssumption DEF PumpOff, Pump, PumpStates, NoTurn
<1>2. restarts' \in 0..MaxRestarts
  BY MeshAssumption DEF Restart, TypeOK
<1>3. disp' \in [Mails -> DispStates]
  BY DEF Restart, TypeOK, DispStates, Said
<1>4. watch' \in [Mails -> Seq(Watcher)]
  BY EmptySeq DEF Restart
<1> QED BY <1>1, <1>2, <1>3, <1>4 DEF Restart, TypeOK

\* Every step keeps every variable typed; a pump needs its row for that.
LEMMA TypeNext ==
  ASSUME TypeOK, PumpHasMail, [Next]_vars
  PROVE  TypeOK'
<1>1. CASE Next
  BY <1>1, SendType, DispatchType, WatchType, PumpType, SessionType, RestartType
     DEF Next, TypeOK
<1>2. CASE UNCHANGED vars
  BY <1>2 DEF vars, TypeOK
<1> QED BY <1>1, <1>2

-----------------------------------------------------------------------------
(* Rows stay *)

\* What a step keeps of the rows in use: everything but the status and an
\* answer that is not there yet.
RowsKept ==
  \A m \in Used : /\ m \in Used'
                  /\ mail'[m].mode = mail[m].mode /\ mail'[m].re = mail[m].re
                  /\ mail'[m].from = mail[m].from /\ mail'[m].to = mail[m].to
                  /\ mail[m].answer \in Row => mail'[m].answer \in Row

\* A new status changes no other column.
LEMMA SetStatusKeeps ==
  ASSUME TypeOK, NEW m \in Mails, NEW st \in Statuses \ {"none"}, SetStatus(m, st)
  PROVE  RowsKept
BY DEF TypeOK, SetStatus, MailRow, RowsKept, Used

\* A fresh row changes no row in use.
LEMMA InsertKeeps ==
  ASSUME TypeOK, NEW id \in Mails \ Used, NEW from, NEW to, NEW mode, NEW depth, NEW re,
         InsertMail(id, from, to, mode, depth, re)
  PROVE  RowsKept
BY DEF TypeOK, InsertMail, RowsKept, Used

\* The answer a watcher stores is a row of its target's transcript.
LEMMA WatcherFinds ==
  ASSUME TypeOK, NEW m \in Mails, NEW w \in DOMAIN watch[m]
  PROVE  LastAssistantMessageAfter(mail[m].to, watch[m][w].mark) \in Row \cup {"none"}
<1>1. watch[m][w] \in Watcher /\ mail[m] \in MailRow
  BY ElementOfSeq, LenProperties DEF TypeOK
<1> QED BY <1>1, LastMessageIsRow DEF Watcher, MailRow

\* No step removes a row, changes who asked whom for what, or takes an answer back.
LEMMA RowsStay ==
  ASSUME TypeOK, PumpHasMail, [Next]_vars
  PROVE  RowsKept
<1>1. ASSUME UNCHANGED mail PROVE RowsKept
  BY <1>1 DEF RowsKept, Used
<1>2. ASSUME NEW call \in Calls, SendGuards(call) \/ SendInsert(call) PROVE RowsKept
  BY <1>1, <1>2, NextIdFree, InsertKeeps DEF SendGuards, SendInsert
<1>3. ASSUME NEW m \in Mails, DispatchStep(m) PROVE RowsKept
  <2>1. CASE MarkDelivered(m) \/ Requeue(m) \/ Reject(m)
    BY <2>1, SetStatusKeeps DEF MarkDelivered, Requeue, Reject, Statuses
  <2>2. CASE UNCHANGED mail
    BY <1>1, <2>2
  <2> QED BY <1>3, <2>1, <2>2
      DEF DispatchStep, ParkWaiter, TestBusy, CountBacklog, KickPump, RunTurnOk,
          RunTurnBusy, RunTurnFails, DropWaiter, TakeReply, TimeoutFires, TimeoutReturns
<1>4. ASSUME NEW t \in Sessions, PumpStep(t) PROVE RowsKept
  <2>1. CASE PumpExpire(t) \/ PumpMarkDelivered(t) \/ PumpRunBusy(t) \/ PumpRunFails(t)
    <3>1. pump[t].mail \in Mails
      BY <2>1 DEF PumpHasMail, Used, PumpExpire, PumpMarkDelivered, PumpRunBusy, PumpRunFails
    <3> QED BY <2>1, <3>1, SetStatusKeeps
        DEF PumpExpire, PumpMarkDelivered, PumpRunBusy, PumpRunFails, Statuses
  <2>2. CASE UNCHANGED mail
    BY <1>1, <2>2
  <2> QED BY <1>4, <2>1, <2>2
      DEF PumpStep, PumpPick, PumpTestBusy, PumpRunOk, PumpResolve, PumpTurnOver, PumpExit
<1>5. ASSUME NEW m \in Mails, NEW w \in DOMAIN watch[m], WatchStep(m, w) PROVE RowsKept
  <2>1. CASE WatchExpire(m, w) \/ WatchNoAnswer(m, w)
    BY <2>1, SetStatusKeeps DEF WatchExpire, WatchNoAnswer, Statuses
  <2>2. CASE WatchAnswered(m, w)
    <3>1. PICK a \in Row : mail' = [mail EXCEPT ![m].status = "answered", ![m].answer = a]
      BY <2>2, WatcherFinds DEF WatchAnswered
    <3> QED BY <3>1 DEF TypeOK, MailRow, RowsKept, Used
  <2>3. CASE PushInsert(m, w)
    BY <2>3, NextIdFree, InsertKeeps DEF PushInsert
  <2>4. CASE UNCHANGED mail
    BY <1>1, <2>4
  <2> QED BY <1>5, <2>1, <2>2, <2>3, <2>4
      DEF WatchStep, WatchRearm, WatchIdle, WatchResolve, PushGuards, PushInsertFails
<1>6. ASSUME NEW s \in Sessions,
             SessionStep(s)
      PROVE  RowsKept
  BY <1>1, <1>6 DEF SessionStep, UserSends, TurnEnds, SaveReply
<1>7. CASE Restart
  BY <1>1, <1>7 DEF Restart
<1>8. CASE UNCHANGED vars
  BY <1>1, <1>8 DEF vars
<1> QED BY <1>2, <1>3, <1>4, <1>5, <1>6, <1>7, <1>8 DEF Next, TypeOK

-----------------------------------------------------------------------------
(* A pump's mail, a dispatched row and a watched question are in use *)

\* A pump keeps a row of the table in hand until it is through with it.
LEMMA PumpHasMailNext ==
  ASSUME TypeOK, PumpHasMail, [Next]_vars
  PROVE  PumpHasMail'
<1>1. Used \subseteq Used'
  BY RowsStay DEF RowsKept
<1>2. ASSUME NEW t \in Sessions, PumpKick(t) \/ UNCHANGED pump PROVE PumpHasMail'
  BY <1>1, <1>2 DEF PumpHasMail, PumpKick, PumpOff, TypeOK
<1>3. ASSUME NEW t \in Sessions, PumpStep(t) PROVE PumpHasMail'
  <2> DEFINE PumpClaims(p) == p.st \in {"have", "deliver", "run", "resolve"} => p.mail \in Used
  <2>1. ASSUME NEW p, PumpClaims(p), pump' = [pump EXCEPT ![t] = p] PROVE PumpHasMail'
    BY <1>1, <2>1 DEF PumpHasMail, TypeOK
  <2>2. ASSUME NEW st \in {"pick", "turnwait", "exit"}, PumpGoto(t, st) PROVE PumpHasMail'
    BY <2>1, <2>2 DEF PumpGoto, PumpOff
  <2>3. pump[t] \in Pump
    BY DEF TypeOK
  <2>4. CASE PumpPick(t)
    <3>1. CASE QueuedMailFor(t) = {}
      BY <2>2, <2>4, <3>1 DEF PumpPick
    <3>2. CASE QueuedMailFor(t) # {}
      <4> DEFINE o == Oldest(QueuedMailFor(t))
                 p == [pump[t] EXCEPT !.st = "have", !.mail = o]
      <4>1. QueuedMailFor(t) \subseteq Used /\ Used \subseteq Nat
        BY DEF QueuedMailFor, Used, Mails
      <4>2. o \in Used
        BY <3>2, <4>1, OldestIn
      <4>3. PumpClaims(p)
        BY <2>3, <4>2 DEF Pump
      <4>4. pump' = [pump EXCEPT ![t] = p]
        BY <2>4, <3>2 DEF PumpPick
      <4> QED BY <2>1, <4>3, <4>4
    <3> QED BY <3>1, <3>2
  <2>5. CASE PumpTestBusy(t)
    <3>1. PumpClaims([pump[t] EXCEPT !.st = "deliver"])
      BY <2>3, <2>5 DEF Pump, PumpTestBusy, PumpHasMail
    <3> QED BY <2>1, <2>2, <2>5, <3>1 DEF PumpTestBusy
  <2>6. CASE PumpExpire(t)
    <3> DEFINE p == [pump[t] EXCEPT !.st = "resolve", !.late = TRUE]
    <3>1. PumpClaims(p) /\ pump' = [pump EXCEPT ![t] = p]
      BY <2>3, <2>6 DEF Pump, PumpExpire, PumpHasMail
    <3> QED BY <2>1, <3>1
  <2>7. CASE PumpMarkDelivered(t)
    <3> DEFINE p == [pump[t] EXCEPT !.st = "run", !.mark = Len(rows[t])]
    <3>1. PumpClaims(p) /\ pump' = [pump EXCEPT ![t] = p]
      BY <2>3, <2>7 DEF Pump, PumpMarkDelivered, PumpHasMail
    <3> QED BY <2>1, <3>1
  <2>8. CASE PumpRunFails(t)
    <3> DEFINE p == [pump[t] EXCEPT !.st = "resolve", !.mark = 0]
    <3>1. PumpClaims(p) /\ pump' = [pump EXCEPT ![t] = p]
      BY <2>3, <2>8 DEF Pump, PumpRunFails, PumpHasMail
    <3> QED BY <2>1, <3>1
  <2>9. CASE PumpRunOk(t) \/ PumpRunBusy(t) \/ PumpResolve(t) \/ PumpTurnOver(t)
    BY <2>2, <2>9 DEF PumpRunOk, PumpRunBusy, PumpResolve, PumpTurnOver
  <2>10. CASE PumpExit(t)
    BY <2>1, <2>10 DEF PumpExit, PumpOff
  <2> QED BY <1>3, <2>4, <2>5, <2>6, <2>7, <2>8, <2>9, <2>10 DEF PumpStep
<1>4. ASSUME NEW call \in Calls, SendGuards(call) \/ SendInsert(call) PROVE UNCHANGED pump
  BY <1>4 DEF SendGuards, SendInsert
<1>5. ASSUME NEW m \in Mails, DispatchStep(m)
      PROVE  \E t \in Sessions : PumpKick(t) \/ UNCHANGED pump
  <2>1. mail[m].to \in Sessions
    BY DEF TypeOK, MailRow
  <2> QED BY <1>5, <2>1
      DEF DispatchStep, ParkWaiter, TestBusy, CountBacklog, KickPump, MarkDelivered,
          RunTurnOk, RunTurnBusy, RunTurnFails, Requeue, DropWaiter, Reject, TakeReply,
          TimeoutFires, TimeoutReturns
<1>6. ASSUME NEW m \in Mails, NEW w \in DOMAIN watch[m], WatchStep(m, w)
      PROVE  UNCHANGED pump
  BY <1>6 DEF WatchStep, WatchRearm, WatchExpire, WatchIdle, WatchAnswered, WatchNoAnswer,
              WatchResolve, PushGuards, PushInsert, PushInsertFails
<1>7. ASSUME NEW s \in Sessions,
             SessionStep(s)
      PROVE  UNCHANGED pump
  BY <1>7 DEF SessionStep, UserSends, TurnEnds, SaveReply
<1>8. CASE Restart
  BY <1>8 DEF Restart, PumpHasMail, PumpOff
<1>9. CASE UNCHANGED pump
  BY <1>1, <1>9 DEF PumpHasMail
<1> QED BY <1>2, <1>3, <1>4, <1>5, <1>6, <1>7, <1>8, <1>9, MeshAssumption DEF Next, vars, TypeOK

\* What is dispatched or watched stays in the table; what begins to be was just inserted.
LEMMA RowsInUseNext ==
  ASSUME TypeOK, PumpHasMail, RowsInUse, OnlyQuestionsWait, [Next]_vars
  PROVE  RowsInUse'
<1>1. Used \subseteq Used' /\ \A m \in Used : mail'[m].mode = mail[m].mode
  BY RowsStay DEF RowsKept
<1>2. ASSUME \A m \in Mails : disp'[m] # "none" => disp[m] # "none",
             \A m \in Mails : watch'[m] # <<>> => watch[m] # <<>>
      PROVE  RowsInUse'
  BY <1>1, <1>2 DEF RowsInUse
<1>3. ASSUME NEW id \in Mails, NEW from, NEW to, NEW mode, NEW depth, NEW re, NEW st,
             InsertMail(id, from, to, mode, depth, re), id \notin Used,
             disp' = [disp EXCEPT ![id] = st],
             \A m \in Mails : watch'[m] # <<>> => watch[m] # <<>>
      PROVE  RowsInUse'
  <2>1. id \in Used'
    BY <1>3 DEF InsertMail, Used, TypeOK
  <2> QED BY <1>1, <1>3, <2>1 DEF RowsInUse, TypeOK
<1>4. ASSUME NEW call \in Calls, SendGuards(call) \/ SendInsert(call) PROVE RowsInUse'
  <2>1. CASE SendGuards(call)
    BY <1>2, <2>1 DEF SendGuards
  <2>2. CASE SendInsert(call)
    BY <1>3, <2>2, NextIdFree DEF SendInsert
  <2> QED BY <1>4, <2>1, <2>2
<1>5. ASSUME NEW m \in Mails, DispatchStep(m) PROVE RowsInUse'
  <2>1. disp[m] # "none" /\ m \in Used
    BY <1>5 DEF RowsInUse, DispatchStep, ParkWaiter, TestBusy, CountBacklog, KickPump,
                MarkDelivered, RunTurnOk, RunTurnBusy, RunTurnFails, Requeue, DropWaiter,
                Reject, TakeReply, TimeoutFires, TimeoutReturns
  <2>2. \A k \in Mails : disp'[k] # "none" => disp[k] # "none"
    BY <1>5, <2>1
       DEF DispatchStep, ParkWaiter, TestBusy, CountBacklog, KickPump, MarkDelivered,
           RunTurnOk, RunTurnBusy, RunTurnFails, Requeue, DropWaiter, Reject, TakeReply,
           TimeoutFires, TimeoutReturns, Tell, TypeOK
  <2>3. CASE RunTurnOk(m)
    <3>1. \A k \in Mails : watch'[k] # <<>> =>
             watch[k] # <<>> \/ (k = m /\ mail[m].mode = "question")
      BY <2>3 DEF RunTurnOk, NewWatcher, TypeOK
    <3> QED BY <1>1, <2>1, <2>2, <3>1 DEF RowsInUse
  <2>4. CASE UNCHANGED watch
    BY <1>2, <2>2, <2>4
  <2> QED BY <1>5, <2>3, <2>4
      DEF DispatchStep, ParkWaiter, TestBusy, CountBacklog, KickPump, MarkDelivered,
          RunTurnBusy, RunTurnFails, Requeue, DropWaiter, Reject, TakeReply,
          TimeoutFires, TimeoutReturns
<1>6. ASSUME NEW t \in Sessions, PumpStep(t) PROVE RowsInUse'
  <2>1. UNCHANGED disp
    BY <1>6 DEF PumpStep, PumpPick, PumpExpire, PumpTestBusy, PumpMarkDelivered, PumpRunOk,
                PumpRunBusy, PumpRunFails, PumpResolve, PumpTurnOver, PumpExit
  <2>2. CASE PumpRunOk(t)
    <3> DEFINE m == pump[t].mail
    <3>1. m \in Used
      BY <2>2 DEF PumpRunOk, PumpHasMail
    <3>2. \A k \in Mails : watch'[k] # <<>> =>
             watch[k] # <<>> \/ (k = m /\ mail[m].mode = "question")
      BY <2>2 DEF PumpRunOk, NewWatcher, TypeOK
    <3> QED BY <1>1, <2>1, <3>1, <3>2 DEF RowsInUse
  <2>3. CASE UNCHANGED watch
    BY <1>2, <2>1, <2>3
  <2> QED BY <1>6, <2>2, <2>3
      DEF PumpStep, PumpPick, PumpExpire, PumpTestBusy, PumpMarkDelivered,
          PumpRunBusy, PumpRunFails, PumpResolve, PumpTurnOver, PumpExit
<1>7. ASSUME NEW m \in Mails, NEW w \in DOMAIN watch[m], WatchStep(m, w) PROVE RowsInUse'
  <2>1. watch[m] # <<>>
    BY LenProperties DEF TypeOK
  <2>2. \A k \in Mails : watch'[k] # <<>> => watch[k] # <<>>
    BY <1>7, <2>1
       DEF WatchStep, WatchRearm, WatchExpire, WatchIdle, WatchAnswered, WatchNoAnswer,
           WatchResolve, PushGuards, PushInsert, PushInsertFails, SetWatch, EndWatch,
           Settle, TypeOK
  <2>3. CASE PushInsert(m, w)
    BY <1>3, <2>2, <2>3, NextIdFree DEF PushInsert
  <2>4. CASE UNCHANGED disp
    BY <1>2, <2>2, <2>4
  <2> QED BY <1>7, <2>3, <2>4
      DEF WatchStep, WatchRearm, WatchExpire, WatchIdle, WatchAnswered, WatchNoAnswer,
          WatchResolve, PushGuards, PushInsertFails
<1>8. ASSUME NEW s \in Sessions,
             SessionStep(s)
      PROVE  RowsInUse'
  BY <1>2, <1>8 DEF SessionStep, UserSends, TurnEnds, SaveReply
<1>9. CASE Restart
  <2>1. \A m \in Mails : disp'[m] # "none" => disp[m] # "none"
    BY <1>9 DEF Restart, Dispatching, Waiting
  <2>2. \A m \in Mails : watch'[m] = <<>>
    BY <1>9 DEF Restart
  <2> QED BY <1>2, <2>1, <2>2
<1>10. CASE UNCHANGED vars
  BY <1>2, <1>10 DEF vars
<1> QED BY <1>4, <1>5, <1>6, <1>7, <1>8, <1>9, <1>10 DEF Next, TypeOK

-----------------------------------------------------------------------------
(* Follow-ups *)

\* A row a step adds: a tool call's mail, or the follow-up of a question.
IsNewRow(f) ==
  \/ mail'[f].re = 0
  \/ /\ mail'[f].mode = "notify"
     /\ mail'[f].re \in Used
     /\ mail[mail'[f].re].mode = "question"
     /\ mail'[f].from = mail[mail'[f].re].to
     /\ mail'[f].to = mail[mail'[f].re].from
     /\ \E w \in DOMAIN watch[mail'[f].re] : PushInsert(mail'[f].re, w)

\* The only rows a step adds come from message_session and push_follow_up_answer.
LEMMA NewRows ==
  ASSUME TypeOK, PumpHasMail, RowsInUse, [Next]_vars
  PROVE  \A f \in Used' \ Used : IsNewRow(f)
<1>1. ASSUME NEW m \in Mails, \A k \in Mails \ {m} : mail'[k] = mail[k], m \in Used
      PROVE  Used' \ Used = {}
  BY <1>1 DEF Used
<1>2. ASSUME UNCHANGED mail PROVE Used' \ Used = {}
  BY <1>2 DEF Used
<1>3. ASSUME NEW call \in Calls, SendGuards(call) \/ SendInsert(call)
      PROVE  \A f \in Used' \ Used : IsNewRow(f)
  <2>1. CASE SendInsert(call)
    <3>1. \A f \in Mails \ {NextId} : mail'[f] = mail[f]
      BY <2>1 DEF SendInsert, InsertMail, TypeOK
    <3>2. mail'[NextId].re = 0
      BY <2>1, NextIdFree DEF SendInsert, InsertMail, TypeOK
    <3> QED BY <3>1, <3>2 DEF Used, IsNewRow
  <2> QED BY <1>2, <1>3, <2>1 DEF SendGuards
<1>4. ASSUME NEW m \in Mails, DispatchStep(m) PROVE Used' \ Used = {}
  <2>1. m \in Used
    BY <1>4 DEF RowsInUse, DispatchStep, ParkWaiter, TestBusy, CountBacklog, KickPump,
                MarkDelivered, RunTurnOk, RunTurnBusy, RunTurnFails, Requeue, DropWaiter,
                Reject, TakeReply, TimeoutFires, TimeoutReturns
  <2>2. CASE MarkDelivered(m) \/ Requeue(m) \/ Reject(m)
    BY <1>1, <2>1, <2>2 DEF MarkDelivered, Requeue, Reject, SetStatus, TypeOK
  <2>3. CASE UNCHANGED mail
    BY <1>2, <2>3
  <2> QED BY <1>4, <2>2, <2>3
      DEF DispatchStep, ParkWaiter, TestBusy, CountBacklog, KickPump, RunTurnOk,
          RunTurnBusy, RunTurnFails, DropWaiter, TakeReply, TimeoutFires, TimeoutReturns
<1>5. ASSUME NEW t \in Sessions, PumpStep(t) PROVE Used' \ Used = {}
  <2>1. CASE PumpExpire(t) \/ PumpMarkDelivered(t) \/ PumpRunBusy(t) \/ PumpRunFails(t)
    <3>1. pump[t].mail \in Used /\ pump[t].mail \in Mails
      BY <2>1 DEF PumpHasMail, Used, PumpExpire, PumpMarkDelivered, PumpRunBusy, PumpRunFails
    <3> QED BY <1>1, <2>1, <3>1
        DEF PumpExpire, PumpMarkDelivered, PumpRunBusy, PumpRunFails, SetStatus, TypeOK
  <2>2. CASE UNCHANGED mail
    BY <1>2, <2>2
  <2> QED BY <1>5, <2>1, <2>2
      DEF PumpStep, PumpPick, PumpTestBusy, PumpRunOk, PumpResolve, PumpTurnOver, PumpExit
<1>6. ASSUME NEW m \in Mails, NEW w \in DOMAIN watch[m], WatchStep(m, w)
      PROVE  \A f \in Used' \ Used : IsNewRow(f)
  <2>1. watch[m] # <<>>
    BY LenProperties DEF TypeOK
  <2>2. m \in Used /\ mail[m].mode = "question"
    BY <2>1 DEF RowsInUse
  <2>3. CASE WatchExpire(m, w) \/ WatchAnswered(m, w) \/ WatchNoAnswer(m, w)
    BY <1>1, <2>2, <2>3 DEF WatchExpire, WatchAnswered, WatchNoAnswer, SetStatus, TypeOK
  <2>4. CASE PushInsert(m, w)
    <3>1. NextId \in Mails /\ NextId \notin Used
      BY <2>4, NextIdFree DEF PushInsert
    <3>2. \A f \in Mails \ {NextId} : mail'[f] = mail[f]
      BY <2>4 DEF PushInsert, InsertMail, TypeOK
    <3>3. /\ mail'[NextId].re = m /\ mail'[NextId].mode = "notify"
          /\ mail'[NextId].from = mail[m].to /\ mail'[NextId].to = mail[m].from
      BY <2>4, <3>1 DEF PushInsert, InsertMail, TypeOK
    <3>4. IsNewRow(NextId)
      BY <2>2, <2>4, <3>3 DEF IsNewRow
    <3> QED BY <3>2, <3>4 DEF Used
  <2>5. CASE UNCHANGED mail
    BY <1>2, <2>5
  <2> QED BY <1>6, <2>3, <2>4, <2>5
      DEF WatchStep, WatchRearm, WatchIdle, WatchResolve, PushGuards, PushInsertFails
<1>7. ASSUME NEW s \in Sessions,
             SessionStep(s)
      PROVE  Used' \ Used = {}
  BY <1>2, <1>7 DEF SessionStep, UserSends, TurnEnds, SaveReply
<1>8. CASE Restart
  BY <1>2, <1>8 DEF Restart
<1>9. CASE UNCHANGED vars
  BY <1>2, <1>9 DEF vars
<1> QED BY <1>3, <1>4, <1>5, <1>6, <1>7, <1>8, <1>9 DEF Next, TypeOK

\* With old rows kept and new rows as they are, follow-ups go on answering questions.
LEMMA FollowUpsNext ==
  ASSUME TypeOK, PumpHasMail, RowsInUse, FollowUpsAnswer, NoPingPong, [Next]_vars
  PROVE  FollowUpsAnswer' /\ NoPingPong'
<1>1. RowsKept
  BY RowsStay
<1>2. Used \subseteq Mails
  BY DEF Used
<1>3. ASSUME NEW f \in Used
      PROVE  /\ mail'[f].mode = "question" => mail'[f].re = 0
             /\ mail'[f].re # 0 =>
                  /\ mail'[f].re \in Used' /\ mail'[f].re \in Mails
                  /\ mail'[f].mode = "notify"
                  /\ mail'[mail'[f].re].mode = "question" /\ mail'[mail'[f].re].re = 0
                  /\ mail'[f].from = mail'[mail'[f].re].to
                  /\ mail'[f].to = mail'[mail'[f].re].from
  BY <1>1, <1>2 DEF RowsKept, FollowUpsAnswer, NoPingPong
<1>4. ASSUME NEW f \in Used' \ Used
      PROVE  /\ mail'[f].re # 0 =>
                  /\ mail'[f].mode = "notify"
                  /\ mail'[f].re \in Used' /\ mail'[f].re \in Mails
                  /\ mail'[mail'[f].re].mode = "question" /\ mail'[mail'[f].re].re = 0
                  /\ mail'[f].from = mail'[mail'[f].re].to
                  /\ mail'[f].to = mail'[mail'[f].re].from
  BY <1>1, <1>2, NewRows DEF IsNewRow, RowsKept, FollowUpsAnswer
<1> QED BY <1>3, <1>4 DEF FollowUpsAnswer, NoPingPong

\* The dispatch of a follow-up never comes to where a call returns.
LEMMA FollowUpsUntoldNext ==
  ASSUME TypeOK, PumpHasMail, RowsInUse, NoPingPong, FollowUpsUntold, [Next]_vars
  PROVE  FollowUpsUntold'
<1> DEFINE Silent == {"check", "backlog", "kick", "deliver", "run", "done", "dead"}
<1> SUFFICES ASSUME NEW f \in Used', mail'[f].re # 0 PROVE disp'[f] \in Silent
  BY DEF FollowUpsUntold
<1>1. f \in Mails
  BY DEF Used
<1>2. CASE f \notin Used
  <2>1. PICK m \in Mails : \E w \in DOMAIN watch[m] : PushInsert(m, w)
    BY <1>2, NewRows DEF IsNewRow, Used
  <2>2. PICK w \in DOMAIN watch[m] : PushInsert(m, w)
    BY <2>1
  <2>3. f = NextId
    BY <1>1, <1>2, <2>2, NextIdFree DEF PushInsert, InsertMail, TypeOK, Used
  <2> QED BY <1>1, <2>2, <2>3 DEF PushInsert, TypeOK
<1>3. CASE f \in Used
  <2>1. mail[f].re # 0 /\ mail[f].mode = "notify" /\ disp[f] \in Silent
    BY <1>3, RowsStay DEF RowsKept, NoPingPong, FollowUpsUntold
  <2>2. ASSUME UNCHANGED disp PROVE disp'[f] \in Silent
    BY <2>1, <2>2
  <2>3. ASSUME NEW call \in Calls, SendGuards(call) \/ SendInsert(call)
        PROVE  disp'[f] \in Silent
    <3>1. CASE SendInsert(call)
      BY <1>3, <2>1, <3>1, NextIdFree DEF SendInsert, TypeOK
    <3> QED BY <2>2, <2>3, <3>1 DEF SendGuards
  <2>4. ASSUME NEW k \in Mails, DispatchStep(k) PROVE disp'[f] \in Silent
    <3>1. CASE k # f
      BY <1>1, <2>1, <2>4, <3>1
         DEF DispatchStep, ParkWaiter, TestBusy, CountBacklog, KickPump, MarkDelivered,
             RunTurnOk, RunTurnBusy, RunTurnFails, Requeue, DropWaiter, Reject, TakeReply,
             TimeoutFires, TimeoutReturns, Tell, TypeOK
    <3>2. CASE k = f
      <4>1. CASE TestBusy(f) \/ CountBacklog(f) \/ KickPump(f) \/ MarkDelivered(f)
        BY <1>1, <2>1, <4>1
           DEF TestBusy, CountBacklog, KickPump, MarkDelivered, Tell, TypeOK
      <4>2. CASE RunTurnOk(f) \/ RunTurnBusy(f) \/ RunTurnFails(f)
        BY <1>1, <2>1, <4>2 DEF RunTurnOk, RunTurnBusy, RunTurnFails, Tell, TypeOK
      <4> QED BY <2>1, <2>4, <3>2, <4>1, <4>2
          DEF DispatchStep, ParkWaiter, Requeue, DropWaiter, Reject, TakeReply,
              TimeoutFires, TimeoutReturns
    <3> QED BY <3>1, <3>2
  <2>5. ASSUME NEW t \in Sessions, PumpStep(t) PROVE UNCHANGED disp
    BY <2>5 DEF PumpStep, PumpPick, PumpExpire, PumpTestBusy, PumpMarkDelivered, PumpRunOk,
                PumpRunBusy, PumpRunFails, PumpResolve, PumpTurnOver, PumpExit
  <2>6. ASSUME NEW k \in Mails, NEW w \in DOMAIN watch[k], WatchStep(k, w)
        PROVE  disp'[f] \in Silent
    <3>1. CASE PushInsert(k, w)
      BY <1>3, <2>1, <3>1, NextIdFree DEF PushInsert, TypeOK
    <3> QED BY <2>2, <2>6, <3>1
        DEF WatchStep, WatchRearm, WatchExpire, WatchIdle, WatchAnswered, WatchNoAnswer,
            WatchResolve, PushGuards, PushInsertFails
  <2>7. ASSUME NEW s \in Sessions, SessionStep(s) PROVE UNCHANGED disp
    BY <2>7 DEF SessionStep, UserSends, TurnEnds, SaveReply
  <2>8. ASSUME Restart PROVE disp'[f] \in Silent
    BY <1>1, <2>1, <2>8 DEF Restart
  <2>9. UNCHANGED vars => UNCHANGED disp
    BY DEF vars
  <2> QED BY <2>2, <2>3, <2>4, <2>5, <2>6, <2>7, <2>8, <2>9 DEF Next, TypeOK
<1> QED BY <1>2, <1>3

-----------------------------------------------------------------------------
(* The parked asker *)

Asking == (Dispatching \ {"park", "dropped"}) \cup Waiting

\* Of a row that is being dispatched or awaited the mode does not change.
LEMMA ModeKept ==
  ASSUME TypeOK, PumpHasMail, RowsInUse, [Next]_vars,
         NEW m \in Mails, disp[m] \in Asking
  PROVE  mail'[m].mode = mail[m].mode
<1>1. m \in Used
  BY DEF RowsInUse, Asking, Dispatching, Waiting
<1> QED BY <1>1, RowsStay DEF RowsKept

\* A visit to the waiter map: whoever was parked there has its reply.
LEMMA ResolveKeepsParked ==
  ASSUME TypeOK, NEW k \in Mails, NEW v \in {"answer", "none"}, ResolveWaiter(k, v),
         NEW m \in Mails, disp[m] \in Asking, box'[m] = "empty", m \in waiters
  PROVE  m \in waiters' /\ m # k
<1>1. ReceiverAlive(m)
  BY DEF ReceiverAlive, Asking
<1> QED BY <1>1 DEF ResolveWaiter, WaiterTakes, TypeOK

\* What a step may do to waiters and box, for all that is asking.
LEMMA WaitersStay ==
  ASSUME TypeOK, PumpHasMail, [Next]_vars,
         NEW m \in Mails, disp[m] \in Asking, disp'[m] \in Asking,
         m \in waiters, box'[m] = "empty"
  PROVE  m \in waiters'
<1>1. CASE UNCHANGED waiters
  BY <1>1
<1>2. ASSUME NEW call \in Calls, SendGuards(call) \/ SendInsert(call) PROVE m \in waiters'
  BY <1>2 DEF SendGuards, SendInsert
<1>3. ASSUME NEW k \in Mails, DispatchStep(k) PROVE m \in waiters'
  <2>1. CASE DropWaiter(k)
    <3>1. m # k
      BY <2>1 DEF DropWaiter, Asking, Dispatching, Waiting, TypeOK
    <3> QED BY <2>1, <3>1 DEF DropWaiter
  <2> QED BY <1>1, <1>3, <2>1
      DEF DispatchStep, ParkWaiter, TestBusy, CountBacklog, KickPump, MarkDelivered,
          RunTurnOk, RunTurnBusy, RunTurnFails, Requeue, Reject, TakeReply,
          TimeoutFires, TimeoutReturns
<1>4. ASSUME NEW t \in Sessions, PumpStep(t) PROVE m \in waiters'
  <2>1. CASE PumpResolve(t)
    BY <2>1, ResolveKeepsParked DEF PumpResolve, PumpHasMail, Used
  <2> QED BY <1>1, <1>4, <2>1
      DEF PumpStep, PumpPick, PumpExpire, PumpTestBusy, PumpMarkDelivered, PumpRunOk,
          PumpRunBusy, PumpRunFails, PumpTurnOver, PumpExit
<1>5. ASSUME NEW k \in Mails, NEW w \in DOMAIN watch[k], WatchStep(k, w)
      PROVE  m \in waiters'
  <2>1. CASE WatchResolve(k, w)
    BY <2>1, ResolveKeepsParked DEF WatchResolve
  <2> QED BY <1>1, <1>5, <2>1
      DEF WatchStep, WatchRearm, WatchExpire, WatchIdle, WatchAnswered, WatchNoAnswer,
          PushGuards, PushInsert, PushInsertFails
<1>6. ASSUME NEW s \in Sessions,
             SessionStep(s)
      PROVE  m \in waiters'
  BY <1>1, <1>6 DEF SessionStep, UserSends, TurnEnds, SaveReply
<1>7. CASE Restart
  BY <1>7 DEF Restart, Asking, Dispatching, Waiting
<1>8. CASE UNCHANGED vars
  BY <1>1, <1>8 DEF vars
<1> QED BY <1>2, <1>3, <1>4, <1>5, <1>6, <1>7, <1>8 DEF Next, TypeOK

\* Where a row that is asking comes from.
LEMMA AskingBegins ==
  ASSUME TypeOK, PumpHasMail, RowsInUse, [Next]_vars,
         NEW m \in Mails, disp'[m] \in Asking
  PROVE  \/ disp[m] \in Asking /\ (box[m] # "empty" => box'[m] # "empty")
         \/ disp'[m] = "check" /\ (m \in waiters' \/ mail'[m].mode = "notify")
<1>1. CASE UNCHANGED <<disp, box>>
  BY <1>1
<1>2. ASSUME NEW call \in Calls, SendGuards(call) \/ SendInsert(call)
      PROVE  \/ disp[m] \in Asking /\ box'[m] = box[m]
             \/ disp'[m] = "check" /\ mail'[m].mode = "notify"
  <2>1. CASE SendInsert(call) /\ m = NextId
    <3>1. disp'[m] = IF call.mode = "question" THEN "park" ELSE "check"
      BY <2>1 DEF SendInsert, TypeOK
    <3>2. mail'[m].mode = call.mode /\ call.mode \in Modes
      BY <2>1, MeshAssumption DEF SendInsert, InsertMail, TypeOK, Modes
    <3> QED BY <3>1, <3>2 DEF Asking, Waiting, Modes
  <2>2. CASE SendInsert(call) /\ m # NextId
    BY <2>2 DEF SendInsert, TypeOK
  <2> QED BY <1>2, <2>1, <2>2 DEF SendGuards
<1>3. ASSUME NEW k \in Mails, DispatchStep(k)
      PROVE  \/ disp[m] \in Asking /\ box'[m] = box[m]
             \/ disp'[m] = "check" /\ m \in waiters'
  <2>1. UNCHANGED box
    BY <1>3 DEF DispatchStep, ParkWaiter, TestBusy, CountBacklog, KickPump, MarkDelivered,
          RunTurnOk, RunTurnBusy, RunTurnFails, Requeue, DropWaiter, Reject, TakeReply,
          TimeoutFires, TimeoutReturns
  <2>2. CASE m # k
    BY <1>3, <2>1, <2>2
       DEF DispatchStep, ParkWaiter, TestBusy, CountBacklog, KickPump, MarkDelivered,
          RunTurnOk, RunTurnBusy, RunTurnFails, Requeue, DropWaiter, Reject, TakeReply,
          TimeoutFires, TimeoutReturns, Tell, TypeOK
  <2>3. CASE m = k /\ ParkWaiter(k)
    BY <2>3 DEF ParkWaiter, TypeOK
  <2>4. CASE m = k /\ Reject(k)
    BY <2>4 DEF Reject, TypeOK, Asking, Dispatching, Waiting
  <2> QED BY <1>3, <2>1, <2>2, <2>3, <2>4
       DEF DispatchStep, TestBusy, CountBacklog, KickPump, MarkDelivered,
          RunTurnOk, RunTurnBusy, RunTurnFails, Requeue, DropWaiter, TakeReply,
          TimeoutFires, TimeoutReturns, Asking, Dispatching, Waiting
<1>4. ASSUME NEW t \in Sessions, PumpStep(t)
      PROVE  disp[m] \in Asking /\ (box[m] # "empty" => box'[m] # "empty")
  BY <1>4 DEF PumpStep, PumpPick, PumpExpire, PumpTestBusy, PumpMarkDelivered, PumpRunOk,
              PumpRunBusy, PumpRunFails, PumpResolve, PumpTurnOver, PumpExit,
              ResolveWaiter, TypeOK
<1>5. ASSUME NEW k \in Mails, NEW w \in DOMAIN watch[k], WatchStep(k, w)
      PROVE  \/ disp[m] \in Asking /\ (box[m] # "empty" => box'[m] # "empty")
             \/ disp'[m] = "check" /\ mail'[m].mode = "notify"
  <2>1. CASE PushInsert(k, w)
    BY <2>1 DEF PushInsert, InsertMail, TypeOK
  <2>2. CASE WatchResolve(k, w)
    BY <2>2 DEF WatchResolve, ResolveWaiter, TypeOK
  <2> QED BY <1>1, <1>5, <2>1, <2>2
      DEF WatchStep, WatchRearm, WatchExpire, WatchIdle, WatchAnswered, WatchNoAnswer,
          PushGuards, PushInsertFails
<1>6. ASSUME NEW s \in Sessions,
             SessionStep(s)
      PROVE  UNCHANGED <<disp, box>>
  BY <1>6 DEF SessionStep, UserSends, TurnEnds, SaveReply
<1>7. CASE Restart
  BY <1>7 DEF Restart, Asking, Dispatching, Waiting, TypeOK
<1>8. CASE UNCHANGED vars
  BY <1>1, <1>8 DEF vars
<1> QED BY <1>1, <1>2, <1>3, <1>4, <1>5, <1>6, <1>7, <1>8 DEF Next, TypeOK

\* A parked question stays registered, unless it has its reply.
LEMMA ParkedNext ==
  ASSUME TypeOK, PumpHasMail, RowsInUse, Parked, [Next]_vars
  PROVE  Parked'
<1> SUFFICES ASSUME NEW m \in Mails, disp'[m] \in Asking,
                    mail'[m].mode = "question", box'[m] = "empty"
             PROVE  m \in waiters'
  BY DEF Parked, Asking
<1>1. CASE disp[m] \in Asking /\ (box[m] # "empty" => box'[m] # "empty")
  <2>1. m \in waiters
    BY <1>1, ModeKept DEF Parked, Asking
  <2> QED BY <1>1, <2>1, WaitersStay
<1>2. CASE disp'[m] = "check" /\ (m \in waiters' \/ mail'[m].mode = "notify")
  BY <1>2
<1> QED BY <1>1, <1>2, AskingBegins

\* A call awaits its receiver from the moment its question's turn was started.
LEMMA WaitBegins ==
  ASSUME TypeOK, [Next]_vars, NEW m \in Mails, disp'[m] = "wait"
  PROVE  \/ disp[m] = "wait"
         \/ RunTurnOk(m) /\ mail[m].mode = "question" /\ disp[m] = "run"
<1>1. CASE UNCHANGED disp
  BY <1>1
<1>2. ASSUME NEW call \in Calls, SendGuards(call) \/ SendInsert(call) PROVE disp[m] = "wait"
  BY <1>2 DEF SendGuards, SendInsert, TypeOK
<1>3. ASSUME NEW k \in Mails, DispatchStep(k)
      PROVE  \/ disp[m] = "wait"
             \/ RunTurnOk(m) /\ mail[m].mode = "question" /\ disp[m] = "run"
  <2>1. CASE RunTurnOk(k)
    BY <2>1 DEF RunTurnOk, Tell, TypeOK
  <2> QED BY <1>3, <2>1
      DEF DispatchStep, ParkWaiter, TestBusy, CountBacklog, KickPump, MarkDelivered,
          RunTurnBusy, RunTurnFails, Requeue, DropWaiter, Reject, TakeReply,
          TimeoutFires, TimeoutReturns, Tell, TypeOK
<1>4. ASSUME NEW t \in Sessions, PumpStep(t) PROVE UNCHANGED disp
  BY <1>4 DEF PumpStep, PumpPick, PumpExpire, PumpTestBusy, PumpMarkDelivered, PumpRunOk,
              PumpRunBusy, PumpRunFails, PumpResolve, PumpTurnOver, PumpExit
<1>5. ASSUME NEW k \in Mails, NEW w \in DOMAIN watch[k], WatchStep(k, w)
      PROVE  disp[m] = "wait"
  BY <1>5 DEF WatchStep, WatchRearm, WatchExpire, WatchIdle, WatchAnswered, WatchNoAnswer,
              WatchResolve, PushGuards, PushInsert, PushInsertFails, TypeOK
<1>6. ASSUME NEW s \in Sessions,
             SessionStep(s)
      PROVE  UNCHANGED disp
  BY <1>6 DEF SessionStep, UserSends, TurnEnds, SaveReply
<1>7. CASE Restart
  BY <1>7 DEF Restart, Waiting
<1>8. CASE UNCHANGED vars
  BY <1>8 DEF vars
<1> QED BY <1>1, <1>2, <1>3, <1>4, <1>5, <1>6, <1>7, <1>8 DEF Next, TypeOK

\* Only an awaited receiver times out.
LEMMA TimeoutBegins ==
  ASSUME TypeOK, [Next]_vars, NEW m \in Mails, disp'[m] = "timedOut"
  PROVE  disp[m] \in Waiting
<1> DEFINE Waited == disp[m] \in {"wait", "timedOut"}
<1>1. CASE UNCHANGED disp
  BY <1>1 DEF Waiting
<1>2. ASSUME NEW call \in Calls, SendGuards(call) \/ SendInsert(call) PROVE Waited
  BY <1>2 DEF SendGuards, SendInsert, TypeOK
<1>3. ASSUME NEW k \in Mails, DispatchStep(k) PROVE Waited
  <2>1. CASE TakeReply(k) \/ TimeoutFires(k) \/ TimeoutReturns(k)
    BY <2>1 DEF TakeReply, TimeoutFires, TimeoutReturns, TypeOK
  <2> QED BY <1>3, <2>1
      DEF DispatchStep, ParkWaiter, TestBusy, CountBacklog, KickPump, MarkDelivered, RunTurnOk,
          RunTurnBusy, RunTurnFails, Requeue, DropWaiter, Reject, Tell, TypeOK
<1>4. ASSUME NEW t \in Sessions, PumpStep(t) PROVE UNCHANGED disp
  BY <1>4 DEF PumpStep, PumpPick, PumpExpire, PumpTestBusy, PumpMarkDelivered, PumpRunOk,
              PumpRunBusy, PumpRunFails, PumpResolve, PumpTurnOver, PumpExit
<1>5. ASSUME NEW k \in Mails, NEW w \in DOMAIN watch[k], WatchStep(k, w) PROVE Waited
  BY <1>5 DEF WatchStep, WatchRearm, WatchExpire, WatchIdle, WatchAnswered, WatchNoAnswer,
              WatchResolve, PushGuards, PushInsert, PushInsertFails, TypeOK
<1>6. ASSUME NEW s \in Sessions, SessionStep(s) PROVE UNCHANGED disp
  BY <1>6 DEF SessionStep, UserSends, TurnEnds, SaveReply
<1>7. CASE Restart
  BY <1>7 DEF Restart, Waiting
<1>8. UNCHANGED vars => UNCHANGED disp
  BY DEF vars
<1> QED BY <1>1, <1>2, <1>3, <1>4, <1>5, <1>6, <1>7, <1>8 DEF Next, TypeOK, Waiting

\* Only a question's call comes to await its receiver, and rows keep their mode.
LEMMA OnlyQuestionsWaitNext ==
  ASSUME TypeOK, PumpHasMail, RowsInUse, OnlyQuestionsWait, [Next]_vars
  PROVE  OnlyQuestionsWait'
<1> SUFFICES ASSUME NEW m \in Mails, disp'[m] \in Waiting PROVE mail'[m].mode = "question"
  BY DEF OnlyQuestionsWait
<1>1. CASE disp'[m] = "wait"
  <2>1. disp[m] \in Asking /\ mail[m].mode = "question"
    BY <1>1, WaitBegins DEF OnlyQuestionsWait, Asking, Dispatching, Waiting
  <2> QED BY <2>1, ModeKept
<1>2. CASE disp'[m] = "timedOut"
  <2>1. disp[m] \in Asking /\ mail[m].mode = "question"
    BY <1>2, TimeoutBegins DEF OnlyQuestionsWait, Asking
  <2> QED BY <2>1, ModeKept
<1> QED BY <1>1, <1>2 DEF Waiting

\* A new watcher leaves the others, and lives.
LEMMA NewWatcherLives ==
  ASSUME TypeOK, NEW k \in Mails, NEW wm, NewWatcher(k, wm), NEW m \in Mails,
         LiveWatcher(m) \/ (m = k /\ mail[k].mode = "question")
  PROVE  LiveWatcher(m)'
<1> DEFINE x == [st |-> "poll", mark |-> wm, rearmed |-> FALSE, answer |-> "none"]
<1>1. CASE mail[k].mode = "question" /\ m = k
  <2>1. watch[m] \in Seq(Watcher)
    BY DEF TypeOK
  <2>2. watch'[m] = Append(watch[m], x)
    BY <1>1 DEF NewWatcher, TypeOK
  <2>3. DOMAIN watch'[m] = 1..(Len(watch[m]) + 1) /\ Len(watch[m]) \in Nat
    BY <2>1, <2>2, LenProperties
  <2>4. watch'[m][Len(watch[m]) + 1] = x
    BY <2>1, <2>2
  <2>5. Len(watch[m]) + 1 \in DOMAIN watch'[m]
    BY <2>3
  <2> QED BY <2>4, <2>5 DEF LiveWatcher, Watching
<1>2. CASE watch'[m] = watch[m]
  BY <1>1, <1>2 DEF LiveWatcher, Watching
<1> QED BY <1>1, <1>2 DEF NewWatcher, TypeOK

\* A watcher that has not been to the waiter map stays until it goes there.
LEMMA LiveKept ==
  ASSUME TypeOK, PumpHasMail, [Next]_vars, NEW m \in Mails,
         disp[m] \in Asking, disp'[m] \in Asking, box'[m] = "empty", m \in waiters,
         LiveWatcher(m)
  PROVE  LiveWatcher(m)'
<1>1. ASSUME watch'[m] = watch[m] PROVE LiveWatcher(m)'
  BY <1>1 DEF LiveWatcher, Watching
<1>2. ASSUME NEW call \in Calls, SendGuards(call) \/ SendInsert(call) PROVE LiveWatcher(m)'
  BY <1>1, <1>2 DEF SendGuards, SendInsert
<1>3. ASSUME NEW k \in Mails, DispatchStep(k) PROVE LiveWatcher(m)'
  <2>1. CASE RunTurnOk(k)
    BY <2>1, NewWatcherLives DEF RunTurnOk
  <2> QED BY <1>1, <1>3, <2>1
      DEF DispatchStep, ParkWaiter, TestBusy, CountBacklog, KickPump, MarkDelivered,
          RunTurnBusy, RunTurnFails, Requeue, DropWaiter, Reject, TakeReply,
          TimeoutFires, TimeoutReturns
<1>4. ASSUME NEW t \in Sessions, PumpStep(t) PROVE LiveWatcher(m)'
  <2>1. CASE PumpRunOk(t)
    <3>1. pump[t].mail \in Mails
      BY <2>1 DEF PumpRunOk, PumpHasMail, Used
    <3> QED BY <2>1, <3>1, NewWatcherLives DEF PumpRunOk
  <2> QED BY <1>1, <1>4, <2>1
      DEF PumpStep, PumpPick, PumpExpire, PumpTestBusy, PumpMarkDelivered,
          PumpRunBusy, PumpRunFails, PumpResolve, PumpTurnOver, PumpExit
<1>5. ASSUME NEW k \in Mails, NEW w \in DOMAIN watch[k], WatchStep(k, w)
      PROVE  LiveWatcher(m)'
  <2> DEFINE Past == {"push", "insert", "done"}
  <2>1. ASSUME NEW x, watch' = [watch EXCEPT ![k] = [watch[k] EXCEPT ![w] = x]],
               x.st \notin Past \/ watch[k][w].st \in Past
        PROVE  LiveWatcher(m)'
    <3>1. CASE m # k
      BY <1>1, <2>1, <3>1 DEF TypeOK
    <3>2. CASE m = k
      <4>1. watch'[m] = [watch[m] EXCEPT ![w] = x]
        BY <2>1, <3>2 DEF TypeOK
      <4>2. DOMAIN watch'[m] = DOMAIN watch[m] /\ w \in DOMAIN watch'[m]
        BY <3>2, <4>1
      <4>3. PICK v \in DOMAIN watch[m] : watch[m][v].st \notin Past
        BY DEF LiveWatcher, Watching
      <4>4. CASE v = w
        BY <2>1, <3>2, <4>1, <4>2, <4>3, <4>4 DEF LiveWatcher, Watching
      <4>5. CASE v # w
        <5>1. watch'[m][v] = watch[m][v]
          BY <4>1, <4>5
        <5> QED BY <4>2, <4>3, <5>1 DEF LiveWatcher, Watching
      <4> QED BY <4>4, <4>5
    <3> QED BY <3>1, <3>2
  <2>2. watch[k][w] \in Watcher
    BY ElementOfSeq, LenProperties DEF TypeOK
  <2>3. CASE WatchRearm(k, w) \/ WatchIdle(k, w)
    <3>1. PICK x : /\ watch' = [watch EXCEPT ![k] = [watch[k] EXCEPT ![w] = x]]
                   /\ x.st \in {"poll", "collect"}
      <4>1. CASE WatchRearm(k, w)
        <5> WITNESS [watch[k][w] EXCEPT !.rearmed = TRUE]
        <5> QED BY <2>2, <4>1 DEF WatchRearm, Watcher
      <4>2. CASE WatchIdle(k, w)
        <5> WITNESS [watch[k][w] EXCEPT !.st = "collect"]
        <5> QED BY <2>2, <4>2 DEF WatchIdle, SetWatch, Watcher
      <4> QED BY <2>3, <4>1, <4>2
    <3> QED BY <2>1, <3>1
  <2>4. CASE WatchExpire(k, w) \/ WatchAnswered(k, w) \/ WatchNoAnswer(k, w)
    <3>1. PICK st, a : st \in {"notice", "resolve", "giveUp"} /\ Settle(k, w, st, a)
      BY <2>4 DEF WatchExpire, WatchAnswered, WatchNoAnswer
    <3> DEFINE x == [WatcherDone EXCEPT !.st = st, !.answer = a]
    <3>2. x.st = st
      BY DEF WatcherDone
    <3>3. watch' = [watch EXCEPT ![k] = [watch[k] EXCEPT ![w] = x]]
      BY <3>1 DEF Settle
    <3> HIDE DEF x
    <3> QED BY <2>1, <3>1, <3>2, <3>3
  <2>5. CASE WatchResolve(k, w)
    <3>1. m # k
      BY <2>5, ResolveKeepsParked DEF WatchResolve
    <3> QED BY <1>1, <2>5, <3>1 DEF WatchResolve, EndWatch, SetWatch, TypeOK
  <2>6. CASE PushGuards(k, w) \/ PushInsert(k, w) \/ PushInsertFails(k, w)
    <3>1. watch[k][w].st \in Past
      BY <2>6 DEF PushGuards, PushInsert, PushInsertFails
    <3>2. PICK x : watch' = [watch EXCEPT ![k] = [watch[k] EXCEPT ![w] = x]]
      BY <2>6 DEF PushGuards, PushInsert, PushInsertFails, SetWatch, EndWatch
    <3> QED BY <2>1, <3>1, <3>2
  <2> QED BY <1>5, <2>3, <2>4, <2>5, <2>6 DEF WatchStep
<1>6. ASSUME NEW s \in Sessions,
             SessionStep(s)
      PROVE  LiveWatcher(m)'
  BY <1>1, <1>6 DEF SessionStep, UserSends, TurnEnds, SaveReply
<1>7. CASE Restart
  BY <1>7 DEF Restart, Asking, Dispatching, Waiting
<1>8. CASE UNCHANGED vars
  BY <1>1, <1>8 DEF vars
<1> QED BY <1>2, <1>3, <1>4, <1>5, <1>6, <1>7, <1>8 DEF Next, TypeOK

\* A call that awaits its receiver stays registered and watched until it has its reply.
LEMMA AskerWatchedNext ==
  ASSUME TypeOK, PumpHasMail, RowsInUse, Parked, OnlyQuestionsWait, AskerWatched, [Next]_vars
  PROVE  AskerWatched'
<1> SUFFICES ASSUME NEW m \in Mails, disp'[m] = "wait", box'[m] = "empty"
             PROVE  m \in waiters' /\ LiveWatcher(m)'
  BY DEF AskerWatched
<1>1. disp'[m] \in Asking
  BY DEF Asking, Waiting
<1>2. mail'[m].mode = "question"
  BY OnlyQuestionsWaitNext DEF OnlyQuestionsWait, Waiting
<1>3. m \in waiters'
  BY <1>1, <1>2, ParkedNext DEF Parked, Asking
<1>4. CASE disp[m] = "wait"
  <2>1. disp[m] \in Asking
    BY <1>4 DEF Asking, Waiting
  <2>2. box[m] = "empty"
    BY <1>1, AskingBegins
  <2>3. m \in waiters /\ LiveWatcher(m)
    BY <1>4, <2>2 DEF AskerWatched
  <2> QED BY <1>1, <1>3, <2>1, <2>3, LiveKept
<1>5. CASE RunTurnOk(m) /\ mail[m].mode = "question"
  BY <1>3, <1>5, NewWatcherLives DEF RunTurnOk
<1> QED BY <1>4, <1>5, WaitBegins

-----------------------------------------------------------------------------
(* What a step does to the watchers of a question *)

\* A watcher's step changes that watcher alone, and only a watcher at work.
LEMMA OneWatcherMoves ==
  ASSUME TypeOK, NEW m \in Mails, NEW w \in DOMAIN watch[m], WatchStep(m, w)
  PROVE  /\ watch[m][w].st # "done"
         /\ \E x \in Watcher :
              /\ watch' = [watch EXCEPT ![m] = [watch[m] EXCEPT ![w] = x]]
              /\ x.st = "resolve" => WatchAnswered(m, w)
              /\ PushInsert(m, w) => x.st = "done"
<1> DEFINE Goes(x) == /\ x \in Watcher
                      /\ watch' = [watch EXCEPT ![m] = [watch[m] EXCEPT ![w] = x]]
<1>1. watch[m][w] \in Watcher
  BY ElementOfSeq, LenProperties DEF TypeOK
<1>2. ASSUME NEW st \in WatchStates, SetWatch(m, w, st)
      PROVE  \E x : Goes(x) /\ x.st = st
  <2>1. Goes([watch[m][w] EXCEPT !.st = st]) /\ [watch[m][w] EXCEPT !.st = st].st = st
    BY <1>1, <1>2 DEF SetWatch, Watcher
  <2> QED BY <2>1
<1>3. ASSUME EndWatch(m, w) PROVE \E x : Goes(x) /\ x.st = "done"
  <2>1. Goes(WatcherDone) /\ WatcherDone.st = "done"
    BY <1>3 DEF EndWatch, WatcherDone, Watcher, WatchStates, Answers
  <2> QED BY <2>1
<1>4. ASSUME NEW st \in WatchStates, NEW a \in Answers, Settle(m, w, st, a)
      PROVE  \E x : Goes(x) /\ x.st = st
  <2> DEFINE x == [WatcherDone EXCEPT !.st = st, !.answer = a]
  <2>1. Goes(x) /\ x.st = st
    BY <1>4 DEF Settle, WatcherDone, Watcher
  <2> HIDE DEF x
  <2> QED BY <2>1
<1> HIDE DEF Goes
<1>5. watch[m][w].st # "done"
  BY DEF WatchStep, WatchRearm, WatchExpire, WatchIdle, WatchAnswered, WatchNoAnswer,
         WatchResolve, PushGuards, PushInsert, PushInsertFails
<1>6. CASE WatchRearm(m, w)
  <2> DEFINE x == [watch[m][w] EXCEPT !.rearmed = TRUE]
  <2>1. Goes(x) /\ x.st = "poll"
    BY <1>1, <1>6 DEF WatchRearm, Watcher, Goes
  <2>2. watch[m][w].st = "poll"
    BY <1>6 DEF WatchRearm
  <2> HIDE DEF x
  <2> QED BY <1>5, <2>1, <2>2 DEF Goes, PushInsert
<1>7. CASE WatchExpire(m, w) \/ WatchNoAnswer(m, w)
  <2>1. PICK x : Goes(x) /\ x.st \in {"notice", "giveUp"}
    BY <1>4, <1>7 DEF WatchExpire, WatchNoAnswer, WatchStates, Answers
  <2>2. ~ PushInsert(m, w)
    BY <1>7 DEF WatchExpire, WatchNoAnswer, PushInsert
  <2> QED BY <1>5, <2>1, <2>2 DEF Goes
<1>8. CASE WatchAnswered(m, w)
  <2>1. PICK x : Goes(x) /\ x.st = "resolve"
    BY <1>4, <1>8, WatcherFinds DEF WatchAnswered, WatchStates, Answers
  <2>2. ~ PushInsert(m, w)
    BY <1>8 DEF WatchAnswered, PushInsert
  <2> QED BY <1>5, <1>8, <2>1, <2>2 DEF Goes
<1>9. CASE WatchIdle(m, w) \/ WatchResolve(m, w) \/ PushGuards(m, w)
  <2>1. PICK x : Goes(x) /\ x.st \in {"collect", "push", "insert", "done"}
    BY <1>2, <1>3, <1>9 DEF WatchIdle, WatchResolve, PushGuards, WatchStates
  <2>2. ~ PushInsert(m, w)
    BY <1>9 DEF WatchIdle, WatchResolve, PushGuards, PushInsert
  <2> QED BY <1>5, <2>1, <2>2 DEF Goes
<1>10. CASE PushInsert(m, w) \/ PushInsertFails(m, w)
  <2>1. PICK x : Goes(x) /\ x.st = "done"
    BY <1>3, <1>10 DEF PushInsert, PushInsertFails
  <2> QED BY <1>5, <2>1 DEF Goes
<1> QED BY <1>6, <1>7, <1>8, <1>9, <1>10 DEF WatchStep

\* Of a question's watchers a step leaves all, drops all with the process, adds
\* one at the end, or changes one that is at work.
WatchersKept(m)   == watch'[m] = watch[m]
WatchersLost(m)   == watch'[m] = <<>> /\ restarts' > 0
WatcherArmed(m)   == \E x \in Watcher : x.st = "poll" /\ watch'[m] = Append(watch[m], x)
WatcherMoves(m)   == \E w \in DOMAIN watch[m], x \in Watcher :
                       /\ WatchStep(m, w)
                       /\ watch[m][w].st # "done"
                       /\ watch'[m] = [watch[m] EXCEPT ![w] = x]
                       /\ x.st = "resolve" => WatchAnswered(m, w)

\* ... and only a started turn adds one, for the row it was started for.
TurnStartedFor(m) ==
  \/ RunTurnOk(m)
  \/ \E t \in Sessions : PumpRunOk(t) /\ pump[t].mail = m

LEMMA ArmedWatcher ==
  ASSUME TypeOK, NEW k \in Mails, NEW wm \in Nat, NewWatcher(k, wm), NEW m \in Mails
  PROVE  WatchersKept(m) \/ (m = k /\ mail[m].mode = "question" /\ WatcherArmed(m))
<1> DEFINE x == [st |-> "poll", mark |-> wm, rearmed |-> FALSE, answer |-> "none"]
<1>1. x \in Watcher /\ x.st = "poll"
  BY DEF Watcher, WatchStates, Answers
<1>2. CASE mail[k].mode = "question" /\ m = k
  <2>1. watch'[m] = Append(watch[m], x)
    BY <1>2 DEF NewWatcher, TypeOK
  <2> HIDE DEF x
  <2> QED BY <1>1, <1>2, <2>1 DEF WatcherArmed
<1>3. CASE ~ (mail[k].mode = "question" /\ m = k)
  BY <1>3 DEF NewWatcher, WatchersKept, TypeOK
<1> QED BY <1>2, <1>3

\* The four ways, for every step of the mesh.
LEMMA WatchersMove ==
  ASSUME TypeOK, PumpHasMail, [Next]_vars, NEW m \in Mails
  PROVE  \/ WatchersKept(m) \/ WatchersLost(m) \/ WatcherMoves(m)
         \/ WatcherArmed(m) /\ mail[m].mode = "question" /\ TurnStartedFor(m)
<1>1. ASSUME UNCHANGED watch PROVE WatchersKept(m)
  BY <1>1 DEF WatchersKept
<1>2. ASSUME NEW call \in Calls, SendGuards(call) \/ SendInsert(call) PROVE WatchersKept(m)
  BY <1>1, <1>2 DEF SendGuards, SendInsert
<1>3. ASSUME NEW k \in Mails, DispatchStep(k)
      PROVE  \/ WatchersKept(m)
             \/ WatcherArmed(m) /\ mail[m].mode = "question" /\ TurnStartedFor(m)
  <2>1. CASE RunTurnOk(k)
    <3>1. mark[k] \in Nat
      BY DEF TypeOK
    <3> QED BY <2>1, <3>1, ArmedWatcher DEF RunTurnOk, TurnStartedFor
  <2> QED BY <1>1, <1>3, <2>1
      DEF DispatchStep, ParkWaiter, TestBusy, CountBacklog, KickPump, MarkDelivered,
          RunTurnBusy, RunTurnFails, Requeue, DropWaiter, Reject, TakeReply,
          TimeoutFires, TimeoutReturns
<1>4. ASSUME NEW t \in Sessions, PumpStep(t)
      PROVE  \/ WatchersKept(m)
             \/ WatcherArmed(m) /\ mail[m].mode = "question" /\ TurnStartedFor(m)
  <2>1. CASE PumpRunOk(t)
    <3>1. pump[t].mail \in Mails /\ pump[t].mark \in Nat
      BY <2>1 DEF PumpRunOk, PumpHasMail, Used, TypeOK, Pump
    <3>2. NewWatcher(pump[t].mail, pump[t].mark)
      BY <2>1 DEF PumpRunOk
    <3> QED BY <2>1, <3>1, <3>2, ArmedWatcher DEF TurnStartedFor
  <2> QED BY <1>1, <1>4, <2>1
      DEF PumpStep, PumpPick, PumpExpire, PumpTestBusy, PumpMarkDelivered,
          PumpRunBusy, PumpRunFails, PumpResolve, PumpTurnOver, PumpExit
<1>5. ASSUME NEW k \in Mails, NEW w \in DOMAIN watch[k], WatchStep(k, w)
      PROVE  WatchersKept(m) \/ WatcherMoves(m)
  <2>1. PICK x \in Watcher : /\ watch' = [watch EXCEPT ![k] = [watch[k] EXCEPT ![w] = x]]
                             /\ x.st = "resolve" => WatchAnswered(k, w)
    BY <1>5, OneWatcherMoves
  <2>2. CASE m = k
    <3>1. watch'[m] = [watch[m] EXCEPT ![w] = x]
      BY <2>1, <2>2 DEF TypeOK
    <3>2. watch[m][w].st # "done"
      BY <1>5, <2>2, OneWatcherMoves
    <3> QED BY <1>5, <2>1, <2>2, <3>1, <3>2 DEF WatcherMoves
  <2>3. CASE m # k
    BY <2>1, <2>3 DEF WatchersKept, TypeOK
  <2> QED BY <2>2, <2>3
<1>6. ASSUME NEW s \in Sessions, SessionStep(s) PROVE WatchersKept(m)
  BY <1>1, <1>6 DEF SessionStep, UserSends, TurnEnds, SaveReply
<1>7. CASE Restart
  <2>1. restarts' > 0
    BY <1>7, MeshAssumption DEF Restart, TypeOK
  <2> QED BY <1>7, <2>1 DEF Restart, WatchersLost
<1>8. CASE UNCHANGED vars
  BY <1>1, <1>8 DEF vars
<1> QED BY <1>2, <1>3, <1>4, <1>5, <1>6, <1>7, <1>8 DEF Next, TypeOK

-----------------------------------------------------------------------------
(* Answers *)

\* A receiver is told of an answer by a watcher that has stored one.
LEMMA AnswerTold ==
  ASSUME TypeOK, PumpHasMail, [Next]_vars, NEW m \in Mails, box'[m] = "answer"
  PROVE  \/ box[m] = "answer"
         \/ /\ UNCHANGED mail
            /\ ReceiverAlive(m)
            /\ \E w \in DOMAIN watch[m] : watch[m][w].st = "resolve"
<1>1. CASE UNCHANGED box
  BY <1>1
<1>2. ASSUME NEW k \in Mails, NEW w \in DOMAIN watch[k], WatchResolve(k, w)
      PROVE  \/ box[m] = "answer"
             \/ /\ UNCHANGED mail
                /\ ReceiverAlive(m)
                /\ \E v \in DOMAIN watch[m] : watch[m][v].st = "resolve"
  BY <1>2 DEF WatchResolve, ResolveWaiter, WaiterTakes, TypeOK
<1>3. ASSUME NEW t \in Sessions, PumpResolve(t) PROVE box[m] = "answer"
  BY <1>3 DEF PumpResolve, ResolveWaiter, TypeOK
<1>4. ASSUME NEW call \in Calls, SendGuards(call) \/ SendInsert(call) PROVE UNCHANGED box
  BY <1>4 DEF SendGuards, SendInsert
<1>5. ASSUME NEW k \in Mails, DispatchStep(k) PROVE UNCHANGED box
  BY <1>5 DEF DispatchStep, ParkWaiter, TestBusy, CountBacklog, KickPump, MarkDelivered,
              RunTurnOk, RunTurnBusy, RunTurnFails, Requeue, DropWaiter, Reject, TakeReply,
              TimeoutFires, TimeoutReturns
<1>6. ASSUME NEW t \in Sessions, PumpStep(t) PROVE UNCHANGED box \/ PumpResolve(t)
  BY <1>6 DEF PumpStep, PumpPick, PumpExpire, PumpTestBusy, PumpMarkDelivered, PumpRunOk,
              PumpRunBusy, PumpRunFails, PumpTurnOver, PumpExit
<1>7. ASSUME NEW k \in Mails, NEW w \in DOMAIN watch[k], WatchStep(k, w)
      PROVE  UNCHANGED box \/ WatchResolve(k, w)
  BY <1>7 DEF WatchStep, WatchRearm, WatchExpire, WatchIdle, WatchAnswered, WatchNoAnswer,
              PushGuards, PushInsert, PushInsertFails
<1>8. ASSUME NEW s \in Sessions, SessionStep(s) PROVE UNCHANGED box
  BY <1>8 DEF SessionStep, UserSends, TurnEnds, SaveReply
<1>9. CASE Restart
  BY <1>1, <1>9 DEF Restart
<1>10. CASE UNCHANGED vars
  BY <1>1, <1>10 DEF vars
<1> QED BY <1>1, <1>2, <1>3, <1>4, <1>5, <1>6, <1>7, <1>8, <1>9, <1>10 DEF Next, TypeOK

\* A watcher with an answer has stored it, or stores it in this step.
LEMMA AnswerResolved ==
  ASSUME TypeOK, PumpHasMail, [Next]_vars, NEW m \in Mails,
         NEW v \in DOMAIN watch'[m], watch'[m][v].st = "resolve"
  PROVE  \/ v \in DOMAIN watch[m] /\ watch[m][v].st = "resolve"
         \/ mail'[m].answer \in Row
<1>1. CASE WatchersKept(m)
  BY <1>1 DEF WatchersKept
<1>2. CASE WatchersLost(m)
  BY <1>2 DEF WatchersLost
<1>3. CASE WatcherArmed(m)
  <2>1. PICK x \in Watcher : x.st = "poll" /\ watch'[m] = Append(watch[m], x)
    BY <1>3 DEF WatcherArmed
  <2>2. watch[m] \in Seq(Watcher)
    BY DEF TypeOK
  <2>3. v \in 1..(Len(watch[m]) + 1) /\ Len(watch[m]) \in Nat
    BY <2>1, <2>2, AppendProperties, LenProperties
  <2>4. v # Len(watch[m]) + 1
    BY <2>1, <2>2
  <2> QED BY <2>1, <2>2, <2>3, <2>4, AppendProperties, LenProperties
<1>4. CASE WatcherMoves(m)
  <2>1. PICK w \in DOMAIN watch[m], x \in Watcher :
             /\ watch'[m] = [watch[m] EXCEPT ![w] = x]
             /\ x.st = "resolve" => WatchAnswered(m, w)
    BY <1>4 DEF WatcherMoves
  <2>2. CASE v # w
    BY <2>1, <2>2
  <2>3. CASE v = w
    <3>1. WatchAnswered(m, w)
      BY <2>1, <2>3
    <3>2. PICK a \in Row : mail' = [mail EXCEPT ![m].status = "answered", ![m].answer = a]
      BY <3>1, WatcherFinds DEF WatchAnswered
    <3> QED BY <3>2 DEF TypeOK, MailRow
  <2> QED BY <2>2, <2>3
<1> QED BY <1>1, <1>2, <1>3, <1>4, WatchersMove

\* Whatever speaks of an answer has it stored before.
LEMMA AnswersStoredNext ==
  ASSUME TypeOK, PumpHasMail, RowsInUse, AnswersStored, [Next]_vars
  PROVE  AnswersStored'
<1>1. RowsKept
  BY RowsStay
<1>2. ASSUME NEW m \in Mails, box'[m] = "answer"
      PROVE  m \in Used' /\ mail'[m].answer \in Row
  <2>1. m \in Used /\ mail[m].answer \in Row
    BY <1>2, AnswerTold DEF AnswersStored, RowsInUse, ReceiverAlive, Dispatching, Waiting
  <2> QED BY <1>1, <2>1 DEF RowsKept
<1>3. ASSUME NEW m \in Mails, NEW v \in DOMAIN watch'[m], watch'[m][v].st = "resolve"
      PROVE  mail'[m].answer \in Row
  <2>1. CASE v \in DOMAIN watch[m] /\ watch[m][v].st = "resolve"
    <3>1. watch[m] # <<>>
      BY <2>1, LenProperties DEF TypeOK
    <3>2. m \in Used /\ mail[m].answer \in Row
      BY <2>1, <3>1 DEF RowsInUse, AnswersStored
    <3> QED BY <1>1, <3>2 DEF RowsKept
  <2> QED BY <1>3, <2>1, AnswerResolved
<1> QED BY <1>2, <1>3 DEF AnswersStored

\* A call returns a reply when its receiver has been told of an answer.
LEMMA ReplyIsStoredNext ==
  ASSUME TypeOK, PumpHasMail, RowsInUse, AnswersStored, ReplyIsStored, [Next]_vars
  PROVE  ReplyIsStored'
<1> SUFFICES ASSUME NEW m \in Mails, disp'[m] = "saidReply"
             PROVE  mail'[m].answer \in Row
  BY DEF ReplyIsStored
<1>1. disp[m] = "saidReply" \/ (disp[m] = "wait" /\ box[m] = "answer")
  <2>1. CASE UNCHANGED disp
    BY <2>1
  <2>2. ASSUME NEW call \in Calls, SendGuards(call) \/ SendInsert(call)
        PROVE  disp[m] = "saidReply"
    BY <2>2 DEF SendGuards, SendInsert, TypeOK
  <2>3. ASSUME NEW k \in Mails, DispatchStep(k)
        PROVE  disp[m] = "saidReply" \/ (disp[m] = "wait" /\ box[m] = "answer")
    BY <2>3 DEF DispatchStep, ParkWaiter, TestBusy, CountBacklog, KickPump, MarkDelivered,
                RunTurnOk, RunTurnBusy, RunTurnFails, Requeue, DropWaiter, Reject,
                TakeReply, TimeoutFires, TimeoutReturns, Tell, TypeOK
  <2>4. ASSUME NEW t \in Sessions, PumpStep(t) PROVE UNCHANGED disp
    BY <2>4 DEF PumpStep, PumpPick, PumpExpire, PumpTestBusy, PumpMarkDelivered, PumpRunOk,
                PumpRunBusy, PumpRunFails, PumpResolve, PumpTurnOver, PumpExit
  <2>5. ASSUME NEW k \in Mails, NEW w \in DOMAIN watch[k], WatchStep(k, w)
        PROVE  disp[m] = "saidReply"
    BY <2>5 DEF WatchStep, WatchRearm, WatchExpire, WatchIdle, WatchAnswered, WatchNoAnswer,
                WatchResolve, PushGuards, PushInsert, PushInsertFails, TypeOK
  <2>6. ASSUME NEW s \in Sessions, SessionStep(s) PROVE UNCHANGED disp
    BY <2>6 DEF SessionStep, UserSends, TurnEnds, SaveReply
  <2>7. CASE Restart
    BY <2>7 DEF Restart, TypeOK
  <2>8. CASE UNCHANGED vars
    BY <2>1, <2>8 DEF vars
  <2> QED BY <2>1, <2>2, <2>3, <2>4, <2>5, <2>6, <2>7, <2>8 DEF Next, TypeOK
<1>2. m \in Used /\ mail[m].answer \in Row
  BY <1>1 DEF ReplyIsStored, AnswersStored, RowsInUse
<1> QED BY <1>2, RowsStay DEF RowsKept

-----------------------------------------------------------------------------
(* Turns *)

\* What a pump takes in hand is a queued row of its target.
LEMMA PumpHands ==
  ASSUME TypeOK, PumpHasMail, [Next]_vars, NEW t \in Sessions,
         pump'[t].st \in {"have", "deliver", "run"}
  PROVE  /\ pump'[t].mail \in Used
         /\ \/ /\ pump[t].st \in {"have", "deliver", "run"}
               /\ pump'[t].mail = pump[t].mail
            \/ mail[pump'[t].mail].to = t
<1> DEFINE Hands == {"have", "deliver", "run"}
           Good == /\ pump'[t].mail \in Used
                   /\ \/ pump[t].st \in Hands /\ pump'[t].mail = pump[t].mail
                      \/ mail[pump'[t].mail].to = t
<1>1. ASSUME pump'[t] = pump[t] PROVE Good
  BY <1>1 DEF PumpHasMail
<1>2. ASSUME NEW k \in Sessions, PumpKick(k) PROVE pump'[t] = pump[t]
  BY <1>2 DEF PumpKick, PumpOff, TypeOK
<1>3. ASSUME NEW k \in Sessions, PumpStep(k) PROVE Good
  <2>1. CASE k # t
    <3>1. pump'[t] = pump[t]
      BY <1>3, <2>1 DEF PumpStep, PumpPick, PumpExpire, PumpTestBusy, PumpMarkDelivered,
            PumpRunOk, PumpRunBusy, PumpRunFails, PumpResolve, PumpTurnOver, PumpExit,
            PumpGoto, TypeOK
    <3> QED BY <1>1, <3>1
  <2>2. CASE k = t
    <3>1. ASSUME NEW st \in {"pick", "turnwait", "exit"}, PumpGoto(t, st) PROVE FALSE
      BY <3>1 DEF PumpGoto, PumpOff, TypeOK
    <3>2. CASE PumpPick(t)
      <4>1. QueuedMailFor(t) # {}
        BY <3>1, <3>2 DEF PumpPick
      <4> DEFINE o == Oldest(QueuedMailFor(t))
      <4>2. o \in QueuedMailFor(t)
        BY <4>1, OldestIn DEF QueuedMailFor, Used, Mails
      <4>3. pump'[t].mail = o
        BY <3>2, <4>1 DEF PumpPick, TypeOK, Pump
      <4> QED BY <4>2, <4>3 DEF QueuedMailFor
    <3>3. CASE PumpTestBusy(t)
      <4>1. pump'[t].mail = pump[t].mail /\ pump[t].st = "have"
        BY <3>1, <3>3 DEF PumpTestBusy, TypeOK, Pump
      <4> QED BY <4>1 DEF PumpHasMail
    <3>4. CASE PumpMarkDelivered(t)
      <4>1. pump'[t].mail = pump[t].mail /\ pump[t].st = "deliver"
        BY <3>4 DEF PumpMarkDelivered, TypeOK, Pump
      <4> QED BY <4>1 DEF PumpHasMail
    <3>5. CASE PumpExpire(t) \/ PumpRunFails(t) \/ PumpExit(t)
      BY <3>5 DEF PumpExpire, PumpRunFails, PumpExit, PumpOff, TypeOK, Pump
    <3>6. CASE PumpRunOk(t) \/ PumpRunBusy(t) \/ PumpResolve(t) \/ PumpTurnOver(t)
      BY <3>1, <3>6 DEF PumpRunOk, PumpRunBusy, PumpResolve, PumpTurnOver
    <3> QED BY <1>3, <2>2, <3>2, <3>3, <3>4, <3>5, <3>6 DEF PumpStep
  <2> QED BY <2>1, <2>2
<1>4. ASSUME NEW call \in Calls, SendGuards(call) \/ SendInsert(call) PROVE UNCHANGED pump
  BY <1>4 DEF SendGuards, SendInsert
<1>5. ASSUME NEW m \in Mails, DispatchStep(m)
      PROVE  \E k \in Sessions : PumpKick(k) \/ UNCHANGED pump
  <2>1. mail[m].to \in Sessions
    BY DEF TypeOK, MailRow
  <2> QED BY <1>5, <2>1
      DEF DispatchStep, ParkWaiter, TestBusy, CountBacklog, KickPump, MarkDelivered,
          RunTurnOk, RunTurnBusy, RunTurnFails, Requeue, DropWaiter, Reject, TakeReply,
          TimeoutFires, TimeoutReturns
<1>6. ASSUME NEW m \in Mails, NEW w \in DOMAIN watch[m], WatchStep(m, w)
      PROVE  UNCHANGED pump
  BY <1>6 DEF WatchStep, WatchRearm, WatchExpire, WatchIdle, WatchAnswered, WatchNoAnswer,
              WatchResolve, PushGuards, PushInsert, PushInsertFails
<1>7. ASSUME NEW s \in Sessions, SessionStep(s) PROVE UNCHANGED pump
  BY <1>7 DEF SessionStep, UserSends, TurnEnds, SaveReply
<1>8. ASSUME Restart PROVE Good
  BY <1>8 DEF Restart, PumpOff
<1>9. ASSUME UNCHANGED vars PROVE Good
  BY <1>1, <1>9 DEF vars
<1> HIDE DEF Good
<1>10. Good
  BY <1>1, <1>2, <1>3, <1>4, <1>5, <1>6, <1>7, <1>8, <1>9 DEF Next, TypeOK
<1> QED BY <1>10 DEF Good

\* A pump handles the mail of its own target.
LEMMA PumpsOwnMailNext ==
  ASSUME TypeOK, PumpHasMail, PumpsOwnMail, [Next]_vars
  PROVE  PumpsOwnMail'
<1> SUFFICES ASSUME NEW t \in Sessions, pump'[t].st \in {"have", "deliver", "run"}
             PROVE  mail'[pump'[t].mail].to = t
  BY DEF PumpsOwnMail
<1>1. pump'[t].mail \in Used /\ mail[pump'[t].mail].to = t
  BY PumpHands DEF PumpsOwnMail
<1> QED BY <1>1, RowsStay DEF RowsKept

\* The three numbers are small.
LEMMA TurnsType ==
  ASSUME NEW m \in Mails
  PROVE  SenderTurns(m) \in 0..1 /\ PumpTurns(m) \in 0..2 /\ TurnsLeft(m) \in 0..3
BY DEF SenderTurns, PumpTurns, TurnsLeft

LEMMA TurnsTypePrimed ==
  ASSUME NEW m \in Mails
  PROVE  /\ SenderTurns(m)' \in 0..1 /\ PumpTurns(m)' \in 0..2 /\ TurnsLeft(m)' \in 0..3
         /\ TurnsLeft(m)' = SenderTurns(m)' + PumpTurns(m)'
BY DEF SenderTurns, PumpTurns, TurnsLeft

\* A sender starts one turn for its row, or requeues it and starts none.
LEMMA SenderTurnsStep ==
  ASSUME TypeOK, RowsInUse, [Next]_vars, NEW m \in Used
  PROVE  /\ SenderTurns(m)' <= SenderTurns(m)
         /\ RunTurnOk(m) \/ Requeue(m) => SenderTurns(m)' + 1 <= SenderTurns(m)
<1> USE DEF SenderTurns
<1>1. m \in Mails
  BY DEF Used
<1>2. RunTurnOk(m) \/ Requeue(m) => SenderTurns(m)' + 1 <= SenderTurns(m)
  BY <1>1 DEF RunTurnOk, Requeue, Tell, TypeOK
<1>3. CASE UNCHANGED disp
  BY <1>2, <1>3
<1>4. ASSUME NEW call \in Calls, SendGuards(call) \/ SendInsert(call)
      PROVE  disp'[m] = disp[m]
  BY <1>1, <1>4, NextIdFree DEF SendGuards, SendInsert, TypeOK
<1>5. ASSUME NEW k \in Mails, DispatchStep(k) PROVE SenderTurns(m)' <= SenderTurns(m)
  <2>1. CASE m # k
    <3>1. disp'[m] = disp[m]
      BY <1>1, <1>5, <2>1
         DEF DispatchStep, ParkWaiter, TestBusy, CountBacklog, KickPump, MarkDelivered,
             RunTurnOk, RunTurnBusy, RunTurnFails, Requeue, DropWaiter, Reject, TakeReply,
             TimeoutFires, TimeoutReturns, Tell, TypeOK
    <3> QED BY <3>1
  <2>2. CASE m = k
    BY <1>1, <1>5, <2>2
       DEF DispatchStep, ParkWaiter, TestBusy, CountBacklog, KickPump, MarkDelivered,
           RunTurnOk, RunTurnBusy, RunTurnFails, Requeue, DropWaiter, Reject, TakeReply,
           TimeoutFires, TimeoutReturns, Tell, TypeOK
  <2> QED BY <2>1, <2>2
<1>6. ASSUME NEW t \in Sessions, PumpStep(t) PROVE UNCHANGED disp
  BY <1>6 DEF PumpStep, PumpPick, PumpExpire, PumpTestBusy, PumpMarkDelivered, PumpRunOk,
              PumpRunBusy, PumpRunFails, PumpResolve, PumpTurnOver, PumpExit
<1>7. ASSUME NEW k \in Mails, NEW w \in DOMAIN watch[k], WatchStep(k, w)
      PROVE  disp'[m] = disp[m]
  BY <1>1, <1>7, NextIdFree
     DEF WatchStep, WatchRearm, WatchExpire, WatchIdle, WatchAnswered, WatchNoAnswer,
         WatchResolve, PushGuards, PushInsert, PushInsertFails, TypeOK
<1>8. ASSUME NEW s \in Sessions, SessionStep(s) PROVE UNCHANGED disp
  BY <1>8 DEF SessionStep, UserSends, TurnEnds, SaveReply
<1>9. CASE Restart
  BY <1>1, <1>2, <1>9 DEF Restart, Dispatching, Waiting
<1>10. CASE UNCHANGED vars
  BY <1>3, <1>10 DEF vars
<1> QED BY <1>2, <1>3, <1>4, <1>5, <1>6, <1>7, <1>8, <1>9, <1>10 DEF Next, TypeOK

\* What the pump of a row's target does with it: of the row in hand and the
\* row in the queue it starts one turn at most.
LEMMA OwnPumpTurns ==
  ASSUME TypeOK, PumpHasMail, PumpsOwnMail, NEW m \in Used,
         NEW t \in Sessions, mail[m].to = t, PumpStep(t)
  PROVE  /\ PumpTurns(m)' <= PumpTurns(m)
         /\ PumpRunOk(t) /\ pump[t].mail = m => PumpTurns(m)' + 1 <= PumpTurns(m)
<1> USE DEF PumpTurns, InHand, TypeOK, Pump
<1>1. m \in Mails /\ m # 0 /\ mail[m] \in MailRow
  BY MeshAssumption DEF Used, Mails
<1>2. pump[t] \in Pump
  OBVIOUS
<1>3. ASSUME NEW st \in {"pick", "turnwait", "exit"}, PumpGoto(t, st)
      PROVE  pump'[t].mail = 0 /\ pump'[t].st = st
  BY <1>3 DEF PumpGoto, PumpOff
<1>4. ASSUME UNCHANGED mail, NEW st \in {"pick", "turnwait", "exit"}, PumpGoto(t, st)
      PROVE  /\ PumpTurns(m)' = IF mail[m].status = "queued" THEN 1 ELSE 0
             /\ PumpTurns(m)' <= PumpTurns(m)
  BY <1>1, <1>3, <1>4
<1>5. CASE PumpPick(t)
  <2>1. CASE QueuedMailFor(t) = {}
    BY <1>4, <1>5, <2>1 DEF PumpPick, PumpRunOk
  <2>2. CASE QueuedMailFor(t) # {}
    <3> DEFINE o == Oldest(QueuedMailFor(t))
    <3>1. o \in QueuedMailFor(t)
      <4>1. QueuedMailFor(t) \subseteq Nat
        BY DEF QueuedMailFor, Used, Mails
      <4> QED BY <2>2, <4>1, OldestIn
    <3>2. pump'[t].mail = o /\ pump'[t].st = "have" /\ UNCHANGED mail
      BY <1>2, <1>5, <2>2 DEF PumpPick
    <3>3. mail[o].status = "queued"
      BY <3>1 DEF QueuedMailFor
    <3> HIDE DEF o
    <3> QED BY <1>1, <1>5, <3>2, <3>3 DEF PumpPick, PumpRunOk
  <2> QED BY <2>1, <2>2
<1>6. CASE PumpExpire(t)
  <2>1. pump'[t].mail = pump[t].mail /\ pump'[t].st = "resolve" /\ pump[t].st = "have"
    BY <1>2, <1>6 DEF PumpExpire
  <2>2. /\ mail'[m].to = mail[m].to
        /\ mail'[m].status = IF pump[t].mail = m THEN "expired" ELSE mail[m].status
    BY <1>1, <1>6 DEF PumpExpire, SetStatus, MailRow
  <2> QED BY <2>1, <2>2 DEF PumpRunOk
<1>7. CASE PumpTestBusy(t)
  <2>1. CASE SessionBusy(t)
    BY <1>4, <1>7, <2>1 DEF PumpTestBusy, PumpRunOk
  <2>2. CASE ~SessionBusy(t)
    <3>1. /\ pump'[t].mail = pump[t].mail /\ pump'[t].st = "deliver"
          /\ pump[t].st = "have" /\ UNCHANGED mail
      BY <1>2, <1>7, <2>2 DEF PumpTestBusy
    <3> QED BY <3>1 DEF PumpRunOk
  <2> QED BY <2>1, <2>2
<1>8. CASE PumpMarkDelivered(t)
  <2>1. pump'[t].mail = pump[t].mail /\ pump'[t].st = "run" /\ pump[t].st = "deliver"
    BY <1>2, <1>8 DEF PumpMarkDelivered
  <2>2. /\ mail'[m].to = mail[m].to
        /\ mail'[m].status = IF pump[t].mail = m THEN "delivered" ELSE mail[m].status
    BY <1>1, <1>8 DEF PumpMarkDelivered, SetStatus, MailRow
  <2> QED BY <2>1, <2>2 DEF PumpRunOk
<1>9. CASE PumpRunOk(t)
  <2>1. PumpTurns(m)' = (IF mail[m].status = "queued" THEN 1 ELSE 0) /\ pump[t].st = "run"
    BY <1>4, <1>9 DEF PumpRunOk
  <2> QED BY <2>1
<1>10. CASE PumpRunBusy(t)
  <2>1. pump'[t].mail = 0 /\ pump'[t].st = "pick" /\ pump[t].st = "run"
    BY <1>3, <1>10 DEF PumpRunBusy
  <2>2. /\ mail'[m].to = mail[m].to
        /\ mail'[m].status = IF pump[t].mail = m THEN "queued" ELSE mail[m].status
    BY <1>1, <1>10 DEF PumpRunBusy, SetStatus, MailRow
  <2>3. ~ PumpRunOk(t)
    BY <1>10 DEF PumpRunBusy, PumpRunOk
  <2> QED BY <2>1, <2>2, <2>3
<1>11. CASE PumpRunFails(t)
  <2>1. pump'[t].mail = pump[t].mail /\ pump'[t].st = "resolve" /\ pump[t].st = "run"
    BY <1>2, <1>11 DEF PumpRunFails
  <2>2. /\ mail'[m].to = mail[m].to
        /\ mail'[m].status = IF pump[t].mail = m THEN "rejected" ELSE mail[m].status
    BY <1>1, <1>11 DEF PumpRunFails, SetStatus, MailRow
  <2>3. PumpTurns(m)' <= PumpTurns(m) /\ (pump[t].mail = m => PumpTurns(m)' + 1 <= PumpTurns(m))
    BY <2>1, <2>2
  <2> QED BY <2>3
<1>12. CASE PumpResolve(t) \/ PumpTurnOver(t)
  BY <1>4, <1>12 DEF PumpResolve, PumpTurnOver, PumpRunOk
<1>13. CASE PumpExit(t)
  <2>1. pump'[t].mail = 0 /\ pump'[t].st = "off" /\ UNCHANGED mail /\ pump[t].st = "exit"
    BY <1>13 DEF PumpExit, PumpOff
  <2> QED BY <2>1 DEF PumpRunOk
<1> QED BY <1>5, <1>6, <1>7, <1>8, <1>9, <1>10, <1>11, <1>12, <1>13 DEF PumpStep

\* A step other than those of the target's pump gives it no row, except that a
\* sender may put its own back into the queue.
LEMMA PumpTurnsKept ==
  ASSUME TypeOK, NEW m \in Used, mail'[m].to = mail[m].to,
         \/ pump'[mail[m].to] = pump[mail[m].to]
         \/ pump'[mail[m].to].st \in {"off", "pick"} /\ pump[mail[m].to].st = "off",
         mail'[m].status = "queued" => mail[m].status = "queued"
  PROVE  PumpTurns(m)' <= PumpTurns(m)
BY DEF PumpTurns, InHand

LEMMA PumpTurnsStep ==
  ASSUME TypeOK, PumpHasMail, PumpsOwnMail, [Next]_vars, NEW m \in Used
  PROVE  /\ PumpTurns(m)' <= PumpTurns(m) + (IF Requeue(m) THEN 1 ELSE 0)
         /\ \A t \in Sessions :
              PumpRunOk(t) /\ pump[t].mail = m => PumpTurns(m)' + 1 <= PumpTurns(m)
<1> DEFINE Fewer == PumpTurns(m)' <= PumpTurns(m)
<1>1. m \in Mails /\ mail[m] \in MailRow /\ mail[m].to \in Sessions
  BY DEF Used, TypeOK, MailRow
<1>2. mail'[m].to = mail[m].to
  BY RowsStay DEF RowsKept
<1>3. PumpTurns(m) \in 0..2 /\ PumpTurns(m)' \in 0..2
  BY <1>1, TurnsType, TurnsTypePrimed
<1>4. ASSUME NEW t \in Sessions, PumpRunOk(t), pump[t].mail = m
      PROVE  PumpTurns(m)' + 1 <= PumpTurns(m)
  <2>1. mail[m].to = t
    BY <1>4 DEF PumpsOwnMail, PumpRunOk
  <2> QED BY <1>4, <2>1, OwnPumpTurns DEF PumpStep
<1>5. ASSUME UNCHANGED pump, mail'[m].status = "queued" => mail[m].status = "queued"
      PROVE  Fewer
  BY <1>2, <1>5, PumpTurnsKept
<1>6. ASSUME UNCHANGED <<pump, mail>> PROVE Fewer
  BY <1>5, <1>6
<1>7. ASSUME NEW call \in Calls, SendGuards(call) \/ SendInsert(call) PROVE Fewer
  <2>1. UNCHANGED pump /\ mail'[m] = mail[m]
    BY <1>1, <1>7, NextIdFree DEF SendGuards, SendInsert, InsertMail, TypeOK
  <2> QED BY <1>5, <2>1
<1>8. ASSUME NEW k \in Mails, DispatchStep(k), ~ Requeue(m) PROVE Fewer
  <2>1. CASE MarkDelivered(k) \/ Reject(k) \/ Requeue(k)
    <3>1. mail'[m].status = "queued" => mail[m].status = "queued"
      <4>1. CASE MarkDelivered(k)
        BY <1>1, <4>1 DEF MarkDelivered, SetStatus, TypeOK, MailRow
      <4>2. CASE Reject(k)
        BY <1>1, <4>2 DEF Reject, SetStatus, TypeOK, MailRow
      <4>3. CASE Requeue(k)
        <5>1. k # m
          BY <1>8, <4>3
        <5> QED BY <1>1, <4>3, <5>1 DEF Requeue, SetStatus, TypeOK
      <4> QED BY <2>1, <4>1, <4>2, <4>3
    <3>2. UNCHANGED pump
      BY <2>1 DEF MarkDelivered, Reject, Requeue
    <3> QED BY <1>5, <3>1, <3>2
  <2>2. CASE KickPump(k)
    <3>1. /\ \/ pump'[mail[m].to] = pump[mail[m].to]
             \/ pump'[mail[m].to].st = "pick" /\ pump[mail[m].to].st = "off"
          /\ UNCHANGED mail
      BY <1>1, <2>2 DEF KickPump, PumpKick, PumpOff, TypeOK
    <3> QED BY <3>1, PumpTurnsKept
  <2> QED BY <1>6, <1>8, <2>1, <2>2
      DEF DispatchStep, ParkWaiter, TestBusy, CountBacklog, RunTurnOk,
          RunTurnBusy, RunTurnFails, DropWaiter, TakeReply, TimeoutFires, TimeoutReturns
<1>9. ASSUME NEW t \in Sessions, PumpStep(t) PROVE Fewer
  <2>1. CASE t = mail[m].to
    BY <1>9, <2>1, OwnPumpTurns
  <2>2. CASE t # mail[m].to
    <3>1. pump'[mail[m].to] = pump[mail[m].to]
      BY <1>1, <1>9, <2>2
         DEF PumpStep, PumpPick, PumpExpire, PumpTestBusy, PumpMarkDelivered, PumpRunOk,
             PumpRunBusy, PumpRunFails, PumpResolve, PumpTurnOver, PumpExit, PumpGoto, TypeOK
    <3>2. mail'[m] = mail[m]
      <4>1. CASE PumpExpire(t) \/ PumpMarkDelivered(t) \/ PumpRunBusy(t) \/ PumpRunFails(t)
        <5>1. pump[t].mail # m
          BY <2>2, <4>1
             DEF PumpsOwnMail, PumpExpire, PumpMarkDelivered, PumpRunBusy, PumpRunFails
        <5> QED BY <1>1, <4>1, <5>1
            DEF PumpExpire, PumpMarkDelivered, PumpRunBusy, PumpRunFails, SetStatus, TypeOK
      <4> QED BY <1>9, <4>1
          DEF PumpStep, PumpPick, PumpTestBusy, PumpRunOk, PumpResolve, PumpTurnOver, PumpExit
    <3> QED BY <3>1, <3>2, PumpTurnsKept
  <2> QED BY <2>1, <2>2
<1>10. ASSUME NEW k \in Mails, NEW w \in DOMAIN watch[k], WatchStep(k, w) PROVE Fewer
  <2>1. UNCHANGED pump
    BY <1>10 DEF WatchStep, WatchRearm, WatchExpire, WatchIdle, WatchAnswered,
                 WatchNoAnswer, WatchResolve, PushGuards, PushInsert, PushInsertFails
  <2>2. mail'[m].status = "queued" => mail[m].status = "queued"
    <3>1. CASE WatchExpire(k, w) \/ WatchNoAnswer(k, w)
      BY <1>1, <3>1 DEF WatchExpire, WatchNoAnswer, SetStatus, TypeOK, MailRow
    <3>2. CASE WatchAnswered(k, w)
      <4>1. PICK a : mail' = [mail EXCEPT ![k].status = "answered", ![k].answer = a]
        BY <3>2 DEF WatchAnswered
      <4> QED BY <1>1, <4>1 DEF TypeOK, MailRow
    <3>3. CASE PushInsert(k, w)
      BY <1>1, <3>3, NextIdFree DEF PushInsert, InsertMail, TypeOK
    <3> QED BY <1>10, <3>1, <3>2, <3>3
        DEF WatchStep, WatchRearm, WatchIdle, WatchResolve, PushGuards, PushInsertFails
  <2> QED BY <1>5, <2>1, <2>2
<1>11. ASSUME NEW s \in Sessions, SessionStep(s) PROVE Fewer
  BY <1>6, <1>11 DEF SessionStep, UserSends, TurnEnds, SaveReply
<1>12. ASSUME Restart PROVE Fewer
  BY <1>1, <1>12 DEF Restart, PumpOff, PumpTurns, InHand
<1>13. ASSUME UNCHANGED vars PROVE Fewer
  BY <1>6, <1>13 DEF vars
<1> HIDE DEF Fewer
<1>14. Fewer \/ Requeue(m)
  BY <1>7, <1>8, <1>9, <1>10, <1>11, <1>12, <1>13 DEF Next, TypeOK
<1>15. Requeue(m) => PumpTurns(m)' <= PumpTurns(m) + 1
  <2> SUFFICES ASSUME Requeue(m) PROVE PumpTurns(m)' <= PumpTurns(m) + 1
    OBVIOUS
  <2>1. UNCHANGED pump
    BY DEF Requeue
  <2> QED BY <1>2, <2>1 DEF PumpTurns, InHand
<1> QED BY <1>3, <1>4, <1>14, <1>15 DEF Fewer

\* No step adds to the turns a row in use still has, and a turn started for it
\* is one of them.
LEMMA TurnsLeftStep ==
  ASSUME TypeOK, PumpHasMail, RowsInUse, PumpsOwnMail, [Next]_vars, NEW m \in Used
  PROVE  /\ TurnsLeft(m)' <= TurnsLeft(m)
         /\ TurnStartedFor(m) => TurnsLeft(m)' + 1 <= TurnsLeft(m)
<1>1. m \in Mails
  BY DEF Used
<1>2. /\ SenderTurns(m) \in 0..1 /\ PumpTurns(m) \in 0..2
      /\ SenderTurns(m)' \in 0..1 /\ PumpTurns(m)' \in 0..2
      /\ TurnsLeft(m) = SenderTurns(m) + PumpTurns(m)
      /\ TurnsLeft(m)' = SenderTurns(m)' + PumpTurns(m)'
  BY <1>1, TurnsType, TurnsTypePrimed DEF TurnsLeft
<1>3. /\ SenderTurns(m)' <= SenderTurns(m)
      /\ RunTurnOk(m) \/ Requeue(m) => SenderTurns(m)' + 1 <= SenderTurns(m)
  BY SenderTurnsStep
<1>4. /\ PumpTurns(m)' <= PumpTurns(m) + (IF Requeue(m) THEN 1 ELSE 0)
      /\ (\E t \in Sessions : PumpRunOk(t) /\ pump[t].mail = m)
           => PumpTurns(m)' + 1 <= PumpTurns(m)
  BY PumpTurnsStep
<1>5. ~ (RunTurnOk(m) /\ Requeue(m))
  BY DEF RunTurnOk, Requeue
<1>6. TurnsLeft(m)' <= TurnsLeft(m)
  BY <1>2, <1>3, <1>4
<1>7. CASE RunTurnOk(m)
  BY <1>2, <1>3, <1>4, <1>5, <1>6, <1>7
<1>8. CASE \E t \in Sessions : PumpRunOk(t) /\ pump[t].mail = m
  BY <1>2, <1>3, <1>4, <1>6, <1>8
<1> QED BY <1>6, <1>7, <1>8 DEF TurnStartedFor

\* A row that was not in use has two turns at most and no watcher.
LEMMA TurnsLeftFresh ==
  ASSUME TypeOK, PumpHasMail, RowsInUse, [Next]_vars, NEW m \in Mails \ Used
  PROVE  TurnsLeft(m)' <= 2 /\ watch[m] = <<>> /\ watch'[m] = <<>>
<1>1. mail'[m].to \in Sessions
  BY TypeNext DEF TypeOK, MailRow
<1>2. ~ InHand(m, {"run"})'
  BY <1>1, PumpHands DEF InHand
<1>3. PumpTurns(m)' <= 1
  BY <1>2 DEF PumpTurns
<1>4. TurnsLeft(m)' <= 2
  BY <1>3, TurnsTypePrimed
<1>5. watch[m] = <<>>
  BY DEF RowsInUse
<1>6. ~ TurnStartedFor(m)
  BY DEF TurnStartedFor, RunTurnOk, RowsInUse, PumpRunOk, PumpHasMail
<1>7. ~ WatcherMoves(m)
  BY <1>5 DEF WatcherMoves
<1> QED BY <1>4, <1>5, <1>6, <1>7, WatchersMove DEF WatchersKept, WatchersLost

\* A step leaves a question no more watchers than it had, but for the one of a
\* turn started.
LEMMA WatchersCounted ==
  ASSUME TypeOK, PumpHasMail, [Next]_vars, NEW m \in Mails
  PROVE  /\ Len(watch[m]) \in Nat /\ Len(watch'[m]) \in Nat
         /\ \/ Len(watch'[m]) <= Len(watch[m])
            \/ Len(watch'[m]) = Len(watch[m]) + 1 /\ TurnStartedFor(m)
<1>1. watch[m] \in Seq(Watcher) /\ watch'[m] \in Seq(Watcher)
  BY TypeNext DEF TypeOK
<1>2. Len(watch[m]) \in Nat /\ Len(watch'[m]) \in Nat
  BY <1>1, LenProperties
<1>3. CASE WatchersKept(m)
  BY <1>2, <1>3 DEF WatchersKept
<1>4. CASE WatchersLost(m)
  BY <1>2, <1>4 DEF WatchersLost
<1>5. CASE WatcherArmed(m) /\ TurnStartedFor(m)
  BY <1>1, <1>2, <1>5, AppendProperties DEF WatcherArmed
<1>6. CASE WatcherMoves(m)
  <2>1. DOMAIN watch'[m] = DOMAIN watch[m]
    BY <1>6 DEF WatcherMoves
  <2> QED BY <1>1, <1>2, <2>1, LenProperties
<1> QED BY <1>2, <1>3, <1>4, <1>5, <1>6, WatchersMove

\* The turns started and the turns left stay two together.
LEMMA TurnsBoundedNext ==
  ASSUME TypeOK, PumpHasMail, RowsInUse, PumpsOwnMail, TurnsBounded, [Next]_vars
  PROVE  TurnsBounded'
<1> SUFFICES ASSUME NEW m \in Mails PROVE Len(watch'[m]) + TurnsLeft(m)' <= 2
  BY DEF TurnsBounded
<1>1. TurnsLeft(m) \in 0..3 /\ TurnsLeft(m)' \in 0..3
  BY TurnsType, TurnsTypePrimed
<1>2. CASE m \in Used
  <2>1. Len(watch[m]) + TurnsLeft(m) <= 2
    BY DEF TurnsBounded
  <2> QED BY <1>1, <1>2, <2>1, TurnsLeftStep, WatchersCounted
<1>3. CASE m \notin Used
  <2>1. TurnsLeft(m)' <= 2 /\ watch'[m] = <<>>
    BY <1>3, TurnsLeftFresh
  <2>2. Len(watch'[m]) = 0
    BY <2>1
  <2> QED BY <1>1, <2>1, <2>2
<1> QED BY <1>2, <1>3

-----------------------------------------------------------------------------
(* What follows up a question *)

\* The process has not exited before if it has not by now.
LEMMA RestartsGrow ==
  ASSUME TypeOK, [Next]_vars, restarts' = 0
  PROVE  restarts = 0
<1>1. restarts \in Nat
  BY MeshAssumption DEF TypeOK
<1>2. ~ Restart
  BY <1>1 DEF Restart
<1>3. ASSUME NEW call \in Calls, SendGuards(call) \/ SendInsert(call)
      PROVE  UNCHANGED restarts
  BY <1>3 DEF SendGuards, SendInsert
<1>4. ASSUME NEW m \in Mails, DispatchStep(m) PROVE UNCHANGED restarts
  BY <1>4 DEF DispatchStep, ParkWaiter, TestBusy, CountBacklog, KickPump, MarkDelivered,
              RunTurnOk, RunTurnBusy, RunTurnFails, Requeue, DropWaiter, Reject,
              TakeReply, TimeoutFires, TimeoutReturns
<1>5. ASSUME NEW t \in Sessions, PumpStep(t) PROVE UNCHANGED restarts
  BY <1>5 DEF PumpStep, PumpPick, PumpExpire, PumpTestBusy, PumpMarkDelivered, PumpRunOk,
              PumpRunBusy, PumpRunFails, PumpResolve, PumpTurnOver, PumpExit
<1>6. ASSUME NEW m \in Mails, NEW w \in DOMAIN watch[m], WatchStep(m, w)
      PROVE  UNCHANGED restarts
  BY <1>6 DEF WatchStep, WatchRearm, WatchExpire, WatchIdle, WatchAnswered, WatchNoAnswer,
              WatchResolve, PushGuards, PushInsert, PushInsertFails
<1>7. ASSUME NEW s \in Sessions, SessionStep(s) PROVE UNCHANGED restarts
  BY <1>7 DEF SessionStep, UserSends, TurnEnds, SaveReply
<1>8. UNCHANGED vars => UNCHANGED restarts
  BY DEF vars
<1> QED BY <1>2, <1>3, <1>4, <1>5, <1>6, <1>7, <1>8 DEF Next, TypeOK

\* A set grows by one at most with an element.
LEMMA OneMore ==
  ASSUME NEW S, NEW x, IsFiniteSet(S), NEW T \in SUBSET (S \cup {x})
  PROVE  Cardinality(T) \in Nat /\ Cardinality(T) <= Cardinality(S) + 1
<1>1. /\ IsFiniteSet(S \cup {x})
      /\ Cardinality(S \cup {x}) = IF x \in S THEN Cardinality(S) ELSE Cardinality(S) + 1
  BY FS_AddElement
<1>2. IsFiniteSet(T) /\ Cardinality(T) <= Cardinality(S \cup {x})
  BY <1>1, FS_Subset
<1>3. Cardinality(S) \in Nat /\ Cardinality(T) \in Nat
  BY <1>2, FS_CardinalityType
<1> QED BY <1>1, <1>2, <1>3

\* What follows up a question changes only when one of its watchers inserts
\* the follow-up.
LEMMA FollowUpsGrow ==
  ASSUME TypeOK, PumpHasMail, RowsInUse, FollowUpsAnswer, [Next]_vars, NEW m \in Mails
  PROVE  \/ FollowUps(m)' = FollowUps(m)
         \/ /\ m \in Used
            /\ \E w \in DOMAIN watch[m] : PushInsert(m, w)
            /\ FollowUps(m)' \subseteq FollowUps(m) \cup {NextId}
<1>1. m # 0 /\ Used \subseteq Mails
  BY MeshAssumption DEF Mails, Used
<1>2. FollowUps(m) \subseteq FollowUps(m)'
  BY RowsStay DEF RowsKept, FollowUps
<1>3. ASSUME NEW f \in FollowUps(m)', f \notin FollowUps(m)
      PROVE  m \in Used /\ \E w \in DOMAIN watch[m] : PushInsert(m, w)
  <2>1. f \in Used' /\ mail'[f].re = m
    BY <1>3 DEF FollowUps
  <2>2. f \notin Used
    BY <1>3, <2>1, RowsStay DEF RowsKept, FollowUps
  <2>3. IsNewRow(f)
    BY <2>1, <2>2, NewRows
  <2> QED BY <1>1, <2>1, <2>3 DEF IsNewRow
<1>4. ASSUME NEW w \in DOMAIN watch[m], PushInsert(m, w), NEW f \in FollowUps(m)'
      PROVE  f \in FollowUps(m) \cup {NextId}
  <2>1. \A k \in Mails \ {NextId} : mail'[k] = mail[k]
    BY <1>4, NextIdFree DEF PushInsert, InsertMail, TypeOK
  <2>2. f \in Mails
    BY <1>4 DEF FollowUps, Used
  <2> QED BY <1>4, <2>1, <2>2 DEF FollowUps, Used
<1> QED BY <1>2, <1>3, <1>4

\* A row not in use has no follow-up, nor has it one when it comes in use.
LEMMA FollowUpsFresh ==
  ASSUME TypeOK, PumpHasMail, RowsInUse, FollowUpsAnswer, [Next]_vars,
         NEW m \in Mails \ Used
  PROVE  FollowUps(m)' = {}
<1>1. m # 0
  BY MeshAssumption DEF Mails
<1>2. FollowUps(m) = {}
  BY <1>1 DEF FollowUps, FollowUpsAnswer
<1> QED BY <1>2, FollowUpsGrow

\* The watchers of a question and its follow-ups are finitely many.
LEMMA CountsFinite ==
  ASSUME TypeOK, NEW m \in Mails
  PROVE  /\ IsFiniteSet(FollowUps(m)) /\ Cardinality(FollowUps(m)) \in Nat
         /\ IsFiniteSet(AtWork(m)) /\ Cardinality(AtWork(m)) \in Nat
         /\ IsFiniteSet(Finished(m)) /\ Cardinality(Finished(m)) \in Nat
<1>1. FollowUps(m) \subseteq 1..MaxMail /\ IsFiniteSet(1..MaxMail)
  BY MeshAssumption, FS_Interval DEF FollowUps, Used, Mails
<1>2. watch[m] \in Seq(Watcher)
  BY DEF TypeOK
<1>3. Len(watch[m]) \in Nat /\ DOMAIN watch[m] = 1..Len(watch[m])
  BY <1>2, LenProperties
<1>4. IsFiniteSet(1..Len(watch[m]))
  BY <1>3, FS_Interval
<1>5. AtWork(m) \subseteq 1..Len(watch[m]) /\ Finished(m) \subseteq 1..Len(watch[m])
  BY <1>3 DEF AtWork, Finished
<1>6. IsFiniteSet(FollowUps(m)) /\ IsFiniteSet(AtWork(m)) /\ IsFiniteSet(Finished(m))
  BY <1>1, <1>4, <1>5, FS_Subset
<1> QED BY <1>6, FS_CardinalityType

LEMMA CountsFinitePrimed ==
  ASSUME TypeOK', NEW m \in Mails
  PROVE  /\ IsFiniteSet(FollowUps(m)') /\ Cardinality(FollowUps(m)') \in Nat
         /\ IsFiniteSet(AtWork(m)') /\ Cardinality(AtWork(m)') \in Nat
         /\ IsFiniteSet(Finished(m)') /\ Cardinality(Finished(m)') \in Nat
<1>1. FollowUps(m)' \subseteq 1..MaxMail /\ IsFiniteSet(1..MaxMail)
  BY MeshAssumption, FS_Interval DEF FollowUps, Used, Mails
<1>2. watch'[m] \in Seq(Watcher)
  BY DEF TypeOK
<1>3. Len(watch'[m]) \in Nat /\ DOMAIN watch'[m] = 1..Len(watch'[m])
  BY <1>2, LenProperties
<1>4. IsFiniteSet(1..Len(watch'[m]))
  BY <1>3, FS_Interval
<1>5. AtWork(m)' \subseteq 1..Len(watch'[m]) /\ Finished(m)' \subseteq 1..Len(watch'[m])
  BY <1>3 DEF AtWork, Finished
<1>6. IsFiniteSet(FollowUps(m)') /\ IsFiniteSet(AtWork(m)') /\ IsFiniteSet(Finished(m)')
  BY <1>1, <1>4, <1>5, FS_Subset
<1> QED BY <1>6, FS_CardinalityType

\* A watcher that is done stays so while the process lives, and only a started
\* turn puts another one to work.
LEMMA WatchersAtWork ==
  ASSUME TypeOK, PumpHasMail, [Next]_vars, NEW m \in Mails
  PROVE  /\ restarts' = 0 => Finished(m) \subseteq Finished(m)'
         /\ \/ AtWork(m)' \subseteq AtWork(m)
            \/ /\ AtWork(m)' \subseteq AtWork(m) \cup {Len(watch[m]) + 1}
               /\ TurnStartedFor(m)
<1>1. watch[m] \in Seq(Watcher) /\ DOMAIN watch[m] = 1..Len(watch[m]) /\ Len(watch[m]) \in Nat
  BY LenProperties DEF TypeOK
<1>2. CASE WatchersKept(m)
  BY <1>2 DEF WatchersKept, Finished, AtWork
<1>3. CASE WatchersLost(m)
  <2>1. AtWork(m)' = {}
    BY <1>3 DEF WatchersLost, AtWork
  <2>2. restarts' # 0
    BY <1>3 DEF WatchersLost
  <2> QED BY <2>1, <2>2
<1>4. CASE WatcherMoves(m)
  <2>1. PICK w \in DOMAIN watch[m], x \in Watcher :
          watch[m][w].st # "done" /\ watch'[m] = [watch[m] EXCEPT ![w] = x]
    BY <1>4 DEF WatcherMoves
  <2> QED BY <1>1, <2>1 DEF Finished, AtWork
<1>5. CASE WatcherArmed(m) /\ TurnStartedFor(m)
  <2>1. PICK x \in Watcher : watch'[m] = Append(watch[m], x)
    BY <1>5 DEF WatcherArmed
  <2>2. /\ DOMAIN watch'[m] = 1..Len(watch[m]) + 1
        /\ \A w \in DOMAIN watch[m] : w \in DOMAIN watch'[m] /\ watch'[m][w] = watch[m][w]
    BY <1>1, <2>1, AppendProperties
  <2>3. \A w \in DOMAIN watch'[m] : w \in DOMAIN watch[m] \/ w = Len(watch[m]) + 1
    BY <1>1, <2>2
  <2> QED BY <1>5, <2>2, <2>3 DEF Finished, AtWork
<1> QED BY <1>2, <1>3, <1>4, <1>5, WatchersMove

\* The watcher that inserted a follow-up is done.
LEMMA PushEndsWatcher ==
  ASSUME TypeOK, NEW m \in Mails, NEW w \in DOMAIN watch[m], PushInsert(m, w)
  PROVE  /\ w \in AtWork(m) /\ AtWork(m)' = AtWork(m) \ {w}
         /\ w \notin Finished(m) /\ Finished(m)' = Finished(m) \cup {w}
<1>1. WatchStep(m, w)
  BY DEF WatchStep
<1>2. PICK x \in Watcher : /\ watch' = [watch EXCEPT ![m] = [watch[m] EXCEPT ![w] = x]]
                           /\ x.st = "done"
  BY <1>1, OneWatcherMoves
<1>3. watch'[m] = [watch[m] EXCEPT ![w] = x] /\ x.st = "done"
  BY <1>2 DEF TypeOK
<1>4. watch[m][w].st # "done"
  BY <1>1, OneWatcherMoves
<1> QED BY <1>3, <1>4 DEF AtWork, Finished

\* Follow-ups, watchers at work and turns left stay two together: a started
\* turn is exchanged for a watcher, a watcher for a follow-up.
LEMMA FollowUpsBoundedNext ==
  ASSUME TypeOK, PumpHasMail, RowsInUse, FollowUpsAnswer, PumpsOwnMail,
         FollowUpsBounded, [Next]_vars
  PROVE  FollowUpsBounded'
<1> SUFFICES ASSUME NEW m \in Used'
             PROVE  Cardinality(FollowUps(m)') + Cardinality(AtWork(m)') + TurnsLeft(m)' <= 2
  BY DEF FollowUpsBounded
<1>1. m \in Mails
  BY DEF Used
<1>2. TypeOK'
  BY TypeNext
<1>3. TurnsLeft(m) \in 0..3 /\ TurnsLeft(m)' \in 0..3
  BY <1>1, TurnsType, TurnsTypePrimed
<1>4. CASE m \notin Used
  <2>1. FollowUps(m)' = {}
    BY <1>1, <1>4, FollowUpsFresh
  <2>2. TurnsLeft(m)' <= 2 /\ watch'[m] = <<>>
    BY <1>1, <1>4, TurnsLeftFresh
  <2>3. AtWork(m)' = {}
    BY <2>2 DEF AtWork
  <2>4. Cardinality(FollowUps(m)') = 0 /\ Cardinality(AtWork(m)') = 0
    BY <2>1, <2>3, FS_EmptySet
  <2> QED BY <1>3, <2>2, <2>4
<1>5. CASE m \in Used
  <2> DEFINE F == Cardinality(FollowUps(m))
             W == Cardinality(AtWork(m))
             FF == Cardinality(FollowUps(m)')
             WW == Cardinality(AtWork(m)')
  <2>1. F + W + TurnsLeft(m) <= 2
    BY <1>5 DEF FollowUpsBounded
  <2>2. F \in Nat /\ W \in Nat /\ FF \in Nat /\ WW \in Nat
    BY <1>1, <1>2, CountsFinite, CountsFinitePrimed
  <2>3. /\ TurnsLeft(m)' <= TurnsLeft(m)
        /\ TurnStartedFor(m) => TurnsLeft(m)' + 1 <= TurnsLeft(m)
    BY <1>5, TurnsLeftStep
  <2>4. ASSUME NEW w \in DOMAIN watch[m], PushInsert(m, w),
               FollowUps(m)' \subseteq FollowUps(m) \cup {NextId}
        PROVE  FF <= F + 1 /\ WW = W - 1
    <3>1. FF <= F + 1
      BY <1>1, <2>4, CountsFinite, OneMore
    <3>2. w \in AtWork(m) /\ AtWork(m)' = AtWork(m) \ {w}
      BY <1>1, <2>4, PushEndsWatcher
    <3>3. WW = W - 1
      BY <1>1, <3>2, CountsFinite, FS_RemoveElement
    <3> QED BY <3>1, <3>3
  <2>5. WW <= W \/ (WW <= W + 1 /\ TurnStartedFor(m))
    <3>1. CASE AtWork(m)' \subseteq AtWork(m)
      BY <1>1, <3>1, CountsFinite, FS_Subset
    <3>2. CASE AtWork(m)' \subseteq AtWork(m) \cup {Len(watch[m]) + 1} /\ TurnStartedFor(m)
      BY <1>1, <3>2, CountsFinite, OneMore
    <3> QED BY <1>1, <3>1, <3>2, WatchersAtWork
  <2>6. FF = F \/ (FF <= F + 1 /\ WW = W - 1)
    BY <1>1, <2>4, FollowUpsGrow
  <2> HIDE DEF F, W, FF, WW
  <2>7. FF + WW + TurnsLeft(m)' <= 2
    BY <1>3, <2>1, <2>2, <2>3, <2>5, <2>6
  <2> QED BY <2>7 DEF FF, WW
<1> QED BY <1>4, <1>5

\* Each follow-up is the end of a watcher of its own, while the process lives.
LEMMA FollowUpsCountedNext ==
  ASSUME TypeOK, PumpHasMail, RowsInUse, FollowUpsAnswer, FollowUpsCounted, [Next]_vars
  PROVE  FollowUpsCounted'
<1> SUFFICES ASSUME restarts' = 0, NEW m \in Used'
             PROVE  Cardinality(FollowUps(m)') <= Cardinality(Finished(m)')
  BY DEF FollowUpsCounted
<1>1. m \in Mails
  BY DEF Used
<1>2. TypeOK'
  BY TypeNext
<1>3. /\ IsFiniteSet(FollowUps(m)) /\ Cardinality(FollowUps(m)) \in Nat
      /\ IsFiniteSet(Finished(m)) /\ Cardinality(Finished(m)) \in Nat
      /\ IsFiniteSet(FollowUps(m)') /\ Cardinality(FollowUps(m)') \in Nat
      /\ IsFiniteSet(Finished(m)') /\ Cardinality(Finished(m)') \in Nat
  BY <1>1, <1>2, CountsFinite, CountsFinitePrimed
<1>4. CASE m \notin Used
  <2>1. FollowUps(m)' = {}
    BY <1>1, <1>4, FollowUpsFresh
  <2>2. Cardinality(FollowUps(m)') = 0
    BY <2>1, FS_EmptySet
  <2> QED BY <1>3, <2>2
<1>5. CASE m \in Used
  <2>1. Cardinality(FollowUps(m)) <= Cardinality(Finished(m))
    <3>1. restarts = 0
      BY RestartsGrow
    <3> QED BY <1>5, <3>1 DEF FollowUpsCounted
  <2>2. CASE FollowUps(m)' = FollowUps(m)
    <3>1. Finished(m) \subseteq Finished(m)'
      BY <1>1, WatchersAtWork
    <3>2. Cardinality(Finished(m)) <= Cardinality(Finished(m)')
      BY <1>3, <3>1, FS_Subset
    <3> QED BY <1>3, <2>1, <2>2, <3>2
  <2>3. ASSUME NEW w \in DOMAIN watch[m], PushInsert(m, w),
               FollowUps(m)' \subseteq FollowUps(m) \cup {NextId}
        PROVE  Cardinality(FollowUps(m)') <= Cardinality(Finished(m)')
    <3>1. w \notin Finished(m) /\ Finished(m)' = Finished(m) \cup {w}
      BY <1>1, <2>3, PushEndsWatcher
    <3>2. Cardinality(Finished(m)') = Cardinality(Finished(m)) + 1
      BY <1>3, <3>1, FS_AddElement
    <3>3. Cardinality(FollowUps(m)') <= Cardinality(FollowUps(m)) + 1
      BY <1>3, <2>3, OneMore
    <3> QED BY <1>3, <2>1, <3>2, <3>3
  <2> QED BY <1>1, <2>2, <2>3, FollowUpsGrow
<1> QED BY <1>4, <1>5

-----------------------------------------------------------------------------
(* Delivered questions *)

Dispatched == {"run", "requeue", "reject", "dropped"}

\* A new status is the status of that row alone.
LEMMA StatusSet ==
  ASSUME TypeOK, NEW k \in Mails, NEW st, SetStatus(k, st), NEW m \in Mails
  PROVE  mail'[m].status = IF m = k THEN st ELSE mail[m].status
BY DEF TypeOK, SetStatus, MailRow

\* A row becomes delivered only by who goes on to start its turn.
LEMMA DeliveryBegins ==
  ASSUME TypeOK, PumpHasMail, PumpsOwnMail, [Next]_vars, NEW m \in Mails,
         mail[m].status # "delivered", mail'[m].status = "delivered"
  PROVE  disp'[m] = "run" \/ InHand(m, {"run"})'
<1>0. ASSUME NEW k \in Mails, NEW st \in Statuses, SetStatus(k, st)
      PROVE  m = k /\ st = "delivered"
  BY <1>0, StatusSet
<1> USE DEF TypeOK
<1>1. mail[m] \in MailRow
  OBVIOUS
<1>2. ASSUME NEW call \in Calls, SendGuards(call) \/ SendInsert(call) PROVE FALSE
  <2>1. CASE SendInsert(call)
    <3>1. NextId \in Mails
      BY <2>1, NextIdFree DEF SendInsert
    <3> QED BY <1>1, <2>1, <3>1 DEF SendInsert, InsertMail
  <2> QED BY <1>2, <2>1 DEF SendGuards
<1>3. ASSUME NEW k \in Mails, DispatchStep(k) PROVE disp'[m] = "run"
  <2>1. CASE MarkDelivered(k)
    <3>1. m = k
      BY <1>0, <2>1 DEF MarkDelivered, Statuses
    <3> QED BY <2>1, <3>1 DEF MarkDelivered
  <2>2. CASE Requeue(k) \/ Reject(k)
    BY <1>0, <2>2 DEF Requeue, Reject, Statuses
  <2> QED BY <1>3, <2>1, <2>2
      DEF DispatchStep, ParkWaiter, TestBusy, CountBacklog, KickPump, RunTurnOk,
          RunTurnBusy, RunTurnFails, DropWaiter, TakeReply, TimeoutFires, TimeoutReturns
<1>4. ASSUME NEW t \in Sessions, PumpStep(t) PROVE InHand(m, {"run"})'
  <2>1. CASE PumpMarkDelivered(t)
    <3>1. pump[t].mail = m
      BY <1>1, <2>1 DEF PumpMarkDelivered, SetStatus
    <3>2. mail[m].to = t /\ mail'[m].to = t
      BY <1>1, <2>1, <3>1 DEF PumpMarkDelivered, PumpsOwnMail, SetStatus, MailRow
    <3>3. pump'[t].st = "run" /\ pump'[t].mail = m
      BY <2>1, <3>1 DEF PumpMarkDelivered, Pump
    <3> QED BY <3>2, <3>3 DEF InHand
  <2>2. CASE ~ PumpMarkDelivered(t)
    <3>1. CASE PumpExpire(t) \/ PumpRunBusy(t) \/ PumpRunFails(t)
      <4>1. pump[t].mail \in Mails
        BY <3>1 DEF PumpHasMail, Used, PumpExpire, PumpRunBusy, PumpRunFails
      <4> QED BY <1>0, <3>1, <4>1 DEF PumpExpire, PumpRunBusy, PumpRunFails, Statuses
    <3> QED BY <1>4, <2>2, <3>1
        DEF PumpStep, PumpPick, PumpTestBusy, PumpRunOk, PumpResolve, PumpTurnOver, PumpExit
  <2> QED BY <2>1, <2>2
<1>5. ASSUME NEW k \in Mails, NEW w \in DOMAIN watch[k], WatchStep(k, w) PROVE FALSE
  <2>1. CASE PushInsert(k, w)
    BY <1>1, <2>1, NextIdFree DEF PushInsert, InsertMail
  <2>2. CASE WatchAnswered(k, w)
    BY <1>1, <2>2 DEF WatchAnswered, MailRow
  <2> QED BY <1>1, <1>5, <2>1, <2>2
      DEF WatchStep, WatchRearm, WatchExpire, WatchIdle, WatchNoAnswer, WatchResolve,
          PushGuards, PushInsertFails, SetStatus, MailRow
<1>6. ASSUME NEW s \in Sessions, SessionStep(s) PROVE FALSE
  BY <1>6 DEF SessionStep, UserSends, TurnEnds, SaveReply
<1>7. ASSUME Restart \/ UNCHANGED vars PROVE FALSE
  BY <1>7 DEF Restart, vars
<1> QED BY <1>2, <1>3, <1>4, <1>5, <1>6, <1>7 DEF Next

\* A sender that has set its row delivered starts the turn, or settles the
\* row or puts it back.
LEMMA SenderAttends ==
  ASSUME TypeOK, RowsInUse, FollowUpsAnswer, [Next]_vars, restarts' = 0, NEW m \in Used,
         mail[m].mode = "question", mail'[m].status = "delivered", disp[m] \in Dispatched
  PROVE  disp'[m] \in Dispatched \/ RunTurnOk(m)
<1> USE DEF TypeOK
<1>1. m \in Mails /\ mail[m] \in MailRow /\ mail[m].re = 0
  BY DEF Used, FollowUpsAnswer
<1>2. ASSUME disp'[m] = disp[m] PROVE disp'[m] \in Dispatched
  BY <1>2
<1>3. ASSUME NEW call \in Calls, SendGuards(call) \/ SendInsert(call)
      PROVE  disp'[m] = disp[m]
  BY <1>1, <1>3, NextIdFree DEF SendGuards, SendInsert
<1>4. ASSUME NEW k \in Mails, DispatchStep(k) PROVE disp'[m] \in Dispatched \/ RunTurnOk(m)
  <2>1. CASE m # k
    <3>1. disp'[m] = disp[m]
      BY <1>1, <1>4, <2>1
         DEF DispatchStep, ParkWaiter, TestBusy, CountBacklog, KickPump, MarkDelivered,
             RunTurnOk, RunTurnBusy, RunTurnFails, Requeue, DropWaiter, Reject, TakeReply,
             TimeoutFires, TimeoutReturns, Tell
    <3> QED BY <1>2, <3>1
  <2>2. CASE m = k
    <3>1. CASE Requeue(m) \/ Reject(m)
      BY <1>1, <3>1, StatusSet DEF Requeue, Reject
    <3>2. CASE RunTurnBusy(m) \/ RunTurnFails(m) \/ DropWaiter(m)
      BY <1>1, <3>2 DEF RunTurnBusy, RunTurnFails, DropWaiter, Tell, Dispatched
    <3>3. CASE RunTurnOk(m)
      BY <3>3
    <3> QED BY <1>4, <2>2, <3>1, <3>2, <3>3
        DEF DispatchStep, ParkWaiter, TestBusy, CountBacklog, KickPump, MarkDelivered,
            TakeReply, TimeoutFires, TimeoutReturns, Dispatched
  <2> QED BY <2>1, <2>2
<1>5. ASSUME NEW t \in Sessions, PumpStep(t) PROVE disp'[m] = disp[m]
  BY <1>5 DEF PumpStep, PumpPick, PumpExpire, PumpTestBusy, PumpMarkDelivered, PumpRunOk,
              PumpRunBusy, PumpRunFails, PumpResolve, PumpTurnOver, PumpExit
<1>6. ASSUME NEW k \in Mails, NEW w \in DOMAIN watch[k], WatchStep(k, w)
      PROVE  disp'[m] = disp[m]
  BY <1>1, <1>6, NextIdFree
     DEF WatchStep, WatchRearm, WatchExpire, WatchIdle, WatchAnswered, WatchNoAnswer,
         WatchResolve, PushGuards, PushInsert, PushInsertFails
<1>7. ASSUME NEW s \in Sessions, SessionStep(s) PROVE disp'[m] = disp[m]
  BY <1>7 DEF SessionStep, UserSends, TurnEnds, SaveReply
<1>8. ~ Restart
  BY MeshAssumption DEF Restart
<1>9. UNCHANGED vars => disp'[m] = disp[m]
  BY DEF vars
<1> QED BY <1>2, <1>3, <1>4, <1>5, <1>6, <1>7, <1>8, <1>9 DEF Next

\* The same of a pump.
LEMMA PumpAttends ==
  ASSUME TypeOK, PumpHasMail, [Next]_vars, restarts' = 0, NEW m \in Used,
         mail'[m].to = mail[m].to,
         mail'[m].status = "delivered", InHand(m, {"run"})
  PROVE  InHand(m, {"run"})' \/ \E t \in Sessions : PumpRunOk(t) /\ pump[t].mail = m
<1> USE DEF TypeOK
<1> DEFINE t == mail[m].to
<1>1. m \in Mails /\ mail[m] \in MailRow /\ t \in Sessions
  BY DEF Used, MailRow
<1>2. pump[t].mail = m /\ pump[t].st = "run"
  BY DEF InHand
<1>3. ASSUME pump'[t] = pump[t] PROVE InHand(m, {"run"})'
  BY <1>2, <1>3 DEF InHand
<1> HIDE DEF t
<1>4. ASSUME NEW k \in Sessions, PumpKick(k) PROVE pump'[t] = pump[t]
  BY <1>1, <1>2, <1>4 DEF PumpKick
<1>5. ASSUME NEW k \in Sessions, PumpStep(k), ~ PumpRunOk(t) PROVE pump'[t] = pump[t]
  <2>1. CASE k = t
    <3>1. ~ PumpRunBusy(t) /\ ~ PumpRunFails(t)
      BY <1>1, <1>2 DEF PumpRunBusy, PumpRunFails, SetStatus, MailRow
    <3> QED BY <1>2, <1>5, <2>1, <3>1
        DEF PumpStep, PumpPick, PumpExpire, PumpTestBusy, PumpMarkDelivered, PumpResolve,
            PumpTurnOver, PumpExit
  <2>2. CASE k # t
    BY <1>1, <1>5, <2>2
       DEF PumpStep, PumpPick, PumpExpire, PumpTestBusy, PumpMarkDelivered, PumpRunOk,
           PumpRunBusy, PumpRunFails, PumpResolve, PumpTurnOver, PumpExit, PumpGoto
  <2> QED BY <2>1, <2>2
<1>6. ASSUME NEW call \in Calls, SendGuards(call) \/ SendInsert(call) PROVE UNCHANGED pump
  BY <1>6 DEF SendGuards, SendInsert
<1>7. ASSUME NEW k \in Mails, DispatchStep(k)
      PROVE  \E s \in Sessions : PumpKick(s) \/ UNCHANGED pump
  <2>1. mail[k].to \in Sessions
    BY DEF MailRow
  <2> QED BY <1>7, <2>1
      DEF DispatchStep, ParkWaiter, TestBusy, CountBacklog, KickPump, MarkDelivered,
          RunTurnOk, RunTurnBusy, RunTurnFails, Requeue, DropWaiter, Reject, TakeReply,
          TimeoutFires, TimeoutReturns
<1>8. ASSUME NEW k \in Mails, NEW w \in DOMAIN watch[k], WatchStep(k, w)
      PROVE  UNCHANGED pump
  BY <1>8 DEF WatchStep, WatchRearm, WatchExpire, WatchIdle, WatchAnswered, WatchNoAnswer,
              WatchResolve, PushGuards, PushInsert, PushInsertFails
<1>9. ASSUME NEW s \in Sessions, SessionStep(s) PROVE UNCHANGED pump
  BY <1>9 DEF SessionStep, UserSends, TurnEnds, SaveReply
<1>10. ~ Restart
  BY MeshAssumption DEF Restart
<1>11. UNCHANGED vars => UNCHANGED pump
  BY DEF vars
<1> QED BY <1>1, <1>2, <1>3, <1>4, <1>5, <1>6, <1>7, <1>8, <1>9, <1>10, <1>11 DEF Next

\* A watcher that has not settled its question stays so, or settles it.
Awaits(m) == \E w \in DOMAIN watch[m] : watch[m][w].st \in {"poll", "collect"}

LEMMA WatcherAttends ==
  ASSUME TypeOK, PumpHasMail, [Next]_vars, restarts' = 0, NEW m \in Used,
         mail'[m].status = "delivered", Awaits(m) \/ TurnStartedFor(m),
         TurnStartedFor(m) => WatcherArmed(m)
  PROVE  Awaits(m)'
<1>1. m \in Mails /\ watch[m] \in Seq(Watcher) /\ mail[m] \in MailRow
  BY DEF Used, TypeOK
<1>2. CASE WatchersKept(m)
  <2>1. ~ WatcherArmed(m)
    <3>1. ASSUME NEW x \in Watcher, watch'[m] = Append(watch[m], x) PROVE FALSE
      <4>1. Len(watch'[m]) = Len(watch[m]) + 1 /\ Len(watch[m]) \in Nat
        BY <1>1, <3>1, LenProperties
      <4> QED BY <1>2, <4>1 DEF WatchersKept
    <3> QED BY <3>1 DEF WatcherArmed
  <2> QED BY <1>2, <2>1 DEF WatchersKept, Awaits
<1>3. CASE WatcherArmed(m)
  <2>1. PICK x \in Watcher : x.st = "poll" /\ watch'[m] = Append(watch[m], x)
    BY <1>3 DEF WatcherArmed
  <2>2. Len(watch[m]) + 1 \in DOMAIN watch'[m] /\ watch'[m][Len(watch[m]) + 1] = x
    BY <1>1, <2>1, LenProperties
  <2> QED BY <2>1, <2>2 DEF Awaits
<1>4. CASE WatcherMoves(m) /\ ~ WatcherArmed(m)
  <2>1. PICK v \in DOMAIN watch[m] : watch[m][v].st \in {"poll", "collect"}
    BY <1>4 DEF Awaits
  <2>2. PICK w \in DOMAIN watch[m], x \in Watcher :
          WatchStep(m, w) /\ watch'[m] = [watch[m] EXCEPT ![w] = x]
    BY <1>4 DEF WatcherMoves
  <2>3. DOMAIN watch'[m] = DOMAIN watch[m]
    BY <2>2
  <2>4. CASE v # w
    BY <2>1, <2>2, <2>3, <2>4 DEF Awaits
  <2>5. CASE v = w
    <3>1. ~ WatchExpire(m, w) /\ ~ WatchAnswered(m, w) /\ ~ WatchNoAnswer(m, w)
      BY <1>1 DEF WatchExpire, WatchAnswered, WatchNoAnswer, SetStatus, TypeOK, MailRow
    <3>2. CASE WatchRearm(m, w)
      BY <1>1, <2>1, <2>3, <2>5, <3>2 DEF WatchRearm, TypeOK, Awaits, Watcher
    <3>3. CASE WatchIdle(m, w)
      BY <1>1, <2>1, <2>3, <2>5, <3>3 DEF WatchIdle, SetWatch, TypeOK, Awaits, Watcher
    <3> QED BY <2>1, <2>2, <2>5, <3>1, <3>2, <3>3
        DEF WatchStep, WatchResolve, PushGuards, PushInsert, PushInsertFails
  <2> QED BY <2>4, <2>5
<1>5. ~ WatchersLost(m)
  BY DEF WatchersLost
<1> QED BY <1>1, <1>2, <1>3, <1>4, <1>5, WatchersMove

\* A turn that is started for a question is watched.
LEMMA StartedIsWatched ==
  ASSUME TypeOK, PumpHasMail, [Next]_vars, NEW m \in Mails, mail[m].mode = "question",
         TurnStartedFor(m)
  PROVE  WatcherArmed(m)
<1>1. PICK wm \in Nat : NewWatcher(m, wm)
  <2>1. CASE RunTurnOk(m)
    BY <2>1 DEF RunTurnOk, TypeOK
  <2>2. ASSUME NEW t \in Sessions, PumpRunOk(t), pump[t].mail = m
        PROVE  NewWatcher(m, pump[t].mark) /\ pump[t].mark \in Nat
    BY <2>2 DEF PumpRunOk, TypeOK, Pump
  <2> QED BY <2>1, <2>2 DEF TurnStartedFor
<1> DEFINE x == [st |-> "poll", mark |-> wm, rearmed |-> FALSE, answer |-> "none"]
<1>2. x \in Watcher /\ x.st = "poll"
  BY DEF Watcher, WatchStates, Answers
<1>3. watch'[m] = Append(watch[m], x)
  BY <1>1 DEF NewWatcher, TypeOK
<1> HIDE DEF x
<1> QED BY <1>2, <1>3 DEF WatcherArmed

\* A delivered question stays in somebody's hands until it is settled.
LEMMA DeliveredIsAttendedNext ==
  ASSUME TypeOK, PumpHasMail, RowsInUse, FollowUpsAnswer, PumpsOwnMail,
         DeliveredIsAttended, TypeOK', [Next]_vars
  PROVE  DeliveredIsAttended'
<1> SUFFICES ASSUME restarts' = 0, NEW m \in Mails,
                    mail'[m].mode = "question", mail'[m].status = "delivered"
             PROVE  Attended(m)'
  BY DEF DeliveredIsAttended
<1>1. Attended(m)' <=> disp'[m] \in Dispatched \/ InHand(m, {"run"})' \/ Awaits(m)'
  BY DEF Attended, Dispatched, Awaits
<1>2. CASE mail[m].status = "delivered"
  <2>1. restarts = 0 /\ m \in Used
    BY <1>2, RestartsGrow DEF Used
  <2>2. mail[m].mode = "question" /\ mail'[m].to = mail[m].to
    BY <2>1, RowsStay DEF RowsKept
  <2>3. TurnStartedFor(m) => WatcherArmed(m)
    BY <2>2, StartedIsWatched
  <2>4. TurnStartedFor(m) \/ Awaits(m) => Awaits(m)'
    BY <2>1, <2>3, WatcherAttends
  <2>5. disp[m] \in Dispatched \/ InHand(m, {"run"}) \/ Awaits(m)
    BY <1>2, <2>1, <2>2 DEF DeliveredIsAttended, Attended, Dispatched, Awaits
  <2>6. CASE disp[m] \in Dispatched
    BY <1>1, <2>1, <2>2, <2>4, <2>6, SenderAttends DEF TurnStartedFor
  <2>7. CASE InHand(m, {"run"})
    BY <1>1, <2>1, <2>2, <2>4, <2>7, PumpAttends DEF TurnStartedFor
  <2> QED BY <1>1, <2>4, <2>5, <2>6, <2>7
<1>3. CASE mail[m].status # "delivered"
  BY <1>1, <1>3, DeliveryBegins DEF Dispatched
<1> QED BY <1>2, <1>3

-----------------------------------------------------------------------------
(* The theorems *)

\* The invariant holds of the empty mesh.
LEMMA MeshInvInit == Init => MeshInv
<1> SUFFICES ASSUME Init PROVE MeshInv
  OBVIOUS
<1>1. TypeOK
  BY TypeInit
<1>2. Used = {}
  BY DEF Init, Used, NoRow
<1>3. PumpHasMail /\ Parked /\ OnlyQuestionsWait /\ RowsInUse /\ AskerWatched
  BY DEF Init, PumpHasMail, PumpOff, Parked, OnlyQuestionsWait, RowsInUse, AskerWatched,
         Dispatching, Waiting
<1>4. FollowUpsAnswer /\ NoPingPong /\ FollowUpsCounted /\ FollowUpsBounded /\ FollowUpsUntold
  BY <1>2 DEF FollowUpsAnswer, NoPingPong, FollowUpsCounted, FollowUpsBounded, FollowUpsUntold
<1>5. PumpsOwnMail /\ AnswersStored /\ ReplyIsStored /\ DeliveredIsAttended
  BY DEF Init, NoRow, PumpsOwnMail, PumpOff, AnswersStored, ReplyIsStored, DeliveredIsAttended
<1>6. TurnsBounded
  <2> SUFFICES ASSUME NEW m \in Mails PROVE Len(watch[m]) + TurnsLeft(m) <= 2
    BY DEF TurnsBounded
  <2>1. watch[m] = <<>> /\ disp[m] = "none" /\ mail[m].status = "none"
    BY DEF Init, NoRow
  <2>2. ~ InHand(m, {"run"}) /\ ~ InHand(m, {"have", "deliver"})
    <3>1. mail[m].to \in Sessions
      BY <1>1 DEF TypeOK, MailRow
    <3> QED BY <3>1 DEF Init, InHand, PumpOff
  <2>3. TurnsLeft(m) = 0
    BY <2>1, <2>2 DEF TurnsLeft, SenderTurns, PumpTurns
  <2> QED BY <2>1, <2>3
<1> QED BY <1>1, <1>3, <1>4, <1>5, <1>6 DEF MeshInv

\* Every step preserves the invariant, each part from the parts before it.
LEMMA MeshInvNext == MeshInv /\ [Next]_vars => MeshInv'
<1> SUFFICES ASSUME MeshInv, [Next]_vars PROVE MeshInv'
  OBVIOUS
<1> USE DEF MeshInv
<1>1. TypeOK' /\ PumpHasMail' /\ RowsInUse' /\ FollowUpsAnswer' /\ NoPingPong'
  BY TypeNext, PumpHasMailNext, RowsInUseNext, FollowUpsNext
<1>2. Parked' /\ OnlyQuestionsWait' /\ AskerWatched'
  BY ParkedNext, OnlyQuestionsWaitNext, AskerWatchedNext
<1>3. PumpsOwnMail' /\ AnswersStored' /\ ReplyIsStored'
  BY PumpsOwnMailNext, AnswersStoredNext, ReplyIsStoredNext
<1>4. TurnsBounded' /\ FollowUpsCounted' /\ FollowUpsBounded' /\ FollowUpsUntold'
  BY TurnsBoundedNext, FollowUpsCountedNext, FollowUpsBoundedNext, FollowUpsUntoldNext
<1>5. DeliveredIsAttended'
  BY <1>1, DeliveredIsAttendedNext
<1> QED BY <1>1, <1>2, <1>3, <1>4, <1>5

\* The inductive invariant of the mesh holds throughout.
THEOREM MeshInvariant == Spec => []MeshInv
  BY MeshInvInit, MeshInvNext, PTL DEF Spec

\* Every variable keeps its type.
THEOREM TypeCorrect == Spec => []TypeOK
<1>1. MeshInv => TypeOK
  BY DEF MeshInv
<1> QED BY <1>1, MeshInvariant, PTL

\* A call parked without a reply always has its sender in answer_waiters and a
\* watcher that has not yet been there (mesh_message_session, watch_answer,
\* pump_kick).
THEOREM ParkedAskerIsWatched == Spec => []AskerWatched
<1>1. MeshInv => AskerWatched
  BY DEF MeshInv
<1> QED BY <1>1, MeshInvariant, PTL

\* Automatic mail never answers automatic mail, and never asks
\* (push_follow_up_answer, deliver_mail).
THEOREM FollowUpsDoNotBounce == Spec => []NoPingPong
<1>1. MeshInv => NoPingPong
  BY DEF MeshInv
<1> QED BY <1>1, MeshInvariant, PTL

\* A call that said it has a reply has a row of a transcript stored with its
\* mail, whatever watcher or racing redelivery told it, and nothing takes the
\* answer back (watch_answer, answer_mail, resolve_waiter).
THEOREM RepliesAreStored == Spec => []ReplyIsStored
<1>1. MeshInv => ReplyIsStored
  BY DEF MeshInv
<1> QED BY <1>1, MeshInvariant, PTL

\* While the process lives no question is left delivered with nobody to settle
\* it, whoever of sender and pump won its row (deliver_mail, pump_kick,
\* watch_answer).
THEOREM DeliveredIsInHand == Spec => []DeliveredIsAttended
<1>1. MeshInv => DeliveredIsAttended
  BY DEF MeshInv
<1> QED BY <1>1, MeshInvariant, PTL

\* However the requeue of a refused turn and the pump race, a question is put
\* to its target at most twice (mesh_message_session, pump_kick).
THEOREM TwoTurnsAtMost == Spec => []AtMostTwoTurns
<1>1. ASSUME MeshInv PROVE AtMostTwoTurns
  <2> SUFFICES ASSUME NEW m \in Mails PROVE Len(watch[m]) <= 2
    BY DEF AtMostTwoTurns
  <2>1. TypeOK /\ TurnsBounded
    BY <1>1 DEF MeshInv
  <2>2. TurnsLeft(m) \in 0..3
    BY <2>1, TurnsType
  <2>3. Len(watch[m]) \in Nat
    BY <2>1, LenProperties DEF TypeOK
  <2> QED BY <2>1, <2>2, <2>3 DEF TurnsBounded
<1> QED BY <1>1, MeshInvariant, PTL

\* While the process lives every follow-up of a question is the end of a
\* watcher of its own (watch_answer, push_follow_up_answer).
THEOREM FollowUpsAreCounted == Spec => []FollowUpsCounted
<1>1. MeshInv => FollowUpsCounted
  BY DEF MeshInv
<1> QED BY <1>1, MeshInvariant, PTL

\* A question brings back two follow-ups at most, over any number of exits of
\* the process: no restart puts a question to its target again.
THEOREM TwoFollowUpsAtMost ==
  Spec => [](\A m \in Used : Cardinality(FollowUps(m)) <= 2)
<1>1. ASSUME MeshInv PROVE \A m \in Used : Cardinality(FollowUps(m)) <= 2
  <2> SUFFICES ASSUME NEW m \in Used PROVE Cardinality(FollowUps(m)) <= 2
    OBVIOUS
  <2>1. m \in Mails /\ TypeOK
    BY <1>1 DEF MeshInv, Used
  <2>2. Cardinality(FollowUps(m)) + Cardinality(AtWork(m)) + TurnsLeft(m) <= 2
    BY <1>1 DEF MeshInv, FollowUpsBounded
  <2>3. Cardinality(FollowUps(m)) \in Nat /\ Cardinality(AtWork(m)) \in Nat
    BY <2>1, CountsFinite
  <2>4. TurnsLeft(m) \in 0..3
    BY <2>1, TurnsType
  <2> QED BY <2>2, <2>3, <2>4
<1> QED BY <1>1, MeshInvariant, PTL

-----------------------------------------------------------------------------
(* The mesh is an exchange of mail as promised *)

\* What the exchange sees of the rows.
RowsSame ==
  /\ Used' = Used
  /\ \A k \in Mails : /\ mail'[k].mode = mail[k].mode /\ mail'[k].re = mail[k].re
                      /\ mail'[k].answer = mail[k].answer

LEMMA RowsSameSeen ==
  ASSUME RowsSame
  PROVE  UNCHANGED <<Sent, Back, Stored>>
<1>1. Used \subseteq Mails
  BY DEF Used
<1>2. \A m \in Mails : FollowUps(m)' = FollowUps(m)
  BY <1>1 DEF RowsSame, FollowUps
<1> QED BY <1>1, <1>2 DEF RowsSame, Sent, Back, Stored

\* The exchange does not see a mail's status.
LEMMA StatusUnseen ==
  ASSUME TypeOK, NEW m \in Used, NEW st \in Statuses \ {"none"}, SetStatus(m, st)
  PROVE  RowsSame
<1>1. m \in Mails
  BY DEF Used
<1> QED BY <1>1 DEF SetStatus, RowsSame, Used, TypeOK, MailRow

LEMMA MailUnseen ==
  ASSUME UNCHANGED mail
  PROVE  UNCHANGED <<Sent, Back, Stored>>
<1>1. RowsSame
  BY DEF RowsSame, Used
<1> QED BY <1>1, RowsSameSeen

\* Watchers are seen by their number.
LEMMA WatchUnseen ==
  ASSUME UNCHANGED watch
  PROVE  Watched' = Watched
<1>1. \A m \in Mails : AtWork(m)' = AtWork(m)
  BY DEF AtWork
<1> QED BY <1>1 DEF Watched

\* A started turn of a question is seen as one watcher more.
LEMMA ArmSeen ==
  ASSUME TypeOK, NEW m \in Mails, NEW wm, NewWatcher(m, wm), mail[m].mode = "question"
  PROVE  Watched' = [Watched EXCEPT ![m] = @ + 1]
<1> DEFINE x == [st |-> "poll", mark |-> wm, rearmed |-> FALSE, answer |-> "none"]
           n == Len(watch[m]) + 1
<1>1. watch' = [watch EXCEPT ![m] = Append(watch[m], x)]
  BY DEF NewWatcher
<1>2. watch'[m] = Append(watch[m], x) /\ \A k \in Mails \ {m} : watch'[k] = watch[k]
  BY <1>1 DEF TypeOK
<1>3. /\ watch[m] \in Seq(Watcher) /\ Len(watch[m]) \in Nat
      /\ DOMAIN watch[m] = 1..Len(watch[m])
  BY LenProperties DEF TypeOK
<1>4. x.st # "done"
  OBVIOUS
<1> HIDE DEF x
<1>5. /\ DOMAIN watch'[m] = 1..n
      /\ watch'[m][n] = x
      /\ \A w \in 1..Len(watch[m]) : watch'[m][w] = watch[m][w]
  BY <1>2, <1>3
<1>6. AtWork(m)' = AtWork(m) \cup {n} /\ n \notin AtWork(m)
  BY <1>3, <1>4, <1>5 DEF AtWork
<1>7. Cardinality(AtWork(m)') = Cardinality(AtWork(m)) + 1
  BY <1>6, CountsFinite, FS_AddElement
<1>8. \A k \in Mails \ {m} : AtWork(k)' = AtWork(k)
  BY <1>2 DEF AtWork
<1> QED BY <1>7, <1>8 DEF Watched

\* A watcher's step is seen when the watcher is done with it.
LEMMA WatchSeen ==
  ASSUME TypeOK, NEW m \in Mails, NEW w \in DOMAIN watch[m], WatchStep(m, w)
  PROVE  /\ Watched[m] \in Nat /\ Watched[m] > 0
         /\ \/ Watched' = Watched /\ ~ PushInsert(m, w)
            \/ Watched' = [Watched EXCEPT ![m] = @ - 1]
<1>1. PICK x \in Watcher : /\ watch' = [watch EXCEPT ![m] = [watch[m] EXCEPT ![w] = x]]
                           /\ PushInsert(m, w) => x.st = "done"
  BY OneWatcherMoves
<1>2. w \in AtWork(m)
  BY OneWatcherMoves DEF AtWork
<1>3. /\ watch'[m] = [watch[m] EXCEPT ![w] = x]
      /\ \A k \in Mails \ {m} : watch'[k] = watch[k]
  BY <1>1 DEF TypeOK
<1>4. \A k \in Mails \ {m} : AtWork(k)' = AtWork(k)
  BY <1>3 DEF AtWork
<1>5. IsFiniteSet(AtWork(m)) /\ Cardinality(AtWork(m)) \in Nat
  BY CountsFinite
<1>6. Cardinality(AtWork(m)) # 0
  BY <1>2, <1>5, FS_EmptySet
<1>7. CASE x.st = "done"
  <2>1. AtWork(m)' = AtWork(m) \ {w}
    BY <1>3, <1>7 DEF AtWork
  <2>2. Cardinality(AtWork(m)') = Cardinality(AtWork(m)) - 1
    BY <1>2, <1>5, <2>1, FS_RemoveElement
  <2>3. Watched' = [Watched EXCEPT ![m] = @ - 1]
    BY <1>4, <2>2 DEF Watched
  <2> QED BY <1>5, <1>6, <2>3 DEF Watched
<1>8. CASE x.st # "done"
  <2>1. AtWork(m)' = AtWork(m)
    BY <1>2, <1>3, <1>8 DEF AtWork
  <2>2. Watched' = Watched
    BY <1>4, <2>1 DEF Watched
  <2> QED BY <1>1, <1>5, <1>6, <1>8, <2>2 DEF Watched
<1> QED BY <1>7, <1>8

\* Of a dispatch the exchange sees what it says, and of one under way nothing.
LEMMA SaysSeen ==
  ASSUME TypeOK, NEW m \in Mails, disp[m] \in Dispatching \cup Waiting, NEW x,
         disp' = [disp EXCEPT ![m] = x]
  PROVE  /\ Told[m] = "nothing"
         /\ x \in Said \ {"done", "dead"} => Told' = [Told EXCEPT ![m] = x]
         /\ x \notin Said \ {"done", "dead"} => Told' = Told
<1>1. disp[m] \notin Said
  BY DEF Dispatching, Waiting, Said
<1>2. disp'[m] = x /\ \A k \in Mails \ {m} : disp'[k] = disp[k]
  BY DEF TypeOK
<1>3. Told[m] = "nothing"
  BY <1>1 DEF Told
<1>4. \A k \in Mails \ {m} : Told'[k] = Told[k]
  BY <1>2 DEF Told
<1>5. Told'[m] = IF x \in Said \ {"done", "dead"} THEN x ELSE "nothing"
  BY <1>2 DEF Told
<1>6. /\ Told = [k \in Mails |-> Told[k]]
      /\ Told' = [k \in Mails |-> Told'[k]]
  BY DEF Told
<1> QED BY <1>3, <1>4, <1>5, <1>6

LEMMA DispUnseen ==
  ASSUME UNCHANGED disp
  PROVE  Told' = Told
BY DEF Told

-----------------------------------------------------------------------------
(* The steps of the mesh, one group at a time *)

Seen == <<Sent, Watched, Back, Stored, Told>>

\* A call that returns does so once, and for a mail of its own.
LEMMA TellStep ==
  ASSUME MeshInv, NEW m \in Mails, disp[m] \in Dispatching \cup Waiting,
         NEW reply \in Said \ {"done", "dead"}, disp' = [disp EXCEPT ![m] = reply],
         mail[m].re = 0, Exchange!Truthful(m, reply),
         UNCHANGED <<Sent, Watched, Back, Stored>>
  PROVE  Exchange!Next
<1>1. TypeOK /\ RowsInUse
  BY DEF MeshInv
<1>2. m \in Used
  BY <1>1 DEF RowsInUse, Dispatching, Waiting
<1>3. Sent[m] \in {"question", "notify"}
  BY <1>1, <1>2 DEF Sent, TypeOK, MailRow, Modes
<1>5. Told[m] = "nothing" /\ Told' = [Told EXCEPT ![m] = reply]
  BY <1>1, SaysSeen
<1>6. reply \in Exchange!Replies
  BY DEF Said, Exchange!Replies
<1>7. Exchange!Tell(m)
  BY <1>3, <1>5, <1>6 DEF Exchange!Tell
<1> QED BY <1>7 DEF Exchange!Next

\* A turn started for a question leaves room for its watcher.
LEMMA PutStep ==
  ASSUME MeshInv, [Next]_vars, NEW m \in Used, TurnStartedFor(m), NEW wm,
         NewWatcher(m, wm), UNCHANGED <<mail, Told>>
  PROVE  Exchange!Next \/ UNCHANGED Seen
<1>1. /\ TypeOK /\ PumpHasMail /\ RowsInUse /\ FollowUpsAnswer /\ PumpsOwnMail
      /\ FollowUpsBounded /\ m \in Mails
  BY DEF MeshInv, Used
<1>2. UNCHANGED <<Sent, Back, Stored>>
  BY MailUnseen
<1>3. CASE mail[m].mode = "question"
  <2>1. Watched' = [Watched EXCEPT ![m] = @ + 1]
    BY <1>1, <1>3, ArmSeen
  <2>2. TurnsLeft(m)' + 1 <= TurnsLeft(m)
    BY <1>1, TurnsLeftStep
  <2>3. TurnsLeft(m) \in 0..3 /\ TurnsLeft(m)' \in 0..3
    BY <1>1, TurnsType, TurnsTypePrimed
  <2>4. Cardinality(FollowUps(m)) + Cardinality(AtWork(m)) + TurnsLeft(m) <= 2
    BY <1>1 DEF FollowUpsBounded
  <2>5. Cardinality(FollowUps(m)) \in Nat /\ Cardinality(AtWork(m)) \in Nat
    BY <1>1, CountsFinite
  <2>6. Back[m] + Watched[m] < 2
    BY <1>1, <2>2, <2>3, <2>4, <2>5 DEF Back, Watched
  <2>7. Sent[m] = "question"
    BY <1>1, <1>3 DEF Sent, FollowUpsAnswer
  <2>8. Exchange!Put(m)
    BY <1>2, <2>1, <2>6, <2>7 DEF Exchange!Put
  <2> QED BY <1>1, <2>8 DEF Exchange!Next
<1>4. CASE mail[m].mode # "question"
  <2>1. UNCHANGED Watched
    BY <1>4, WatchUnseen DEF NewWatcher
  <2> QED BY <1>2, <2>1 DEF Seen
<1> QED BY <1>3, <1>4

\* The sending code.
LEMMA SendExchange ==
  ASSUME MeshInv, NEW call \in Calls, SendGuards(call) \/ SendInsert(call)
  PROVE  Exchange!Next \/ UNCHANGED Seen
<1>1. TypeOK /\ RowsInUse /\ FollowUpsAnswer
  BY DEF MeshInv
<1>2. CASE SendGuards(call)
  BY <1>2, MailUnseen, WatchUnseen, DispUnseen DEF SendGuards, Seen
<1>3. CASE SendInsert(call)
  <2>1. NextId \in Mails /\ NextId \notin Used /\ disp[NextId] = "none"
    BY <1>1, <1>3, NextIdFree DEF SendInsert, RowsInUse
  <2>2. call.mode \in {"question", "notify"}
    BY MeshAssumption
  <2>3. /\ mail'[NextId].mode = call.mode /\ mail'[NextId].re = 0
        /\ mail'[NextId].answer = "none" /\ mail'[NextId].status = "queued"
        /\ \A k \in Mails \ {NextId} : mail'[k] = mail[k]
    BY <1>1, <1>3, <2>1 DEF SendInsert, InsertMail, TypeOK
  <2>4. Used' = Used \cup {NextId}
    BY <2>1, <2>3 DEF Used
  <2>5. Sent[NextId] = "none" /\ Sent' = [Sent EXCEPT ![NextId] = call.mode]
    BY <2>1, <2>3, <2>4 DEF Sent
  <2>6. Back' = Back
    <3>1. ASSUME NEW m \in Mails PROVE FollowUps(m)' = FollowUps(m)
      <4>1. m # 0
        BY MeshAssumption DEF Mails
      <4>2. \A f \in Used : f \in Mails /\ f # NextId
        BY <2>1 DEF Used
      <4> QED BY <2>3, <2>4, <4>1, <4>2 DEF FollowUps
    <3> QED BY <3>1 DEF Back
  <2>7. Stored' = Stored
    <3>1. \A m \in Used : m \in Mails /\ m # NextId
      BY <2>1 DEF Used
    <3> QED BY <2>3, <2>4, <3>1 DEF Stored, Row
  <2>8. Told' = Told
    <3>1. disp'[NextId] \in {"park", "check"} /\ \A k \in Mails \ {NextId} : disp'[k] = disp[k]
      BY <1>1, <1>3, <2>1 DEF SendInsert, TypeOK
    <3> QED BY <2>1, <3>1 DEF Told, Said
  <2>9. Watched' = Watched
    BY <1>3, WatchUnseen DEF SendInsert
  <2>10. Exchange!Send(NextId)
    BY <2>2, <2>5, <2>6, <2>7, <2>8, <2>9 DEF Exchange!Send
  <2> QED BY <2>1, <2>10 DEF Exchange!Next
<1> QED BY <1>2, <1>3

\* The delivery path of a row, up to what its call returns.
LEMMA DispatchExchange ==
  ASSUME MeshInv, NEW m \in Mails, DispatchStep(m)
  PROVE  Exchange!Next \/ UNCHANGED Seen
<1>1. /\ TypeOK /\ RowsInUse /\ FollowUpsAnswer /\ OnlyQuestionsWait /\ AnswersStored
      /\ FollowUpsUntold
  BY DEF MeshInv
<1>2. disp[m] \in Dispatching \cup Waiting /\ m \in Used
  BY <1>1 DEF RowsInUse, Dispatching, Waiting, DispatchStep, ParkWaiter, TestBusy,
       CountBacklog, KickPump, MarkDelivered, RunTurnOk, RunTurnBusy, RunTurnFails, Requeue,
       DropWaiter, Reject, TakeReply, TimeoutFires, TimeoutReturns
<1>3. mail[m].re = 0 => Sent[m] = mail[m].mode /\ mail[m].mode \in {"question", "notify"}
  BY <1>1, <1>2 DEF Sent, TypeOK, MailRow, Modes
<1>4. ASSUME UNCHANGED <<Sent, Back, Stored, watch>>,
             NEW x, x \notin Said \ {"done", "dead"}, disp' = [disp EXCEPT ![m] = x]
      PROVE  UNCHANGED Seen
  BY <1>1, <1>2, <1>4, WatchUnseen, SaysSeen DEF Seen
<1>5. ASSUME UNCHANGED <<Sent, Back, Stored, watch>>,
             NEW reply \in Said \ {"done", "dead"}, disp' = [disp EXCEPT ![m] = reply],
             mail[m].re = 0, Exchange!Truthful(m, reply)
      PROVE  Exchange!Next
  BY <1>2, <1>5, WatchUnseen, TellStep
<1>6. CASE ParkWaiter(m) \/ TestBusy(m) \/ DropWaiter(m) \/ TimeoutFires(m)
  <2>1. UNCHANGED <<Sent, Back, Stored, watch>>
    BY <1>6, MailUnseen DEF ParkWaiter, TestBusy, DropWaiter, TimeoutFires
  <2>2. PICK x \in {"check", "backlog", "deliver", "dropped", "timedOut"} :
          disp' = [disp EXCEPT ![m] = x]
    BY <1>6 DEF ParkWaiter, TestBusy, DropWaiter, TimeoutFires
  <2> QED BY <1>4, <2>1, <2>2 DEF Said
<1>7. CASE CountBacklog(m) \/ RunTurnBusy(m) \/ RunTurnFails(m)
  <2>1. UNCHANGED <<Sent, Back, Stored, watch>>
    BY <1>7, MailUnseen DEF CountBacklog, RunTurnBusy, RunTurnFails
  <2>2. PICK x \in {"kick", "reject", "requeue", "done"} : disp' = [disp EXCEPT ![m] = x]
    BY <1>7 DEF CountBacklog, RunTurnBusy, RunTurnFails, Tell
  <2> QED BY <1>4, <2>1, <2>2 DEF Said
<1>8. CASE MarkDelivered(m) \/ Requeue(m)
  <2>1. RowsSame
    BY <1>1, <1>2, <1>8, StatusUnseen DEF MarkDelivered, Requeue, Statuses
  <2>2. UNCHANGED <<Sent, Back, Stored, watch>>
    BY <1>8, <2>1, RowsSameSeen DEF MarkDelivered, Requeue
  <2>3. PICK x \in {"run", "kick"} : disp' = [disp EXCEPT ![m] = x]
    BY <1>8 DEF MarkDelivered, Requeue
  <2> QED BY <1>4, <2>2, <2>3 DEF Said
<1>9. CASE KickPump(m)
  <2>1. UNCHANGED <<Sent, Back, Stored, watch>>
    BY <1>9, MailUnseen DEF KickPump
  <2>2. CASE mail[m].re = 0
    <3>1. disp' = [disp EXCEPT ![m] = "saidQueued"]
      BY <1>9, <2>2 DEF KickPump, Tell
    <3> QED BY <1>5, <2>1, <2>2, <3>1 DEF Said, Exchange!Truthful
  <2>3. CASE mail[m].re # 0
    <3>1. disp' = [disp EXCEPT ![m] = "done"]
      BY <1>9, <2>3 DEF KickPump, Tell
    <3> QED BY <1>4, <2>1, <3>1
  <2> QED BY <2>2, <2>3
<1>10. CASE RunTurnOk(m)
  <2>1. UNCHANGED <<Sent, Back, Stored, mail>>
    BY <1>10, MailUnseen DEF RunTurnOk
  <2>2. CASE mail[m].mode = "question"
    <3>1. disp' = [disp EXCEPT ![m] = "wait"]
      BY <1>10, <2>2 DEF RunTurnOk
    <3>2. Told' = Told
      <4>1. "wait" \notin Said \ {"done", "dead"}
        BY DEF Said
      <4> QED BY <1>1, <1>2, <3>1, <4>1, SaysSeen
    <3>3. TurnStartedFor(m) /\ NewWatcher(m, mark[m]) /\ [Next]_vars
      BY <1>10 DEF TurnStartedFor, RunTurnOk, DispatchStep, Next
    <3> QED BY <1>2, <2>1, <3>2, <3>3, PutStep
  <2>3. CASE mail[m].mode # "question"
    <3>1. UNCHANGED watch
      BY <1>10, <2>3 DEF RunTurnOk, NewWatcher
    <3>2. CASE mail[m].re = 0
      <4>1. disp' = [disp EXCEPT ![m] = "saidDelivered"]
        BY <1>10, <2>3, <3>2 DEF RunTurnOk, Tell
      <4>2. Exchange!Truthful(m, "saidDelivered")
        BY <1>3, <2>3, <3>2 DEF Exchange!Truthful
      <4> QED BY <1>5, <2>1, <3>1, <3>2, <4>1, <4>2 DEF Said
    <3>3. CASE mail[m].re # 0
      <4>1. disp' = [disp EXCEPT ![m] = "done"]
        BY <1>10, <2>3, <3>3 DEF RunTurnOk, Tell
      <4> QED BY <1>4, <2>1, <3>1, <4>1
    <3> QED BY <3>2, <3>3
  <2> QED BY <2>2, <2>3
<1>11. CASE Reject(m)
  <2>1. RowsSame
    BY <1>1, <1>2, <1>11, StatusUnseen DEF Reject, Statuses
  <2>2. UNCHANGED <<Sent, Back, Stored, watch>>
    BY <1>11, <2>1, RowsSameSeen DEF Reject
  <2>3. disp[m] = "dropped" /\ disp' = [disp EXCEPT ![m] = "saidRejected"]
    BY <1>11 DEF Reject
  <2>4. mail[m].re = 0
    BY <1>1, <1>2, <2>3 DEF FollowUpsUntold
  <2> QED BY <1>5, <2>2, <2>3, <2>4 DEF Said, Exchange!Truthful
<1>12. CASE TakeReply(m) \/ TimeoutReturns(m)
  <2>1. UNCHANGED <<Sent, Back, Stored, watch>>
    BY <1>12, MailUnseen DEF TakeReply, TimeoutReturns
  <2>2. Sent[m] = "question" /\ mail[m].re = 0
    BY <1>1, <1>2, <1>3, <1>12
       DEF TakeReply, TimeoutReturns, OnlyQuestionsWait, Waiting, FollowUpsAnswer
  <2>3. PICK reply \in {"saidReply", "saidNoReply", "saidOpen"} :
          /\ disp' = [disp EXCEPT ![m] = reply]
          /\ reply = "saidReply" => box[m] = "answer"
    BY <1>12 DEF TakeReply, TimeoutReturns
  <2>4. reply = "saidReply" => m \in Stored
    BY <1>1, <2>3 DEF AnswersStored, Stored
  <2>5. Exchange!Truthful(m, reply)
    BY <2>2, <2>3, <2>4 DEF Exchange!Truthful
  <2> QED BY <1>5, <2>1, <2>2, <2>3, <2>5 DEF Said
<1> QED BY <1>6, <1>7, <1>8, <1>9, <1>10, <1>11, <1>12 DEF DispatchStep

\* The drain pump: all the exchange sees of it are the turns it starts.
LEMMA PumpExchange ==
  ASSUME MeshInv, NEW t \in Sessions, PumpStep(t)
  PROVE  Exchange!Next \/ UNCHANGED Seen
<1>1. TypeOK /\ PumpHasMail
  BY DEF MeshInv
<1>2. Told' = Told
  <2>1. UNCHANGED disp
    BY DEF PumpStep, PumpPick, PumpExpire, PumpTestBusy, PumpMarkDelivered, PumpRunOk,
           PumpRunBusy, PumpRunFails, PumpResolve, PumpTurnOver, PumpExit
  <2> QED BY <2>1, DispUnseen
<1>3. CASE PumpRunOk(t)
  <2>1. pump[t].mail \in Used
    BY <1>1, <1>3 DEF PumpRunOk, PumpHasMail
  <2>2. /\ TurnStartedFor(pump[t].mail) /\ NewWatcher(pump[t].mail, pump[t].mark)
        /\ [Next]_vars /\ UNCHANGED mail
    BY <1>3 DEF TurnStartedFor, PumpRunOk, PumpStep, Next
  <2> QED BY <1>2, <2>1, <2>2, PutStep
<1>4. CASE ~ PumpRunOk(t)
  <2>1. UNCHANGED watch
    BY <1>4 DEF PumpStep, PumpPick, PumpExpire, PumpTestBusy, PumpMarkDelivered,
                PumpRunBusy, PumpRunFails, PumpResolve, PumpTurnOver, PumpExit
  <2>2. UNCHANGED <<Sent, Back, Stored>>
    <3>1. CASE PumpExpire(t) \/ PumpMarkDelivered(t) \/ PumpRunBusy(t) \/ PumpRunFails(t)
      <4>1. pump[t].mail \in Used
        BY <1>1, <3>1
           DEF PumpHasMail, PumpExpire, PumpMarkDelivered, PumpRunBusy, PumpRunFails
      <4> QED BY <1>1, <3>1, <4>1, StatusUnseen, RowsSameSeen
          DEF PumpExpire, PumpMarkDelivered, PumpRunBusy, PumpRunFails, Statuses
    <3> QED BY <1>4, <3>1, MailUnseen
        DEF PumpStep, PumpPick, PumpTestBusy, PumpResolve, PumpTurnOver, PumpExit
  <2> QED BY <1>2, <2>1, <2>2, WatchUnseen DEF Seen
<1> QED BY <1>3, <1>4

\* The watchers: an answer stored, a follow-up inserted, a watch given up.
LEMMA WatchExchange ==
  ASSUME MeshInv, NEW m \in Mails, NEW w \in DOMAIN watch[m], WatchStep(m, w)
  PROVE  Exchange!Next \/ UNCHANGED Seen
<1>1. TypeOK /\ RowsInUse /\ FollowUpsAnswer
  BY DEF MeshInv
<1>2. m \in Used /\ mail[m].mode = "question"
  <2>1. watch[m] # <<>>
    BY <1>1, LenProperties DEF TypeOK
  <2> QED BY <1>1, <2>1 DEF RowsInUse
<1>3. Sent[m] = "question"
  BY <1>1, <1>2 DEF Sent, FollowUpsAnswer
<1>4. /\ Watched[m] \in Nat /\ Watched[m] > 0
      /\ \/ Watched' = Watched /\ ~ PushInsert(m, w)
         \/ Watched' = [Watched EXCEPT ![m] = @ - 1]
  BY <1>1, WatchSeen
<1>5. ASSUME UNCHANGED <<Sent, Back, Stored, Told>>
      PROVE  Exchange!Next \/ UNCHANGED Seen
  <2>1. CASE Watched' = Watched
    BY <1>5, <2>1 DEF Seen
  <2>2. CASE Watched' = [Watched EXCEPT ![m] = @ - 1]
    <3>1. Exchange!GiveUp(m)
      BY <1>4, <1>5, <2>2 DEF Exchange!GiveUp
    <3> QED BY <3>1 DEF Exchange!Next
  <2> QED BY <1>4, <2>1, <2>2
<1>6. CASE WatchAnswered(m, w)
  <2>1. PICK a \in Row :
          /\ mail' = [mail EXCEPT ![m].status = "answered", ![m].answer = a]
          /\ Settle(m, w, "resolve", a)
    BY <1>1, <1>6, WatcherFinds DEF WatchAnswered
  <2>2. /\ mail'[m].answer = a /\ mail'[m].status = "answered"
        /\ mail'[m].mode = mail[m].mode /\ mail'[m].re = mail[m].re
        /\ \A k \in Mails \ {m} : mail'[k] = mail[k]
    BY <1>1, <2>1 DEF TypeOK, MailRow
  <2>3. Used' = Used
    BY <1>2, <2>2 DEF Used
  <2>4. Sent' = Sent
    BY <2>2, <2>3 DEF Sent
  <2>5. Back' = Back
    <3>1. \A k \in Mails : mail'[k].re = mail[k].re
      BY <2>2
    <3>2. \A k \in Mails : FollowUps(k)' = FollowUps(k)
      BY <2>3, <3>1 DEF FollowUps, Used
    <3> QED BY <3>2 DEF Back
  <2>6. Stored' = Stored \cup {m}
    <3>1. Used \subseteq Mails
      BY DEF Used
    <3> QED BY <1>2, <2>2, <2>3, <3>1 DEF Stored
  <2>7. Told' = Told
    BY <1>6, DispUnseen DEF WatchAnswered
  <2>8. Watched' = Watched
    <3> DEFINE x == [WatcherDone EXCEPT !.st = "resolve", !.answer = a]
    <3>1. watch' = [watch EXCEPT ![m] = [watch[m] EXCEPT ![w] = x]]
      BY <2>1 DEF Settle
    <3>2. x.st # "done" /\ watch[m][w].st # "done"
      BY <1>6 DEF WatcherDone, WatchAnswered
    <3> HIDE DEF x
    <3>3. \A k \in Mails : AtWork(k)' = AtWork(k)
      BY <1>1, <3>1, <3>2 DEF AtWork, TypeOK
    <3> QED BY <3>3 DEF Watched
  <2>9. Exchange!Store(m)
    BY <1>3, <1>4, <2>4, <2>5, <2>6, <2>7, <2>8 DEF Exchange!Store
  <2> QED BY <2>9 DEF Exchange!Next
<1>7. CASE PushInsert(m, w)
  <2>1. NextId \in Mails /\ NextId \notin Used /\ disp[NextId] = "none"
    BY <1>1, <1>7, NextIdFree DEF PushInsert, RowsInUse
  <2>2. /\ mail'[NextId].mode = "notify" /\ mail'[NextId].re = m
        /\ mail'[NextId].answer = "none" /\ mail'[NextId].status = "queued"
        /\ \A k \in Mails \ {NextId} : mail'[k] = mail[k]
    BY <1>1, <1>7, <2>1 DEF PushInsert, InsertMail, TypeOK
  <2>3. Used' = Used \cup {NextId} /\ \A k \in Used : k \in Mails /\ k # NextId
    BY <2>1, <2>2 DEF Used
  <2>4. Sent[NextId] = "none" /\ Sent' = [Sent EXCEPT ![NextId] = "followUp"]
    <3>1. m # 0
      BY MeshAssumption DEF Mails
    <3> QED BY <2>1, <2>2, <2>3, <3>1 DEF Sent
  <2>5. Back' = [Back EXCEPT ![m] = @ + 1]
    <3>1. FollowUps(m)' = FollowUps(m) \cup {NextId} /\ NextId \notin FollowUps(m)
      BY <2>1, <2>2, <2>3 DEF FollowUps
    <3>2. \A k \in Mails \ {m} : FollowUps(k)' = FollowUps(k)
      BY <2>2, <2>3 DEF FollowUps
    <3>3. Cardinality(FollowUps(m)') = Cardinality(FollowUps(m)) + 1
      BY <1>1, <3>1, CountsFinite, FS_AddElement
    <3> QED BY <3>2, <3>3 DEF Back
  <2>6. Stored' = Stored
    BY <2>2, <2>3 DEF Stored, Row
  <2>7. Told' = Told
    <3>1. disp'[NextId] = "check" /\ \A k \in Mails \ {NextId} : disp'[k] = disp[k]
      BY <1>1, <1>7, <2>1 DEF PushInsert, TypeOK
    <3> QED BY <2>1, <3>1 DEF Told, Said
  <2>8. Watched' = [Watched EXCEPT ![m] = @ - 1]
    BY <1>4, <1>7
  <2>9. Exchange!FollowUp(m, NextId)
    BY <1>3, <1>4, <2>4, <2>5, <2>6, <2>7, <2>8 DEF Exchange!FollowUp
  <2> QED BY <2>1, <2>9 DEF Exchange!Next
<1>8. CASE WatchExpire(m, w) \/ WatchNoAnswer(m, w)
  <2>1. RowsSame
    BY <1>1, <1>2, <1>8, StatusUnseen DEF WatchExpire, WatchNoAnswer, Statuses
  <2>2. UNCHANGED <<Sent, Back, Stored, Told>>
    BY <1>8, <2>1, RowsSameSeen, DispUnseen DEF WatchExpire, WatchNoAnswer
  <2> QED BY <1>5, <2>2
<1>9. CASE UNCHANGED <<mail, disp>>
  BY <1>5, <1>9, MailUnseen, DispUnseen
<1> QED BY <1>6, <1>7, <1>8, <1>9
    DEF WatchStep, WatchRearm, WatchIdle, WatchResolve, PushGuards, PushInsertFails

\* An exit leaves nobody to watch, and what was said, said.
LEMMA RestartExchange ==
  ASSUME MeshInv, Restart
  PROVE  Exchange!Next
<1>1. UNCHANGED <<Sent, Back, Stored>>
  BY MailUnseen DEF Restart
<1>2. Watched' = [m \in Mails |-> 0]
  <2>1. \A m \in Mails : AtWork(m)' = {}
    BY DEF Restart, AtWork
  <2> QED BY <2>1, FS_EmptySet DEF Watched
<1>3. Told' = Told
  BY DEF Restart, Told, Said, Dispatching, Waiting
<1>4. Exchange!Exit
  BY <1>1, <1>2, <1>3 DEF Exchange!Exit
<1> QED BY <1>4 DEF Exchange!Next

\* Every step of the mesh is a step of the exchange, or none.
LEMMA ExchangeNext == MeshInv /\ [Next]_vars => [Exchange!Next]_Seen
<1> SUFFICES ASSUME MeshInv, [Next]_vars PROVE Exchange!Next \/ UNCHANGED Seen
  OBVIOUS
<1>1. ASSUME NEW s \in Sessions, SessionStep(s) PROVE UNCHANGED Seen
  <2>1. UNCHANGED <<mail, watch, disp>>
    BY <1>1 DEF SessionStep, UserSends, TurnEnds, SaveReply
  <2> QED BY <2>1, MailUnseen, WatchUnseen, DispUnseen DEF Seen
<1>2. CASE UNCHANGED vars
  BY <1>2, MailUnseen, WatchUnseen, DispUnseen DEF Seen, vars
<1>3. cleared \subseteq Calls
  BY DEF MeshInv, TypeOK
<1> QED BY <1>1, <1>2, <1>3, SendExchange, DispatchExchange, PumpExchange, WatchExchange,
           RestartExchange DEF Next

\* The empty mesh is an empty exchange.
LEMMA ExchangeInit == Init => Exchange!Init
<1> SUFFICES ASSUME Init PROVE Exchange!Init
  OBVIOUS
<1>1. Used = {}
  BY DEF Init, Used, NoRow
<1>2. Sent = [m \in Mails |-> "none"] /\ Back = [m \in Mails |-> 0] /\ Stored = {}
  <2>1. \A m \in Mails : FollowUps(m) = {}
    BY <1>1 DEF FollowUps
  <2> QED BY <1>1, <2>1, FS_EmptySet DEF Sent, Back, Stored
<1>3. Watched = [m \in Mails |-> 0]
  <2>1. \A m \in Mails : AtWork(m) = {}
    BY DEF Init, AtWork
  <2> QED BY <2>1, FS_EmptySet DEF Watched
<1>4. Told = [m \in Mails |-> "nothing"]
  BY DEF Init, Told, Said
<1> QED BY <1>2, <1>3, <1>4 DEF Exchange!Init

\* The mailbox implements the exchange: the rows, watchers and replies of any
\* number of sessions, calls, user turns and exits move as MailExchange says
\* (message_session, deliver_mail, pump_kick, watch_answer,
\* push_follow_up_answer).
THEOREM MeshIsExchange == Spec => FollowsExchange
<1>1. Init => Exchange!Init
  BY ExchangeInit
<1>2. MeshInv /\ [Next]_vars => [Exchange!Next]_Seen
  BY ExchangeNext
<1> QED BY <1>1, <1>2, MeshInvariant, PTL DEF Spec, FollowsExchange, Exchange!Spec, Seen
=============================================================================
