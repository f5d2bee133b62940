------------------------- MODULE Compaction_proofs -------------------------
(***************************************************************************)
(* What TLAPS proves of Compaction for every set of passes, every number   *)
(* of pinned messages and every bound: folds point at rows that exist, a   *)
(* folded row is in the text of its summary, and later loads show the      *)
(* model all the messages the user has kept, until one of the four harms   *)
(* is done.                                                                *)
(***************************************************************************)
EXTENDS Compaction, TLAPS, FiniteSetTheorems, WellFoundedInduction

-----------------------------------------------------------------------------
(* The newest and the oldest row of a set *)

LEMMA OldestIn ==
  ASSUME NEW S, S \subseteq Nat, S # {}
  PROVE  Oldest(S) \in S /\ \A r \in S : Oldest(S) <= r
<1> DEFINE T == {1..x : x \in S}
           R == StrictSubsetOrdering(Nat)
<1>1. T # {} /\ T \subseteq FiniteSubsetsOf(Nat)
  <2>1. \A x \in S : 1..x \subseteq Nat /\ IsFiniteSet(1..x)
    BY FS_Interval
  <2> QED BY <2>1 DEF FiniteSubsetsOf
<1>2. PICK t \in T : \A u \in T : ~ (<<u, t>> \in R)
  <2> HIDE DEF T, R
  <2>1. IsWellFoundedOn(R, FiniteSubsetsOf(Nat))
    BY FS_StrictSubsetOrderingWellFounded DEF R
  <2> QED BY <1>1, <2>1, WFMin
<1>3. PICK x \in S : t = 1..x
  OBVIOUS
<1>4. ASSUME NEW y \in S, y < x PROVE FALSE
  <2>1. 1..y \subseteq 1..x /\ 1..y # 1..x
    <3>1. x \in 1..x /\ x \notin 1..y
      BY <1>4
    <3> QED BY <1>4, <3>1
  <2>2. <<1..y, 1..x>> \in R
    BY <2>1 DEF StrictSubsetOrdering
  <2> QED BY <1>2, <1>3, <2>2
<1>5. \A y \in S : x <= y
  BY <1>4
<1> QED BY <1>5 DEF Oldest

\* The mirror image of the lemma above.
LEMMA NewestIn ==
  ASSUME NEW n \in Nat, NEW S, S \subseteq 1 .. n, S # {}
  PROVE  Newest(S) \in S /\ \A r \in S : r <= Newest(S)
<1> DEFINE T == {n - r : r \in S}
<1>1. T \subseteq Nat /\ T # {}
  <2>1. \A r \in S : n - r \in Nat
    OBVIOUS
  <2> QED BY <2>1
<1>2. PICK m \in T : \A q \in T : m <= q
  BY <1>1, OldestIn
<1>3. PICK r \in S : m = n - r
  BY <1>2
<1>4. \A q \in S : q <= r
  <2> TAKE q \in S
  <2>1. n - q \in T
    OBVIOUS
  <2> QED BY <1>2, <1>3, <2>1
<1> QED BY <1>4 DEF Newest

\* The summary shown is the newest active one, or there is none.
LEMMA SummaryShown ==
  ASSUME TypeOK
  PROVE  /\ Summary \in 0 .. last
         /\ Summary = None <=> Active \cap sums = {}
         /\ Summary # None => Summary \in Active \cap sums
         /\ \A s \in Active \cap sums : s <= Summary
<1>1. last \in Nat /\ Active \cap sums \subseteq 1 .. last
  <2>1. last \in Nat /\ rows \subseteq 1 .. last
    BY CompactionAssumption DEF TypeOK
  <2> QED BY <2>1 DEF Active
<1>2. CASE Active \cap sums = {}
  BY <1>1, <1>2 DEF Summary, Newest, None
<1>3. CASE Active \cap sums # {}
  <2>1. Summary \in Active \cap sums /\ \A s \in Active \cap sums : s <= Summary
    BY <1>1, <1>3, NewestIn DEF Summary
  <2> QED BY <1>1, <1>3, <2>1 DEF None
<1> QED BY <1>2, <1>3

\* What a pass folds are rows it has read.
LEMMA PriorRead ==
  ASSUME TypeOK, NEW p \in Passes
  PROVE  Prior(p) \in 0 .. last
<1>1. CASE raw[p] \cap sums = {}
  BY <1>1 DEF Prior, TypeOK
<1>2. CASE raw[p] \cap sums # {}
  <2>1. raw[p] \cap sums \subseteq Nat /\ raw[p] \subseteq 1 .. last
    BY DEF TypeOK
  <2>2. Oldest(raw[p] \cap sums) \in raw[p] \cap sums
    BY <1>2, <2>1, OldestIn
  <2> QED BY <1>2, <2>1, <2>2 DEF Prior
<1> QED BY <1>1, <1>2

LEMMA FitRead ==
  ASSUME TypeOK, NEW p \in Passes, NEW fit \in Fits(p)
  PROVE  /\ fit \subseteq 1 .. last
         /\ SupersededIds(p, fit) \subseteq 1 .. last
         /\ SupersededIds(p, fit) = (fit \union {Prior(p)}) \ {None}
<1>1. fit \subseteq Remaining(p)
  BY DEF Fits, ToCompact
<1>2. Remaining(p) \subseteq 1 .. last
  BY DEF Remaining, TypeOK, None
<1> QED BY <1>1, <1>2, PriorRead DEF SupersededIds, None

-----------------------------------------------------------------------------
(* Type correctness *)

LEMMA TypeInit == Init => TypeOK
BY CompactionAssumption DEF Init, TypeOK, Ids, None, Harms

LEMMA PointTyped ==
  ASSUME TypeOK, NEW set, NEW n \in Nat, last <= n, NEW to \in 0 .. n
  PROVE  Point(set, to) \in [Ids -> 0 .. n]
<1>1. last \in Nat /\ \A r \in Ids : sup[r] \in 0 .. n
  BY CompactionAssumption DEF TypeOK
<1> QED BY <1>1 DEF Point

UserStep == \/ AddMessage \/ EditSent \/ EditRejected
            \/ \E r \in Ids : DeleteMessage(r) \/ SupersedeTail(r) \/ EditMessage(r)
            \/ \E after \in 0 .. MaxRows : Rollback(after)

LEMMA TypeUser == TypeOK /\ UserStep => TypeOK'
<1> SUFFICES ASSUME TypeOK, UserStep PROVE TypeOK'
  OBVIOUS
<1> USE CompactionAssumption DEF pass, table, None
<1>0. last \in Nat /\ 0 \in 0 .. last
  BY DEF TypeOK
<1>1. CASE AddMessage
  BY <1>1 DEF AddMessage, Insert, TypeOK, Ids
<1>2. CASE EditSent
  BY <1>2, <1>0 DEF EditSent, TypeOK
<1>3. CASE EditRejected
  <2>1. sup' \in [Ids -> 0 .. last]
    BY <1>3, <1>0, PointTyped DEF EditRejected
  <2> QED BY <1>3, <1>0, <2>1 DEF EditRejected, TypeOK
<1>4. ASSUME NEW r \in Ids, DeleteMessage(r) PROVE TypeOK'
  <2>1. sup' \in [Ids -> 0 .. last]
    BY <1>4, <1>0, PointTyped DEF DeleteMessage
  <2>2. ops' \in 0 .. MaxOps /\ rows' \subseteq 1 .. last
    BY <1>4 DEF DeleteMessage, UserOp, TypeOK
  <2> QED BY <1>4, <2>1, <2>2 DEF DeleteMessage, TypeOK
<1>5. ASSUME NEW r \in Ids, SupersedeTail(r) \/ EditMessage(r) PROVE TypeOK'
  <2>1. MarkBranch(r) /\ editing' \in {editing, r}
    BY <1>5 DEF SupersedeTail, EditMessage
  <2>2. r \in 0 .. last
    BY <2>1 DEF MarkBranch, TypeOK
  <2>3. sup' \in [Ids -> 0 .. last]
    BY <2>1, <2>2, <1>0, PointTyped DEF MarkBranch
  <2>4. harm' \subseteq Harms
    BY <2>1 DEF MarkBranch, TypeOK, Harms
  <2> QED BY <2>1, <2>2, <2>3, <2>4 DEF MarkBranch, UserOp, TypeOK
<1>6. ASSUME NEW after \in 0 .. MaxRows, Rollback(after) PROVE TypeOK'
  <2>1. sup' \in [Ids -> 0 .. last]
    BY <1>6, <1>0, PointTyped DEF Rollback
  <2>2. harm' \subseteq Harms
    BY <1>6 DEF Rollback, TypeOK, Harms
  <2>3. ops' \in 0 .. MaxOps /\ rows' \subseteq rows /\ rows \subseteq 1 .. last
    <3>1. UserOp /\ rows' \subseteq rows
      BY <1>6 DEF Rollback
    <3>2. ops' \in 0 .. MaxOps
      BY <3>1 DEF UserOp, TypeOK
    <3> QED BY <3>1, <3>2 DEF TypeOK
  <2> QED BY <1>6, <2>1, <2>2, <2>3 DEF Rollback, TypeOK
<1> QED BY <1>1, <1>2, <1>3, <1>4, <1>5, <1>6 DEF UserStep

LEMMA TypePass ==
  ASSUME TypeOK, NEW p \in Passes, PassStep(p)
  PROVE  TypeOK'
<1> USE CompactionAssumption DEF table, None
<1>1. CASE Claim(p)
  BY <1>1 DEF Claim, TypeOK
<1>2. CASE Load(p)
  BY <1>2, SummaryShown DEF Load, TypeOK, Active
<1>3. CASE Refeed(p)
  BY <1>3 DEF Refeed, TypeOK, Folded
<1>4. CASE GiveUp(p)
  BY <1>4 DEF GiveUp, Return, TypeOK
<1>6. CASE Answers(p)
  BY <1>6 DEF Answers, TypeOK
<1>5. CASE Persist(p)
  <2>1. PICK fit \in Fits(p) :
          /\ Insert(UNION {text[r] : r \in (fit \union {Prior(p)}) \ {None}})
          /\ sup' = Point(SupersededIds(p, fit) \cap rows, last + 1)
          /\ harm' = harm \union {h \in {"crossed"} : p \in stale}
                     \union {h \in {"stacked"} : shown[p] \notin SupersededIds(p, fit) \union {None}}
    BY <1>5 DEF Persist
  <2>2. last' = last + 1 /\ last' \in 0 .. MaxRows /\ last \in Nat /\ last + 1 \in Ids
    BY <2>1 DEF Insert, TypeOK, Ids
  <2>3. sup' \in [Ids -> 0 .. last']
    <3>1. last <= last + 1 /\ last + 1 \in Nat /\ last + 1 \in 0 .. last + 1
      BY <2>2
    <3>2. Point(SupersededIds(p, fit) \cap rows, last + 1) \in [Ids -> 0 .. last + 1]
      BY <3>1, PointTyped
    <3> QED BY <2>1, <2>2, <3>2
  <2>4. \A r \in (fit \union {Prior(p)}) \ {None} : text[r] \subseteq Ids
    <3>1. (fit \union {Prior(p)}) \ {None} \subseteq Ids
      BY FitRead, PriorRead, <2>2 DEF Ids
    <3> QED BY <3>1 DEF TypeOK
  <2>5. text' \in [Ids -> SUBSET Ids]
    <3> DEFINE says == UNION {text[r] : r \in (fit \union {Prior(p)}) \ {None}}
    <3>1. says \in SUBSET Ids
      BY <2>4
    <3>2. text' = [text EXCEPT ![last + 1] = says] /\ text \in [Ids -> SUBSET Ids]
      BY <2>1 DEF Insert, TypeOK
    <3> HIDE DEF says
    <3> QED BY <3>1, <3>2
  <2>6. harm' \subseteq Harms
    BY <2>1 DEF TypeOK, Harms
  <2>7. rows' \subseteq 1 .. last' /\ sums' \subseteq 1 .. last'
    BY <1>5, <2>1, <2>2 DEF Insert, Persist, TypeOK
  <2>8. /\ shown' \in [Passes -> 0 .. last'] /\ seen' \in [Passes -> SUBSET (1 .. last')]
        /\ raw' \in [Passes -> SUBSET (1 .. last')] /\ pc' \in [Passes -> {"idle", "claimed", "loaded", "body"}]
    BY <1>5, <2>2 DEF Persist, Return, TypeOK
  <2>9. claims' \subseteq Claimers /\ editing' \in 0 .. last' /\ ops' \in 0 .. MaxOps /\ stale' \subseteq Passes
    BY <1>5, <2>2 DEF Persist, TypeOK
  <2> QED BY <2>2, <2>3, <2>5, <2>6, <2>7, <2>8, <2>9 DEF TypeOK
<1> QED BY <1>1, <1>2, <1>3, <1>4, <1>5, <1>6 DEF PassStep

LEMMA TypeNext == TypeOK /\ [Next]_vars => TypeOK'
<1> SUFFICES ASSUME TypeOK, [Next]_vars PROVE TypeOK'
  OBVIOUS
<1>1. CASE UserStep
  BY <1>1, TypeUser
<1>2. CASE \E p \in Passes : PassStep(p)
  BY <1>2, TypePass
<1>3. CASE UNCHANGED vars
  BY <1>3 DEF vars, TypeOK
<1> QED BY <1>1, <1>2, <1>3 DEF Next, UserStep

\* Ids, row pointers and snapshots stay within the rows given out.
THEOREM TypeCorrect == Spec => []TypeOK
<1>1. Init => TypeOK
  BY TypeInit
<1>2. TypeOK /\ [Next]_vars => TypeOK'
  BY TypeNext
<1> QED BY <1>1, <1>2, PTL DEF Spec

-----------------------------------------------------------------------------
(* The inductive invariant *)

\* What is no row points at nothing.
NoRowNoFold == \A r \in Ids \ rows : sup[r] = None

\* A message row tells of itself.
SaysItself == \A r \in rows \ sums : text[r] = {r}

\* A row is folded into a summary written later, so folds make no circle.
FoldsForward == \A r \in rows : sup[r] \in sums => r < sup[r]

\* Until an edit retires a summary, only summaries supersede summaries.
SummaryFolds ==
  "forked" \notin harm => \A s \in rows \cap sums : sup[s] \in sums \union {None}

\* Each summary tells all that the summaries before it tell.
Nested ==
  harm = {} => \A v, w \in rows \cap sums : v < w => text[v] \subseteq text[w]

\* A pass no other has overtaken was shown a summary that tells it all.
ShownSaysAll ==
  harm = {} =>
    \A p \in Passes, w \in rows \cap sums :
      pc[p] \in {"loaded", "body"} /\ p \notin stale =>
        shown[p] # None /\ text[w] \subseteq text[shown[p]]

CompactInv ==
  /\ TypeOK
  /\ NoRowNoFold
  /\ NoGhost
  /\ FoldedIsSummarised
  /\ SaysItself
  /\ FoldsForward
  /\ SummaryFolds
  /\ Nested
  /\ ShownSaysAll

LEMMA InvInit == Init => CompactInv
BY TypeInit DEF Init, CompactInv, NoRowNoFold, NoGhost, FoldedIsSummarised, SaysItself,
  FoldsForward, SummaryFolds, Nested, ShownSaysAll

\* While no harm is done the newest summary that exists is the one shown, and
\* it tells all that any summary tells.
LEMMA NewestTellsAll ==
  ASSUME CompactInv, harm = {}, NEW w \in rows \cap sums
  PROVE  Summary # None /\ Summary \in rows \cap sums /\ text[w] \subseteq text[Summary]
<1> DEFINE S == rows \cap sums
<1>1. last \in Nat /\ S \subseteq 1 .. last /\ w \in S
  BY CompactionAssumption DEF CompactInv, TypeOK
<1>2. PICK v \in S : \A r \in S : r <= v
  <2> HIDE DEF S
  <2> QED BY <1>1, NewestIn
<1>3. sup[v] = None
  <2>1. sup[v] \in sums \union {None} /\ sup[v] \in rows \union {None}
    BY <1>2 DEF CompactInv, SummaryFolds, NoGhost
  <2>2. ASSUME sup[v] \in S PROVE FALSE
    <3>1. v < sup[v] /\ sup[v] <= v
      BY <1>2, <2>2 DEF CompactInv, FoldsForward
    <3> QED BY <1>1, <1>2, <2>2, <3>1
  <2> QED BY <2>1, <2>2
<1>4. v \in Active \cap sums
  BY <1>2, <1>3 DEF Active
<1>5. Summary # None /\ Summary \in Active \cap sums /\ v <= Summary
  BY <1>4, SummaryShown DEF CompactInv
<1>6. Summary = v
  BY <1>1, <1>2, <1>5 DEF Active
<1>7. w = v \/ w < v
  BY <1>1, <1>2
<1> QED BY <1>1, <1>2, <1>5, <1>6, <1>7 DEF CompactInv, Nested

\* The invariant gives what the runs check.
LEMMA InvNothingLost == CompactInv => NothingLost
<1> SUFFICES ASSUME CompactInv, harm = {}, NEW r \in rows \ sums, ~ Retired(r)
             PROVE  r \in LoadTells
  BY DEF NothingLost
<1>1. r \in text[r]
  BY DEF CompactInv, SaysItself
<1>2. CASE r \in Active
  BY <1>1, <1>2 DEF LoadTells
<1>3. CASE r \notin Active
  <2>1. sup[r] # None /\ sup[r] \in Ids \union {None}
    BY <1>3, CompactionAssumption DEF Active, CompactInv, TypeOK, Ids, None
  <2>2. sup[r] \in sums
    BY <2>1 DEF Retired
  <2>3. sup[r] \in rows \cap sums
    BY <2>1, <2>2 DEF CompactInv, NoGhost
  <2>4. r \in text[sup[r]]
    BY <1>1, <2>2 DEF CompactInv, FoldedIsSummarised
  <2>5. Summary # None /\ r \in text[Summary]
    BY <2>3, <2>4, NewestTellsAll
  <2> QED BY <2>5 DEF LoadTells
<1> QED BY <1>2, <1>3

-----------------------------------------------------------------------------
(* Steps of the user *)

LEMMA InvAdd == CompactInv /\ AddMessage => CompactInv'
<1> SUFFICES ASSUME CompactInv, AddMessage PROVE CompactInv'
  OBVIOUS
<1>0. TypeOK'
  BY TypeUser DEF UserStep, CompactInv
<1>1. last \in Nat /\ rows \subseteq 1 .. last /\ last + 1 \in Ids /\ sums \subseteq 1 .. last
      /\ last + 1 \notin sums /\ last + 1 \notin rows /\ 1 .. last \subseteq Ids
  BY CompactionAssumption DEF CompactInv, TypeOK, AddMessage, Insert, Ids
<1>2. /\ rows' = rows \union {last + 1} /\ text'[last + 1] = {last + 1}
      /\ \A r \in Ids : r # last + 1 => text'[r] = text[r]
      /\ UNCHANGED <<sums, sup, harm, pc, shown, stale>>
  BY <1>1 DEF AddMessage, Insert, CompactInv, TypeOK, pass
<1>3. sup[last + 1] = None /\ sup[last + 1] \notin sums
  BY <1>1 DEF CompactInv, NoRowNoFold, None
<1>4. NoRowNoFold' /\ NoGhost'
  BY <1>1, <1>2, <1>3 DEF CompactInv, NoRowNoFold, NoGhost
<1>5. FoldedIsSummarised' /\ FoldsForward'
  <2>1. ASSUME NEW r \in rows', sup[r] \in sums
        PROVE  r \in rows /\ text'[r] = text[r] /\ text'[sup[r]] = text[sup[r]]
    BY <1>1, <1>2, <1>3, <2>1
  <2> QED BY <1>2, <2>1 DEF CompactInv, FoldedIsSummarised, FoldsForward
<1>6. SaysItself'
  <2>1. \A r \in rows : text'[r] = text[r]
    BY <1>1, <1>2
  <2> QED BY <1>1, <1>2, <2>1 DEF CompactInv, SaysItself
<1>7. rows' \cap sums' = rows \cap sums /\ \A s \in rows \cap sums : text'[s] = text[s]
  BY <1>1, <1>2
<1>8. SummaryFolds' /\ Nested'
  BY <1>2, <1>7 DEF CompactInv, SummaryFolds, Nested
<1>9. ShownSaysAll'
  <2>1. \A p \in Passes : shown[p] = None \/ text'[shown[p]] = text[shown[p]]
    <3> TAKE p \in Passes
    <3>1. shown[p] = None \/ shown[p] \in 1 .. last
      BY <1>1 DEF CompactInv, TypeOK, None
    <3> QED BY <1>1, <1>2, <3>1
  <2> QED BY <1>2, <1>7, <2>1 DEF CompactInv, ShownSaysAll
<1> QED BY <1>0, <1>4, <1>5, <1>6, <1>8, <1>9 DEF CompactInv

\* A step that deletes rows or changes what they point at, and no pass's state,
\* disturbs nothing of the texts.
LEMMA InvTexts ==
  ASSUME CompactInv, rows' \subseteq rows, harm \subseteq harm',
         UNCHANGED <<sums, text, pc, shown, stale>>
  PROVE  SaysItself' /\ Nested' /\ ShownSaysAll'
<1>1. harm' = {} => harm = {}
  OBVIOUS
<1> QED BY <1>1 DEF CompactInv, SaysItself, Nested, ShownSaysAll

\* If it points rows at no summary it disturbs nothing of the folds either.
LEMMA InvFolds ==
  ASSUME CompactInv, rows' \subseteq rows, UNCHANGED <<sums, text>>,
         \A r \in rows' : sup'[r] = sup[r] \/ sup'[r] \notin sums
  PROVE  FoldedIsSummarised' /\ FoldsForward'
BY DEF CompactInv, FoldedIsSummarised, FoldsForward

LEMMA InvReject == CompactInv /\ EditRejected => CompactInv'
<1> SUFFICES ASSUME CompactInv, EditRejected PROVE CompactInv'
  OBVIOUS
<1>0. TypeOK'
  BY TypeUser DEF UserStep, CompactInv
<1>1. UNCHANGED <<rows, sums, text, pc, shown, stale, harm>>
  BY DEF EditRejected, pass
<1>2. \A r \in Ids : sup'[r] \in {sup[r], None}
  BY DEF EditRejected, Point
<1>3. rows \subseteq Ids /\ None \notin sums
  BY CompactionAssumption DEF CompactInv, TypeOK, Ids, None
<1>4. SaysItself' /\ Nested' /\ ShownSaysAll'
  BY <1>1, InvTexts
<1>5. FoldedIsSummarised' /\ FoldsForward'
  BY <1>1, <1>2, <1>3, InvFolds
<1>6. NoRowNoFold' /\ NoGhost' /\ SummaryFolds'
  BY <1>1, <1>2, <1>3 DEF CompactInv, NoRowNoFold, NoGhost, SummaryFolds
<1> QED BY <1>0, <1>4, <1>5, <1>6 DEF CompactInv

LEMMA InvDelete ==
  ASSUME CompactInv, NEW d \in Ids, DeleteMessage(d)
  PROVE  CompactInv'
<1>0. TypeOK'
  BY TypeUser DEF UserStep, CompactInv
<1>1. rows' = rows \ {d} /\ UNCHANGED <<sums, text, pc, shown, stale, harm>>
  BY DEF DeleteMessage, pass
<1>2. \A r \in Ids : sup'[r] = IF (r \in rows /\ sup[r] = d) \/ r = d THEN None ELSE sup[r]
  BY DEF DeleteMessage, Point, Folded
<1>3. rows \subseteq Ids /\ None \notin sums
  BY CompactionAssumption DEF CompactInv, TypeOK, Ids, None
<1>4. SaysItself' /\ Nested' /\ ShownSaysAll'
  BY <1>1, InvTexts
<1>5. FoldedIsSummarised' /\ FoldsForward'
  BY <1>1, <1>2, <1>3, InvFolds
<1>6. NoRowNoFold' /\ SummaryFolds'
  BY <1>1, <1>2, <1>3 DEF CompactInv, NoRowNoFold, SummaryFolds
<1>7. NoGhost'
  BY <1>1, <1>2, <1>3 DEF CompactInv, NoGhost
<1> QED BY <1>0, <1>4, <1>5, <1>6, <1>7 DEF CompactInv

LEMMA InvBranch ==
  ASSUME CompactInv, NEW m \in Ids, SupersedeTail(m) \/ EditMessage(m)
  PROVE  CompactInv'
<1>0. TypeOK' /\ MarkBranch(m)
  BY TypeUser DEF UserStep, CompactInv, SupersedeTail, EditMessage
<1>1. /\ m \in rows \ sums /\ harm \subseteq harm'
      /\ UNCHANGED <<rows, sums, text, pc, shown, stale>>
  BY <1>0 DEF MarkBranch, pass
<1>2. \A r \in Ids : sup'[r] = IF r \in Active /\ r >= m THEN m ELSE sup[r]
  BY <1>0 DEF MarkBranch, Point
<1>3. rows \subseteq Ids /\ None \notin sums
  BY CompactionAssumption DEF CompactInv, TypeOK, Ids, None
<1>4. SaysItself' /\ Nested' /\ ShownSaysAll'
  BY <1>1, InvTexts
<1>5. FoldedIsSummarised' /\ FoldsForward'
  BY <1>1, <1>2, <1>3, InvFolds
<1>6. NoRowNoFold' /\ NoGhost'
  BY <1>1, <1>2, <1>3 DEF CompactInv, NoRowNoFold, NoGhost, Active
<1>7. SummaryFolds'
  <2>1. SUFFICES ASSUME "forked" \notin harm', NEW s \in rows \cap sums
                 PROVE  sup'[s] \in sums \union {None}
    BY <1>1 DEF SummaryFolds
  <2>2. ~ (s \in Active /\ s >= m)
    BY <1>0, <2>1 DEF MarkBranch
  <2> QED BY <1>1, <1>2, <1>3, <2>1, <2>2 DEF CompactInv, SummaryFolds
<1> QED BY <1>0, <1>4, <1>5, <1>6, <1>7 DEF CompactInv

LEMMA InvRollback ==
  ASSUME CompactInv, NEW after \in 0 .. MaxRows, Rollback(after)
  PROVE  CompactInv'
<1>0. TypeOK'
  BY TypeUser DEF UserStep, CompactInv
<1>1. /\ rows' = {r \in rows : r <= after} /\ harm \subseteq harm'
      /\ UNCHANGED <<sums, text, pc, shown, stale>>
  BY DEF Rollback, pass
<1>2. \A r \in Ids : sup'[r] = IF r \in rows \ rows' THEN None ELSE sup[r]
  BY DEF Rollback, Point
<1>3. rows \subseteq Ids /\ rows \subseteq Nat /\ None \notin sums
  BY CompactionAssumption DEF CompactInv, TypeOK, Ids, None
<1>4. SaysItself' /\ Nested' /\ ShownSaysAll'
  BY <1>1, InvTexts
<1>5. FoldedIsSummarised' /\ FoldsForward'
  BY <1>1, <1>2, <1>3, InvFolds
<1>6. NoRowNoFold' /\ SummaryFolds'
  BY <1>1, <1>2, <1>3 DEF CompactInv, NoRowNoFold, SummaryFolds
<1>7. NoGhost'
  <2>1. SUFFICES ASSUME "rolled" \notin harm', NEW r \in rows'
                 PROVE  sup'[r] \in rows' \union {None}
    BY DEF NoGhost
  <2>2. sup'[r] = sup[r] /\ r \in rows
    BY <1>1, <1>2, <1>3
  <2>3. ~ (sup[r] > after)
    BY <1>1, <2>1, <2>2 DEF Rollback
  <2>4. sup[r] \in rows \union {None}
    BY <1>1, <2>1, <2>2 DEF CompactInv, NoGhost
  <2>5. ASSUME sup[r] \in rows PROVE sup[r] <= after
    <3>1. sup[r] \in Nat /\ after \in Nat
      <4>1. MaxRows \in Nat
        BY CompactionAssumption
      <4>2. after \in Nat
        BY <4>1
      <4> QED BY <1>3, <2>5, <4>2
    <3> QED BY <2>3, <3>1
  <2> QED BY <1>1, <2>2, <2>4, <2>5
<1> QED BY <1>0, <1>4, <1>5, <1>6, <1>7 DEF CompactInv
-----------------------------------------------------------------------------
(* Steps of a pass *)

LEMMA InvLoad ==
  ASSUME CompactInv, NEW p \in Passes, Load(p)
  PROVE  CompactInv'
<1>0. TypeOK'
  BY TypePass DEF PassStep, CompactInv
<1>1. UNCHANGED <<rows, sums, sup, text, harm, stale>>
  BY DEF Load, table
<1>2. /\ shown'[p] = Summary
      /\ \A q \in Passes : q # p => shown'[q] = shown[q] /\ pc'[q] = pc[q]
  BY DEF Load, CompactInv, TypeOK
<1>3. ShownSaysAll'
  <2>1. SUFFICES ASSUME harm = {}, NEW q \in Passes, NEW w \in rows \cap sums,
                        pc'[q] \in {"loaded", "body"}, q \notin stale
                 PROVE  shown'[q] # None /\ text[w] \subseteq text[shown'[q]]
    BY <1>1 DEF ShownSaysAll
  <2>2. CASE q = p
    BY <1>2, <2>1, <2>2, NewestTellsAll
  <2>3. CASE q # p
    BY <1>2, <2>1, <2>3 DEF CompactInv, ShownSaysAll
  <2> QED BY <2>2, <2>3
<1> QED BY <1>0, <1>1, <1>3 DEF CompactInv, NoRowNoFold, NoGhost, FoldedIsSummarised,
             SaysItself, FoldsForward, SummaryFolds, Nested

\* The other steps that write no row end a pass or leave its reading alone.
LEMMA InvQuiet ==
  ASSUME CompactInv, NEW p \in Passes, Claim(p) \/ Refeed(p) \/ Answers(p) \/ GiveUp(p)
  PROVE  CompactInv'
<1>0. TypeOK'
  BY TypePass DEF PassStep, CompactInv
<1>1. UNCHANGED <<rows, sums, sup, text, harm>>
  BY DEF Claim, Refeed, Answers, GiveUp, table
<1>2. \A q \in Passes :
        pc'[q] \in {"loaded", "body"} /\ q \notin stale' =>
          pc[q] \in {"loaded", "body"} /\ q \notin stale /\ shown'[q] = shown[q]
  <2>1. CASE Claim(p)
    BY <2>1 DEF Claim, CompactInv, TypeOK
  <2>2. CASE Refeed(p)
    BY <2>2 DEF Refeed
  <2>3. CASE GiveUp(p)
    BY <2>3 DEF GiveUp, Return, CompactInv, TypeOK
  <2>4. CASE Answers(p)
    BY <2>4 DEF Answers, CompactInv, TypeOK
  <2> QED BY <2>1, <2>2, <2>3, <2>4
<1>3. ShownSaysAll'
  BY <1>1, <1>2 DEF CompactInv, ShownSaysAll
<1> QED BY <1>0, <1>1, <1>3 DEF CompactInv, NoRowNoFold, NoGhost, FoldedIsSummarised,
             SaysItself, FoldsForward, SummaryFolds, Nested

LEMMA InvPersist ==
  ASSUME CompactInv, NEW p \in Passes, Persist(p)
  PROVE  CompactInv'
<1> DEFINE s == last + 1
<1>0. TypeOK'
  BY TypePass DEF PassStep, CompactInv
<1>1. PICK fit \in Fits(p) :
        /\ Insert(UNION {text[r] : r \in (fit \union {Prior(p)}) \ {None}})
        /\ sup' = Point(SupersededIds(p, fit) \cap rows, last + 1)
        /\ harm' = harm \union {h \in {"crossed"} : p \in stale}
                   \union {h \in {"stacked"} : shown[p] \notin SupersededIds(p, fit) \union {None}}
  BY DEF Persist
<1> DEFINE ids == SupersededIds(p, fit)
<1>2. /\ last \in Nat /\ s \in Ids /\ 1 .. last \subseteq Ids /\ None \notin Ids
      /\ rows \subseteq 1 .. last /\ sums \subseteq 1 .. last /\ s \notin 1 .. last
      /\ \A r \in Ids : sup[r] \in 0 .. last
  BY <1>1, CompactionAssumption DEF CompactInv, TypeOK, Insert, Ids, None
<1>3. ids \subseteq 1 .. last /\ ids = (fit \union {Prior(p)}) \ {None}
  BY FitRead DEF CompactInv
<1>4. /\ rows' = rows \union {s} /\ sums' = sums \union {s}
      /\ text'[s] = UNION {text[r] : r \in ids}
      /\ \A r \in 1 .. last : text'[r] = text[r]
  BY <1>1, <1>2, <1>3 DEF Persist, Insert, CompactInv, TypeOK
<1>5. \A r \in ids : text[r] \subseteq text'[s]
  BY <1>4
<1>6. \A r \in Ids : sup'[r] = IF r \in ids \cap rows THEN s ELSE sup[r]
  BY <1>1 DEF Point
<1>7. sup'[s] = None /\ \A r \in rows : sup'[r] \in sums' => r \in ids \/ sup[r] \in sums
  BY <1>2, <1>3, <1>4, <1>6 DEF CompactInv, NoRowNoFold
<1>8. harm' = {} => harm = {} /\ p \notin stale /\ shown[p] \in ids \union {None}
  BY <1>1
<1> HIDE DEF s, ids
<1>9. NoRowNoFold' /\ NoGhost'
  <2>1. NoRowNoFold'
    BY <1>2, <1>4, <1>6 DEF CompactInv, NoRowNoFold
  <2>2. harm \subseteq harm'
    BY <1>1
  <2>3. NoGhost'
    BY <1>2, <1>4, <1>6, <1>7, <2>2 DEF CompactInv, NoGhost
  <2> QED BY <2>1, <2>3
<1>10. FoldedIsSummarised' /\ FoldsForward'
  <2>1. ASSUME NEW r \in rows', sup'[r] \in sums'
        PROVE  text'[r] \subseteq text'[sup'[r]] /\ r < sup'[r]
    <3>1. r \in rows
      BY <1>2, <1>4, <1>7, <2>1
    <3>2. CASE r \in ids
      <4>1. sup'[r] = s /\ text'[r] = text[r] /\ r \in 1 .. last
        BY <1>2, <1>4, <1>6, <3>1, <3>2
      <4>2. r < s
        BY <1>2, <4>1 DEF s
      <4> QED BY <1>5, <3>2, <4>1, <4>2
    <3>3. CASE r \notin ids
      <4>1. sup'[r] = sup[r] /\ sup[r] \in sums
        BY <1>2, <1>6, <1>7, <2>1, <3>1, <3>3
      <4>2. text'[r] = text[r] /\ text'[sup[r]] = text[sup[r]]
        BY <1>2, <1>4, <3>1, <4>1
      <4> QED BY <3>1, <4>1, <4>2 DEF CompactInv, FoldedIsSummarised, FoldsForward
    <3> QED BY <3>2, <3>3
  <2> QED BY <2>1 DEF FoldedIsSummarised, FoldsForward
<1>11. SaysItself'
  BY <1>2, <1>4 DEF CompactInv, SaysItself
<1>12. SummaryFolds'
  <2>1. harm \subseteq harm'
    BY <1>1
  <2>2. \A r \in rows' \cap sums' : r \in rows \cap sums \/ r = s
    BY <1>2, <1>4
  <2> QED BY <1>2, <1>4, <1>6, <1>7, <2>1, <2>2 DEF CompactInv, SummaryFolds
<1>13. Nested'
  <2>1. SUFFICES ASSUME harm' = {}, NEW v \in rows' \cap sums', NEW w \in rows' \cap sums', v < w
                 PROVE  text'[v] \subseteq text'[w]
    BY DEF Nested
  <2>2. v \in rows \cap sums /\ text'[v] = text[v]
    <3>1. v # s
      <4>1. w \in 1 .. last \/ w = s
        BY <1>2, <1>4
      <4> QED BY <1>2, <2>1, <4>1 DEF s
    <3> QED BY <1>2, <1>4, <3>1
  <2>3. CASE w = s
    <3>1. pc[p] \in {"loaded", "body"}
      BY DEF Persist
    <3>2. shown[p] # None /\ text[v] \subseteq text[shown[p]]
      BY <1>8, <2>1, <2>2, <3>1 DEF CompactInv, ShownSaysAll
    <3>3. shown[p] \in ids
      BY <1>8, <2>1, <3>2
    <3> QED BY <1>5, <2>2, <2>3, <3>2, <3>3
  <2>4. CASE w # s
    <3>1. w \in rows \cap sums /\ text'[w] = text[w]
      BY <1>2, <1>4, <2>4
    <3> QED BY <1>8, <2>1, <2>2, <3>1 DEF CompactInv, Nested
  <2> QED BY <2>3, <2>4
<1>14. ShownSaysAll'
  <2>1. \A q \in Passes : ~ (pc'[q] \in {"loaded", "body"} /\ q \notin stale')
    BY DEF Persist, Return, CompactInv, TypeOK
  <2> QED BY <2>1 DEF ShownSaysAll
<1> QED BY <1>0, <1>9, <1>10, <1>11, <1>12, <1>13, <1>14 DEF CompactInv

LEMMA InvNext == CompactInv /\ [Next]_vars => CompactInv'
<1> SUFFICES ASSUME CompactInv, [Next]_vars PROVE CompactInv'
  OBVIOUS
<1>1. CASE AddMessage
  BY <1>1, InvAdd
<1>2. CASE EditSent
  <2>1. TypeOK'
    BY <1>2, TypeUser DEF UserStep, CompactInv
  <2> QED BY <1>2, <2>1 DEF EditSent, table, pass, CompactInv, NoRowNoFold, NoGhost,
            FoldedIsSummarised, SaysItself, FoldsForward, SummaryFolds, Nested, ShownSaysAll
<1>3. CASE EditRejected
  BY <1>3, InvReject
<1>4. ASSUME NEW r \in Ids, DeleteMessage(r) \/ SupersedeTail(r) \/ EditMessage(r) PROVE CompactInv'
  BY <1>4, InvDelete, InvBranch
<1>5. ASSUME NEW after \in 0 .. MaxRows, Rollback(after) PROVE CompactInv'
  BY <1>5, InvRollback
<1>6. ASSUME NEW p \in Passes, PassStep(p) PROVE CompactInv'
  BY <1>6, InvLoad, InvQuiet, InvPersist DEF PassStep
<1>7. CASE UNCHANGED vars
  BY <1>7 DEF vars, CompactInv, TypeOK, NoRowNoFold, NoGhost,
     FoldedIsSummarised, SaysItself, FoldsForward, SummaryFolds, Nested, ShownSaysAll
<1> QED BY <1>1, <1>2, <1>3, <1>4, <1>5, <1>6, <1>7 DEF Next

LEMMA InvAlways == Spec => []CompactInv
<1>1. CompactInv /\ [Next]_vars => CompactInv'
  BY InvNext
<1> QED BY InvInit, <1>1, PTL DEF Spec

-----------------------------------------------------------------------------

\* Only a restore leaves a row pointing at one that is gone.
THEOREM FoldsExist == Spec => []NoGhost
<1>1. CompactInv => NoGhost
  BY DEF CompactInv
<1> QED BY <1>1, InvAlways, PTL

\* A folded row is in the text of the summary that folded it.
THEOREM FoldsTold == Spec => []FoldedIsSummarised
<1>1. CompactInv => FoldedIsSummarised
  BY DEF CompactInv
<1> QED BY <1>1, InvAlways, PTL

\* Until one of the four harms is done every later load of the session tells the
\* model of all the messages the user has kept.
THEOREM LaterLoadsTell == Spec => []NothingLost
BY InvNothingLost, InvAlways, PTL
=============================================================================
