-------------------------- MODULE MeshSpawns_proofs --------------------------
(***************************************************************************)
(* What TLAPS proves of MeshSpawns for any sessions, calls, caps and       *)
(* events: types, how far the cap on the children of a parent can be       *)
(* passed, and that the result of a child is told once.                    *)
(***************************************************************************)
EXTENDS MeshSpawns, FiniteSetTheorems, TLAPS

\* A parent that was no spawned session when its call began is a root, or is
\* gone for good.
CallersAreRoots ==
  \A k \in Calls :
    /\ pc[k] = "parent" => by[k] \in Roots \/ (by[k] \in Children \ exists /\ origin[by[k]] # None)
    /\ pc[k] = "create" => by[k] \in Roots
    /\ pc[k] \in {"dispatch", "wait", "read"} => child[k] \in Children

\* As the depth test stands, only roots spawn.
TreeBounded == \A c \in Children : origin[c] # None => origin[c] \in Roots

\* What was created today is active as long as it exists.
TodayIsActive == today \intersect exists \subseteq active

Spawn(p) == {c \in today \intersect exists : origin[c] = p}

FanOut == \A p \in Sessions :
  Cardinality(Spawn(p)) + Cardinality(Pending(p)) <= MaxChildren - 1 + Cardinality(Calls)

\* A child has one call at most at work for it, and until that call is through
\* its parent was told nothing of it.
AtWork(k) == pc[k] \in {"dispatch", "wait", "read"}
OneCall ==
  /\ \A c \in Children : origin[c] = None => told[c] = "nothing"
  /\ \A k \in Calls : AtWork(k) =>
       /\ child[k] \in Children /\ origin[child[k]] # None /\ told[child[k]] = "nothing"
       /\ \A j \in Calls \ {k} : AtWork(j) => child[j] # child[k]

TreeInv == TypeOK /\ CallersAreRoots /\ TodayIsActive /\ TreeBounded /\ FanOut

SpawnsInv == TreeInv /\ OneCall /\ ResultToldOnce

-----------------------------------------------------------------------------
(* The steps, by what they do to the tree *)

\* The steps of calls that create nothing and take nobody in.
Goes(k) == \/ ParentRow(k) \/ CreateFails(k) \/ DispatchFails(k)
           \/ WaitEnds(k) \/ WaitReads(k) \/ \E wait \in BOOLEAN : Dispatch(k, wait)

Works(c) == \/ Flush(c) \/ TurnOver(c) \/ SaveReply(c)
            \/ (\E output \in BOOLEAN : TurnCloses(c, output)) \/ ReporterStep(c)

LEMMA NextCases ==
  Next <=> \/ \E k \in Calls, p \in Sessions : Guards(k, p)
           \/ \E k \in Calls, c \in Children : Create(k, c)
           \/ \E k \in Calls : Goes(k)
           \/ \E c \in Children : Works(c) \/ UserSends(c)
           \/ \E s \in Sessions : Delete(s)
           \/ DayPasses \/ Restart
BY DEF Next, CallStep, ChildStep, Goes, Works

LEMMA InitInv == Init => SpawnsInv
<1> SUFFICES ASSUME Init PROVE SpawnsInv
  OBVIOUS
<1> USE SpawnsAssumption DEF Init
<1>1. TypeOK
  BY DEF TypeOK, Sessions, Mails
<1>2. CallersAreRoots /\ TodayIsActive /\ TreeBounded
  BY DEF CallersAreRoots, TodayIsActive, TreeBounded
<1>3. FanOut
  <2>1. \A p \in Sessions : Spawn(p) = {} /\ Pending(p) = {}
    BY DEF Spawn, Pending
  <2>2. Cardinality(Calls) \in Nat /\ Cardinality({}) = 0
    BY FS_CardinalityType, FS_EmptySet
  <2>3. \A p \in Sessions : Cardinality(Spawn(p)) = 0 /\ Cardinality(Pending(p)) = 0
    BY <2>1, <2>2
  <2> HIDE DEF Init
  <2> QED BY <2>2, <2>3, SpawnsAssumption DEF FanOut
<1>4. OneCall /\ ResultToldOnce
  BY DEF OneCall, AtWork, ResultToldOnce
<1> QED BY <1>1, <1>2, <1>3, <1>4 DEF SpawnsInv, TreeInv

\* Spawn and Pending are finite, so their cardinalities are numbers that grow
\* with them.
LEMMA Counts ==
  ASSUME TypeOK, NEW p \in Sessions
  PROVE  /\ IsFiniteSet(Spawn(p)) /\ IsFiniteSet(Pending(p))
         /\ Cardinality(Spawn(p)) \in Nat /\ Cardinality(Pending(p)) \in Nat
         /\ Cardinality(Pending(p)) <= Cardinality(Calls) /\ Cardinality(Calls) \in Nat
<1>1. Spawn(p) \subseteq Children /\ Pending(p) \subseteq Calls
  BY DEF TypeOK, Spawn, Pending
<1> QED BY <1>1, SpawnsAssumption, FS_Subset, FS_CardinalityType

\* A step that adds to neither set keeps the bound.
LEMMA FanOutKept ==
  ASSUME TypeOK, FanOut, TypeOK',
         \A p \in Sessions : Spawn(p)' \subseteq Spawn(p) /\ Pending(p)' \subseteq Pending(p)
  PROVE  FanOut'
<1> SUFFICES ASSUME NEW p \in Sessions
             PROVE  Cardinality(Spawn(p)') + Cardinality(Pending(p)')
                      <= MaxChildren - 1 + Cardinality(Calls)
  BY DEF FanOut
<1>1. IsFiniteSet(Spawn(p)) /\ IsFiniteSet(Pending(p)) /\ Cardinality(Calls) \in Nat
      /\ Cardinality(Spawn(p)) \in Nat /\ Cardinality(Pending(p)) \in Nat
  BY Counts
<1>2. /\ Cardinality(Spawn(p)') <= Cardinality(Spawn(p))
      /\ Cardinality(Pending(p)') <= Cardinality(Pending(p))
      /\ Cardinality(Spawn(p)') \in Nat /\ Cardinality(Pending(p)') \in Nat
  BY <1>1, FS_Subset, FS_CardinalityType
<1>3. Cardinality(Spawn(p)) + Cardinality(Pending(p)) <= MaxChildren - 1 + Cardinality(Calls)
  BY DEF FanOut
<1> QED BY <1>1, <1>2, <1>3, SpawnsAssumption

-----------------------------------------------------------------------------
(* Types *)

LEMMA TypeCalls ==
  ASSUME TypeOK, CallersAreRoots, NEW k \in Calls,
         \/ Goes(k) \/ (\E p \in Sessions : Guards(k, p)) \/ (\E c \in Children : Create(k, c))
  PROVE  TypeOK'
<1> USE SpawnsAssumption DEF TypeOK, tree, call, work, report, Goto, Returns
<1>1. CASE \E p \in Sessions : Guards(k, p)
  BY <1>1 DEF Guards
<1>2. CASE \E c \in Children : Create(k, c)
  <2> PICK c \in Children : Create(k, c)
    BY <1>2
  <2>1. by[k] \in Sessions
    BY DEF Create, CallersAreRoots, Sessions
  <2>2. c \in Sessions
    BY DEF Sessions
  <2> QED BY <2>1, <2>2 DEF Create
<1>3. CASE ParentRow(k) \/ CreateFails(k) \/ WaitEnds(k)
  BY <1>3 DEF ParentRow, CreateFails, WaitEnds
<1>4. CASE DispatchFails(k)
  BY <1>4 DEF DispatchFails, CallersAreRoots, Tells
<1>5. CASE WaitReads(k)
  BY <1>5 DEF WaitReads, CallersAreRoots, Tells
<1>6. CASE \E wait \in BOOLEAN : Dispatch(k, wait)
  BY <1>6 DEF Dispatch, CallersAreRoots, Tells
<1> QED BY <1>1, <1>2, <1>3, <1>4, <1>5, <1>6 DEF Goes

LEMMA TypeWork ==
  ASSUME TypeOK, NEW c \in Children, Works(c) \/ UserSends(c)
  PROVE  TypeOK'
<1> USE SpawnsAssumption DEF TypeOK, tree, call, work, report
<1>1. CASE Flush(c) \/ TurnOver(c) \/ SaveReply(c)
  BY <1>1 DEF Flush, TurnOver, SaveReply
<1>2. CASE \E output \in BOOLEAN : TurnCloses(c, output)
  BY <1>2 DEF TurnCloses
<1>3. CASE UserSends(c)
  BY <1>3 DEF UserSends, Event
<1>4. CASE ReporterStep(c)
  <2> USE DEF RepGoto, Mails, Composed
  <2>1. /\ UNCHANGED <<tree, call, work, events>>
        /\ \E step \in {"again", "grace", "test", "still", "result", "empty", "mute", "dropped", "done"} :
             rep' = [rep EXCEPT ![c] = step]
    BY <1>4 DEF ReporterStep, RepExpires, RepSeesIdle, RepReads, RepComposes, OverBudget, RepInserts, RepDrops
  <2>2. got' \in [Children -> BOOLEAN]
    <3>1. HasRow(c) \in BOOLEAN
      BY DEF HasRow
    <3> QED BY <1>4, <3>1 DEF ReporterStep, RepExpires, RepSeesIdle, RepReads, RepComposes,
          OverBudget, RepInserts, RepDrops
  <2>3. mailed' \in [Children -> Mails]
    BY <1>4 DEF ReporterStep, RepExpires, RepSeesIdle, RepReads, RepComposes, OverBudget, RepInserts, RepDrops
  <2>4. rep' \in [Children -> {"off", "poll", "again", "grace", "test", "still", "result", "empty",
                            "done", "mute", "dropped", "lost"}]
    BY <2>1
  <2> HIDE DEF Mails
  <2> QED BY <2>1, <2>2, <2>3, <2>4
<1> QED BY <1>1, <1>2, <1>3, <1>4 DEF Works

LEMMA TypeEvents ==
  ASSUME TypeOK, (\E s \in Sessions : Delete(s)) \/ DayPasses \/ Restart
  PROVE  TypeOK'
<1> USE SpawnsAssumption DEF TypeOK, tree, call, work, report, Event
<1>1. CASE \E s \in Sessions : Delete(s)
  BY <1>1 DEF Delete
<1>2. CASE DayPasses
  BY <1>2 DEF DayPasses
<1>3. CASE Restart
  BY <1>3 DEF Restart
<1> QED BY <1>1, <1>2, <1>3

-----------------------------------------------------------------------------
(* The tree *)

LEMMA GuardsStep ==
  ASSUME TreeInv, TypeOK', NEW k \in Calls, NEW p \in Sessions, Guards(k, p)
  PROVE  TreeInv'
<1> USE DEF TreeInv, Guards
<1>1. /\ UNCHANGED <<exists, origin, active, today, child>>
      /\ pc' = [pc EXCEPT ![k] = "parent"] /\ by' = [by EXCEPT ![k] = p]
  BY DEF tree
<1>2. CallersAreRoots'
  BY <1>1 DEF TypeOK, CallersAreRoots, Spawned, Sessions
<1>3. TodayIsActive' /\ TreeBounded'
  BY <1>1 DEF TodayIsActive, TreeBounded
<1>4. FanOut'
  <2> SUFFICES ASSUME NEW q \in Sessions
               PROVE  Cardinality(Spawn(q)') + Cardinality(Pending(q)')
                        <= MaxChildren - 1 + Cardinality(Calls)
    BY DEF FanOut
  <2>1. Spawn(q)' = Spawn(q)
    BY <1>1 DEF Spawn
  <2>2. CASE q = p
    <3> DEFINE A == {c \in active : origin[c] = p}
    <3>1. IsFiniteSet(A) /\ Cardinality(A) \in Nat
      BY SpawnsAssumption, FS_Subset, FS_CardinalityType DEF TypeOK
    <3>2. Cardinality(A) < MaxChildren
      BY <3>1, SpawnsAssumption DEF CapsReached
    <3>3. Spawn(q) \subseteq A
      BY <2>2 DEF Spawn, TodayIsActive
    <3>4. Cardinality(Spawn(q)) <= Cardinality(A)
      BY <3>1, <3>3, FS_Subset
    <3>5. /\ Cardinality(Pending(q)') <= Cardinality(Calls)
          /\ Cardinality(Pending(q)') \in Nat /\ Cardinality(Calls) \in Nat
      <4>1. Pending(q)' \subseteq Calls
        BY DEF Pending
      <4> QED BY <4>1, SpawnsAssumption, FS_Subset, FS_CardinalityType
    <3>6. Cardinality(Spawn(q)) \in Nat
      BY Counts
    <3> HIDE DEF A
    <3> QED BY <2>1, <3>1, <3>2, <3>4, <3>5, <3>6, SpawnsAssumption
  <2>3. CASE q # p
    <3>1. Pending(q)' = Pending(q)
      BY <1>1, <2>3 DEF Pending, TypeOK
    <3> QED BY <2>1, <3>1 DEF FanOut
  <2> QED BY <2>2, <2>3
<1> QED BY <1>2, <1>3, <1>4

LEMMA CreateStep ==
  ASSUME TreeInv, TypeOK', NEW k \in Calls, NEW c \in Children, Create(k, c)
  PROVE  TreeInv'
<1> USE DEF TreeInv, Create
<1>1. by[k] \in Roots /\ by[k] \in Sessions /\ by[k] # None /\ pc[k] = "create"
  BY SpawnsAssumption DEF CallersAreRoots, Sessions
<1>2. CallersAreRoots'
  BY <1>1, SpawnsAssumption DEF TypeOK, CallersAreRoots
<1>3. TodayIsActive' /\ TreeBounded'
  BY <1>1 DEF TypeOK, TodayIsActive, TreeBounded
<1>4. FanOut'
  <2> SUFFICES ASSUME NEW q \in Sessions
               PROVE  Cardinality(Spawn(q)') + Cardinality(Pending(q)')
                        <= MaxChildren - 1 + Cardinality(Calls)
    BY DEF FanOut
  <2>0. q # None
    BY SpawnsAssumption
  <2>1. CASE q = by[k]
    <3>1. Spawn(q)' = Spawn(q) \union {c} /\ c \notin Spawn(q)
      BY <2>0, <2>1 DEF TypeOK, Spawn
    <3>2. Pending(q)' = Pending(q) \ {k} /\ k \in Pending(q)
      BY <1>1, <2>1 DEF TypeOK, Pending
    <3>3. Cardinality(Spawn(q)') = Cardinality(Spawn(q)) + 1
      BY <3>1, Counts, FS_AddElement
    <3>4. Cardinality(Pending(q)') = Cardinality(Pending(q)) - 1
      BY <3>2, Counts, FS_RemoveElement
    <3> QED BY <3>3, <3>4, Counts, SpawnsAssumption DEF FanOut
  <2>2. CASE q # by[k]
    <3>1. Spawn(q)' = Spawn(q)
      BY <2>0, <2>2 DEF TypeOK, Spawn
    <3>2. Pending(q)' = Pending(q)
      BY <2>2 DEF TypeOK, Pending
    <3> QED BY <3>1, <3>2 DEF FanOut
  <2> QED BY <2>1, <2>2
<1> QED BY <1>2, <1>3, <1>4

LEMMA GoesStep ==
  ASSUME TreeInv, TypeOK', NEW k \in Calls, Goes(k)
  PROVE  TreeInv'
<1> USE DEF TreeInv
<1>1. /\ UNCHANGED <<exists, origin, active, today>>
      /\ \A j \in Calls \ {k} : pc'[j] = pc[j] /\ by'[j] = by[j] /\ child'[j] = child[j]
      /\ \/ pc'[k] = "idle"
         \/ /\ by'[k] = by[k] /\ child'[k] = child[k]
            /\ \/ pc[k] = "parent" /\ pc'[k] = "create" /\ by[k] \in exists
               \/ pc[k] \in {"dispatch", "wait"} /\ pc'[k] \in {"wait", "read"}
  BY DEF Goes, ParentRow, CreateFails, DispatchFails, WaitEnds, WaitReads, Dispatch, Goto, Returns,
     TypeOK, tree
<1>2. CallersAreRoots'
  BY <1>1 DEF CallersAreRoots
<1>3. TodayIsActive' /\ TreeBounded'
  BY <1>1 DEF TodayIsActive, TreeBounded
<1>4. FanOut'
  <2>1. \A p \in Sessions : Spawn(p)' \subseteq Spawn(p)
    BY <1>1 DEF Spawn
  <2>2. \A p \in Sessions : Pending(p)' \subseteq Pending(p)
    BY <1>1 DEF Pending
  <2> QED BY <2>1, <2>2, FanOutKept
<1> QED BY <1>2, <1>3, <1>4

LEMMA WorldStep ==
  ASSUME TreeInv, TypeOK',
         \/ \E c \in Children : Works(c) \/ UserSends(c)
         \/ \E s \in Sessions : Delete(s)
         \/ DayPasses \/ Restart
  PROVE  TreeInv'
<1> USE DEF TreeInv
<1>1. /\ origin' = origin /\ exists' \subseteq exists
      /\ \A k \in Calls : \/ pc'[k] = pc[k] /\ by'[k] = by[k] /\ child'[k] = child[k]
                          \/ pc'[k] = "idle"
  <2>1. ASSUME NEW c \in Children, Works(c) PROVE UNCHANGED <<tree, call>>
    BY <2>1 DEF Works, Flush, TurnOver, SaveReply, TurnCloses, ReporterStep, RepExpires,
       RepSeesIdle, RepReads, RepComposes, OverBudget, RepInserts, RepDrops
  <2>2. ASSUME NEW c \in Children, UserSends(c) PROVE UNCHANGED <<exists, origin, call>>
    BY <2>2 DEF UserSends
  <2>3. ASSUME NEW s \in Sessions, Delete(s)
        PROVE  exists' \subseteq exists /\ UNCHANGED <<origin, call>>
    BY <2>3 DEF Delete
  <2>4. CASE DayPasses
    BY <2>4 DEF DayPasses, call
  <2>5. CASE Restart
    BY <2>5 DEF Restart, tree
  <2> QED BY <2>1, <2>2, <2>3, <2>4, <2>5 DEF tree, call
<1>2. today' \subseteq today /\ TodayIsActive'
  <2>1. ASSUME NEW c \in Children, Works(c) PROVE UNCHANGED tree
    BY <2>1 DEF Works, Flush, TurnOver, SaveReply, TurnCloses, ReporterStep, RepExpires,
       RepSeesIdle, RepReads, RepComposes, OverBudget, RepInserts, RepDrops
  <2>2. CASE \E c \in Children : UserSends(c)
    BY <2>2 DEF UserSends, TodayIsActive
  <2>3. CASE \E s \in Sessions : Delete(s)
    BY <2>3 DEF Delete, TodayIsActive
  <2>4. CASE DayPasses \/ Restart
    BY <2>4 DEF DayPasses, Restart, TodayIsActive, tree
  <2> QED BY <2>1, <2>2, <2>3, <2>4 DEF tree, TodayIsActive
<1>3. CallersAreRoots'
  BY <1>1 DEF CallersAreRoots
<1>4. TreeBounded'
  BY <1>1 DEF TreeBounded
<1>5. FanOut'
  <2>1. \A p \in Sessions : Spawn(p)' \subseteq Spawn(p)
    BY <1>1, <1>2 DEF Spawn
  <2>2. \A p \in Sessions : Pending(p)' \subseteq Pending(p)
    BY <1>1 DEF Pending
  <2> QED BY <2>1, <2>2, FanOutKept
<1> QED BY <1>2, <1>3, <1>4, <1>5

-----------------------------------------------------------------------------
(* What is told of a child *)

\* A call that is under way for a child speaks of it once, and starts its
\* reporter when it promises a mail.
LEMMA GoesTells ==
  ASSUME TypeOK, OneCall, ResultToldOnce, NEW k \in Calls, Goes(k)
  PROVE  OneCall' /\ ResultToldOnce'
<1> USE DEF TypeOK
<1> DEFINE c == child[k]
           Quiet == UNCHANGED <<told, rep>>
           Ends(what) == /\ c \in Children /\ AtWork(k)
                         /\ told' = [told EXCEPT ![c] = what]
                         /\ rep' = IF what = "promised" THEN [rep EXCEPT ![c] = "poll"] ELSE rep
                         /\ pc'[k] = "idle"
<1>1. /\ UNCHANGED <<origin, mailed>>
      /\ \A j \in Calls \ {k} : pc'[j] = pc[j] /\ child'[j] = child[j]
      /\ pc'[k] \in {"wait", "read"} => AtWork(k) /\ child'[k] = child[k]
  BY DEF Goes, ParentRow, CreateFails, DispatchFails, WaitEnds, WaitReads, Dispatch, Goto, Returns,
     AtWork, tree, report
<1>2. pc'[k] # "dispatch"
  BY DEF Goes, ParentRow, CreateFails, DispatchFails, WaitEnds, WaitReads, Dispatch, Goto, Returns
<1>3. Quiet \/ Ends("failed") \/ Ends("finished") \/ Ends("promised")
  <2>1. CASE ParentRow(k) \/ CreateFails(k) \/ WaitEnds(k)
    BY <2>1 DEF ParentRow, CreateFails, WaitEnds, report
  <2>2. CASE DispatchFails(k)
    BY <2>2 DEF DispatchFails, Tells, Returns, OneCall, AtWork, report
  <2>3. CASE WaitReads(k)
    BY <2>3 DEF WaitReads, Tells, Returns, OneCall, AtWork
  <2>4. CASE \E wait \in BOOLEAN : Dispatch(k, wait)
    BY <2>4 DEF Dispatch, Tells, Returns, OneCall, AtWork
  <2> QED BY <2>1, <2>2, <2>3, <2>4 DEF Goes
<1>4. CASE Quiet
  <2>1. OneCall'
    BY <1>1, <1>2, <1>4 DEF OneCall, AtWork
  <2> QED BY <1>1, <1>4, <2>1 DEF ResultToldOnce
<1>5. ASSUME NEW what \in {"failed", "finished", "promised"}, Ends(what)
      PROVE  OneCall' /\ ResultToldOnce'
  <2>1. told[c] = "nothing" /\ origin[c] # None /\ rep[c] = "off" /\ mailed[c] = "none"
    BY <1>5 DEF OneCall, ResultToldOnce
  <2>2. OneCall'
    BY <1>1, <1>5, <2>1 DEF OneCall, AtWork
  <2>3. told'[c] = what /\ rep'[c] = IF what = "promised" THEN "poll" ELSE "off"
    BY <1>5, <2>1
  <2>4. ASSUME NEW d \in Children, d # c PROVE told'[d] = told[d] /\ rep'[d] = rep[d]
    BY <1>5, <2>4
  <2> HIDE DEF c, Ends
  <2> QED BY <1>1, <2>1, <2>2, <2>3, <2>4 DEF ResultToldOnce
<1> QED BY <1>3, <1>4, <1>5

\* A call that begins, or has made its child, has not spoken of it yet.
LEMMA CallTells ==
  ASSUME TypeOK, OneCall, ResultToldOnce, NEW k \in Calls,
         \/ \E p \in Sessions : Guards(k, p)
         \/ \E c \in Children : CallersAreRoots /\ Create(k, c)
  PROVE  OneCall' /\ ResultToldOnce'
<1> USE DEF TypeOK
<1>1. ResultToldOnce'
  BY DEF Guards, Create, ResultToldOnce, report
<1>2. CASE \E p \in Sessions : Guards(k, p)
  BY <1>1, <1>2 DEF Guards, OneCall, AtWork, tree
<1>3. CASE \E c \in Children : CallersAreRoots /\ Create(k, c)
  <2> PICK c \in Children : CallersAreRoots /\ Create(k, c)
    BY <1>3
  <2>1. by[k] # None
    BY SpawnsAssumption DEF CallersAreRoots, Create, Sessions
  <2>2. /\ origin' = [origin EXCEPT ![c] = by[k]] /\ origin[c] = None /\ UNCHANGED told
        /\ child' = [child EXCEPT ![k] = c] /\ pc' = [pc EXCEPT ![k] = "dispatch"]
    BY DEF Create
  <2>3. \A d \in Children : origin'[d] = None => origin[d] = None
    BY <2>2
  <2>4. \A j \in Calls \ {k} : AtWork(j) => child[j] # c
    BY <2>2 DEF OneCall
  <2>5. /\ \A j \in Calls \ {k} : (AtWork(j)' <=> AtWork(j)) /\ child'[j] = child[j]
        /\ child'[k] = c /\ origin'[c] # None /\ told'[c] = "nothing"
        /\ \A d \in Children : origin[d] # None => origin'[d] # None
    BY <2>1, <2>2 DEF OneCall, AtWork
  <2>6. OneCall'
    BY <2>2, <2>3, <2>4, <2>5 DEF OneCall
  <2> QED BY <1>1, <2>6
<1> QED BY <1>2, <1>3

\* A reporter mails once, and what else goes on tells nobody anything.
LEMMA WorldTells ==
  ASSUME TypeOK, OneCall, ResultToldOnce,
         \/ \E c \in Children : Works(c) \/ UserSends(c)
         \/ \E s \in Sessions : Delete(s)
         \/ DayPasses \/ Restart
  PROVE  OneCall' /\ ResultToldOnce'
<1> USE DEF TypeOK
<1>1. OneCall'
  <2>1. /\ UNCHANGED <<origin, told>>
        /\ UNCHANGED <<pc, child>> \/ \A k \in Calls : pc'[k] = "idle"
    BY DEF Works, Flush, TurnOver, SaveReply, TurnCloses, ReporterStep, RepExpires, RepSeesIdle,
       RepReads, RepComposes, OverBudget, RepInserts, RepDrops, UserSends, Delete, DayPasses, Restart,
       tree, call
  <2> QED BY <2>1 DEF OneCall, AtWork
<1>2. CASE UNCHANGED <<told, rep, mailed>>
  BY <1>1, <1>2 DEF ResultToldOnce
<1>3. ASSUME NEW c \in Children, ReporterStep(c) PROVE ResultToldOnce'
  <2>1. told' = told /\ rep[c] \notin {"off", "done"}
    BY <1>3 DEF ReporterStep, RepExpires, RepSeesIdle, RepReads, RepComposes, OverBudget,
       RepInserts, RepDrops, Composed, call
  <2>2. mailed[c] = "none" /\ told[c] = "promised"
    BY <2>1 DEF ResultToldOnce
  <2>3. CASE RepInserts(c)
    <3>1. rep' = [rep EXCEPT ![c] = "done"] /\ mailed' = [mailed EXCEPT ![c] = rep[c]]
          /\ rep[c] # "none"
      BY <2>3 DEF RepInserts, RepGoto, Composed
    <3> QED BY <2>1, <2>2, <3>1 DEF ResultToldOnce
  <2>4. CASE ~ RepInserts(c)
    <3>1. mailed' = mailed
      BY <1>3, <2>4 DEF ReporterStep, RepExpires, RepSeesIdle, RepReads, RepComposes, OverBudget, RepDrops
    <3>2. PICK step : rep' = [rep EXCEPT ![c] = step] /\ step \notin {"off", "done"}
      BY <1>3, <2>4 DEF ReporterStep, RepExpires, RepSeesIdle, RepReads, RepComposes, OverBudget,
         RepDrops, RepGoto
    <3> QED BY <2>1, <2>2, <3>1, <3>2 DEF ResultToldOnce
  <2> QED BY <2>3, <2>4
<1>4. CASE Restart
  BY <1>1, <1>4 DEF Restart, ResultToldOnce
<1>5. (\E c \in Children : ReporterStep(c)) \/ Restart \/ UNCHANGED <<told, rep, mailed>>
  BY DEF Works, Flush, TurnOver, SaveReply, TurnCloses, UserSends, Delete, DayPasses, call, report
<1> QED BY <1>1, <1>2, <1>3, <1>4, <1>5

-----------------------------------------------------------------------------
THEOREM SpawnsInvariant == Spec => []SpawnsInv
<1>1. SpawnsInv /\ [Next]_vars => SpawnsInv'
  <2> SUFFICES ASSUME SpawnsInv, [Next]_vars PROVE SpawnsInv'
    OBVIOUS
  <2>0. TreeInv /\ TypeOK /\ CallersAreRoots /\ OneCall /\ ResultToldOnce
    BY DEF SpawnsInv, TreeInv
  <2>1. ASSUME NEW k \in Calls, NEW p \in Sessions, Guards(k, p) PROVE SpawnsInv'
    BY <2>0, <2>1, TypeCalls, GuardsStep, CallTells DEF SpawnsInv
  <2>2. ASSUME NEW k \in Calls, NEW c \in Children, Create(k, c) PROVE SpawnsInv'
    BY <2>0, <2>2, TypeCalls, CreateStep, CallTells DEF SpawnsInv
  <2>3. ASSUME NEW k \in Calls, Goes(k) PROVE SpawnsInv'
    BY <2>0, <2>3, TypeCalls, GoesStep, GoesTells DEF SpawnsInv
  <2>4. ASSUME NEW c \in Children, Works(c) \/ UserSends(c) PROVE SpawnsInv'
    BY <2>0, <2>4, TypeWork, WorldStep, WorldTells DEF SpawnsInv
  <2>5. CASE (\E s \in Sessions : Delete(s)) \/ DayPasses \/ Restart
    BY <2>0, <2>5, TypeEvents, WorldStep, WorldTells DEF SpawnsInv
  <2>6. CASE UNCHANGED vars
    BY <2>6 DEF SpawnsInv, TreeInv, OneCall, AtWork, ResultToldOnce, vars, tree, call, work, report, TypeOK, CallersAreRoots,
       TodayIsActive, TreeBounded, FanOut, Spawn, Pending
  <2> QED BY <2>1, <2>2, <2>3, <2>4, <2>5, <2>6, NextCases
<1> QED BY <1>1, InitInv, PTL DEF Spec

\* Every variable of the spawns keeps its type.
THEOREM TypeCorrect == Spec => []TypeOK
<1>1. SpawnsInv => TypeOK
  BY DEF SpawnsInv, TreeInv
<1> QED BY <1>1, SpawnsInvariant, PTL

\* The cap on a parent's children is passed by concurrent calls at most.
THEOREM FanOutHolds == Spec => []FanOutBounded
<1>1. SpawnsInv => FanOutBounded
  BY DEF SpawnsInv, TreeInv, FanOut, FanOutBounded, Spawn
<1> QED BY <1>1, SpawnsInvariant, PTL

\* A parent hears of a child's result once: from the call that made the child
\* or by one mail of the reporter, and a promised mail has its reporter.
THEOREM ToldOnce == Spec => []ResultToldOnce
<1>1. SpawnsInv => ResultToldOnce
  BY DEF SpawnsInv
<1> QED BY <1>1, SpawnsInvariant, PTL
=============================================================================
