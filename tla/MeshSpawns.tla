----------------------------- MODULE MeshSpawns -----------------------------
(***************************************************************************)
(* The spawn_session tool (session_fabric/mod.rs) and the reporter that    *)
(* mails a child's result back to its parent.  A session may make several  *)
(* calls at once.  A step is one hold of the database lock or one test of  *)
(* a busy flag.  A child's first turn works on the task; its user may then *)
(* send more.  A harness keeps a partial row of a running turn in the      *)
(* transcript, deletes it as the turn ends, and inserts the reply after    *)
(* the busy flag is down; the built-in engine inserts it before.           *)
(***************************************************************************)
EXTENDS Integers, FiniteSets

CONSTANTS
  Roots,        \* sessions people made
  Children,     \* bound: the sessions that may be spawned
  Harness,      \* the children that run on a CLI harness
  Calls,        \* bound: calls of spawn_session under way at once
  None,
  MaxChildren,  \* MAX_CHILDREN_PER_PARENT
  MaxActive,    \* MAX_ACTIVE_SPAWNED
  MaxEvents     \* bound: days that pass, messages of users to children,
                \* deletions and exits of the process, together

Sessions == Roots \union Children

ASSUME SpawnsAssumption ==
  /\ Roots \intersect Children = {} /\ None \notin Sessions
  /\ IsFiniteSet(Children) /\ IsFiniteSet(Calls)
  /\ Harness \subseteq Children
  /\ MaxChildren \in Nat \ {0} /\ MaxActive \in Nat \ {0}
  /\ MaxEvents \in Nat

VARIABLES
  exists,    \* the sessions in the table
  origin,    \* who spawned a child
  active,    \* children active within CHILDREN_WINDOW_SECS
  today,     \* history: children created since the last day passed
  pc,        \* where a call is
  by,        \* who made it
  child,     \* what it created
  told,      \* what a call returned of a child
  turn,      \* "running", "closing" (reply decided, still busy) or "none"
  partial,   \* children with a partial row
  final,     \* children with an assistant row that stays
  unsaved,   \* harness children whose reply is not inserted yet
  rep,       \* the reporter of a child
  got,       \* the result it has read
  mailed,    \* what it has mailed to the parent
  events

tree == <<exists, origin, active, today>>
call == <<pc, by, child, told>>
work == <<turn, partial, final, unsaved>>
report == <<rep, got, mailed>>

vars == <<tree, call, work, report, events>>

Mails == {"none", "result", "empty", "still"}

TypeOK ==
  /\ exists \subseteq Sessions
  /\ origin \in [Children -> Sessions \union {None}]
  /\ \A set \in {active, today, partial, final} : set \subseteq Children
  /\ unsaved \subseteq Harness
  /\ pc \in [Calls -> {"idle", "parent", "create", "dispatch", "wait", "read"}]
  /\ by \in [Calls -> Sessions \union {None}]
  /\ child \in [Calls -> Children \union {None}]
  /\ told \in [Children -> {"nothing", "promised", "finished", "failed"}]
  /\ turn \in [Children -> {"none", "running", "closing"}]
  /\ rep \in [Children -> {"off", "poll", "again", "grace", "test",
                           "still", "result", "empty", "done", "mute", "dropped", "lost"}]
  /\ got \in [Children -> BOOLEAN]
  /\ mailed \in [Children -> Mails]
  /\ events \in 0..MaxEvents

Init ==
  /\ exists = Roots /\ active = {} /\ today = {}
  /\ origin = [c \in Children |-> None]
  /\ pc = [k \in Calls |-> "idle"]
  /\ by = [k \in Calls |-> None]
  /\ child = [k \in Calls |-> None]
  /\ told = [c \in Children |-> "nothing"]
  /\ turn = [c \in Children |-> "none"]
  /\ partial = {} /\ final = {} /\ unsaved = {}
  /\ rep = [c \in Children |-> "off"]
  /\ got = [c \in Children |-> FALSE]
  /\ mailed = [c \in Children |-> "none"]
  /\ events = 0

-----------------------------------------------------------------------------
(* The calls *)

Busy(c) == turn[c] # "none"

Goto(k, step) == pc' = [pc EXCEPT ![k] = step] /\ UNCHANGED <<by, child>>

Returns(k) ==
  /\ pc' = [pc EXCEPT ![k] = "idle"]
  /\ by' = [by EXCEPT ![k] = None]
  /\ child' = [child EXCEPT ![k] = None]

\* The test is depth + 1 >= MAX_SPAWN_DEPTH, which is 2: a session whose
\* spawn_depth is 1 is refused.  An id that is not in the table counts as a root.
Spawned(s) == s \in Children /\ s \in exists

\* Fault: one too many.
CapsReached_gt(p) ==
  \/ Cardinality({c \in active : origin[c] = p}) > MaxChildren
  \/ Cardinality(active) > MaxActive

\* count_recent_spawned_children and count_active_spawned.
CapsReached(p) ==
  \/ Cardinality({c \in active : origin[c] = p}) >= MaxChildren
  \/ Cardinality(active) >= MaxActive

\* A refused call is over at once; the caller is a session, or was one.
Guards(k, p) ==
  /\ pc[k] = "idle"
  /\ p \in Children => origin[p] # None
  /\ ~Spawned(p) /\ ~CapsReached(p)
  /\ by' = [by EXCEPT ![k] = p]
  /\ pc' = [pc EXCEPT ![k] = "parent"]
  /\ UNCHANGED <<child, told, tree, work, report, events>>

\* get_chat_session; the parent may have been deleted since.
ParentRow(k) ==
  /\ pc[k] = "parent"
  /\ IF by[k] \in exists THEN Goto(k, "create") ELSE Returns(k)
  /\ UNCHANGED <<told, tree, work, report, events>>

\* No room for the definition, or no row.
CreateFails(k) ==
  /\ pc[k] = "create"
  /\ Returns(k)
  /\ UNCHANGED <<told, tree, work, report, events>>

\* The row and its origin, under one hold of the lock; ids are never reused.
Create(k, c) ==
  /\ pc[k] = "create" /\ origin[c] = None
  /\ exists' = exists \union {c}
  /\ origin' = [origin EXCEPT ![c] = by[k]]
  /\ active' = active \union {c}
  /\ today' = today \union {c}
  /\ child' = [child EXCEPT ![k] = c]
  /\ pc' = [pc EXCEPT ![k] = "dispatch"]
  /\ UNCHANGED <<by, told, work, report, events>>

Tells(c, what) == told' = [told EXCEPT ![c] = what]

\* run_turn fails, as it does for a child that was deleted.
DispatchFails(k) ==
  /\ pc[k] = "dispatch"
  /\ Tells(child[k], "failed")
  /\ Returns(k)
  /\ UNCHANGED <<tree, work, report, events>>

\* The first turn runs, over one the child's user has begun, too; without mode
\* "wait" its result is promised by mail.
Dispatch(k, wait) ==
  LET c == child[k] IN
  /\ pc[k] = "dispatch" /\ c \in exists
  /\ turn' = [turn EXCEPT ![c] = "running"]
  /\ \/ wait /\ Goto(k, "wait") /\ UNCHANGED <<told, rep>>
     \/ /\ ~wait
        /\ Returns(k) /\ Tells(c, "promised")
        /\ rep' = [rep EXCEPT ![c] = "poll"]
  /\ UNCHANGED <<tree, partial, final, unsaved, got, mailed, events>>

\* The child is idle, or QUESTION_TIMEOUT_MAX has passed.
WaitEnds(k) ==
  /\ pc[k] = "wait"
  /\ Goto(k, "read")
  /\ UNCHANGED <<told, tree, work, report, events>>

\* last_assistant_message_after: any row will do.
HasRow(c) == c \in partial \union final

\* Fault: the reporter starts after a result that is returned, too.
WaitReads_falls(k) ==
  LET c == child[k] IN
  /\ pc[k] = "read"
  /\ Returns(k)
  /\ Tells(c, IF HasRow(c) THEN "finished" ELSE "promised")
  /\ rep' = [rep EXCEPT ![c] = "poll"]
  /\ UNCHANGED <<tree, work, got, mailed, events>>

WaitReads(k) ==
  LET c == child[k] IN
  /\ pc[k] = "read"
  /\ Returns(k)
  /\ IF HasRow(c)
     THEN Tells(c, "finished") /\ UNCHANGED rep
     ELSE Tells(c, "promised") /\ rep' = [rep EXCEPT ![c] = "poll"]
  /\ UNCHANGED <<tree, work, got, mailed, events>>

-----------------------------------------------------------------------------
(* The children *)

\* PartialFlush, on a harness.
Flush(c) ==
  /\ turn[c] = "running" /\ c \in Harness
  /\ partial' = partial \union {c}
  /\ UNCHANGED <<turn, final, unsaved, tree, call, report, events>>

\* The reply of a harness is yet to be saved, that of the built-in engine is.
TurnCloses(c, output) ==
  /\ turn[c] = "running"
  /\ turn' = [turn EXCEPT ![c] = "closing"]
  /\ partial' = partial \ {c}
  /\ IF c \in Harness
     THEN /\ unsaved' = IF output THEN unsaved \union {c} ELSE unsaved
          /\ UNCHANGED final
     ELSE /\ final' = IF output THEN final \union {c} ELSE final
          /\ UNCHANGED unsaved
  /\ UNCHANGED <<tree, call, report, events>>

TurnOver(c) ==
  /\ turn[c] = "closing"
  /\ turn' = [turn EXCEPT ![c] = "none"]
  /\ UNCHANGED <<partial, final, unsaved, tree, call, report, events>>

SaveReply(c) ==
  /\ turn[c] # "closing" /\ c \in unsaved
  /\ final' = final \union {c}
  /\ unsaved' = unsaved \ {c}
  /\ UNCHANGED <<turn, partial, tree, call, report, events>>

Event == events < MaxEvents /\ events' = events + 1

UserSends(c) ==
  /\ Event
  /\ c \in exists /\ turn[c] = "none"
  /\ turn' = [turn EXCEPT ![c] = "running"]
  /\ active' = active \union {c}
  /\ UNCHANGED <<exists, origin, today, partial, final, unsaved, call, report>>

\* delete_chat_session ends the session's turn; calls and reporters go on.
Delete(s) ==
  /\ Event
  /\ s \in exists
  /\ exists' = exists \ {s}
  /\ active' = active \ {s}
  /\ turn' = [c \in Children |-> IF c = s THEN "none" ELSE turn[c]]
  /\ partial' = partial \ {s} /\ final' = final \ {s} /\ unsaved' = unsaved \ {s}
  /\ UNCHANGED <<origin, today, call, report>>

-----------------------------------------------------------------------------
(* spawn_spawn_result_reporter *)

RepGoto(c, step) == rep' = [rep EXCEPT ![c] = step]

\* Fault: every expiry of a busy child arms the reporter again.
RepExpires_forever(c) ==
  /\ rep[c] \in {"poll", "again"}
  /\ RepGoto(c, IF Busy(c) THEN "again" ELSE "grace")
  /\ UNCHANGED <<got, mailed, tree, call, work, events>>

\* WATCHER_CEILING_SECS are over, for the first or the second time.
RepExpires(c) ==
  /\ rep[c] \in {"poll", "again"}
  /\ RepGoto(c, IF rep[c] = "poll" /\ Busy(c) THEN "again" ELSE "grace")
  /\ UNCHANGED <<got, mailed, tree, call, work, events>>

RepSeesIdle(c) ==
  /\ rep[c] \in {"poll", "again"} /\ ~Busy(c)
  /\ RepGoto(c, "grace")
  /\ UNCHANGED <<got, mailed, tree, call, work, events>>

\* After 600 ms.
RepReads(c) ==
  /\ rep[c] = "grace"
  /\ got' = [got EXCEPT ![c] = HasRow(c)]
  /\ RepGoto(c, "test")
  /\ UNCHANGED <<mailed, tree, call, work, events>>

RepComposes(c) ==
  /\ rep[c] = "test"
  /\ RepGoto(c, IF Busy(c) THEN "still" ELSE IF got[c] THEN "result" ELSE "empty")
  /\ got' = [got EXCEPT ![c] = FALSE]
  /\ UNCHANGED <<mailed, tree, call, work, events>>

Composed(c) == rep[c] \in {"still", "result", "empty"}

\* MAX_MAIL_PER_HOUR, which the child may have spent on messages of its own.
OverBudget(c) ==
  /\ Composed(c)
  /\ RepGoto(c, "mute")
  /\ UNCHANGED <<got, mailed, tree, call, work, events>>

\* A mail refers to the sessions of both its ends.
EndsExist(c) == c \in exists /\ origin[c] \in exists

\* The budget's count is stale by the time of the insert.
RepInserts(c) ==
  /\ Composed(c) /\ EndsExist(c)
  /\ mailed' = [mailed EXCEPT ![c] = rep[c]]
  /\ RepGoto(c, "done")
  /\ UNCHANGED <<got, tree, call, work, events>>

\* The insert breaks a foreign key; its error is dropped, and the mail with it.
RepDrops(c) ==
  /\ Composed(c) /\ ~EndsExist(c)
  /\ RepGoto(c, "dropped")
  /\ UNCHANGED <<got, mailed, tree, call, work, events>>

-----------------------------------------------------------------------------
(* The world *)

DayPasses ==
  /\ Event
  /\ active' = {} /\ today' = {}
  /\ UNCHANGED <<exists, origin, call, work, report>>

\* Calls, turns and reporters die with the process; partial rows stay.
Restart ==
  /\ Event
  /\ pc' = [k \in Calls |-> "idle"]
  /\ by' = [k \in Calls |-> None]
  /\ child' = [k \in Calls |-> None]
  /\ turn' = [c \in Children |-> "none"]
  /\ unsaved' = {}
  /\ final' = final \union partial /\ partial' = {}
  /\ rep' = [c \in Children |->
               IF rep[c] \in {"off", "done", "mute", "dropped"} THEN rep[c] ELSE "lost"]
  /\ UNCHANGED <<told, tree, got, mailed>>

-----------------------------------------------------------------------------
CallStep(k) ==
  \/ \E p \in Sessions : Guards(k, p)
  \/ ParentRow(k) \/ CreateFails(k) \/ DispatchFails(k) \/ WaitEnds(k) \/ WaitReads(k)
  \/ \E c \in Children : Create(k, c)
  \/ \E wait \in BOOLEAN : Dispatch(k, wait)

ChildStep(c) ==
  \/ Flush(c) \/ TurnOver(c) \/ SaveReply(c) \/ UserSends(c)
  \/ \E output \in BOOLEAN : TurnCloses(c, output)

ReporterStep(c) ==
  \/ RepExpires(c) \/ RepSeesIdle(c) \/ RepReads(c) \/ RepComposes(c)
  \/ OverBudget(c) \/ RepInserts(c) \/ RepDrops(c)

Next ==
  \/ \E k \in Calls : CallStep(k)
  \/ \E c \in Children : ChildStep(c) \/ ReporterStep(c)
  \/ \E s \in Sessions : Delete(s)
  \/ DayPasses \/ Restart

Spec == Init /\ [][Next]_vars

FairSpec == Spec /\ \A c \in Children : WF_vars(ReporterStep(c))

-----------------------------------------------------------------------------
(* Properties *)

Pending(p) == {k \in Calls : pc[k] \in {"parent", "create"} /\ by[k] = p}

\* Calls count the children long before they create one.  What a parent has
\* spawned since the day began passes its cap only by the calls that were
\* under way together, calls that have yet to create theirs included.
FanOutBounded ==
  \A p \in Sessions :
    Cardinality({c \in today \intersect exists : origin[c] = p}) + Cardinality(Pending(p))
      <= MaxChildren - 1 + Cardinality(Calls)

\* A child's result is told once: a reporter works for the children whose
\* parents were promised a mail and for no other, whatever the call that
\* made the child had already returned, and after its mail it stops.
ResultToldOnce ==
  \A c \in Children :
    /\ told[c] = "promised" <=> rep[c] # "off"
    /\ mailed[c] # "none" <=> rep[c] = "done"

\* A parent that was promised a result by mail gets a mail about it, however
\* long the child works, unless the child had spent its mail budget, one of the
\* two was deleted before the mail was inserted, or the process exited.
PromiseKept ==
  \A c \in Children :
    told[c] = "promised" ~> \/ mailed[c] # "none"
                            \/ rep[c] \in {"mute", "lost"}
                            \/ ~EndsExist(c)

-----------------------------------------------------------------------------
(* What the code says of itself and does not do *)

\* "Finished its first turn" is said of a turn that is over, and "ended its
\* task turn without producing output" of a child that has produced none.
TruthTold ==
  [][\A c \in Children :
       /\ told'[c] = "finished" /\ told[c] # "finished" => c \notin partial
       /\ rep'[c] = "empty" /\ rep[c] # "empty" => c \notin final \union unsaved]_vars
=============================================================================
