---------------------------- MODULE ChatStreams ----------------------------
(***************************************************************************)
(* The turns of one session of the built-in chat (chat/mod.rs,             *)
(* chat/dispatch.rs): each is an async task, of which the manager keeps an *)
(* abort handle, a late-attach slot, the approval card it waits at, the    *)
(* selection the user made on the card and the subagent it has started.    *)
(* Sends, cancels and the user's answers run on threads of their own, and  *)
(* lock each of the manager's maps by itself.                              *)
(***************************************************************************)
EXTENDS FiniteSets

CONSTANTS
  Turns,    \* bound: the sends; each starts a turn
  Cancels,  \* bound: the calls of cancel, from the UI, a phone or a delete
  None

ASSUME StreamsAssumption == Turns \cap Cancels = {} /\ None \notin Turns

Callers == Turns \union Cancels

VARIABLES
  pc,         \* where the sends and cancels are
  streams,    \* the turn whose abort handle is registered
  slot,       \* the turn whose late-attach slot is there
  pending,    \* turns with a card in the registry of approvals
  selection,  \* the turn on whose card the parked edit selection was made
  kids,       \* turns with a subagent in child_tasks
  task,       \* the task of each turn
  aborted,    \* turns whose task was told to abort
  answer,     \* what each turn's oneshot carries
  resolving,  \* what the user's answer to a turn's card still has to do
  child,      \* the subagent of each turn
  lost,       \* turns whose subagent runs and was told to abort
  overlapped  \* history: whether two sends overlapped

vars == <<pc, streams, slot, pending, selection, kids, task, aborted, answer,
          resolving, child, lost, overlapped>>

maps == <<streams, slot, pending, selection, kids>>

CallSteps == {"idle", "stream", "kids", "pending", "selection", "slot",
              "reset", "spawn", "insert", "done"}
TaskSteps == {"none", "net", "run", "card", "reg", "join", "tail", "clear", "over"}

TypeOK ==
  /\ pc \in [Callers -> CallSteps]
  /\ streams \in Turns \union {None}
  /\ slot \in Turns \union {None}
  /\ selection \in Turns \union {None}
  /\ \A set \in {pending, kids, aborted, lost} : set \subseteq Turns
  /\ task \in [Turns -> TaskSteps]
  /\ answer \in [Turns -> {"none", "all", "part", "deny"}]
  /\ resolving \in [Turns -> {"no", "all", "part", "parked", "deny"}]
  /\ child \in [Turns -> {"no", "live", "over", "reaped"}]
  /\ overlapped \in BOOLEAN

Init ==
  /\ pc = [c \in Callers |-> "idle"]
  /\ streams = None /\ slot = None /\ selection = None
  /\ pending = {} /\ kids = {} /\ aborted = {} /\ lost = {}
  /\ task = [t \in Turns |-> "none"]
  /\ answer = [t \in Turns |-> "none"]
  /\ resolving = [t \in Turns |-> "no"]
  /\ child = [t \in Turns |-> "no"]
  /\ overlapped = FALSE

-----------------------------------------------------------------------------
(* cancel, which is also how send begins *)

Goes(c, step) == pc' = [pc EXCEPT ![c] = step]

Begins(c) ==
  /\ pc[c] = "idle"
  /\ overlapped' = (overlapped \/ (c \in Turns /\ \E u \in Turns : pc[u] \notin {"idle", "done"}))
  /\ Goes(c, "stream")
  /\ UNCHANGED <<maps, task, aborted, answer, resolving, child, lost>>

DropStream(c) ==
  /\ pc[c] = "stream"
  /\ aborted' = aborted \union ({streams} \ {None})
  /\ streams' = None
  /\ Goes(c, "kids")
  /\ UNCHANGED <<slot, pending, selection, kids, task, answer, resolving, child,
                 lost, overlapped>>

AbortChildren(c) ==
  /\ pc[c] = "kids"
  /\ lost' = lost \union {t \in kids : child[t] = "live"}
  /\ kids' = {}
  /\ Goes(c, "pending")
  /\ UNCHANGED <<streams, slot, pending, selection, task, aborted, answer,
                 resolving, child, overlapped>>

\* A receiver that is gone is nothing to mind.
Sent(t, how) == IF task[t] = "card" /\ t \notin aborted THEN how ELSE "none"

\* Fault: the cards go, and their senders live on somewhere.
DropPending_keepsSender(c) ==
  /\ pc[c] = "pending"
  /\ pending' = {}
  /\ Goes(c, "selection")
  /\ UNCHANGED <<streams, slot, selection, kids, task, aborted, answer, resolving,
                 child, lost, overlapped>>

\* A card that goes takes its sender with it: whoever waits is denied.
DropPending(c) ==
  /\ pc[c] = "pending"
  /\ answer' = [t \in Turns |-> IF t \in pending THEN Sent(t, "deny") ELSE answer[t]]
  /\ pending' = {}
  /\ Goes(c, "selection")
  /\ UNCHANGED <<streams, slot, selection, kids, task, aborted, resolving, child,
                 lost, overlapped>>

DropSelection(c) ==
  /\ pc[c] = "selection"
  /\ selection' = None
  /\ Goes(c, "slot")
  /\ UNCHANGED <<streams, slot, pending, kids, task, aborted, answer, resolving,
                 child, lost, overlapped>>

DropSlot(c) ==
  /\ pc[c] = "slot"
  /\ slot' = None
  /\ Goes(c, IF c \in Turns THEN "reset" ELSE "done")
  /\ UNCHANGED <<streams, pending, selection, kids, task, aborted, answer,
                 resolving, child, lost, overlapped>>

-----------------------------------------------------------------------------
(* The rest of send *)

ResetSlot(t) ==
  /\ pc[t] = "reset"
  /\ slot' = t
  /\ Goes(t, "spawn")
  /\ UNCHANGED <<streams, pending, selection, kids, task, aborted, answer,
                 resolving, child, lost, overlapped>>

\* The task is there, and its handle not yet.
Spawn(t) ==
  /\ pc[t] = "spawn"
  /\ task' = [task EXCEPT ![t] = "net"]
  /\ Goes(t, "insert")
  /\ UNCHANGED <<maps, aborted, answer, resolving, child, lost, overlapped>>

\* Inserted unless it is finished; finished, whatever is registered goes.
Insert(t) ==
  /\ pc[t] = "insert"
  /\ streams' = IF task[t] = "over" THEN None ELSE t
  /\ Goes(t, "done")
  /\ UNCHANGED <<slot, pending, selection, kids, task, aborted, answer, resolving,
                 child, lost, overlapped>>

-----------------------------------------------------------------------------
(* The task of a turn: it runs from one await to the next *)

Steps(t, step) == task' = [task EXCEPT ![t] = step]

Wakes(t) ==
  /\ task[t] = "net" /\ t \notin aborted
  /\ Steps(t, "run")
  /\ UNCHANGED <<pc, maps, aborted, answer, resolving, child, lost, overlapped>>

Awaits(t) ==
  /\ task[t] = "run"
  /\ Steps(t, "net")
  /\ UNCHANGED <<pc, maps, aborted, answer, resolving, child, lost, overlapped>>

\* Fault: at its card the turn blocks its thread, where no abort reaches it.
Dropped_blocks(t) ==
  /\ task[t] \in {"net", "join"} /\ t \in aborted
  /\ Steps(t, "over")
  /\ UNCHANGED <<pc, maps, aborted, answer, resolving, child, lost, overlapped>>

\* An abort takes effect at an await, wherever that is.
Dropped(t) ==
  /\ task[t] \in {"net", "card", "join"} /\ t \in aborted
  /\ answer' = [answer EXCEPT ![t] = "none"]
  /\ Steps(t, "over")
  /\ UNCHANGED <<pc, maps, aborted, resolving, child, lost, overlapped>>

\* run_gated_fs_tool, for an edit to be confirmed.
ShowsCard(t) ==
  /\ task[t] = "run"
  /\ pending' = pending \union {t}
  /\ answer' = [answer EXCEPT ![t] = "none"]
  /\ Steps(t, "card")
  /\ UNCHANGED <<pc, streams, slot, selection, kids, aborted, resolving, child,
                 lost, overlapped>>

\* Whatever the answer, the parked selection is taken.
CardAnswered(t) ==
  /\ task[t] = "card" /\ answer[t] # "none" /\ t \notin aborted
  /\ selection' = None
  /\ answer' = [answer EXCEPT ![t] = "none"]
  /\ Steps(t, "run")
  /\ UNCHANGED <<pc, streams, slot, pending, kids, aborted, resolving, child, lost,
                 overlapped>>

\* spawn_run_tool: the subagent runs, then it is registered, then awaited.
SpawnsChild(t) ==
  /\ task[t] = "run" /\ child[t] = "no"
  /\ child' = [child EXCEPT ![t] = "live"]
  /\ Steps(t, "reg")
  /\ UNCHANGED <<pc, maps, aborted, answer, resolving, lost, overlapped>>

RegisterChild(t) ==
  /\ task[t] = "reg"
  /\ kids' = kids \union {t}
  /\ Steps(t, "join")
  /\ UNCHANGED <<pc, streams, slot, pending, selection, aborted, answer, resolving,
                 child, lost, overlapped>>

JoinEnds(t) ==
  /\ task[t] = "join" /\ child[t] = "reaped" /\ t \notin aborted
  /\ Steps(t, "run")
  /\ UNCHANGED <<pc, maps, aborted, answer, resolving, child, lost, overlapped>>

\* The reply or the error is out.
Ends(t) ==
  /\ task[t] = "run"
  /\ Steps(t, "tail")
  /\ UNCHANGED <<pc, maps, aborted, answer, resolving, child, lost, overlapped>>

\* Fault: whoever's handle is there goes.
RemoveStreamIfCurrent_any(t) ==
  /\ task[t] = "tail"
  /\ streams' = None
  /\ Steps(t, "clear")
  /\ UNCHANGED <<pc, slot, pending, selection, kids, aborted, answer, resolving,
                 child, lost, overlapped>>

RemoveStreamIfCurrent(t) ==
  /\ task[t] = "tail"
  /\ streams' = IF streams = t THEN None ELSE streams
  /\ Steps(t, "clear")
  /\ UNCHANGED <<pc, slot, pending, selection, kids, aborted, answer, resolving,
                 child, lost, overlapped>>

ClearLateAttach(t) ==
  /\ task[t] = "clear"
  /\ slot' = None
  /\ Steps(t, "over")
  /\ UNCHANGED <<pc, streams, pending, selection, kids, aborted, answer, resolving,
                 child, lost, overlapped>>

-----------------------------------------------------------------------------
(* Subagents, and the user's answers *)

\* It comes to its end, or an abort takes effect at one of its awaits.
ChildEnds(t) ==
  /\ child[t] = "live"
  /\ child' = [child EXCEPT ![t] = "over"]
  /\ lost' = lost \ {t}
  /\ UNCHANGED <<pc, maps, task, aborted, answer, resolving, overlapped>>

\* Fault: the whole list of the session goes.
Reap_all(t) ==
  /\ child[t] = "over" /\ task[t] # "reg"
  /\ child' = [child EXCEPT ![t] = "reaped"]
  /\ kids' = {}
  /\ UNCHANGED <<pc, streams, slot, pending, selection, task, aborted, answer,
                 resolving, lost, overlapped>>

\* The task that waits for it removes it by its own id.
Reap(t) ==
  /\ child[t] = "over" /\ task[t] # "reg"
  /\ child' = [child EXCEPT ![t] = "reaped"]
  /\ kids' = kids \ {t}
  /\ UNCHANGED <<pc, streams, slot, pending, selection, task, aborted, answer,
                 resolving, lost, overlapped>>

\* resolve_tool_action takes the card, parks a partial selection and sends.
UserAnswers(t, how) ==
  /\ t \in pending
  /\ pending' = pending \ {t}
  /\ resolving' = [resolving EXCEPT ![t] = how]
  /\ UNCHANGED <<pc, streams, slot, selection, kids, task, aborted, answer, child,
                 lost, overlapped>>

ParkSelection(t) ==
  /\ resolving[t] = "part"
  /\ selection' = t
  /\ resolving' = [resolving EXCEPT ![t] = "parked"]
  /\ UNCHANGED <<pc, streams, slot, pending, kids, task, aborted, answer, child,
                 lost, overlapped>>

SendAnswer(t) ==
  /\ resolving[t] \in {"all", "parked", "deny"}
  /\ answer' = [answer EXCEPT ![t] = Sent(t, IF resolving[t] = "parked" THEN "part" ELSE resolving[t])]
  /\ resolving' = [resolving EXCEPT ![t] = "no"]
  /\ UNCHANGED <<pc, maps, task, aborted, child, lost, overlapped>>

-----------------------------------------------------------------------------
CancelStep(c) == DropStream(c) \/ AbortChildren(c) \/ DropPending(c)
                 \/ DropSelection(c) \/ DropSlot(c)

SendStep(t) == ResetSlot(t) \/ Spawn(t) \/ Insert(t)

TaskStep(t) ==
  \/ Wakes(t) \/ Awaits(t) \/ Dropped(t) \/ ShowsCard(t) \/ CardAnswered(t)
  \/ SpawnsChild(t) \/ RegisterChild(t) \/ JoinEnds(t) \/ Ends(t)
  \/ RemoveStreamIfCurrent(t) \/ ClearLateAttach(t)

Next ==
  \/ \E c \in Callers : Begins(c) \/ CancelStep(c)
  \/ \E t \in Turns :
       \/ SendStep(t) \/ TaskStep(t) \/ ChildEnds(t) \/ Reap(t)
       \/ \E how \in {"all", "part", "deny"} : UserAnswers(t, how)
       \/ ParkSelection(t) \/ SendAnswer(t)

Spec == Init /\ [][Next]_vars

\* Tasks go on; nobody has to send, cancel or answer, and no subagent to end.
FairSpec == Spec /\ \A t \in Turns : WF_vars(TaskStep(t))

-----------------------------------------------------------------------------
(* Properties *)

Alive(t) == task[t] \notin {"none", "clear", "over"}

\* As long as sends do not overlap, a turn that runs and was not told to abort is
\* the registered one, or its send is just about to register it: so there is one
\* at a time, and the next cancel or send reaches it.
LiveIsRegistered ==
  ~overlapped =>
    \A t \in Turns : Alive(t) /\ t \notin aborted => streams = t \/ pc[t] = "insert"

\* A turn that waits at its card can still be answered: the card is there, or its
\* answer is on the way.
CardAnswerable ==
  \A t \in Turns :
    task[t] = "card" /\ t \notin aborted =>
      t \in pending \/ resolving[t] # "no" \/ answer[t] # "none"

\* A subagent that runs and was not told to abort is registered, or about to be:
\* the next cancel or send reaches it, whatever became of its turn.
ChildReachable ==
  \A t \in Turns :
    child[t] = "live" /\ t \notin lost => t \in kids \/ task[t] = "reg"

\* A turn that was told to abort comes to its end, wherever it waits.
AbortEnds == \A t \in Turns : t \in aborted ~> task[t] = "over"
=============================================================================
