-------------------------- MODULE BackgroundTasks --------------------------
(***************************************************************************)
(* The background tasks of the built-in chat (chat/tasks.rs): downloads,   *)
(* shells and subagents.  A task is an entry of the TaskManager's map,     *)
(* with a snapshot of its state and the sender of a oneshot by which       *)
(* cancel_task reaches the runner, an async task that owns the receiver.   *)
(* A runner's step goes from one await to the next; a tool call holds the  *)
(* lock of the map throughout and is one step.                             *)
(***************************************************************************)
EXTENDS Integers, Sequences, FiniteSets

CONSTANTS
  Tasks,       \* bound: the tasks that may be started
  Dests,       \* destination paths of downloads
  Dest,        \* the destination of each task
  Timed,       \* shells started with timeout_secs
  Retries,     \* DOWNLOAD_RETRIES
  Versions,    \* bound: versions of the remote file, 0..n
  Size,        \* the chunks of each version
  MaxPanics,   \* bound: runners that panic
  MaxHours     \* bound: the hours that pass

ASSUME TasksAssumption ==
  /\ Dest \in [Tasks -> Dests]
  /\ Timed \subseteq Tasks
  /\ Retries \in Nat
  /\ Versions \subseteq Nat /\ 0 \in Versions
  /\ Size \in [Versions -> Nat \ {0}]
  /\ MaxPanics \in Nat /\ MaxHours \in Nat

VARIABLES
  kind,       \* what each task is
  kept,       \* tasks in the map
  state,      \* the state in a task's snapshot
  sender,     \* tasks whose entry still holds the cancel sender
  sent,       \* tasks whose oneshot carries a cancel
  pc,         \* where the runner is
  attempt,    \* a download's attempt
  tag,        \* the ETag a download has seen, as the version it stands for
  body,       \* the version of the response a download is reading
  proc,       \* shells whose process lives
  part,       \* the .part files: the version each chunk is of
  file,       \* the destination files
  remote,     \* the version the server serves
  blind,      \* history: .part files resumed by a request without If-Range
  shared,     \* history: destinations two downloads worked at at once
  panicked,   \* history: runners that died without a terminal state
  old,        \* tasks created an hour ago or more
  hours

entries == <<kept, sender, sent>>
transfer == <<attempt, tag, body>>
disk == <<part, file, blind, shared>>
clock == <<old, hours>>

vars == <<kind, state, pc, proc, remote, panicked, entries, transfer, disk, clock>>

Kinds == {"download", "shell", "subagent"}

Terminal == {"completed", "failed", "cancelled"}

\* "gone" holds no receiver any more, nor does "erred".
Steps == {"unborn", "look", "request", "backoff", "body", "rename", "erred",
          "spawn", "run", "kill", "expire", "gone"}

TypeOK ==
  /\ \A set \in {kept, sender, sent, proc, panicked, old} : set \subseteq Tasks
  /\ blind \subseteq Dests /\ shared \subseteq Dests
  /\ kind \in [Tasks -> Kinds]
  /\ state \in [Tasks -> {"none", "running"} \union Terminal]
  /\ pc \in [Tasks -> Steps]
  /\ attempt \in [Tasks -> 0..Retries]
  /\ tag \in [Tasks -> Versions \union {-1}]
  /\ body \in [Tasks -> Versions]
  /\ part \in [Dests -> Seq(Versions)]
  /\ file \in [Dests -> Seq(Versions)]
  /\ remote \in Versions
  /\ hours \in 0..MaxHours

Init ==
  /\ kind \in [Tasks -> Kinds]
  /\ kept = {} /\ sender = {} /\ sent = {} /\ proc = {} /\ panicked = {}
  /\ old = {} /\ blind = {} /\ shared = {}
  /\ state = [t \in Tasks |-> "none"]
  /\ pc = [t \in Tasks |-> "unborn"]
  /\ attempt = [t \in Tasks |-> 0]
  /\ tag = [t \in Tasks |-> -1]
  /\ body = [t \in Tasks |-> 0]
  /\ part = [f \in Dests |-> << >>]
  /\ file = [f \in Dests |-> << >>]
  /\ remote = 0
  /\ hours = 0

Live(t) == pc[t] \notin {"unborn", "erred", "gone"}

-----------------------------------------------------------------------------
(* The tool calls *)

First(t) == CASE kind[t] = "download" -> "look"
              [] kind[t] = "shell"    -> "spawn"
              [] kind[t] = "subagent" -> "run"

\* Fault: whatever is older than the TTL goes.
Retained_byAge(t) == t \notin old

\* TERMINAL_TASK_TTL is counted from the creation of an entry.
Retained(t) == state[t] = "running" \/ t \notin old

Rival(t, u) ==
  t # u /\ kind[t] = "download" /\ kind[u] = "download" /\ Dest[u] = Dest[t]

\* What two downloads make of one .part and its file is not followed.
Unfollowed ==
  /\ part' = [f \in Dests |-> IF f \in shared' THEN << >> ELSE part[f]]
  /\ file' = [f \in Dests |-> IF f \in shared' THEN << >> ELSE file[f]]
  /\ blind' = blind \ shared'

\* register sweeps the map, then the sender is armed and the runner spawned;
\* nobody knows the id before.  Nothing keeps a second download off a destination.
Start(t) ==
  /\ pc[t] = "unborn"
  /\ kept' = {u \in kept : Retained(u)} \union {t}
  /\ sender' = sender \union {t}
  /\ state' = [state EXCEPT ![t] = "running"]
  /\ pc' = [pc EXCEPT ![t] = First(t)]
  /\ shared' = IF \E u \in Tasks : Rival(t, u) /\ Live(u) THEN shared \union {Dest[t]} ELSE shared
  /\ Unfollowed
  /\ UNCHANGED <<kind, sent, proc, remote, panicked, transfer, clock>>

\* Taken once; a send that fails finds the receiver gone and writes "failed".
Cancel(t) ==
  /\ t \in kept /\ t \in sender
  /\ sender' = sender \ {t}
  /\ \/ /\ Live(t)
        /\ sent' = sent \union {t}
        /\ UNCHANGED state
     \/ /\ ~Live(t)
        /\ state' = [state EXCEPT ![t] = "failed"]
        /\ UNCHANGED sent
  /\ UNCHANGED <<kind, kept, pc, proc, remote, panicked, transfer, disk, clock>>

-----------------------------------------------------------------------------
(* A runner's end *)

Goto(t, step) == pc' = [pc EXCEPT ![t] = step]

Ends(t, outcome) ==
  /\ state' = [state EXCEPT ![t] = outcome]
  /\ Goto(t, "gone")

\* A panic drops the receiver and, by kill_on_drop, the process.
Panics(t) ==
  /\ Live(t) /\ Cardinality(panicked) < MaxPanics
  /\ Goto(t, "gone")
  /\ proc' = proc \ {t}
  /\ panicked' = panicked \union {t}
  /\ UNCHANGED <<kind, state, remote, entries, transfer, disk, clock>>

-----------------------------------------------------------------------------
(* download_task.  At a shared destination there may be a file or none, of  *)
(* any length: every answer to a request and every end is possible.         *)

AllOf(chunks, v) == \A i \in 1..Len(chunks) : chunks[i] = v

Put(files, f, chunks) == IF f \in shared THEN files ELSE [files EXCEPT ![f] = chunks]

\* The bytes there may be of a file so far.
Had(t) ==
  IF Dest[t] \in shared THEN UNION {0..Size[v] : v \in Versions} ELSE {Len(part[Dest[t]])}

\* The destination is there already, or the .part tells where to resume.
Look(t) ==
  /\ pc[t] = "look"
  /\ \/ /\ file[Dest[t]] # << >> \/ Dest[t] \in shared
        /\ Ends(t, "completed")
     \/ /\ file[Dest[t]] = << >>
        /\ Goto(t, "request")
        /\ UNCHANGED state
  /\ UNCHANGED <<kind, proc, remote, panicked, entries, transfer, disk, clock>>

\* continue: the next attempt after a pause, or "failed after 3 attempts".
Retry(t) ==
  /\ attempt' = [attempt EXCEPT ![t] = IF @ < Retries THEN @ + 1 ELSE @]
  /\ Goto(t, IF attempt[t] < Retries THEN "backoff" ELSE "erred")

RequestFails(t) ==
  /\ pc[t] = "request"
  /\ Retry(t)
  /\ UNCHANGED <<kind, state, proc, remote, panicked, entries, tag, body, disk, clock>>

\* Fault: the ETag of the first attempt is not sent along.
MayResume_untagged(t, n) == n > 0

\* A Range request; If-Range has a server that has another version send all of it.
MayResume(t, n) == n > 0 /\ (tag[t] = -1 \/ tag[t] = remote)

\* 416: the .part is as long as the remote file or longer.
Unsatisfiable(t) ==
  /\ pc[t] = "request"
  /\ \E n \in Had(t) : MayResume(t, n) /\ n >= Size[remote]
  /\ part' = Put(part, Dest[t], << >>)
  /\ blind' = blind \ {Dest[t]}
  /\ Retry(t)
  /\ UNCHANGED <<kind, state, proc, remote, panicked, entries, tag, body, file, shared, clock>>

\* A response carries the ETag of what it is of, or none, and the last one stays.
Receives(t) ==
  /\ \/ tag' = [tag EXCEPT ![t] = remote]
     \/ UNCHANGED tag
  /\ body' = [body EXCEPT ![t] = remote]
  /\ Goto(t, "body")

\* 206: the .part is appended to.
Resumes(t) ==
  /\ pc[t] = "request"
  /\ \E n \in Had(t) : MayResume(t, n) /\ n < Size[remote]
  /\ blind' = IF tag[t] = -1 THEN blind \union ({Dest[t]} \ shared) ELSE blind
  /\ Receives(t)
  /\ UNCHANGED <<kind, state, proc, remote, panicked, entries, attempt, part, file, shared, clock>>

\* 200, also from a server that ignores the range: the .part is truncated.
Restarts(t) ==
  /\ pc[t] = "request"
  /\ part' = Put(part, Dest[t], << >>)
  /\ blind' = blind \ {Dest[t]}
  /\ Receives(t)
  /\ UNCHANGED <<kind, state, proc, remote, panicked, entries, attempt, file, shared, clock>>

Chunk(t) ==
  /\ pc[t] = "body" /\ t \notin sent
  /\ \E n \in Had(t) : n < Size[body[t]]
  /\ part' = Put(part, Dest[t], Append(part[Dest[t]], body[t]))
  /\ UNCHANGED <<kind, state, pc, proc, remote, panicked, entries, transfer, file, blind,
                 shared, clock>>

Eof(t) ==
  /\ pc[t] = "body" /\ t \notin sent
  /\ Size[body[t]] \in Had(t)
  /\ Goto(t, "rename")
  /\ UNCHANGED <<kind, state, proc, remote, panicked, entries, transfer, disk, clock>>

\* Stalled or broken off: the next attempt resumes.
BodyFails(t) ==
  /\ pc[t] = "body" /\ t \notin sent
  /\ Retry(t)
  /\ UNCHANGED <<kind, state, proc, remote, panicked, entries, tag, body, disk, clock>>

\* After the pause a cancel is looked for, once.
Backoff(t) ==
  /\ pc[t] = "backoff" /\ t \notin sent
  /\ Goto(t, "request")
  /\ UNCHANGED <<kind, state, entries, proc, remote, panicked, transfer, disk, clock>>

DownloadCancelled(t) ==
  /\ pc[t] \in {"backoff", "body"} /\ t \in sent
  /\ sent' = sent \ {t}
  /\ Ends(t, "cancelled")
  /\ UNCHANGED <<kind, kept, sender, proc, remote, panicked, transfer, disk, clock>>

Rename(t) ==
  /\ pc[t] = "rename"
  /\ file' = Put(file, Dest[t], part[Dest[t]])
  /\ part' = Put(part, Dest[t], << >>)
  /\ Ends(t, "completed")
  /\ UNCHANGED <<kind, proc, remote, panicked, entries, transfer, blind, shared, clock>>

\* A refused URL or address, an HTTP error, a failing write or rename.
Refused(t) ==
  /\ pc[t] \in {"look", "request", "body", "rename"}
  /\ Goto(t, "erred")
  /\ UNCHANGED <<kind, state, proc, remote, panicked, entries, transfer, disk, clock>>

\* start_download's wrapper: the receiver is gone by now.
Errs(t) ==
  /\ pc[t] = "erred"
  /\ Ends(t, IF state[t] = "running" THEN "failed" ELSE state[t])
  /\ UNCHANGED <<kind, proc, remote, panicked, entries, transfer, disk, clock>>

-----------------------------------------------------------------------------
(* shell_task; its select is biased to the cancel *)

Spawns(t) ==
  /\ pc[t] = "spawn"
  /\ proc' = proc \union {t}
  /\ Goto(t, "run")
  /\ UNCHANGED <<kind, state, remote, panicked, entries, transfer, disk, clock>>

SpawnFails(t) ==
  /\ pc[t] = "spawn"
  /\ Ends(t, "failed")
  /\ UNCHANGED <<kind, proc, remote, panicked, entries, transfer, disk, clock>>

\* Fault: only a shell with a deadline is ever stopped.
Stops_timed(t) ==
  /\ pc[t] = "run" /\ kind[t] = "shell" /\ t \in Timed
  /\ Goto(t, IF t \in sent THEN "kill" ELSE "expire")
  /\ UNCHANGED <<kind, state, proc, remote, panicked, entries, transfer, disk, clock>>

\* The cancel or the deadline; the tree kill that follows is awaited.
Stops(t) ==
  /\ pc[t] = "run" /\ kind[t] = "shell"
  /\ \/ t \in sent /\ Goto(t, "kill")
     \/ t \notin sent /\ t \in Timed /\ Goto(t, "expire")
  /\ UNCHANGED <<kind, state, proc, remote, panicked, entries, transfer, disk, clock>>

\* Fault: the state is written, and the process left to itself.
Killed_notYet(t) ==
  /\ pc[t] \in {"kill", "expire"}
  /\ Ends(t, IF pc[t] = "kill" THEN "cancelled" ELSE "failed")
  /\ UNCHANGED <<kind, proc, remote, panicked, entries, transfer, disk, clock>>

Killed(t) ==
  /\ pc[t] \in {"kill", "expire"}
  /\ proc' = proc \ {t}
  /\ Ends(t, IF pc[t] = "kill" THEN "cancelled" ELSE "failed")
  /\ UNCHANGED <<kind, remote, panicked, entries, transfer, disk, clock>>

ShellExits(t) ==
  /\ pc[t] = "run" /\ kind[t] = "shell" /\ t \notin sent
  /\ proc' = proc \ {t}
  /\ Ends(t, "completed")
  /\ UNCHANGED <<kind, remote, panicked, entries, transfer, disk, clock>>

-----------------------------------------------------------------------------
(* The subagent of a background Task call; its select is not biased *)

SubagentEnds(t, outcome) ==
  /\ pc[t] = "run" /\ kind[t] = "subagent"
  /\ Ends(t, outcome)
  /\ UNCHANGED <<kind, proc, remote, panicked, entries, transfer, disk, clock>>

SubagentCancelled(t) ==
  /\ pc[t] = "run" /\ kind[t] = "subagent" /\ t \in sent
  /\ sent' = sent \ {t}
  /\ Ends(t, "cancelled")
  /\ UNCHANGED <<kind, kept, sender, proc, remote, panicked, transfer, disk, clock>>

-----------------------------------------------------------------------------
(* The world *)

\* A version that is gone does not come back.
RemoteChanges ==
  /\ remote + 1 \in Versions
  /\ remote' = remote + 1
  /\ UNCHANGED <<kind, state, pc, proc, panicked, entries, transfer, disk, clock>>

HourPasses ==
  /\ hours < MaxHours
  /\ hours' = hours + 1
  /\ old' = {t \in Tasks : state[t] # "none"}
  /\ UNCHANGED <<kind, state, pc, proc, remote, panicked, entries, transfer, disk>>

-----------------------------------------------------------------------------
Answered(t) == RequestFails(t) \/ Unsatisfiable(t) \/ Resumes(t) \/ Restarts(t)

\* What the runner does by itself; a request may stay without an answer, and a
\* shell or a subagent run for ever.
RunnerStep(t) ==
  \/ Look(t) \/ Chunk(t) \/ Eof(t) \/ BodyFails(t) \/ Backoff(t) \/ DownloadCancelled(t)
  \/ Rename(t) \/ Errs(t) \/ Spawns(t) \/ SpawnFails(t) \/ Stops(t) \/ Killed(t)
  \/ SubagentCancelled(t)

Next ==
  \/ \E t \in Tasks :
       \/ Start(t) \/ Cancel(t) \/ Panics(t)
       \/ Answered(t) \/ RunnerStep(t) \/ Refused(t)
       \/ ShellExits(t) \/ SubagentEnds(t, "completed") \/ SubagentEnds(t, "failed")
  \/ RemoteChanges \/ HourPasses

Spec == Init /\ [][Next]_vars

FairSpec == Spec /\ \A t \in Tasks : WF_vars(RunnerStep(t))

-----------------------------------------------------------------------------
(* Properties *)

\* Every runner that lives can be cancelled: its entry is in the map with the
\* sender in it, or the cancel is on its way.  However many hours pass, no
\* sweep takes a running task away from its user.
CancelReaches ==
  \A t \in Tasks : Live(t) => t \in sent \/ (t \in kept /\ t \in sender)

\* A snapshot is true of what it describes: a task that is over has no process
\* left, and one that reads "running" has a runner, or its runner panicked and
\* no cancel has found that out.
NoPhantom ==
  \A t \in Tasks :
    /\ state[t] \in Terminal => t \notin proc
    /\ state[t] = "running" => 
         \/ Live(t) \/ pc[t] = "erred"
         \/ t \in panicked /\ (t \in sender \/ t \in sent)

Whole(chunks) == \E v \in Versions : AllOf(chunks, v) /\ Len(chunks) = Size[v]

\* A file at its destination is one version of the remote file from beginning
\* to end, through stalls, retries and changes of the remote between attempts,
\* however seldom the server sends an ETag: unless it was resumed without one,
\* from what an earlier task had left or from a server that never sent any, or
\* two downloads have worked at the destination at once.
FileIsWhole ==
  \A f \in Dests : file[f] # << >> /\ f \notin blind \union shared => Whole(file[f])

\* A cancel that was taken ends the task, whatever its runner was at, except
\* while a server leaves a request unanswered and if the runner then panics.
CancelEnds ==
  \A t \in Tasks :
    [](state[t] = "running" /\ t \notin sender =>
         <>(state[t] # "running" \/ t \in panicked) \/ <>[](pc[t] = "request"))
=============================================================================
