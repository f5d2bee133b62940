---------------------- MODULE BackgroundTasks_proofs ----------------------
(***************************************************************************)
(* What TLAPS proves of BackgroundTasks for any tasks, destinations, sizes *)
(* and numbers of retries, panics and hours: types, that every runner can  *)
(* be cancelled, that a snapshot is true of its runner and process, and    *)
(* that a file one download at a time wrote, none resumed blindly, is whole. *)
(***************************************************************************)
EXTENDS BackgroundTasks, TLAPS

\* A task without a runner yet has nothing; one with a runner reads "running".
Accounted ==
  \A t \in Tasks :
    /\ pc[t] = "unborn" => state[t] = "none" /\ t \notin sender
    /\ pc[t] # "unborn" => state[t] # "none"
    /\ Live(t) => state[t] = "running"

\* Only a shell that runs or is being killed has a process.
ProcIsRun ==
  /\ \A t \in proc : pc[t] \in {"run", "kill", "expire"} /\ kind[t] = "shell"
  /\ \A t \in Tasks : pc[t] \in {"spawn", "kill", "expire"} => kind[t] = "shell"

Transferring(t) == pc[t] \in {"request", "backoff", "body", "rename"}

Working(t) == pc[t] \in {"look", "request", "backoff", "body", "rename"}

\* Elsewhere than at shared destinations no two downloads live at once.
Separate ==
  \A t \in Tasks :
    /\ Working(t) => kind[t] = "download"
    /\ \A u \in Tasks : Rival(t, u) /\ Live(t) /\ Live(u) => Dest[t] \in shared

\* A .part is of one version, no older than any ETag a download of it has.
OneVersion(f) ==
  \E v \in Versions :
    v <= remote /\ AllOf(part[f], v) /\ \A t \in Tasks : Dest[t] = f => tag[t] <= v

\* What a download is receiving is what its .part has, and there is no file yet.
Consistent(t) ==
  /\ file[Dest[t]] = << >>
  /\ pc[t] = "rename" => Len(part[Dest[t]]) = Size[body[t]]
  /\ pc[t] \in {"body", "rename"} =>
       /\ body[t] <= remote
       /\ \A u \in Tasks : Dest[u] = Dest[t] => tag[u] <= body[t]
       /\ Dest[t] \notin blind => AllOf(part[Dest[t]], body[t])

OnDisk ==
  /\ Separate /\ FileIsWhole
  /\ \A t \in Tasks : tag[t] <= remote
  /\ \A f \in Dests : f \notin blind \union shared => OneVersion(f)
  /\ \A t \in Tasks : Transferring(t) /\ Dest[t] \notin shared => Consistent(t)

TasksInv == /\ TypeOK /\ Accounted /\ ProcIsRun /\ CancelReaches /\ NoPhantom
            /\ OnDisk

-----------------------------------------------------------------------------
(* The steps, by what they do to a task *)

Fetches(t) == \/ Look(t) \/ RequestFails(t) \/ Unsatisfiable(t) \/ Resumes(t)
              \/ Restarts(t) \/ Chunk(t) \/ Eof(t) \/ BodyFails(t) \/ Backoff(t)
              \/ DownloadCancelled(t) \/ Rename(t) \/ Refused(t) \/ Errs(t)

Executes(t) == \/ Spawns(t) \/ SpawnFails(t) \/ Stops(t) \/ Killed(t) \/ ShellExits(t)
               \/ SubagentCancelled(t)
               \/ SubagentEnds(t, "completed") \/ SubagentEnds(t, "failed")

TaskStep(t) == Start(t) \/ Cancel(t) \/ Panics(t) \/ Fetches(t) \/ Executes(t)

WorldStep == RemoteChanges \/ HourPasses

LEMMA NextCases ==
  Next <=> (\E t \in Tasks : TaskStep(t)) \/ WorldStep
BY DEF Next, TaskStep, Fetches, Executes, WorldStep, RunnerStep, Answered

LEMMA InitInv == Init => TasksInv
<1> SUFFICES ASSUME Init PROVE TasksInv
  OBVIOUS
<1> USE TasksAssumption DEF Init
<1>1. TypeOK
  BY DEF TypeOK, Kinds, Steps, Terminal
<1>2. Accounted /\ ProcIsRun /\ CancelReaches /\ NoPhantom
  BY DEF Accounted, ProcIsRun, CancelReaches, NoPhantom, Live, Terminal
<1>3. OnDisk
  BY DEF OnDisk, Separate, Rival, FileIsWhole, OneVersion, AllOf, Transferring, Working, Live
<1> QED BY <1>1, <1>2, <1>3 DEF TasksInv

-----------------------------------------------------------------------------
(* Types *)

LEMMA TypeStep ==
  ASSUME TypeOK, NEW t \in Tasks, TaskStep(t)
  PROVE  TypeOK'
<1> USE TasksAssumption DEF TypeOK, entries, transfer, disk, clock
<1>1. \A step \in Steps : [pc EXCEPT ![t] = step] \in [Tasks -> Steps]
  OBVIOUS
<1>2. \A st \in {"running"} \union Terminal :
        [state EXCEPT ![t] = st] \in [Tasks -> {"none", "running"} \union Terminal]
  OBVIOUS
<1> USE DEF Goto, Ends, Steps, Terminal
<1>3. CASE Start(t)
  <2>1. pc' \in [Tasks -> Steps] /\ state' \in [Tasks -> {"none", "running"} \union Terminal]
    BY <1>1, <1>2, <1>3 DEF Start, First, Kinds
  <2>2. /\ part' \in [Dests -> Seq(Versions)] /\ file' \in [Dests -> Seq(Versions)]
        /\ blind' \subseteq Dests /\ shared' \subseteq Dests
    BY <1>3 DEF Start, Unfollowed
  <2>3. /\ kept' \subseteq Tasks /\ sender' \subseteq Tasks
        /\ UNCHANGED <<kind, sent, proc, remote, panicked, transfer, clock>>
    BY <1>3 DEF Start
  <2> HIDE DEF Steps, Terminal
  <2> QED BY <2>1, <2>2, <2>3
<1>4. CASE Cancel(t)
  <2>1. state' \in [Tasks -> {"none", "running"} \union Terminal]
    BY <1>2, <1>4 DEF Cancel
  <2>2. sender' \subseteq Tasks /\ sent' \subseteq Tasks
    BY <1>4 DEF Cancel
  <2>3. UNCHANGED <<kind, kept, pc, proc, remote, panicked, transfer, disk, clock>>
    BY <1>4 DEF Cancel
  <2> HIDE DEF Steps, Terminal
  <2> QED BY <2>1, <2>2, <2>3
<1>7. CASE Panics(t)
  BY <1>1, <1>7 DEF Panics
<1>5. CASE Fetches(t)
  <2> Dest[t] \in Dests
    OBVIOUS
  <2>1. CASE Look(t) \/ Eof(t) \/ Backoff(t) \/ DownloadCancelled(t) \/ Refused(t)
    <3> USE <2>1 DEF Look, Eof, Backoff, DownloadCancelled, Refused
    <3>1. pc' \in [Tasks -> Steps]
      BY <1>1
    <3>2. state' \in [Tasks -> {"none", "running"} \union Terminal]
      BY <1>2
    <3>3. /\ sent' \subseteq Tasks
          /\ UNCHANGED <<kind, kept, sender, panicked, proc, remote, disk, transfer, clock>>
      OBVIOUS
    <3> HIDE DEF Look, Eof, Backoff, DownloadCancelled, Refused, Steps, Terminal
    <3> QED BY <3>1, <3>2, <3>3
  <2>0. Retry(t) => attempt' \in [Tasks -> 0..Retries] /\ pc' \in [Tasks -> Steps]
    BY <1>1 DEF Retry
  <2>9. Receives(t) => /\ pc' \in [Tasks -> Steps] /\ body' \in [Tasks -> Versions]
                       /\ tag' \in [Tasks -> Versions \union {-1}]
    <3> SUFFICES ASSUME Receives(t)
                 PROVE  /\ pc' \in [Tasks -> Steps] /\ body' \in [Tasks -> Versions]
                        /\ tag' \in [Tasks -> Versions \union {-1}]
      OBVIOUS
    <3>1. pc' \in [Tasks -> Steps]
      BY <1>1 DEF Receives
    <3>2. body' \in [Tasks -> Versions]
      BY DEF Receives
    <3>3. tag' \in [Tasks -> Versions \union {-1}]
      BY DEF Receives
    <3> QED BY <3>1, <3>2, <3>3
  <2>2. CASE RequestFails(t) \/ BodyFails(t)
    BY <2>0, <2>2 DEF RequestFails, BodyFails
  <2>3. CASE Unsatisfiable(t)
    BY <2>0, <2>3 DEF Unsatisfiable, Put
  <2>4. CASE Resumes(t)
    <3>1. UNCHANGED <<kind, state, proc, remote, panicked, entries, attempt, part, file, shared, clock>>
      BY <2>4 DEF Resumes
    <3>2. blind' \subseteq Dests
      BY <2>4 DEF Resumes
    <3> QED BY <2>4, <2>9, <3>1, <3>2 DEF Resumes
  <2>8. CASE Restarts(t)
    <3>1. UNCHANGED <<kind, state, proc, remote, panicked, entries, attempt, file, shared, clock>>
      BY <2>8 DEF Restarts
    <3>2. blind' \subseteq Dests /\ part' \in [Dests -> Seq(Versions)]
      BY <2>8 DEF Restarts, Put
    <3> QED BY <2>8, <2>9, <3>1, <3>2 DEF Restarts
  <2>5. CASE Chunk(t)
    BY <2>5 DEF Chunk, Put
  <2>6. CASE Rename(t)
    BY <1>1, <1>2, <2>6 DEF Rename, Put
  <2>7. CASE Errs(t)
    BY <1>1, <2>7 DEF Errs
  <2> QED BY <1>5, <2>1, <2>2, <2>3, <2>4, <2>5, <2>6, <2>7, <2>8 DEF Fetches
<1>6. CASE Executes(t)
  <2> USE DEF Executes, Spawns, SpawnFails, Stops, Killed, ShellExits, SubagentCancelled,
          SubagentEnds
  <2>1. pc' \in [Tasks -> Steps]
    BY <1>1, <1>6
  <2>2. state' \in [Tasks -> {"none", "running"} \union Terminal]
    BY <1>2, <1>6
  <2>3. /\ kept' = kept /\ sender' = sender /\ panicked' = panicked /\ kind' = kind
        /\ UNCHANGED <<remote, transfer, disk, clock>>
        /\ sent' \subseteq Tasks /\ proc' \subseteq Tasks
    BY <1>6
  <2> HIDE DEF Executes, Steps, Terminal
  <2> QED BY <2>1, <2>2, <2>3
<1> QED BY <1>3, <1>4, <1>5, <1>6, <1>7 DEF TaskStep

LEMMA TypeWorld ==
  ASSUME TypeOK, WorldStep
  PROVE  TypeOK'
<1> USE TasksAssumption DEF TypeOK, entries, transfer, disk
<1>1. CASE RemoteChanges
  BY <1>1 DEF RemoteChanges, clock
<1>2. CASE HourPasses
  BY <1>2 DEF HourPasses
<1> QED BY <1>1, <1>2 DEF WorldStep

-----------------------------------------------------------------------------
(* Runners, their entries and their processes *)

Bookkept == Accounted /\ ProcIsRun /\ CancelReaches /\ NoPhantom

\* A runner that ends leaves no process behind, and the others as they were.
LEMMA EndKept ==
  ASSUME TypeOK, Bookkept, NEW t \in Tasks, NEW outcome \in Terminal, Ends(t, outcome),
         kind' = kind, kept' = kept, sender' = sender, panicked' = panicked,
         sent' \in {sent, sent \ {t}}, proc' \in {proc, proc \ {t}}, t \notin proc'
  PROVE  Bookkept'
<1> USE DEF TypeOK, Bookkept, Ends, Goto, Terminal
<1>1. /\ pc'[t] = "gone" /\ state'[t] = outcome
      /\ \A u \in Tasks \ {t} : pc'[u] = pc[u] /\ state'[u] = state[u]
  OBVIOUS
<1>2. Accounted'
  BY <1>1 DEF Accounted, Live
<1>3. ProcIsRun'
  BY <1>1 DEF ProcIsRun
<1>4. CancelReaches'
  BY <1>1 DEF CancelReaches, Live
<1>5. NoPhantom'
  BY <1>1 DEF NoPhantom, Live
<1> QED BY <1>2, <1>3, <1>4, <1>5

\* A runner that goes on keeps its entry and its process.
LEMMA StepKept ==
  ASSUME TypeOK, Bookkept, NEW t \in Tasks, NEW step \in Steps, Goto(t, step),
         Live(t), step \notin {"unborn", "gone", "spawn"},
         step \in {"kill", "expire"} => kind[t] = "shell",
         t \notin proc \/ step \in {"run", "kill", "expire"},
         UNCHANGED <<kind, state, kept, sender, sent, panicked, proc>>
  PROVE  Bookkept'
<1> USE DEF TypeOK, Bookkept, Goto
<1>1. pc'[t] = step /\ \A u \in Tasks \ {t} : pc'[u] = pc[u]
  OBVIOUS
<1>2. Accounted'
  BY <1>1 DEF Accounted, Live
<1>3. ProcIsRun'
  BY <1>1 DEF ProcIsRun
<1>4. CancelReaches'
  BY <1>1 DEF CancelReaches, Live
<1>5. NoPhantom'
  BY <1>1 DEF NoPhantom, Accounted, Live, Terminal
<1> QED BY <1>2, <1>3, <1>4, <1>5

LEMMA BookStep ==
  ASSUME TypeOK, Bookkept, NEW t \in Tasks, TaskStep(t)
  PROVE  Bookkept'
<1> USE DEF TypeOK, Bookkept, Accounted, ProcIsRun, CancelReaches, NoPhantom,
        entries, Goto, Ends, Live, Terminal
<1>1. CASE Start(t)
  BY <1>1 DEF Start, First, Retained, Kinds
<1>2. CASE Cancel(t)
  BY <1>2 DEF Cancel
<1>3. CASE Panics(t)
  BY <1>3 DEF Panics
<1>4. CASE Fetches(t)
  <2>1. CASE Look(t)
    <3>1. CASE Ends(t, "completed")
      BY <2>1, <3>1, EndKept DEF Look
    <3>2. CASE Goto(t, "request") /\ state' = state
      BY <2>1, <3>2, StepKept DEF Look, Steps
    <3> QED BY <2>1, <3>1, <3>2 DEF Look
  <2>6. CASE Eof(t) \/ Backoff(t) \/ Refused(t)
    BY <2>6, StepKept DEF Eof, Backoff, Refused, Steps
  <2>7. CASE DownloadCancelled(t)
    BY <2>7, EndKept DEF DownloadCancelled
  <2>2. CASE RequestFails(t) \/ BodyFails(t) \/ Unsatisfiable(t)
    BY <2>2 DEF RequestFails, BodyFails, Unsatisfiable, Retry
  <2>3. CASE Resumes(t) \/ Restarts(t) \/ Chunk(t)
    BY <2>3 DEF Resumes, Restarts, Receives, Chunk
  <2>4. CASE Rename(t)
    BY <2>4, EndKept DEF Rename
  <2>5. CASE Errs(t)
    BY <2>5, EndKept DEF Errs
  <2> QED BY <1>4, <2>1, <2>2, <2>3, <2>4, <2>5, <2>6, <2>7 DEF Fetches
<1>5. CASE Executes(t)
  <2>1. CASE Spawns(t)
    BY <2>1 DEF Spawns
  <2>2. CASE Stops(t)
    BY <2>2, StepKept DEF Stops, Steps
  <2>3. CASE SpawnFails(t)
    BY <2>3, EndKept DEF SpawnFails
  <2>4. CASE Killed(t)
    BY <2>4, EndKept DEF Killed
  <2>5. CASE ShellExits(t)
    BY <2>5, EndKept DEF ShellExits
  <2>6. CASE SubagentCancelled(t)
    BY <2>6, EndKept DEF SubagentCancelled
  <2>7. ASSUME NEW o \in {"completed", "failed"}, SubagentEnds(t, o) PROVE Bookkept'
    <3>1. t \notin proc
      BY <2>7 DEF SubagentEnds
    <3> HIDE DEF ProcIsRun, CancelReaches, NoPhantom, Accounted, Bookkept, Live, Ends
    <3> QED BY <2>7, <3>1, EndKept DEF SubagentEnds
  <2> QED BY <1>5, <2>1, <2>2, <2>3, <2>4, <2>5, <2>6, <2>7 DEF Executes
<1> QED BY <1>1, <1>2, <1>3, <1>4, <1>5 DEF TaskStep

-----------------------------------------------------------------------------
(* What is on disk *)

\* A step of t that keeps to its destination, if it is not shared, keeps the rest.
LEMMA DiskLocal ==
  ASSUME TypeOK, TypeOK', OnDisk, NEW t \in Tasks, Live(t), pc'[t] # "unborn",
         UNCHANGED <<kind, remote, shared>>,
         \A u \in Tasks \ {t} : pc'[u] = pc[u] /\ tag'[u] = tag[u] /\ body'[u] = body[u],
         \A f \in Dests : f # Dest[t] =>
           part'[f] = part[f] /\ file'[f] = file[f] /\ (f \in blind' <=> f \in blind),
         Working(t)' => kind[t] = "download",
         kind[t] = "download" \/ (part' = part /\ file' = file /\ blind' = blind /\ tag' = tag),
         tag'[t] <= remote,
         kind[t] = "download" /\ Dest[t] \notin shared =>
           /\ Dest[t] \notin blind' => OneVersion(Dest[t])'
           /\ Transferring(t)' => Consistent(t)'
           /\ file'[Dest[t]] # << >> /\ Dest[t] \notin blind' => Whole(file'[Dest[t]])
  PROVE  OnDisk'
<1> USE TasksAssumption DEF OnDisk
<1>1. Separate'
  BY DEF Separate, Working, Rival, Live
<1>2. FileIsWhole'
  <2> SUFFICES ASSUME NEW f \in Dests, file'[f] # << >>, f \notin blind' \union shared'
               PROVE  Whole(file'[f])
    BY DEF FileIsWhole, Whole
  <2> QED BY DEF FileIsWhole
<1>3. \A u \in Tasks : tag'[u] <= remote'
  OBVIOUS
<1>4. ASSUME NEW f \in Dests, f \notin blind' \union shared' PROVE OneVersion(f)'
  <2>1. CASE f = Dest[t] /\ kind[t] = "download"
    BY <1>4, <2>1
  <2>2. CASE ~(f = Dest[t] /\ kind[t] = "download")
    <3>1. part'[f] = part[f] /\ f \notin blind \union shared
      BY <1>4, <2>2
    <3>2. \A u \in Tasks : Dest[u] = f => tag'[u] = tag[u]
      BY <2>2
    <3> QED BY <3>1, <3>2 DEF OneVersion
  <2> QED BY <2>1, <2>2
<1>5. ASSUME NEW u \in Tasks, Transferring(u)', Dest[u] \notin shared'
      PROVE  Consistent(u)'
  <2>0. kind[u] = "download"
    BY <1>1, <1>5 DEF Separate, Working, Transferring
  <2>1. CASE u = t
    BY <1>5, <2>0, <2>1
  <2>2. CASE u # t
    <3>1. Transferring(u) /\ Live(u) /\ Dest[u] \in Dests
      BY <1>5, <2>2 DEF Transferring, Live
    <3>2. kind[t] # "download" \/ Dest[u] # Dest[t]
      BY <1>5, <2>0, <2>2, <3>1 DEF Separate, Rival
    <3>3. /\ part'[Dest[u]] = part[Dest[u]] /\ file'[Dest[u]] = file[Dest[u]]
          /\ Dest[u] \in blind' <=> Dest[u] \in blind
      BY <3>1, <3>2
    <3>4. \A w \in Tasks : Dest[w] = Dest[u] => tag'[w] = tag[w]
      BY <3>2
    <3>5. Consistent(u)
      BY <1>5, <3>1
    <3> QED BY <2>2, <3>3, <3>4, <3>5 DEF Consistent
  <2> QED BY <2>1, <2>2
<1> QED BY <1>1, <1>2, <1>3, <1>4, <1>5

\* A step that leaves the disk as it is and transfers nothing new.
LEMMA DiskKept ==
  ASSUME TypeOK, TypeOK', OnDisk, NEW t \in Tasks, Live(t), pc'[t] # "unborn",
         UNCHANGED <<kind, remote, disk, tag, body>>,
         \A u \in Tasks \ {t} : pc'[u] = pc[u],
         Working(t)' => Working(t),
         Transferring(t)' => Transferring(t),
         pc'[t] = pc[t] \/ pc'[t] \notin {"body", "rename"}
  PROVE  OnDisk'
<1>1. Working(t)' => kind[t] = "download"
  BY DEF OnDisk, Separate
<1>2. /\ Dest[t] \notin blind' \union shared => OneVersion(Dest[t])'
      /\ Dest[t] \notin shared /\ Transferring(t)' => Consistent(t)'
      /\ file'[Dest[t]] # << >> /\ Dest[t] \notin blind' \union shared => Whole(file'[Dest[t]])
  BY TasksAssumption DEF OnDisk, disk, OneVersion, Consistent, FileIsWhole, Whole
<1> QED BY <1>1, <1>2, DiskLocal DEF OnDisk, disk

\* A new download has its destination to itself, or the two share it.
LEMMA StartDisk ==
  ASSUME TypeOK, TypeOK', OnDisk, NEW t \in Tasks, Start(t)
  PROVE  OnDisk'
<1> USE TasksAssumption DEF OnDisk, Start, Unfollowed, transfer
<1>1. /\ pc'[t] = First(t) /\ \A u \in Tasks \ {t} : pc'[u] = pc[u]
      /\ First(t) \in {"look", "spawn", "run"}
      /\ First(t) = "look" <=> kind[t] = "download"
  BY DEF TypeOK, First, Kinds
<1>2. shared \subseteq shared'
  OBVIOUS
<1>3. Separate'
  BY <1>1 DEF Separate, Working, Rival, Live
<1>4. \A f \in Dests : f \notin shared' =>
        part'[f] = part[f] /\ file'[f] = file[f] /\ (f \in blind' <=> f \in blind)
  BY DEF TypeOK
<1>5. FileIsWhole'
  BY <1>2, <1>4 DEF FileIsWhole, Whole
<1>6. \A f \in Dests : f \notin blind' \union shared' => OneVersion(f)'
  BY <1>2, <1>4 DEF OneVersion
<1>7. ASSUME NEW u \in Tasks, Transferring(u)', Dest[u] \notin shared'
      PROVE  Consistent(u)'
  BY <1>1, <1>2, <1>4, <1>7 DEF Consistent, Transferring
<1> QED BY <1>3, <1>5, <1>6, <1>7

LEMMA LookDisk ==
  ASSUME TypeOK, TypeOK', OnDisk, NEW t \in Tasks, Look(t)
  PROVE  OnDisk'
<1> USE TasksAssumption DEF Look, Goto, Ends, transfer, disk
<1>1. Live(t) /\ kind[t] = "download" /\ Dest[t] \in Dests
  BY DEF Live, OnDisk, Separate, Working
<1>2. /\ \A u \in Tasks \ {t} : pc'[u] = pc[u]
      /\ (pc'[t] = "request" /\ file[Dest[t]] = << >>) \/ pc'[t] = "gone"
  BY DEF TypeOK
<1>3. Transferring(t)' => Consistent(t)'
  BY <1>2 DEF Transferring, Consistent
<1>4. /\ Dest[t] \notin blind \union shared => OneVersion(Dest[t])'
      /\ file[Dest[t]] # << >> /\ Dest[t] \notin blind \union shared => Whole(file[Dest[t]])
  BY <1>1 DEF OnDisk, OneVersion, FileIsWhole
<1> QED BY <1>1, <1>2, <1>3, <1>4, DiskLocal DEF OnDisk

\* The .part is emptied: it is of the version now served, as of any.
LEMMA EmptyDisk ==
  ASSUME TypeOK, TypeOK', OnDisk, NEW t \in Tasks, Unsatisfiable(t) \/ Restarts(t)
  PROVE  OnDisk'
<1> USE TasksAssumption DEF Goto, Retry, Unsatisfiable, Restarts, Receives, Put
<1>1. /\ Live(t) /\ kind[t] = "download" /\ Dest[t] \in Dests /\ Transferring(t)
      /\ UNCHANGED <<kind, remote, shared, file>>
  BY DEF Live, OnDisk, Separate, Working, Transferring
<1>2. /\ \A f \in Dests \ {Dest[t]} : part'[f] = part[f] /\ (f \in blind' <=> f \in blind)
      /\ Dest[t] \notin shared => part'[Dest[t]] = << >>
  <2>1. part' = IF Dest[t] \in shared THEN part ELSE [part EXCEPT ![Dest[t]] = << >>]
    BY Zenon
  <2>2. blind' = blind \ {Dest[t]}
    BY Zenon
  <2>3. part \in [Dests -> Seq(Versions)] /\ Dest[t] \in Dests
    BY <1>1 DEF TypeOK
  <2> HIDE DEF Unsatisfiable, Restarts
  <2> QED BY <2>1, <2>2, <2>3
<1>3. /\ \A u \in Tasks \ {t} : pc'[u] = pc[u] /\ tag'[u] = tag[u] /\ body'[u] = body[u]
      /\ pc'[t] \in {"backoff", "erred", "body"}
      /\ pc'[t] = "body" => body'[t] = remote
      /\ tag'[t] \in {tag[t], remote}
  <2>1. CASE Unsatisfiable(t)
    BY <2>1 DEF TypeOK
  <2>2. CASE Restarts(t)
    BY <2>2 DEF TypeOK
  <2> QED BY <2>1, <2>2
<1>4. \A u \in Tasks : tag'[u] <= remote
  <2>1. remote <= remote /\ \A u \in Tasks : tag[u] <= remote
    BY DEF OnDisk, TypeOK
  <2> HIDE DEF Unsatisfiable, Restarts
  <2> QED BY <1>3, <2>1
<1>5. Dest[t] \notin shared => OneVersion(Dest[t])'
  <2>1. remote \in Versions /\ remote <= remote /\ remote' = remote
    BY <1>1 DEF TypeOK
  <2>2. Dest[t] \notin shared => AllOf(part'[Dest[t]], remote)
    BY <1>2 DEF AllOf
  <2> QED BY <1>4, <2>1, <2>2 DEF OneVersion
<1>6. Dest[t] \notin shared => file[Dest[t]] = << >>
  BY <1>1 DEF OnDisk, Consistent
<1>7. Dest[t] \notin shared /\ Transferring(t)' => Consistent(t)'
  <2>1. Dest[t] \notin shared => AllOf(part'[Dest[t]], remote)
    BY <1>2 DEF AllOf
  <2>2. remote <= remote
    BY DEF TypeOK
  <2> HIDE DEF Unsatisfiable, Restarts
  <2> QED BY <1>1, <1>3, <1>4, <1>6, <2>1, <2>2 DEF Consistent, Transferring
<1> QED BY <1>1, <1>2, <1>3, <1>4, <1>5, <1>6, <1>7, DiskLocal

\* Resumed with If-Range, a .part is of the version now served.
LEMMA ResumeDisk ==
  ASSUME TypeOK, TypeOK', OnDisk, NEW t \in Tasks, Resumes(t)
  PROVE  OnDisk'
<1> USE TasksAssumption DEF Goto, Resumes, Receives, MayResume
<1>1. /\ Live(t) /\ kind[t] = "download" /\ Dest[t] \in Dests /\ Transferring(t)
      /\ UNCHANGED <<kind, remote, shared, file, part>>
  BY DEF Live, OnDisk, Separate, Working, Transferring
<1>2. /\ \A u \in Tasks \ {t} : pc'[u] = pc[u] /\ tag'[u] = tag[u] /\ body'[u] = body[u]
      /\ \A f \in Dests \ {Dest[t]} : f \in blind' <=> f \in blind
      /\ pc'[t] = "body" /\ body'[t] = remote
      /\ tag'[t] \in {tag[t], remote}
  BY <1>1 DEF TypeOK
<1>3. \A u \in Tasks : tag'[u] <= remote
  <2>1. remote <= remote /\ \A u \in Tasks : tag[u] <= remote
    BY DEF OnDisk, TypeOK
  <2> HIDE DEF Resumes
  <2> QED BY <1>2, <2>1
<1>4. ASSUME Dest[t] \notin blind', Dest[t] \notin shared
      PROVE  AllOf(part[Dest[t]], remote)
  <2>1. tag[t] = remote /\ Dest[t] \notin blind
    BY <1>1, <1>4
  <2>2. PICK v \in Versions : v <= remote /\ AllOf(part[Dest[t]], v) /\ tag[t] <= v
    BY <1>1, <1>4, <2>1 DEF OnDisk, OneVersion
  <2>3. v = remote
    BY <2>1, <2>2 DEF TypeOK
  <2> QED BY <2>2, <2>3
<1>5. Dest[t] \notin shared => file[Dest[t]] = << >>
  BY <1>1 DEF OnDisk, Consistent
<1>6. Dest[t] \notin blind' \union shared => OneVersion(Dest[t])'
  BY <1>1, <1>3, <1>4 DEF OneVersion, TypeOK
<1>7. Dest[t] \notin shared => Consistent(t)'
  BY <1>1, <1>2, <1>3, <1>4, <1>5 DEF Consistent, TypeOK
<1> QED BY <1>1, <1>2, <1>3, <1>5, <1>6, <1>7, DiskLocal

LEMMA ChunkDisk ==
  ASSUME TypeOK, TypeOK', OnDisk, NEW t \in Tasks, Chunk(t)
  PROVE  OnDisk'
<1> USE TasksAssumption DEF Chunk, Put, transfer
<1>1. /\ Live(t) /\ kind[t] = "download" /\ Dest[t] \in Dests /\ Transferring(t)
      /\ UNCHANGED <<kind, remote, shared, file, blind, tag, body, pc>>
  BY DEF Live, OnDisk, Separate, Working, Transferring
<1>2. /\ \A f \in Dests : f # Dest[t] => part'[f] = part[f]
      /\ Dest[t] \notin shared => part'[Dest[t]] = Append(part[Dest[t]], body[t])
  BY <1>1 DEF TypeOK
<1>3. Dest[t] \notin shared => Consistent(t)
  BY <1>1 DEF OnDisk
<1>4. Dest[t] \notin blind \union shared => AllOf(part'[Dest[t]], body[t])
  BY <1>1, <1>2, <1>3 DEF Consistent, AllOf, TypeOK
<1>5. Dest[t] \notin blind \union shared => OneVersion(Dest[t])'
  BY <1>1, <1>3, <1>4 DEF OneVersion, Consistent, TypeOK
<1>6. Dest[t] \notin shared => Consistent(t)'
  BY <1>1, <1>3, <1>4 DEF Consistent
<1>7. Dest[t] \notin shared => file[Dest[t]] = << >>
  BY <1>3 DEF Consistent
<1> QED BY <1>1, <1>2, <1>5, <1>6, <1>7, DiskLocal DEF OnDisk

LEMMA EofDisk ==
  ASSUME TypeOK, TypeOK', OnDisk, NEW t \in Tasks, Eof(t)
  PROVE  OnDisk'
<1> USE TasksAssumption DEF Eof, Goto, transfer, disk
<1>1. /\ Live(t) /\ kind[t] = "download" /\ Dest[t] \in Dests /\ Transferring(t)
      /\ pc'[t] = "rename" /\ \A u \in Tasks \ {t} : pc'[u] = pc[u]
  BY DEF Live, OnDisk, Separate, Working, Transferring, TypeOK
<1>2. Dest[t] \notin shared => Consistent(t)
  BY <1>1 DEF OnDisk
<1>3. Dest[t] \notin shared => Len(part[Dest[t]]) = Size[body[t]]
  BY DEF Had
<1>4. Dest[t] \notin shared => Consistent(t)' /\ file[Dest[t]] = << >>
  BY <1>1, <1>2, <1>3 DEF Consistent
<1>5. Dest[t] \notin blind \union shared => OneVersion(Dest[t])'
  BY <1>1 DEF OnDisk, OneVersion
<1> QED BY <1>1, <1>4, <1>5, DiskLocal DEF OnDisk

\* What is renamed is all of the version its last response was of.
LEMMA RenameDisk ==
  ASSUME TypeOK, TypeOK', OnDisk, NEW t \in Tasks, Rename(t)
  PROVE  OnDisk'
<1> USE TasksAssumption DEF Rename, Ends, Goto, Put, transfer
<1>1. /\ Live(t) /\ kind[t] = "download" /\ Dest[t] \in Dests /\ Transferring(t)
      /\ pc'[t] = "gone" /\ \A u \in Tasks \ {t} : pc'[u] = pc[u]
      /\ UNCHANGED <<kind, remote, shared, blind, tag, body>>
  BY DEF Live, OnDisk, Separate, Working, Transferring, TypeOK
<1>2. /\ \A f \in Dests : f # Dest[t] => part'[f] = part[f] /\ file'[f] = file[f]
      /\ Dest[t] \notin shared => part'[Dest[t]] = << >> /\ file'[Dest[t]] = part[Dest[t]]
  BY <1>1 DEF TypeOK
<1>3. Dest[t] \notin shared => Consistent(t)
  BY <1>1 DEF OnDisk
<1>4. Dest[t] \notin shared => OneVersion(Dest[t])'
  <2>1. remote \in Versions /\ remote <= remote
    BY DEF TypeOK
  <2>2. Dest[t] \notin shared => AllOf(part'[Dest[t]], remote)
    BY <1>2 DEF AllOf
  <2> QED BY <1>1, <2>1, <2>2 DEF OneVersion, OnDisk
<1>5. Dest[t] \notin blind \union shared => Whole(file'[Dest[t]])
  BY <1>1, <1>2, <1>3 DEF Consistent, Whole, TypeOK
<1> QED BY <1>1, <1>2, <1>4, <1>5, DiskLocal DEF OnDisk, Transferring, Working

LEMMA DiskStep ==
  ASSUME TypeOK, TypeOK', ProcIsRun, OnDisk, NEW t \in Tasks, TaskStep(t)
  PROVE  OnDisk'
<1>1. CASE Start(t)
  BY <1>1, StartDisk
<1>2. CASE Cancel(t)
  <2>1. UNCHANGED <<kind, pc, remote, disk, tag, body>>
    BY <1>2 DEF Cancel, transfer
  <2> QED BY <2>1 DEF OnDisk, Separate, FileIsWhole, Whole, OneVersion, Consistent, Working,
        Transferring, Live, Rival, disk
<1>3. CASE Panics(t)
  BY <1>3, DiskKept DEF Panics, Goto, TypeOK, Working, Transferring, Live, transfer
<1>4. CASE Fetches(t)
  <2>1. CASE RequestFails(t) \/ BodyFails(t)
    BY <2>1, DiskKept DEF RequestFails, BodyFails, Retry, Goto, TypeOK, Working,
       Transferring, Live
  <2>2. CASE Backoff(t) \/ Refused(t)
    BY <2>2, DiskKept DEF Backoff, Refused, Goto, TypeOK, Working, Transferring, Live, transfer
  <2>3. CASE DownloadCancelled(t)
    BY <2>3, DiskKept DEF DownloadCancelled, Ends, Goto, TypeOK, Working, Transferring,
       Live, transfer
  <2>4. CASE Errs(t)
    BY <2>4 DEF Errs, Ends, Goto, TypeOK, OnDisk, Separate, FileIsWhole, Whole, OneVersion,
       Consistent, Working, Transferring, Live, Rival, disk, transfer
  <2> QED BY <1>4, <2>1, <2>2, <2>3, <2>4, LookDisk, EmptyDisk, ResumeDisk, ChunkDisk, EofDisk,
        RenameDisk DEF Fetches
<1>5. CASE Executes(t)
  <2>1. /\ pc[t] \in {"spawn", "run", "kill", "expire"}
        /\ UNCHANGED <<kind, remote, tag, body, disk>>
        /\ \E step \in {"run", "kill", "expire", "gone"} : pc' = [pc EXCEPT ![t] = step]
    BY <1>5 DEF Executes, Spawns, SpawnFails, Stops, Killed, ShellExits, SubagentCancelled,
       SubagentEnds, Ends, Goto, transfer
  <2>2. /\ pc'[t] \in {"run", "kill", "expire", "gone"}
        /\ \A u \in Tasks \ {t} : pc'[u] = pc[u]
    BY <2>1 DEF TypeOK
  <2> QED BY <2>1, <2>2, DiskKept DEF Working, Transferring, Live
<1> QED BY <1>1, <1>2, <1>3, <1>4, <1>5 DEF TaskStep

\* A newer version is no older than what there is.
LEMMA DiskWorld ==
  ASSUME TypeOK, OnDisk, WorldStep
  PROVE  OnDisk'
<1> USE TasksAssumption DEF OnDisk
<1>1. /\ UNCHANGED <<kind, pc, disk, tag, body>>
      /\ remote' \in Versions /\ remote <= remote'
  <2>1. remote \in Nat
    BY DEF TypeOK
  <2>2. CASE RemoteChanges
    BY <2>1, <2>2 DEF RemoteChanges, transfer
  <2>3. CASE HourPasses
    BY <2>1, <2>3 DEF HourPasses, transfer, TypeOK
  <2> QED BY <2>2, <2>3 DEF WorldStep
<1>2. Separate' /\ FileIsWhole'
  BY <1>1 DEF Separate, FileIsWhole, Whole, Working, Rival, Live, disk
<1>0. \A t \in Tasks : tag[t] \in Int /\ body[t] \in Int
  <2> HIDE DEF OnDisk
  <2>1. tag \in [Tasks -> Versions \union {-1}] /\ body \in [Tasks -> Versions]
    BY DEF TypeOK
  <2>2. Versions \union {-1} \subseteq Int
    BY TasksAssumption
  <2> QED BY <2>1, <2>2
<1>3. \A n \in Int : n <= remote => n <= remote'
  BY <1>1 DEF TypeOK
<1>4. \A t \in Tasks : tag'[t] <= remote'
  <2> SUFFICES ASSUME NEW t \in Tasks PROVE tag[t] <= remote'
    BY <1>1
  <2>1. tag[t] \in Int
    BY <1>0
  <2>2. tag[t] <= remote
    OBVIOUS
  <2> QED BY <1>3, <2>1, <2>2
<1>5. \A f \in Dests : f \notin blind' \union shared' => OneVersion(f)'
  BY <1>1, <1>3 DEF OneVersion, disk
<1>6. \A t \in Tasks : Transferring(t)' /\ Dest[t] \notin shared' => Consistent(t)'
  <2> SUFFICES ASSUME NEW t \in Tasks, Transferring(t), Dest[t] \notin shared
               PROVE  Consistent(t)'
    BY <1>1 DEF Transferring, disk
  <2>1. body[t] \in Int
    BY <1>0
  <2>2. Consistent(t)
    OBVIOUS
  <2> QED BY <1>1, <1>3, <2>1, <2>2 DEF Consistent, disk
<1> QED BY <1>2, <1>4, <1>5, <1>6

-----------------------------------------------------------------------------
THEOREM TasksInvariant == Spec => []TasksInv
<1>1. TasksInv /\ [Next]_vars => TasksInv'
  <2> SUFFICES ASSUME TasksInv, [Next]_vars PROVE TasksInv'
    OBVIOUS
  <2> USE DEF TasksInv
  <2>1. ASSUME NEW t \in Tasks, TaskStep(t) PROVE TasksInv'
    BY <2>1, TypeStep, BookStep, DiskStep DEF Bookkept
  <2>2. CASE WorldStep
    <3>1. TypeOK' /\ OnDisk'
      BY <2>2, TypeWorld, DiskWorld
    <3>2. UNCHANGED <<kind, state, pc, proc, panicked, entries>>
      BY <2>2 DEF WorldStep, RemoteChanges, HourPasses
    <3> QED BY <3>1, <3>2 DEF Accounted, ProcIsRun, CancelReaches, NoPhantom, Live, entries
  <2>3. CASE UNCHANGED vars
    <3>1. TypeOK'
      BY <2>3 DEF vars, TypeOK, entries, transfer, disk, clock
    <3>2. OnDisk'
      BY <2>3 DEF vars, OnDisk, Separate, FileIsWhole, Whole, OneVersion, Consistent, Working,
         Transferring, Live, Rival, disk, transfer
    <3> QED BY <2>3, <3>1, <3>2 DEF vars, Accounted, ProcIsRun, CancelReaches, NoPhantom, Live,
          entries
  <2> QED BY <2>1, <2>2, <2>3, NextCases
<1> QED BY <1>1, InitInv, PTL DEF Spec

\* Every variable of the task manager keeps its type.
THEOREM TypeCorrect == Spec => []TypeOK
<1>1. TasksInv => TypeOK
  BY DEF TasksInv
<1> QED BY <1>1, TasksInvariant, PTL

\* No sweep and no step of a runner loses the way by which it is cancelled.
THEOREM RunnersReachable == Spec => []CancelReaches
<1>1. TasksInv => CancelReaches
  BY DEF TasksInv
<1> QED BY <1>1, TasksInvariant, PTL

\* What get_task_status says of a runner and of its process is so.
THEOREM SnapshotsTrue == Spec => []NoPhantom
<1>1. TasksInv => NoPhantom
  BY DEF TasksInv
<1> QED BY <1>1, TasksInvariant, PTL

\* Where one download at a time has worked, and none resumed without If-Range,
\* a file is one version, all of it.
THEOREM DownloadsWhole == Spec => []FileIsWhole
<1>1. TasksInv => FileIsWhole
  BY DEF TasksInv, OnDisk
<1> QED BY <1>1, TasksInvariant, PTL
=============================================================================
