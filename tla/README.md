# Relay in TLA+

A verification development for Relay, the agent workspace in this repository: a
Tauri desktop application whose Rust backend (`src/src-tauri/src`) runs many
chat sessions at once, on a built-in chat engine or on CLI harnesses, lets them
message and spawn each other, and runs subagents and automations unattended.
What is hard in it is concurrency: each session, pump, watcher and listener is a
task of its own, and they meet in a SQLite database and in a few maps behind
locks that are taken for one operation at a time.

Paths below are relative to `src/src-tauri/src/` unless they start with `docs/`.

## 1 Inventory

| Component | State it keeps | Operations | What is hard | What makes it correct |
|---|---|---|---|---|
| Session mesh (`session_fabric/mod.rs`, `db/session_fabric.rs`) | table `session_mail`; in the process: parked waiters, the pump set, the watcher tasks | `message_session`, delivery, drain pump, answer watcher, follow-ups; `spawn_session` and its reporter | sender and pump race for a row; a timeout races an answer; all tasks die with the process, the table does not | a status never lies to the sender; a parked call gets its answer; queued mail moves; automatic mail does not bounce |
| Subagent runs (`chat/subagents.rs`, `session_fabric/mod.rs`, `automations.rs`, `db/subagents.rs`) | `running_set` (counts per definition), table `subagent_runs`, a watcher per run | acquire, create, arm, dispatch, release, settle, delete, sweep | two releases and two settles per failed start; polling watchers with a grace and a ceiling | slots are given back exactly once, caps hold, a row says what happened |
| Harness sessions (`agent_sessions`) | `turn_in_flight`, process generation, readers, child | send, readers' lines and ends, watchdogs, stderr sink, cancel, self-heal, reconcile | the late threads of an old process and the start of the next turn | no process out of reach; late threads touch only their own turn; a turn that ended is not busy |
| Built-in chat engine (`chat/mod.rs`, `chat/streaming.rs`) | maps of stream handles, late-attach slots, pending cards, parked edit selections, child tasks | send (supersedes), cancel, finish, approve, spawn a subagent | a stream that finishes while the next replaces it; each map has its own lock | the registered stream is the running one; a card can be answered; a subagent can be aborted |
| Tool dispatch, permissions (`chat/dispatch.rs`, `chat/permission.rs`, `exec_gate.rs`, `hooks.rs`) | policies, one-time grants | decide, ask, remember | an answer that comes after a cancel | a denied tool does not run |
| Partial buffers (`chat/partial_buf.rs`, `agent_sessions/lifecycle.rs`) | text of the streams in flight | append, take, flush at exit | exit in mid-stream | text is persisted once |
| Background tasks (`chat/tasks.rs`) | map of tasks, snapshots, cancel senders; `.part` files | start, finish, cancel, retry, resume, sweep | cancel racing finish; a remote file that changes between attempts | a running task can be cancelled; a snapshot is true; a file is whole |
| Automations (`automations.rs`, `automation_*.rs`, `bin/relay_automation.rs`) | in-process set, lock files, table of runs | tick, prepare, execute, finish | two processes; a failure between guard and run | a job does not overlap itself |
| Memory (`memory`) | tables, worker queue | extract, consolidate, retrieve | a worker behind a live session | an extraction is done once |
| Compaction (`chat/compaction.rs`, `chat/idle_compact.rs`, `chat/cloud_compact.rs`, `db/chat.rs`) | summary rows and `superseded_by`; the set of claims | compact now, when idle, before a request, after an overflow; delete, edit, restore | the summarizer answers long after the rows were read | no message is lost to a summary |
| Plan mode (`chat/plan.rs`) | the plan of a session | propose, approve, leave | approval racing a turn | no edit before approval |
| Checkpoints (`checkpoints.rs`, `git*.rs`) | table and git objects | snapshot, restore, prune | prune racing restore | a listed checkpoint can be restored |
| Sidecars (`chat/local_models.rs`, `sidecar_sweep.rs`) | server processes | start, stop, sweep | start racing stop | no orphan server |
| Mobile relay (`mobile`) | pairing, session keys, stream | pair, relay, reconnect | reconnects | each event is shown once |
| Bots (`bot_runs.rs`, `improve_engine.rs`) | runs, approval queue | queue, approve, run | answer racing timeout | an approval is used once |
| Connectors, browser panes, terminals, galleries, documents, LLM log, cost, vault and wiki, desktop UI | — | — | input/output, formatting, aggregation | — |

How they meet. The mesh and the subagent spawns start turns through one
function, `run_turn` (`session_fabric/mod.rs:2402`), which goes to the built-in
engine (`ChatManager::send`, cancels a running turn of the session) or to a
harness (`AgentSessionManager::send`, refuses while a turn runs), and both learn
that a turn is over by polling `session_busy` (`:1953`). A turn's output becomes
rows of the transcript, which the mesh's watcher reads. Automations and
subagents share `running_set`. `PROJECT.json` lists every component with its
status and every hazard with its line.

## 2 Modules

| Module | What it is | Instances | Proofs |
|---|---|---|---|
| `SessionMesh` | the mailbox, one action per lock hold of each task | `MCMesh` | `SessionMesh_proofs` |
| `MailLifecycle` | the abstract specification of one mail: how its status may move, and what its sender may be told; refined by `SessionMesh` in `MCMesh` | | |
| `MailExchange` | the abstract specification of all mails together: watches, follow-ups, stored answers and what calls return | | |
| `MeshExchange` | `SessionMesh` read as a `MailExchange` (the refinement mapping) | `MCMesh` | `SessionMesh_proofs` |
| `SubagentRuns` | slots, watchers, listeners and history rows of subagent runs | `MCRuns` | `SubagentRuns_proofs` |
| `Automations` | scheduled runs of two processes, their guards and lock files | `MCAutos` | `Automations_proofs` |
| `HarnessTurns` | the turns of one session on a per-turn CLI | `MCTurns` | `HarnessTurns_proofs` |
| `Conversation` | the abstract specification of a session's turns: messages, turns begun, live processes, replies, turns discarded; refined by `HarnessTurns` | | |
| `ChatStreams` | the turns, cards and subagents of one built-in session | `MCStreams` | `ChatStreams_proofs` |
| `Compaction` | the compaction passes of one session over its table of messages | `MCCompact` | `Compaction_proofs` |
| `BackgroundTasks` | downloads, shells and subagents in the background | `MCTasks` | `BackgroundTasks_proofs` |
| `MeshSpawns` | the `spawn_session` tool and its result reporter | `MCSpawns` | `MeshSpawns_proofs` |

The modules meet at interfaces that each keeps abstract for the other.
`SessionMesh` and `MeshSpawns` know a session's turn by its busy flag and its
rows; `HarnessTurns` and `ChatStreams` say how the two engines raise and lower
that flag, and that a harness lowers it before the reply is stored. A subagent
slot of an automation or of a spawn is in `SubagentRuns`.

In every module a definition whose name ends in `_something` and whose comment
says "fault" is a plausible fault in the definition below it: with the fault in its
place the run finds the property of `PROJECT.json`'s "mutants" violated.

### 2.1 SessionMesh

`mail` is the table, a row's index its insertion order. The queue is read `ORDER BY
created_at`, in seconds and with no second key (`db/session_fabric.rs:127`); of two
mails of one second the model takes the earlier row. `waiters`, `pump`, `watch` are `answer_waiters`, the pump
set with its tasks, and the watcher tasks; `box` is the one-shot channel of a
parked call, `disp` where the code that inserted a row is with it, `mark` the
watermark it read; `turn` and `rows` are what the mesh sees of a session: the
running turn and the assistant rows. `unsaved` holds the replies between the two:
a harness's reader clears the busy flag (`perturn.rs:1055`, `claude.rs:921`) before
`finish_turn` inserts the row, the built-in engine inserts it first.

| Code | Actions |
|---|---|
| `mesh_message_session` | `SendGuards`, `SendInsert`, `ParkWaiter`, `Requeue`, `DropWaiter`, `Reject`, `TakeReply`, `TimeoutFires`, `TimeoutReturns` |
| `deliver_or_queue` | `TestBusy`, `CountBacklog`, `KickPump` |
| `deliver_mail` | `MarkDelivered`, `RunTurnOk`, `RunTurnBusy`, `RunTurnFails` |
| `pump_kick` and its task | `PumpKick`, `PumpPick`, `PumpExpire`, `PumpTestBusy`, `PumpMarkDelivered`, `PumpRunOk`, `PumpRunBusy`, `PumpRunFails`, `PumpResolve`, `PumpTurnOver`, `PumpExit` |
| `watch_answer` | `WatchRearm`, `WatchExpire`, `WatchIdle`, `WatchAnswered`, `WatchNoAnswer`, `WatchResolve` |
| `push_follow_up_answer` | `PushGuards`, `PushInsert`, `PushInsertFails` (then the `deliver_*` actions of the new row) |
| the sessions and the process | `UserSends`, `TurnEnds`, `SaveReply`, `Restart` |

Grain. The tasks run on a multi-threaded runtime, so a step is one hold of a
lock or one test of a busy flag; what a task reads for its own next step is one
step with it. Deadlines (the call's timeout, `WATCHER_CEILING_SECS`,
`PUMP_CEILING_SECS`) may pass at any time, so a test of one is a choice. A pump
past its ceiling stays past it (`late`). The watcher sleeps 600 ms between seeing
its target idle and reading the answer; nothing bounds the insert it waits for, so
`SaveReply` may come before or after that read.

Abstractions. All mail is of one hour, so the rolling budget is a count. Rows
carry whether `is_bare_ack` holds, not their text; a blank row counts as no
output. The crash-flush row a harness turn keeps in the transcript while it
streams, and deletes before it clears the flag, is left out. A session is not deleted, and a failing
database write is modelled only where the code takes note of it
(`PushInsertFails`, which may happen at any time). A turn that is superseded leaves no row.

### 2.2 SubagentRuns

`running` is `running_set`; `pc` is where a spawn is and then what the run's
session does; `watcher` the slot-release task; `outcome` the last terminal event
the listeners recorded; `row` the status of the history row; `defined` the
definitions. The three surfaces differ as in the code: the Run button
(`subagent_spawn`) releases and settles a failed start itself *and* leaves its
watcher armed; the mesh's `spawn_session(agent:)` only returns the error; an
automation (`automations.rs:936`) holds its slot for its whole one-shot and has
no watcher. The setup before the first turn may outlast `SUBAGENT_START_GRACE_MS`;
`LongTurns` says whether a turn may outlast `SUBAGENT_SLOT_RELEASE_CEILING_SECS`.
Two variables are history: `hasty` are the runs of this process whose watcher gave up
while they were still being set up, `twice` those whose failed start gave back a slot
that their watcher gives back, too. The properties say exactly what each of the two
spoils: one run of a definition beyond `max_concurrent` for each of `twice`
(`HoldersBounded`), and an `ok` row for those of `hasty` (`OkIsTrue`). That the counts keep
within the caps (`WithinCaps`) is true by the one lock hold that tests and raises them, so
it is a part of the invariant and no property of its own.

Left out: the editing and import of definitions, and a failing insert of the
history row.

### 2.3 Automations

| Code (`automations.rs`) | Actions |
|---|---|
| the 30 s tick and `run_due` of the binary | `SlotComes`, `Tick`, `BootTask`, `LaunchDue`, `PassGoesOn`, `Exit` |
| `run_automation_now`, webhook, file trigger | `RunNow` |
| `prepare_run` | `Guard` (RUNNING), `Publish` (CANCEL), `CreateLock`, `WritePid`, `CreateLockHiccup`, `FoundLock`, `Steal`, `Bind`, `BindFails`, `BindRefused` |
| `execute` and `finalize`, `release_guards` | `ExecEnds`, `Record`, `Leave`, `Uncancel`, `Unlock` |
| processes, the bot's owner, the age of files | `Crash`, `BootApp`, `ToggleBots`, `LockAges` |

`running` and `cancel` are the two maps of each process, `lock` the lock file of
each automation, `att` the calls of `prepare_run` with all they go on to do. A lock
file is told apart by who wrote it, whether it holds a pid, whether that process
lives and whether the file is older than six hours. Its age is judged by the clock
alone (`:552-560`), so a file may turn old under a run that still works: `MAX_RUN_SECS` bounds the
CLI engines, a bot's job has no such bound (`:977-984`), and a machine may sleep. `bare`,
`aged` and `kept` are history: automations one of whose runs went on without its file or lost
a fresh one, one of whose runs saw its file turn old, or whose guards a refusal left
behind. `ExclusiveRuns` speaks of what is neither `bare` nor `aged`, the leak properties of
what is not `kept`. Schedules are slots: `lastRun` is the slot
of `last_run_at`, and an automation is due while it is behind.

### 2.4 HarnessTurns

| Code (`agent_sessions/mod.rs`, `perturn.rs`) | Actions |
|---|---|
| `send` and the spawn of a turn | `Send`, `SpawnFails`, `Spawn`, `RaiseFlag`, `TakeSlot`, `Bump` |
| `cancel`, `turn_liveness`, `reconcile_wedged_turns` | `Cancel`, `Probe` |
| the reader thread | `ReaderSeesEnd`, `ReaderFlushes`, `ReaderAborts`, `ReaderKills`, `ReaderEof`, `Lingers`, `ReaderTail`, `ReaderChecks`, `ReaderClears`, `ReaderDecides`, `ReaderPersists` |
| the two watchdogs, the stderr sink | `WatchArms`, `SilentTrips`, `SinkTrips`, `Kills` |
| the CLI | `Exits`, `FallsSilent` |

The per-session mutex is held over a whole send (`sending`) and over one action of
everybody else; `turn_in_flight`, `proc_generation` and the per-turn flags are atomics,
read and written one at a time. A turn is named by its generation. `late` is
history: turns cancelled when their reader had already decided to store the reply.
`mute` are the turns whose CLI writes no line any more. A CLI that goes on writing is
never cut off: each line refreshes `last_activity` (`perturn.rs:646`, `:894`), and lines that say
it retries a rate limit trip nothing (`:159`, `:903-905`). So `TurnEnds` promises the end of a turn
that is `Closing`, decided or silent, and of no other.

### 2.5 ChatStreams

| Code (`chat/mod.rs`, `chat/dispatch.rs`) | Actions |
|---|---|
| `cancel`, with which `send` begins | `Begins`, `DropStream`, `AbortChildren`, `DropPending`, `DropSelection`, `DropSlot` |
| the rest of `send` | `ResetSlot`, `Spawn`, `Insert` |
| the task of a turn | `Wakes`, `Awaits`, `Dropped`, `ShowsCard`, `CardAnswered`, `SpawnsChild`, `RegisterChild`, `JoinEnds`, `Ends`, `RemoveStreamIfCurrent`, `ClearLateAttach` |
| a subagent and its reaper | `ChildEnds`, `Reap` |
| `resolve_tool_action` | `UserAnswers`, `ParkSelection`, `SendAnswer` |

Each map of the manager is a variable and each lock of one an action. A task goes
from one await to the next ("net" stands for any await of the turn itself), and an
abort takes effect at the next. Sends may overlap, which `overlapped` remembers.

### 2.6 Compaction

| Code | Actions |
|---|---|
| `db/chat.rs`: inserts, `delete_chat_message`, the forks of an edit, the restore of a checkpoint | `AddMessage`, `DeleteMessage`, `SupersedeTail`, `EditMessage`, `EditSent`, `EditRejected`, `Rollback` |
| `compact_session` (`chat/commands/selection.rs`), the hook of `chat/commands/send.rs` | `Claim`, `Load`, `Refeed` |
| `chat/cloud_compact.rs` | `Answers`, `GiveUp`, `Persist`, with `Prior`, `Remaining`, `ToCompact`, `Fits`, `SupersededIds` |

A row is its id; `text` is the set of messages a row tells the model of, its own for
a message and the union of what was folded for a summary. `Claimers` are the passes
that claim the session, `Senders` those of a turn, which do not. `harm` is history:
the four things after which the model may be shown less than the user kept (a
restore that deletes a summary, an edit above a summary, two passes that
crossed, a shown summary that was not folded into the next). `LoadTells` is what a load of
the session tells the model: the rows that are not folded and the newest summary. The
request that a pass of a turn hands back is not the table's: it is the summary and the
pinned rows (`cloud_compact.rs:371-379`), and rows that `fit_summary_budget` cut from the
summarizer's input (`:111-124`, `:344`) are in neither. They are not folded, so the next load
has them again, and that is what `NothingLost` says.

### 2.7 BackgroundTasks

| Code (`chat/tasks.rs`) | Actions |
|---|---|
| `register` with its sweep, `cancel_task` | `Start`, `Cancel` |
| `download_task` | `Look`, `RequestFails`, `Unsatisfiable`, `Resumes`, `Restarts`, `Chunk`, `Eof`, `BodyFails`, `Backoff`, `DownloadCancelled`, `Rename`, `Refused`, `Errs` |
| `shell_task` | `Spawns`, `SpawnFails`, `Stops`, `Killed`, `ShellExits` |
| the background `Task` call | `SubagentEnds`, `SubagentCancelled` |
| a runner that panics, the server, the clock | `Panics`, `RemoteChanges`, `HourPasses` |

A file is the sequence of its chunks, each named by the version of the remote file
it came from. The server (external) answers with the ETag of what it sends or with
none, an ETag tells versions apart, and a version that is gone does not come back.
Nothing keeps two downloads from one destination, whose `.part` they share
(`:434-465`, `:767-773`). `shared` remembers the destinations this has happened to; what
becomes of the bytes there is not followed, and both downloads may take any of the
branches their code has. `blind` are files resumed by a request without `If-Range`: from a
`.part` that an earlier task had left, or from a server that never sent an ETag.
Foreground shells, output, progress
and the exit of the app are left out.

### 2.8 MeshSpawns

| Code (`session_fabric/mod.rs`) | Actions |
|---|---|
| `mesh_spawn_session` | `Guards`, `ParentRow`, `CreateFails`, `Create`, `DispatchFails`, `Dispatch`, `WaitEnds`, `WaitReads` |
| `spawn_spawn_result_reporter` | `RepExpires`, `RepSeesIdle`, `RepReads`, `RepComposes`, `OverBudget`, `RepInserts`, `RepDrops` |
| a child's turn as the mesh sees it | `Flush`, `TurnCloses`, `TurnOver`, `SaveReply`, `UserSends` |
| `delete_chat_session`, the clock, the process | `Delete`, `DayPasses`, `Restart` |

`partial` are the children with a snapshot row, `final` those with a row that stays,
`unsaved` those whose flag is down and whose reply is not stored. A mail refers to the
rows of both its sessions (`db/mod.rs:1314-1317`, foreign keys are on), so the insert of a report
fails when one of them was deleted, and the error is dropped with the mail
(`session_fabric/mod.rs:1321-1326`). Left out: the resolution of model and engine, other database errors of
the reporter, and a failing write of a child's origin (`:1672`, its error is ignored), after
which the child counts as a root.

## 3 Runs

| Run | Instance | What it shows |
|---|---|---|
| `mesh_race` | 2 harness sessions, one asks and notifies, 2 rows, 1 user turn, 1 reply per session | `AskerWatched`, `AtMostTwoTurns`, `ReplyIsStored`, `DeliveredIsAttended` while dispatcher, pump and watchers race |
| `mesh_followup` | 1 question and its follow-up, outputs none / ack / text, 2 user turns, 1 exit, fair | `NoPingPong`, `FollowUpsCounted`; the mesh implements `MailExchange` (`FollowsExchange`) and each row `MailLifecycle` (`FollowsLifecycle`); `QuestionSettles`, `PumpDrains` |
| `mesh_lostwakeup` | as `mesh_race` | a violation, section 6 |
| `runs_slots` | 2 runs, 2 definitions, all surfaces, slow setup, long turns, 1 exit, fair | `NoSlotLeak`, `OkIsTrue`, `HoldersBounded`, `SlotsReturn` |
| `autos_autos` | app and binary, 1 automation of a bot, 2 attempts, 1 slot, 2 events, fair | `ExclusiveRuns`, `GuardsHaveRun`, `LocksHaveRun`, `DueServed` |
| `autos_livepid` | as `autos_autos` | a violation, section 6 |
| `turns_turns` | 2 turns, 1 fault, fair | `BusyIsAttended`, `NoOrphanProcess`, `KillsOwnOnly`, `CancelDiscards`, `TurnEnds`; the turns implement `Conversation` (`FollowsConversation`) |
| `streams_streams` | 2 sends, 1 cancel, fair | `LiveIsRegistered`, `CardAnswerable`, `ChildReachable`, `AbortEnds` |
| `compact_compact` | 2 claiming passes and 1 of a turn, 5 rows, 1 user operation, 1 pinned message, fair | `NoGhost`, `FoldedIsSummarised`, `NothingLost`, `ClaimReturns` |
| `tasks_tasks` | 2 tasks of any kind, 1 destination that both may write, 2 versions of 2 chunks, 1 retry, 1 panic, 1 hour, fair | `CancelReaches`, `NoPhantom`, `FileIsWhole`, `CancelEnds` |
| `spawns_spawns` | 1 root, 2 children (one on a harness), 2 calls, caps of 1, 1 event, fair | `FanOutBounded`, `ResultToldOnce`, `PromiseKept` |
| `spawns_finished` | as `spawns_spawns` | a violation, section 6 |

Bounds. Every race in the mesh is between the sender of a row, the pump of its
target, the watchers of the row and the target's own turns: one question
exercises all of them, and a second row makes the pump choose and the two rows
share the target. One user turn suffices to make a target busy or to put another
row in its transcript, two to do both. `MaxReplies` lets one turn of each session
leave output in `mesh_race` (whichever it is, saved early or late) and all of them
in `mesh_followup`. Two definitions under an app-wide cap of two, one with room for
two runs and one for one: two runs of the second are one more than its cap, two
of any kind reach the cap of the app, and a second run is the one whose slot a
double release takes. One exit is enough where nothing counts exits.

Two attempts of one automation are the two sides of each of its guards, whether of
one process or of two, and what one attempt does to another's lock takes no
third. A second turn is the one that supersedes the first, and nothing in the code looks
further back than the current generation or the registered handle. Five rows are
the fewest in which a summary of messages is folded into another one while one
message is pinned; a pass of a turn can cross one that claimed, and a claiming
pass follows another. Two versions of two chunks are a file that changes in the
middle; one retry is one resume after the change (the code has two, which add only
repetitions). Two calls are concurrent calls, and caps of one put the second at the
cap. `MaxMail`, `MaxUserTurns`, `MaxReplies`, `MaxRestarts`, `Attempts`, `MaxSlots`,
`MaxEvents`, `MaxTurns`, `MaxFaults`, `Turns`, `Cancels`, `MaxRows`, `MaxOps`, `Tasks`,
`Versions`, `MaxPanics`, `MaxHours`, `Children` and `Calls` are bounds of the models; the
other constants are constants of the code, made small.

Symmetry is not used, as the runs check liveness. No cfg checks for deadlock: a mesh with no mail left, runs
that are all over, an app with no more turns to start really are at rest.

`FollowsLifecycle` holds with one question at a time, follow-up included. With a
second mail for the same target the pump may pick a row that its own sender is
delivering (a row is `queued` from its insert), and the row is then written by
both. What still holds then, for any number of mails, is the exchange (`FollowsExchange`), and
`AtMostTwoTurns`, `AskerWatched` and `DeliveredIsAttended`, which `mesh_race` checks; all
of them are proved.

## 4 Fairness

Tasks and threads are scheduled, so their own steps are weakly fair; what the world
does (turns that end, users, servers that answer, processes that die) is not,
unless said so here.

- `SessionMesh`: each dispatcher, watcher and pump. `TurnEnds` and `SaveReply` have no fairness: a
  turn may run for ever. What makes the properties hold are the deadlines: a call's
  timeout, two windows of a watcher, a pump's ceiling. A pump past its ceiling
  expires the next row it has in hand, whatever it did before, which is strong
  fairness of `PumpExpire`.
- `SubagentRuns`: spawns and watchers; a watcher's clock runs while the turn does, so
  its ceiling needs no turn to end. A one-shot holds its own slot and has no watcher: a CLI is cut
  off at `MAX_RUN_SECS` and a plain chat request at 120 s, but the tool loop of a bot's job has
  no bound, so no end is assumed and `SlotsReturn` excepts a one-shot that never returns.
- `Automations`: attempts, passes, and the age of a file. No run has to end (a bot's job has no
  `MAX_RUN_SECS`), so `DueServed` excepts an automation one of whose runs works for ever; nobody has to
  start the app, and the OS need not start the binary, whose task is opt-in and of one system only.
- `HarnessTurns`: the rest of a send, readers, the watchdogs' kills, and the silent-hang watchdog of
  a CLI that is `mute`, as `SILENT_TURN_TIMEOUT` then runs out. A CLI need not exit nor fall
  silent; nobody has to cancel or probe.
- `ChatStreams`: the tasks of turns. Nobody has to answer a card, and no subagent to end.
- `Compaction`: a pass up to the summarizer's headers, for which there is a timeout of
  180 s. Its body has none, so nothing is assumed of a pass that reads it.
- `BackgroundTasks`: what a runner does by itself. A request may stay unanswered, a shell or
  a subagent run for ever.
- `MeshSpawns`: the reporter, whose two ceilings need no turn to end.

## 5 Proofs

All for every value of the constants, so for any number of sessions, mails, calls,
runs, turns, rows and tasks, and any caps,
from `MeshAssumption` and `RunsAssumption` (the types of the constants) and their
like in the other modules.

`SessionMesh_proofs`. The invariant is `MeshInv`. `AskerWatched` alone is not
inductive: that a call awaiting its receiver is registered depends on its having
been registered since before delivery (`Parked`), on only questions waiting
(`OnlyQuestionsWait`), on watchers belonging to rows in use (`RowsInUse`), and
on a pump working on a row in use (`PumpHasMail`), without which its writes
would not be typed either. `NoPingPong` needs that a question is never itself a
follow-up (`FollowUpsAnswer`). The argument for `AskerWatched`: whoever takes the
sender out of the map also fills its box (the receiver lives as long as the call
waits), so an empty box means nobody has been there; and a watcher only ends
after it has been there. `ReplyIsStored` goes from the row to the watcher, its
receiver and the call (`AnswersStored`).

That a question is put to its target twice at most is a count that no step raises:
the watchers of a mail, one for each turn started, and the turns still open to it
(`TurnsBounded`). Open are one turn to the sender until it is through, and to the
pump of the target (`PumpsOwnMail`) one for the row in its hand and one for the row
in the queue, which are one and the same until the pump has written the row's
status. A requeue by the sender spends the sender's own turn, one by the pump moves its
turn from the hand to the queue. `AtMostTwoTurns` follows. The same count with
watchers still at work in place of all watchers, and the follow-ups in place of those that
ended, holds over exits as well (`FollowUpsBounded`, theorem `TwoFollowUpsAtMost`), which
is what `MailExchange` promises. `DeliveredIsAttended` is the safety half of
`QuestionSettles`: a delivered question has, until the process exits, somebody whose next steps settle it
or put it back; a watcher is done only after it has written the row.

`MeshIsExchange` is the refinement, step by step: every action of the mesh is shown to be
one step of `MailExchange` or a stutter under the mapping of `MeshExchange`. A turn that
starts puts a question, which `FollowUpsBounded` says there is room for; a watcher that
pushes is a follow-up and the end of a watch in one step; what a call returns is truthful by
`AnswersStored` and `OnlyQuestionsWait`; nobody returns for a follow-up
(`FollowUpsUntold`).

`SubagentRuns_proofs`. The invariant is `RunsInv`. `NoSlotLeak` counts: a step
takes a slot for a run that owed none, or gives back the slot of a run, or moves
none; a double release saturates or takes another run's slot, which makes the
count smaller, never larger. It needs `BornBare` so that arming a run does not
hide a slot. The sum that the cap of the app is compared with is the size of the
set of slots in use (`Slots`), finite in every state (`SlotsFinite`): a step adds or takes
one of its elements, so no induction over the definitions is needed.
`OkRowsAreTrue`: within the grace the fail-fast path writes before the watcher
(`GraceCovers`), but for the runs in `hasty`, and an `ok` row is written by the last writer
(`OkIsLast`). `HoldersWithinCap` rests on `Balanced`: the runs that hold a slot are at most
the count and the starts that gave back twice. A step that takes a slot raises both
sides, one that gives back a run's own lowers the left one and the count by at most one, and
the second give-back of a failed start lowers the count and adds the run to `twice`.

`Automations_proofs`. The invariant is `AutosInv`. `ExclusiveRuns` follows from
`LockOwned`: unless the automation is bare or aged (`Exposed`), an attempt past the lock has a file that is
its own, of a live process and young, so nobody finds it stale, and nobody else has it.
Within a process `EnteredOnce` does it without the file: the attempts between the two
ends of RUNNING are at different automations. `LockedPhase` ties the file to where
an attempt is.

`HarnessTurns_proofs`. The invariant is `TurnsInv`. That the slot holds the current turn's
child, or the next one's just before the generation goes up (`SlotIsCurrent`), is
why overwriting it after a kill orphans nothing (`NoOrphanProcess`), and why a thread
that compares generations kills no other turn's process (`KillsOwnOnly`, an action
property). `CancelledStops` is the half of `CancelDiscards` between the reader's decision and
its insert. `BusyIsAttended`, the safety half of `TurnEnds`, is proved on top of `TurnsInv`: the flag
goes up only for a turn that has a process (`FlagIsDown`), nobody reports a turn that has not
started (`ReportsStarted`), and who takes itself off `killers` leaves no process of that turn
behind, by `NoOrphanProcess`. `IsConversation` is the refinement of `Conversation`, step by step: a turn
begins with the generation, by when `SlotIsCurrent` and `NoOrphanProcess` leave no process of an
earlier one; the messages are counted by `UserRowsMatch`; a reader that stores a reply was not
cancelled in time and has stored none (`CancelledStops`); a cancel in time leaves no process.

`ChatStreams_proofs`. The invariant is `StreamsInv`. `LiveIsRegistered` needs that
sends which do not overlap are one at a time (`OneSend`), and that a send between its cancel
and its insert finds no handle (`NoHandle`), so that the insert replaces none.

`Compaction_proofs`. The invariant is `CompactInv`. Folds go forward (`FoldsForward`), so the
newest summary is never itself folded; while no harm is done each summary tells all that
the earlier ones tell (`Nested`), and a pass that nobody overtook was shown one that does
(`ShownSaysAll`). Hence the one summary that a load takes up tells of every folded message
(`LaterLoadsTell`). Of the request a pass hands back to its turn nothing is claimed.
Two lemmas on the oldest and the newest row of a set rest on the library's
well-founded orderings.

`BackgroundTasks_proofs`. The invariant is `TasksInv`. At a destination that is not `shared` one
download works at a time (`Separate`). `FileIsWhole` follows from `OneVersion`: what that download has of
the file is of one version, unless it is `blind`, and `Consistent` ties the version to the ETag it
would send, so a server that has another version sends all of it.

`MeshSpawns_proofs`. The invariant is `SpawnsInv`. Whoever is about to create a child is a
root (`CallersAreRoots`), as the depth test stands: an id that is in no table counts as
one, so a call of a deleted child passes the test, and is stopped by the
look at its row. `FanOutBounded` counts children and pending calls: a call that passed the cap
was counted when there was room. `ResultToldOnce`, the safety half of `PromiseKept`, needs
that two calls never work for one child, and that nothing was told of a child while its call
is at work (`OneCall`).

Every invariant, and every action property, that a passing run checks is a theorem. Only model-checked: all liveness (`QuestionSettles`, `PumpDrains`, `SlotsReturn`, `DueServed`,
`TurnEnds`, `AbortEnds`, `ClaimReturns`, `CancelEnds`, `PromiseKept`), as fairness and ENABLED are
beyond the prover; and the refinement of `MailLifecycle`: its instance has one question
at a time, a bound and not a constant of the code, and without it the refinement is false
(section 3). No run checks types: `TypeOK` of every module is a theorem (`TypeCorrect`,
`RunsTypeCorrect`), and TLC's time goes to what can be wrong.

## 6 Where code and comments disagree

Three are runs that TLC finds violated, and findings in `PROJECT.json` with the line
they quote.

1. `mesh_lostwakeup`: the pump sees the queue empty and leaves the pump set in
   two steps; a kick in between is a no-op, and the mail it announced stays
   queued until the next kick for that target.
2. `spawns_finished`: a call that waits for its child also stops waiting at
   `QUESTION_TIMEOUT_MAX`; the row it then takes may be the snapshot of a turn that is
   still running, which is returned as the result of a finished one.
3. `autos_livepid`: a lock file with the pid of a live process is never stale, says the comment at
   `automations.rs:535-536`, because a run is bounded at 2 h; the code takes one that is six hours
   old for stale (`:558`), and nothing bounds a bot's job. The lock of the run at work is then
   removed, and a second run of the automation starts beside it.

Met on the way, each reachable in the module named, without a run of its own.

`SessionMesh`. A call's receiver outlives its timeout; an answer sent in between goes to
nobody and, as the send succeeded, is not mailed either (`session_fabric/mod.rs:1122`,
against `:1118-1121`). The pump's expiry and a watcher that finds no output do not mail
a notice to a caller that was told to expect a follow-up (`:1385`, against `:1066-1070`).
The busy test and the send are separate steps; on the built-in engine the mailed
turn then cancels the user's (`:940`, against `chat/mod.rs:1649-1651`). The hourly budget is
counted before the row is inserted, so concurrent calls pass it together; a sender
refused as busy requeues its row without looking at the mailbox cap; the stored answer
is the newest row after the watermark where the comment at `session_fabric/mod.rs:971`
says the first; a follow-up whose delivery fails stays `delivered`.
`docs/architecture/SESSION_MESH_DESIGN_ARCHITECTURE.md` says overflow is `expired` (`:231`), the code
sets `rejected`; and that the budget is per target (`:243`), the code counts per sender.

`SubagentRuns`. A failed start is released by the fail-fast path and by the watcher; the
second release takes the slot of another run, and more first turns than `max_concurrent`
run (`session_fabric/mod.rs:2381`, against `:2194-2197`). A mesh spawn whose first turn fails to
start is recorded ok (`:1788`, against `:1745-1747`), which is why `OkIsTrue` asks that only of the
Run button. A definition may be deleted between a spawn's lookup and its slot; with setup
slower than the grace a row may read ok before the first turn.

`Automations`. The refusal of a disabled bot's job returns without `release_guards`, without
which, its comment says (`automations.rs:443-447`), every later run is swallowed as already
running until the app restarts. A due list is read before its runs, so a pass may run a
slot again that another process has served. Between the judgement that a file is stale and
its removal by path, the file may have become a fresh lock (`:564`). The end of a
run removes the stop flag of the next run of the automation. A process that dies between
making the file and writing its pid blocks the automation for six hours.

`HarnessTurns`. The heal at send does not look at the reader of a per-turn CLI
(`agent_sessions/mod.rs:573-583`), so a turn whose process is gone and whose reader still works may
be superseded; a late line on stderr is not checked against the generation
(`perturn.rs:137-143`), though its kill is; the flag may be lowered between two turns' compare
and clear, leaving a running turn not busy; the reply of one turn may be stored after the
next turn's user row, as the flag falls first.

`ChatStreams`. Overlapping sends can leave a running stream whose handle is not registered,
and which no cancel reaches; a cancel between the spawn of a task and the insert of its handle is lost;
a task that is over before the insert removes whatever is registered; a turn's tail clears the
late-attach slot of the turn that superseded it; a parked edit selection may be
taken by the card of another turn; a subagent started after the cancel of its turn runs on
until the next cancel or send.

`Compaction`. The comment at `chat/cloud_compact.rs:264-267` says the timeout bounds the whole
exchange; it bounds the headers, and a body that never ends keeps the session's claim for
ever (`ClaimReturns` says so much and no more). A pass of a turn takes no claim. The restore of a
checkpoint that deletes a summary leaves the rows below pointing at it and out of the model's sight
(`db/chat.rs:1289`, where `delete_chat_message` releases them, `:1197`). An edit above folded rows retires the
summary that holds earlier ones; a pass that read its rows before an edit folds what the
edit retired. A turn whose history was cut to the summarizer's budget sends a request without
the rows that were cut.

`BackgroundTasks`. A cancel that finds the receiver gone writes `failed` over a final state that has
just been written (`chat/tasks.rs:399-410`). The age of a finished task counts from its creation, so a long
task may vanish as it ends (`:312-314`, against the reply at `:386`). The `.part` of an earlier task is resumed without `If-Range`
(`:837-843`), which is what `blind` excepts. Two downloads of one destination write one `.part`, and a
file made of both is renamed to its place as complete. A runner that panics after it was sent a cancel
reads `running` for ever. A request that a server leaves unanswered hears no cancel.

`MeshSpawns`. A child whose reply is stored after the 600 ms grace is reported to have ended
without output; one whose user sends within the grace is reported still working; a report
over the mail budget is dropped silently; old children that become active again exceed the caps.
A promised report is dropped without a word when the child was deleted before it was mailed.
On the depth of the tree the documents and the code disagree. The code asks `depth + 1 >=
MAX_SPAWN_DEPTH` with a cap of 2 (`:1495`), so a spawned session spawns nothing.
`db/session_fabric.rs:385-387` says a grandchild has depth 2 and spawning is allowed while the depth is
below `MESH_MAX_SPAWN_DEPTH`, and `docs/architecture/SESSION_MESH_DESIGN_ARCHITECTURE.md:282-286` has a
tree of depth 2 in which a child may spawn after its first turn. The model does what
the code does; that children may spawn is a possibility, which no invariant states, and no property
here takes the code's side.

## 7 Not modelled, and what is left

The repository is some 200 000 lines, most of them input/output, rendering,
parsing and prompts; what is modelled is the part where tasks, processes and
deadlines meet, a small share of the lines. Of that part these remain:

- the persistent harnesses (one CLI process for many turns) and the ACP protocol, which share
  the busy flag and the generation of `HarnessTurns` but not its one process per turn;
- composing `HarnessTurns` and `ChatStreams` with `SessionMesh`, to show that they implement the
  busy and refusal interface it assumes (`CanStart`, `TurnEnds`);
- the memory worker's cursor, the bots' approval queue, the buffers flushed at
  exit, plan mode's denial at the dispatch gate: small state machines on one row or map each;
- start, stop and sweep of local model servers, which depend on ports and the process table;
- the mobile relay, whose other half is a server and a phone outside this repository;
- abstract specifications of the guards of a scheduled run and of a built-in session's cards,
  with `Automations` and `ChatStreams` proved to implement them.

Out of scope: input/output, formatting, numeric heuristics, cryptography, the user
interface. `PROJECT.json` lists each component with its status and each hazard at its line.
