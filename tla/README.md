# MnemoArc: verification project

TLA+ modules, TLC configurations and machine-checked proofs for the Rust
program in `src/src` (one executable: a web workspace on 127.0.0.1, an agent
that investigates a project and writes a Markdown document, and the tools the
agent calls).  Every definition is translated from the code; `PROJECT.json`
names, for each one, the lines it stands for.

## 1. The system

### 1.1 Components

| Component | State it keeps | Operations | What makes it correct |
|---|---|---|---|
| Write gates (`tools/writes.rs`) | two process-wide mutexes, poison flags, one quarantine flag | `acquire` (poll, try, re-check), drop of the guard, publication of an unknown outcome | one writer per gate; nobody writes behind a gate whose last write has an unknown outcome; a waiter that was told to stop ends |
| Tool threads and the runs awaiting them (`worker.rs`, `agent.rs` execute_one, await_tool_worker, received_tool_outcome) | 128 permits, one thread per call, a oneshot result, child tokens, deadlines | spawn, send, die, receive, stop waiting, settle wait, give up | what a run records of a write is what happened, or the process is quarantined; every awaited call returns |
| Sessions and runs (`web.rs`) | `Core`: sessions, streams, running, the config; one task and one event pump per run | create, run, publish, settle, cancel, close, shutdown | no slot or "running" status without a run, limits kept, a closed session never returns, history never goes back |
| Readers (`web/session_view.rs`, session_project) | a captured `Arc` of a session | capture, validate on a file worker, publish over the captured one | a stale reader changes nothing |
| Tool selection (`web.rs` session_tools, publish_snapshot; `agent.rs` consume_commands; `tools.rs` tool_select) | owner's and agent's active and pending selection, command channel, queued snapshots | select at rest or during a run, consume, snapshot, settle | the user's latest choice is neither lost nor hidden |
| Idle scheduler (`web/automation.rs`) | the record in memory and on disk, the lease file and its time, busy flags, waiting senders | tick, start, note and persist, mark activity | automatic runs stay alone, the record reaches the file, the mark never moves back |
| Display reads (`web/file_io.rs`, `web/file_checks.rs`) | 16 permits shared by all states of a process, digests with owners and waiters | queue, start, time out, stop; claim, hash, wait, confirm | a returned digest belongs to one content the file had during the call; a cancelled reader gives its permit back whatever the owner does |
| Settings (`web.rs` settings, session_settings; `config.rs`) | the config file, the credentials file, the live copies; a session's config and pending config | save both files with rollback, publish; queue a session's settings, apply them in the run, settle | files and live settings agree, also after a crash between the files; the settings saved last are neither lost nor overtaken |
| HTTP connections (`web/connections.rs`) | one task per connection | accept, time out, shut down | connections end within the grace period |
| Agent loop (`agent.rs` run_session_controlled) | task, phase, counters of closing, stall, recovery, usage | request, tool batch, checkpoint, outage, closing, refused or accepted final | every run ends; closing stays short; nothing unfinished is called complete |
| Follow-ups (`agent/question.rs`, `routing.rs`) | the pending message, what it interrupted, a private copy that answers | queue, classify, answer, amend, restore | a message that is not made work of the task leaves it as it was |
| Context and history (`context.rs`, `session.rs`, `session/run_history.rs`) | bundles, active ones, checkpoint, token ratio | push, prune, prepare, clean up, commit | nothing leaves the model's context that it did not confirm; history stays within its limit |
| Memory store (`memory.rs`, `memory/search.rs`) | memories by id and key, the evidence they cite, the task's references, a page's cursor | save, replace, delete, redirect, stale, page | references never dangle, limits kept, stale evidence is not active |
| Task plan (`tools/task_plan.rs`) | ordered to-dos, revision | apply, view | operations are all or nothing |
| Files (`tools/file_edit.rs`, `tools.rs`) | project files, the document and the version an edit is for, a staged patch | write, edit by section or text, patch, roll back | a patch is applied whole, or undone, or reported as unknown; an edit changes only what it names |
| Documentation tools (`tools/documentation.rs`, `coverage.rs`, `document_format.rs`, `summary.rs`, `suggest.rs`, `search.rs`) | delivered ranges, citations, memo caches | record what was shown, resolve sections, audit, cite, search | no unread line counts as read; the rest are text functions |
| Tool arguments and recovery (`arguments.rs`, `recovery.rs`, `memory_tools.rs`) | failure tracker, digest cache, the tools a request offers | classify, count repeats, look up digests, withhold tools | failures cannot hide; a cached digest is current; what is offered may run |
| Database (`database.rs`, `database/free.rs`) | one connection per call | query, mutate, commit, roll back | an interrupted commit is reported as unknown |
| LLM client (`llm.rs`, `llm/dns.rs`) | schema caches, lookup permits | attempt, retry, downgrade, stream | text is shown once, attempts are billed, an outage is not taken for a refusal |
| Entry points (`main.rs`, `console.rs`, `desktop.rs`, `paths.rs`, `evaluation.rs`, `shared.rs`) | | start, print, open a browser | |
| Frontend (`frontend/`), scripts | React state, polling | | |

### 1.2 How they interact

`start_run` admits a run under the core lock, gives the agent a private copy of
the session and spawns one task and one pump.  The agent sends snapshots and
deltas through a channel of four events; the pump publishes them into
`Core.sessions`.  The user's later choices reach the agent through a channel of
sixteen commands.  The agent calls tools: a read or a write runs on a thread
of its own, a write behind one of two gates that every session of the process
shares, and an unknown outcome quarantines the whole process.  When the run
ends the settlement drains the pump, stores the final copy, notes the run in
the scheduler's record and frees the slot in one critical section.  Requests
that show a session capture its `Arc`, work on a file worker and publish only
over the `Arc` they captured.  The scheduler looks at the runs under the same
lock, then opens a session and calls `start_run` itself.  Shutdown cancels the
parent token of every run, waits until no slot is taken, and then for the
record, for a bounded time.

### 1.3 What is hard

- **Doubt.** A write that was told to stop may still commit; a thread may hang
  in the kernel for ever, panic under a lock, or die without a word, while
  another session waits for the same gate.
- **Copies.** A session exists as the owner's copy, the agent's, those in the
  queue and those captured by readers; each may come back late.
- **Check, await, use.** The scheduler, readers and run requests check under the
  lock, await, and act on what they saw.
- **Panics.** The agent, the pump and the settlement may each unwind; the slot,
  the status and the stream have to be repaired by whoever is left.
- **Busy flags.** Background writers release a flag and look for late requests
  in two steps while callers push and look in the opposite order.
- **Two writers outside the lock.** Processes that share the settings change the
  same lease file with separate system calls; other programs save the document
  and the project's files while a tool edits them or reads their digest.
- **Halfway.** A batch of plan operations, a patch of several files, a save of
  two files, a checkpoint's batch of calls may fail, be cancelled or die between
  two steps.
- **Counters that reset each other.** Closing, stall, checkpoint, outage and
  empty replies each bound the loop of a run, and forgive each other's rounds.
- **Bounded tables.** Failures, digests, memories and history are evicted or
  pruned, and what is gone must not make a limit or a claim wrong.

### 1.4 Which module models what

| Module | Stands for | How state and actions correspond |
|---|---|---|
| `WriteQuarantine` | the promise of the gates, without threads | `writer[g]`, `quarantined`, `doubtful[g]` |
| `WriteGate` | `writes::acquire` and its guard, `worker::spawn`, `execute_one`, `await_tool_worker`, `received_tool_outcome`, the write branch of `execute_cancellable` | a run's `stage` is where its `await` stands; a thread's `pc` walks `poll`, `try`, `recheck`, `work`, `publish`, `release`, `send`, one atomic operation or lock operation each; `uncertain` is the shared flag; a free thread is a permit of the pool |
| `Sessions` | `Core` and the tasks of runs, readers, scheduler and shutdown | each action is one critical section of the core lock, or one step of a task between two of them; `slot` is the entry in `running`, `task` the stage of the spawned task, `events` the channel to the pump, `mine` the agent's version |
| `SessionTools` | one session's selections | `owner` and `agent` are the two copies of `active_tools` and `pending_tools`; `commands` and `events` are the two channels; `at` is the stage of the agent's loop at which selections change |
| `SchedulePersist` | `note_*`, `persist`, `write`, `written`, and the end of `shutdown` | one `pc` per caller (`at`) and per detached thread (`th`); `persisting` is the `Busy` flag |
| `SessionSettings` | one session's settings | `owner`, `agent`, `commands`, `events` as in `SessionTools`; a request (`req`) prepares its settings on `base` behind the settings gate; `accepted` is the order in which saves were accepted |
| `AgentRun` | `run_session_controlled` and what ends it | `pc` is the place in the loop (boundary, ladder, prepare, reply, settle); `cp`, `closing`, `stall`, `finals` and `retry` hold the counters and flags the loop reads |
| `History` | `session.rs` and `context.rs`: bundles, checkpoint, prune | `history` holds bundles with a size, whether they are active and reviewed; `phase` is the point the run or the question is at |
| `FollowUps` | `agent/question.rs`, `agent/question/routing.rs`, `session/run_history.rs` | `session` is the agent's copy, `work` the sources of the private copy that answers, `owner` the snapshot the server shows, `pc` the stage of the message |
| `TaskPlan` | `task_plan::execute`, `trial`, `apply` | `plan` holds the ordered items, the ID sequence and the total; a batch is a sequence of operations |
| `Memories` | `memory.rs`, `memory/search.rs` and the tools over them | `memories` in the order of the store; `sources` the delivered evidence, `files` the versions on disk, `refs` the task's references, `page` the listing under way |
| `FilePatch` | `file_edit::execute`, `commit`, `rollback` | `pc` is the stage (stage, check, write, rollback); `original`, `staged`, `left` (what the loop has yet to visit, in the order of the paths) and `completed` are the code's maps and lists; other programs edit between any two file operations |
| `DocumentEdits` | `document_edit`, `document_edit_batch`, the hash the agent fills in | `doc` is a sequence of sections, a hash is the text it is of; `call` holds what the call looked at and its stage |
| `FileReads` | `read_file`, `file_cursor`, `limit_result`, `record_delivered_read` with its branches for `file_read` and `document_inspect` | a text is a sequence of characters, LF, CR and the "#" of a heading line among them; `page` is what was read, `coverage` the recorded ranges; `Inspect` shows a stretch that starts in a section |
| `DigestCache` | `hash_file_cancelled`, `cached_digest`, `remember_digest`, `read_bytes_versioned`, `with_digest` | `thread[t].pc` is the call's place between its system calls; `time` the file's times, `now` the clock |
| `CheckpointTools` | `ToolRegistry::definitions`, `validate_inner`, `checkpoint_writes_open`, `failure_holds_checkpoint`, `checkpoint_complete` | `cp`, `batches`, `editHeld`, `citesHeld` are the session's fields; `calls` a batch under way |
| `Recovery` | `recovery.rs`, `recover_document` and the agent loop's use of both: a verdict may end the run, an outcome that nobody can vouch for and the run's deadline end it at once (`EndsAtOnce`) | `byTool`, `byCode`, `byInvocation`, `repeated` are the tracker's tables, the queues among them as functions whose entries carry the call that put them at the end (`at`) |
| `Completions` | `OpenAiClient::complete`, `attempt` and the four schema caches | `req[i].pc` is the place of a request; `refuses`, `bare`, `suspected`, `recovered` are the process's caches for one endpoint and schema |
| `ActivityMark` | `mark_activity` of every process sharing the settings | the file's time is `mtime`, `wanted` the atomic maximum |
| `FileIo` | `run`, `run_queued`, `stream` and the pool | the request (`req`) and its thread (`th`) are separate: the first may end while the other goes on |
| `FileChecks` | `hash_with` and `Claim::drop` | one `pc` per reader, one record per `Check`; the map and its use order are `cached` and `recent` |
| `SettingsSave` | `settings`, `save_settings`, both files, the restart that reads them | the request (`at`) and its worker (`w`) are separate; the gate belongs to the worker; `crashed` is a process that died between the files |
| `Ascending` | | the elements of a set of numbers in order, for `FileReads` and `DocumentEdits` |
| `WriteGateProofs`, `AgentRunProofs` | | theorems about the modules they are named after |
| `WorkspaceProofs` | | theorems about `Sessions` and `SettingsSave`, as `MCWorkspace` composes them |
| `StoresProofs` | | theorems about `FollowUps`, `SessionTools`, `SessionSettings` and `History`, as `MCStores` composes them |
| `KeptProofs` | | theorems about `Memories` and `TaskPlan`, as `MCStores` composes them, and the types of all its parts |
| `WebFilesProofs` | | theorems about `FileIo`, `FileChecks`, `SchedulePersist` and `ActivityMark`, as `MCWebFiles` composes them |
| `DocumentProofs` | | theorems about `DocumentEdits` |
| `ToolsProofs` | | theorems about `FileReads`, `DigestCache`, `FilePatch`, `CheckpointTools`, `Completions` and `Recovery`, as `MCTools` composes them, and the types of all its parts |
| `MC*` | | finite values, symmetry, and the sums described in section 3 |

## 2. Abstractions

They hold for every module unless a module's header says more.

- **Data.** A tool call has an effect (none, done, unknown) and nothing else; a
  session's content is a version; a settings file is the name of the save that
  wrote it; a digest is the text or the pair of contents it was computed from; a
  group of messages has a size; a memory's body is its size; a document is a
  sequence of sections, and a source text a sequence of ordinary characters, CR
  and LF.
- **Time.** A timeout, an age limit or a deadline may pass at any moment.  The
  properties therefore hold for every setting of the limits.
- **Refusals.** A request answered with an error that changes nothing is a step
  that is not there.  The error answers that do something (a timeout that
  leaves its worker running, a lost worker, a failed rollback) are actions.
- **The agent in `Sessions`** sends any events its channel takes and ends in
  any way.  Cancelling a run only makes it end sooner, so the model, in which
  it may end at any moment, contains every cancelled run; the cancellation
  token therefore needs no variable there (it has one in `WriteGate` and
  `SessionTools`, where it changes what is sent and awaited).
- **The workflow of a session** is fixed when it is created, so the required
  and forbidden tools of `SessionTools` are constants.
- **Panics.** The agent, the pump, the settlement, a tool, a file operation and
  a hashing reader may unwind wherever the code could; a thread may hang in the
  kernel for ever (`Hang`, or an operation without fairness).
- **Tokens and progress.** What fits the model's context, what counts as
  progress and what the model answers are choices, made anew at each step.
- **History variables** (`doubtful`, `latest`, `said`, `since`, `evicted`,
  `halved`, `accepted`, `before`, `alone`, `given`, `chain`, `seen`, `asked`,
  `failed`, `resent`, `streak`, `edited`, `held`, `refused`) record what a
  property speaks of.  They guard no action; a bound may use one.

## 3. The runs

Every passing run checks all of its properties in one state space.  Where
components share no state, a sum checks them together: `MCWorkspace`,
`MCWebFiles`, `MCStores` and `MCTools` choose one `part` at first (each extends
the module of one part and instances those of the others), and a
behaviour runs that component while the others rest in one of their initial
states (or finished).  The states add up instead of multiplying, and nothing is
lost: a step of a component neither reads nor writes the others' variables, so
every behaviour of each component alone is one of the sum, and an invariant of a
resting component holds trivially.  A resting part enables nothing that fairness
speaks of, so fairness does not make a behaviour of the sum impossible.

| Run | Question | Bounds, and why they are enough |
|---|---|---|
| `write_gate` | Is a write's report what happened, and does nobody write after doubt? | A writing run, a run that reads and writes, two threads, one gate: a holder, a waiter, an abandoned thread beside a live one, and a thread used again by the other run. More runs and gates are covered by the proofs. |
| `sessions` | Are status and history right after readers, close and panics? | One session, run by its user or by the scheduler; two readers, each of which may hold a copy made stale by the run, by a removal or by the other; two queued events (so that one is behind another); two steps of the history; shutdown between any two steps. Any number of sessions, readers, slots and events is proved. |
| `workspace` | Does every run beside another, and beside the scheduler, give its slot back? The saves of the settings. | Two sessions and two slots: a user's run, an automatic one, and shutdown between any two steps. Two saves, each of either of two keys, and one crash; any number of saves is proved. |
| `web_files` | Record, mark, pool, digests. | Two run ends and an attempt: one in a batch, one behind it, one in the gap between release and look (any number is proved). Three times to mark: before, during and after a write. One thread for three requests, so each may find it taken; a file of one chunk, so the channel is full while the second read comes. Two readers, two files, room for one digest, two rounds, one change of each file. |
| `agent_run` | Does every run end, stay short in closing, and end honestly? | Both workflows; each limit of the loop at 1 or 2, so that each is reached, left, forgiven and reached again; the task is resumed any number of times. |
| `stores` | Task beside messages, history, plan, memories, chosen tools and settings. | Three requests of the model and one source for a message, with all three attempts of the routing. Groups of two bytes with limits of 6 and 10, so that pruning is forced and may fail; four groups. Three items, two open, two retained as completed (their order matters from two on), and a text that may not be used; batches of one or two operations of any kind, and of three that finish and reorder items. Two sizes, one key and room for two memories. Four tools, of which one is required and one forbidden; three requests for settings, two runs, channels of two. |
| `tools` | Edits, patches, reads, digests, checkpoints, failures, requests. | Documents of up to four sections and about thirty edits, one passage long enough to be taken for a replacement when it is repeated, two calls in a row. Patches of up to three operations on two files, one of them in a directory to be made, with two edits by others. Texts with lone and paired CRs and a heading, read by ranges of up to two lines and from the heading, one edit. Two threads, three ticks, a text and a binary content, two calls. One checkpoint of up to three batches of two calls and two requests, so that its limit is reached. Tables of failures of sizes 2, 1 and 2, four calls, plans that were not applied among them. One retry, with every format and status. |
| `sessions_alone` | Does an automatic run start only when nothing runs? Violated, see section 6. | As `workspace`. |
| `session_tools_return` | Is the user's choice kept when the user returns to an earlier one? Violated. | Two tools, channels of two. In `stores` the user does not return to an earlier selection. |
| `schedule_persist_clear` | When no thread starts, would really nobody write the senders released? Violated. | As `web_files`. |
| `activity_mark_shared` | Does the mark never move back? Violated by two processes. | Two processes, two times. |
| `digest_race` | Is a text handed out with its own digest? Violated. | As `tools`. |

`CHECK_DEADLOCK FALSE` stands in every run but `session_tools_return`, because
those systems really stop: a quarantined or finished process, a shutdown that
returned, requests that are all answered, a bound on calls that is used up.

The bounds are constants, each named where it is declared, with the name or the
value the code has.  `MCSessionTools`, `MCSchedulePersist`, `MCActivityMark` and
`MCDigestCache` serve the violated runs only.

### 3.1 What the properties say

- **Write gates.** `NoWriteAfterDoubt`, `OrphanWriterQuarantined` (a write
  nobody waits for is known to be in doubt), `TruthfulReport` (what a run
  records agrees with what happened), `ImplementsQuarantine` (refinement),
  `CallsEnd` (awaited calls return, abandoned waiters end); `OneWriterPerGate`
  is proved only.
- **Sessions.** `NoGhostRunning` (panics), `ClosedNeverReturns` and
  `NewestStateKept` (readers, late events); `NoStrayAutomatic` and `DownIsQuiet`
  (what was checked before an await), `SlotReleased`.
- **Choices of the user.** `ChoiceKept` (tools) and `SettingsKept` (a session's
  settings): the last choice survives stale snapshots, ends, panics and
  settlements; a run never returns to settings older than those it applied.
- **Settings files.** `SettingsStored`: live settings are the stored ones once
  the gate is free, though requests time out, writes and rollbacks fail and the
  process dies between the files; no save changes another's key.
- **Scheduler's files.** `RecordKept` (no sender forgotten, what was told is
  stored, the process does not exit ahead of the record), `NoMarkLost`.
- **File work.** `LiveThreadsCounted`, `CompleteDownload`, `DigestsShared`;
  `WaitsEnd` (shutdown, downloads, joined digests).
- **A run.** `RunEnds`; `ClosingBounded` (the provider answers at most one
  request more than the limit of closing, whatever counters are reset);
  `HonestEnd` (what the final status must not hide).
- **A session's stores.** `FollowUpKeepsTask`; `HistoryKept` (a group leaves
  the context only through a checkpoint the model confirmed after a batch that
  saved everything, the rule of `README.md:185` and
  `docs/checkpoint-recovery-audit.md:17`); `PlanWhole` (a batch is whole, IDs
  and texts unique, completions neither forgotten nor passed by ones the call
  did not make); `MemoriesKept` (references, keys, limits, cursors, no stale
  evidence made active).
- **Tools.** `PatchWhole` (against `alone`, the disk as it would be without
  the patch); `DocumentKept` (an edit acts on the version it was pinned to,
  and what it does not name keeps its text, its place under its parents, its
  order and, under appends and replaced sections, the number that was its
  alone); `ReadsCovered` (against `given`, the characters shown);
  `CacheCurrent`; `CheckpointPrompt` (two filters written apart agree, and
  holding a checkpoint cannot go on); `FailuresCounted` (bounded tables
  against unbounded ones); `CompletionsKept` (text shown once, attempts
  billed, downgrades learned from successes only).

For each property `PROJECT.json` names a mutant: an operator beside the one it
replaces, with the change a plausible bug would make (a missing re-check, a
late publication, a swapped order), under which the same run fails.

## 4. Fairness

Weak fairness is assumed only of what the runtime or a timer drives:

- the `await` of a run, because a deadline and the one second settle wait end
  it (`WriteGate`), and threads that are not inside a tool or a file operation;
- the end of an agent, because `run_timeout_secs` bounds the run and every
  await of it observes cancellation; the tasks of the runtime (`Sessions`);
- the steps of detached threads and of shutdown (`SchedulePersist`).  The wait
  for the record is counted (so many rounds of a sleep), and each round looks
  again at something other threads change; strong fairness of `CutShort` says
  that the counter runs out though the condition comes and goes;
- the agent loop's own steps and the passing of its time, `run_deadline`
  (`AgentRun`): no answer of the provider, no end of a tool and no message of
  the user is owed, and a run ends all the same;
- the steps of a download's worker, the wait for room with its timer among them
  (`FileIo`), and a reader's steps outside a read of a file (`FileChecks`).

None is assumed of users, of clients (they may stop reading a download), of the
scheduler, of a tool, or of a read or write that hangs.  A read of `FileChecks`
that does not hang ends; that one may hang is an action of its own, and the
properties say what holds beside it.

## 5. Proofs

`WriteGateProofs` proves, for any sets of runs, threads and gates (the
assumptions: `None` is no thread, no gate is called "read", each run's kinds of
calls are kinds):

- `TypeCorrect`: `Spec => []TypeOK`.
- `GatesExclude` and `NoWriteBehindDoubt`, from the invariant `IInv`, the
  conjunction of `TypeOK`, `Holders`, `Doubt` and `NoWriteAfterDoubt`.  The
  checked invariants are not inductive: that two threads do not write behind
  one gate needs that a thread past `TryLock` is the mutex's holder
  (`Holders`), and that nobody enters after doubt needs that the doubt is in
  the shared flag before the mutex is free (`Doubt`: the order of publication
  and release).
- `NoSilentOrphan` and `ReportsAreTruthful`, from `AInv`, the conjunction of
  `TypeOK`, `Expected` (a run expects a thread only inside a call, and that
  thread runs this call), `Orphans` (a writing thread is expected, or the
  process is quarantined), `Told` (an outcome that claims to know what happened
  is right, in the thread and in the channel) and `TruthfulReport`.
- `Refinement`: `Spec => ImplementsQuarantine`.  The mapping makes the holder of
  a mutex the writer of its gate once it is past the second check; `TryLock` and
  the checks map to stutters, the end of the second check to `Enter`, the
  release to `LeaveClean` or `LeaveDoubtful`, whose guard is what `Doubt` gives.

`WorkspaceProofs` proves every property of the runs `sessions` and `workspace`
but the liveness.  `SettingsAreStored` is for any saves and keys (the assumption,
`SavesAssumption`: nothing is not a save).  `SettingsStored` is not inductive: it needs
that a worker at work is the gate's holder (`Holder`), what the files hold beside
the live settings at each of its steps (`Stages`), and that the copy of the keys
it writes is the live one with its own edit (`Copies`).

It also proves `SessionsTyped`, `NobodyRunsGhosts`, `AutomaticHasItsRun`,
`ShutdownStays`, `RemovedStays` and `HistoryNeverGoesBack`, for any sessions,
readers, limit of runs and capacity of the channel (the assumptions: `None` is no
session, and the bounds are numbers).  A slot is taken exactly while its task
lives, and only of an open session (`RunHeld`); only then is a session "running"
(`Quiet`), and the one the scheduler is about to start has none (`Automatic`).
That the history does not go back needs that a queue is empty once its run no
longer drains (`Drains`), that queued snapshots ascend from the owner's version
to the agent's (`Ascending`), and that a reader whose `Arc` is still the owner's
holds the owner's very state (`Captured`).

`WebFilesProofs` proves the six invariants of the run `web_files` for any
requests, readers, paths, run ends and sizes.  Its assumptions are those of
`MCWebFiles`: the limits are numbers, the cache has room for one check, and
nobody is not a check.  Each part has its own inductive invariant, and a part that
does not move keeps it:

- `ThreadsStayCounted` and `DownloadsAreWhole` (`IoInv`): the permits out are as
  many as the live threads (`Counted`), a request that has not started has no
  thread and a thread at work has sent nothing (`Placed`), and every chunk read is
  received, in the channel or in the worker's hands (`Streamed`).
- `DigestsAreShared` (`ChecksInv`): a check is made once, in its reader's round
  (`Rounds`); the use order holds exactly the paths that have a check (`Keyed`),
  each its own (`Held`); an owner's check is in the cache or was evicted
  (`Owned`), so two owners of one path cannot both be there.  Contents only grow,
  so one that is the version both before and after hashing is what was hashed
  (`Seen`), a ready check's digest is its version's (`Ready`), and a waiter's check
  is of its own file and version (`Joined`).  The proof showed the first statement
  of `SharedOnce` to be false: with three readers, a late claim for an older version
  replaces the entry of a newer one, and a third reader then hashes the newer one
  again without an eviction.  The code allows that; the property now says so.
- `RecordStaysKept` (`RecordInv`): that no sender is forgotten is inductive; the rest
  needs that at most one caller or thread has taken the flag (`OneHolder`), so that
  nobody renames an older record over what a writer carries (`Carried`), that every
  caller who pushed waits, is in a batch or was told (`Followed`), and that a
  shutdown which saw nobody waiting saw every slot free (`Looked`).
- `NoMarkIsLost` (`MarkInv`), for one process (`OneProcess`): the flag has one leader
  (`Led`), which moves the mark to a time asked for (`Aimed`), and while the mark is
  older than the latest such time somebody has yet to look at it (`Pursued`).  With
  several processes it does not hold (section 6, point 4).
- `FilesTyped`: the types of all four parts; that of `FileChecks` needs `Distinct`, the
  use order names no path twice.

`AgentRunProofs` proves `LoopTyped`, `ClosingIsShort` and `EndsHonestly`, for any
limits that are positive where the code's are.  That closing is short needs that
each request of it was counted by the ladder unless the pass sends again what was
not answered (`Paced`), and that a checkpoint is given back only what this pass
counted (`Counts`).  That a status is honest needs that it is so when the run
decides to end, not only when it has ended (`Claimed`).

`ToolsProofs` proves every property of the run `tools` but that of the document,
which is in `DocumentProofs`.  The assumptions are those of `MCTools`: the retries are
a number, the limit of failures and the settling time are positive; a text is a
sequence of characters (`ReadsAssumption`); and, for the types alone, that the bounds
are numbers, that each table of failures holds something and that the clock reaches
the settling time (`TablesAssumption`, `LimitsAssumption`).

- `CacheStaysCurrent` (`DigestsInv`), under the condition its property speaks of, that
  calls are shorter than the settling time (`~Slow`): a call that may record a version
  is younger than that version is settled, so a write after the call looked has left
  a later time (`Witnessed`), and so will any write after the record (`Settling`).
  Without the condition it does not hold.
- `PatchesStayWhole` (`PatchInv`): a file that was checked is as the patch read it,
  unless another program edited it since (`Rechecked`); during the writes, and on the
  way back through the rollback, the list of completed files tells which files hold
  the new text and which the old (`WrittenWhole`).
- `CheckpointsStayPrompt` (`NarrowInv`): a hold carries the number of its checkpoint,
  and no later one has it (`NumberedAfter`); so each reason is counted once
  (`Counted`), and edits run in the first batch and in at most one more per reason
  (`Batched`).
- `CompletionsStayKept` (`ClientInv`): each attempt of a request but the running one
  was a counted retry or one of at most two fallbacks (`Attempts`), nothing of an
  earlier attempt was relayed (`Relays`), and a fallback gives up the format it came
  from (`FellBack`).  The proof lowered the bound the property states, from four
  attempts above the retries to three.
- `FailuresStayCounted` (`TrackInv`): evictions touch only tables whose entries an
  unbounded one has too (`Remembered`, `NotOvercounted`); the totals that enforce the
  limit are not among them (`BelowLimit`); and an uncertain outcome is never one that
  can be corrected, so at the limit it ends the run (`UncertainEnds`).  A rollback that
  failed and the run's deadline do so whatever the count.
- `ReadsStayCovered` (`ReadsInv`), for any texts with any mixture of LF, CR and CRLF,
  and for any ranges, budgets and cursors.  A line is delivered when the recorded
  ranges hold all of it, and these are kept apart and merged, so the proof needs that
  every character in a range was shown, or is a break (`OnlyShown`); that a page and a
  cursor are of a range of lines of the text they were taken from (`OfRange`); and that
  the pages of one chain leave no gap behind them (`Linked`).  Most of the work is the
  arithmetic of lines: where they start (`StartsAre`, `LineIs`), how many breaks stand
  before a position (`CountIs`, `CountGrows`), and which lines a page that begins and
  ends anywhere shows whole (`PageIs`, `PageLine`, `WholeLines`).
- `ToolsTyped`: the types of all seven parts.  They are more than the other invariants
  need: what is hashed and cached (`DigestsBounded`), the files a patch names
  (`PatchNamed`), the numbers of a checkpoint (`NarrowBounded`) and the sizes of the
  tables after each eviction (`TrackBounded`).

`DocumentProofs` proves `DocumentIsKept` and `DocumentTyped` of `DocumentEdits`, for
any document, any batches of edits, any saves by other programs and any number of
them; as in the model, the texts of anchored edits carry no heading lines and are not
put beside one, so that of such an edit the theorem says nothing.  The assumptions are those of `DocumentEdits` (the bounds are numbers, a call is
one of some nonempty batches, others save documents, and what is no document is told
from all of them) and that completing a text of citations gives a text.  `Complete` is
a constant operator, the code's normalization of a citation's path; the theorems make
that its type, since TLC cannot evaluate an assumption about every string.

- The invariant (`DocumentInv`): the last save is a version that the task's results
  named (`LastGiven`), the hash that a call expects is the one it was sent with or was
  filled in from such a result (`Sent`), what is staged is made of a version that was
  named and keeps what it must (`Staged`), and after the last look the document is
  still that one, unless another program saved in between (`NotChanged`).
- What one edit keeps: every edit puts a text in the place of some sections, or between
  two (`Graft`).  The sections outside move by a fixed number of places; their parents
  stay over them provided what is put in stands at the level of what follows or below
  it, and so does their path (`GraftOver`, `GraftPath`).  From that: a section whose
  path was unique has it alone afterwards, and the order stays (`Carried`;
  `AppendCarries`, `InsertCarries`, `SectionCarries`, `ExtendCarries`, `TextCarries`).
- What a batch keeps: by an induction on the edits (`AppliedKeeps`), along which a
  section that one edit left alone is not named by the next merely because it moved
  (`CarriedOn`).  Then the result is completed with its citations' paths, which changes
  no heading (`SavedPaths`).

The same induction gives that a batch has one result only (`AppliedIs`), however long.

`StoresProofs` and `KeptProofs` prove every property of the run `stores`.  Their
assumptions are those of `MCStores`: that nothing waits (`None`) is told from every
selection of tools, that limits, sizes and contents are numbers of bytes, that the
plan's limits are natural numbers and, for the types alone, that the bounds of the
counters are (`BoundsAssumption`).

- `TaskSurvivesMessages` (`MessageInv`), for any bounds: the pending message knows the
  status and count it interrupted (`Pending`); since a panic falls back on the owner's
  copy, that copy must be able to bring the same task back, also in the first moments
  of work (`Shown`); sources and the results that cite them are stored together
  (`Cited`), and a run that ended gave back what it found (`Returned`).
- `ChoiceIsKept` (`ChoiceInv`), for any tools, selections per batch and capacities,
  while nobody selects again what was selected before (`~Repeats`; with returns it does
  not hold, section 6, point 2).  No selection is made twice (`Made`), so one the run
  has not heard of is in no copy but the owner's, where nothing takes it for consumed
  (`Unheard`); once the run has it, the snapshots have it from some point on, with no
  later choice of the user before them, and the owner waits for the first of these
  (`Heard`).  While the user has not chosen in this run, every copy aims at the choice
  made before (`Unspoken`), and between runs nothing is queued (`AtRest`).
- `SettingsAreKept` (`SettingsInv`), for any runs and capacities.  A request stands for
  the settings it asks for, so no two ask for the same, and none for those at first
  (`SettingsAssumption`; a return to earlier settings is outside this model, see
  section 7).  With nothing waiting the owner takes a
  snapshot as it is; such a snapshot shows the settings saved last because what is in
  force ascends from the owner over the queue to the run (`Ascending`), what waits in a
  copy is newer than what is in force there (`Sound`), and queued commands are newer
  still (`Newer`).

- `GroupsStayKept` (`HistoryInv`), for any limits, sizes and number of groups: a
  checkpoint reads its groups when it is confirmed, so what it names is retained, in
  the order of the ids, and nothing marks it as free to leave (`Named`).  That the next
  request fits is settled where the run decides on it (`Promised`): a prune that
  `prepare` did not expect to fail takes out no more than what the pressure was
  measured without (`FitsWithoutPressure`).  A confirmation counts only when the batch
  that gave it was saved (`Acknowledged`).  Each action keeps a history "intact"
  (`Intact`): what is named stays, and every other group is free to leave or has a
  successor that is as visible.
- `StoreStaysKept` (`StoreInv`), for any paths, keys, bodies and limits: saves and
  deletions work on copies, so every copy on the way is a store within the limits, with
  unique ids and keys and with active facts that have evidence (`Whole`); dropping
  entries, putting one first and marking the stale ones keep it so (`DropWhole`,
  `PutWhole`, `ReviewedWhole`).  A save keeps the ids it found and gives one the store
  has (`SaveWhole`), so references stay good.  A cursor counts while the generation
  stands, and no step changes the entries without moving it on (`Listed`).

- `PlanStaysWhole` (`PlanInv`), for any texts and limits: an operation puts items in,
  takes one out or gives one another text (`Puts`, `Removes`, `Retexts`), so the plan
  stays a good one (`Good`: IDs and texts apart, the completed items first) and its
  completed items stay as they stood, but for the one that it names (`Steady`, `Adds`,
  `Takes`).  Along a batch what was completed before and is left alone still comes
  first, in its order (`Ranked`), and what the batch will report is completed or waits
  (`Live`); since the end refuses a batch of which a completion still waits (`Quiet`),
  a reply leaves nothing that it reports open.  Then the oldest items leave, one per
  turn of a loop, and one that the batch completed only when no other is left in front
  of it (`OldestLeave`).  What a batch does (`TrialIs`) is proved for operations of any
  number and order; the theorem applies it to the model's calls, whose batches have at
  most three (`Batches`).

- `StoresTyped`: the types of all six parts, from the invariants above and from what
  their guards keep within bounds (`ChoiceBounded`, `ConfigBounded`, `PlanBounded`,
  `StoreBounded`, `KeptBounded`): a memory cites one of the paths in one of its
  versions (`AllCite`), a batch names only items that were made or would be next
  (`NamesItems`), and a checkpoint that is not open is none (`OpenOrNone`).

These speak of a sum over a sequence or of a loop over one.  `Bytes`, the store's
`Drop` and the plan's `Settle`, `Rest`, `Trial` and `DropOldest` use recursive functions
of the place, and what they return is proved by an induction on places (`LeastIs`,
`Climb`): a set of numbers that holds 0, and with each number the next one, leaves out
none, for `<` on the naturals is well founded.

Each invariant has one lemma per conjunct with a step per action, and a theorem
joins them by temporal reasoning.

Every invariant and every action property that a passing run checks is stated by a
theorem.  Only model-checked are the liveness properties (`CallsEnd`, `SlotReleased`,
`WaitsEnd`, `RunEnds`), since liveness under fairness and `ENABLED` are out of the
prover's reach, and the five violated runs, which refute what they check.

## 6. Disagreements between the code and its comments

1. `sessions_alone`: "An automatic run starts only when nothing runs"
   (`web.rs:1033`).  The scheduler looks once, then awaits a file write and the
   new session; a user's run admitted meanwhile runs beside the automatic one.
2. `session_tools_return`: "make the user's latest selection active for the next
   run" (`web.rs:1244`).  A user who selects B and then A again can end with B:
   a queued snapshot that shows the first A counts as the consumption of the
   second.
3. `schedule_persist_clear`: "Nothing will write them: release the callers"
   (`automation.rs:654`).  The flag is free before the list is cleared; another
   caller's thread may be on its way.
4. `activity_mark_shared`: "It never moves back" (`automation.rs:374`).  Reading
   and setting the file's time are two calls, and two processes interleave.
5. `digest_race`: "A file that kept one version across the read takes the digest
   from the digest cache" (`tools.rs:5440`).  `hash_file_cancelled` records what
   it read under the version it saw before it read, without looking again as
   `read_bytes_versioned` does; a text read earlier then gets the digest of what
   replaced it.

Two more were met while modelling and have no run of their own: `tool_select`
"takes effect after this call batch" (`tools.rs:195`), but after two selections
in a batch the owner takes the first, still waiting in a snapshot, for the
user's and keeps it (`BatchSelects = 2` in `SessionTools`); and a strict schema
is recorded as refused "only once the same request succeeds in plain JSON mode"
(`llm.rs:917`), but a success without any format records it, too (the reason
why `CompletionsKept` says `seen.json \/ seen.bare`).

## 7. Not modelled, and the limits of the models

Left out for good: the text functions of the documentation tools (ranking,
formatting, the audit, Mermaid checks), the wording of errors, guidance and
prompts, the repair of malformed arguments, token counting, the wire format of
the model provider and its name lookups, SQL text checks, the entry points, the
frontend and the scripts.  They keep no state that two actors share, or are
input and output.  The connection tasks are left to hyper's timers.

Parts of modelled components that the models leave out:

- `DocumentEdits`: `fix_word`, hints of near matches, whitespace and CRLF in old
  texts, and titles that resolve by a shorter path.  An anchored text edit that
  carries heading lines, or goes beside one, is left out: the code takes it without
  the checks of the section edits, so it can make two headings alike or start a
  section in the middle of another, and `DocumentKept` and its theorem speak of the others.  Which
  lines start a section (fences, comments, levels) is data: a document is given as
  its sections.  The document is not under the write gate; a save by another
  program after the call's last look is lost in the code as in the model, and
  `raced` exempts it from `DocumentKept`.
- `FilePatch`: the same holds for a file that another program edits between the
  patch's last check and its own write (`raced`).
- `DigestCache`: `CacheCurrent` needs calls shorter than the settling time; with
  `Slow = TRUE` a slow call can record what two writes in one tick made of an
  older version.  Another path's entries only clear the cache.  Every write moves
  the file's times: a program that puts back the time of modification is seen by
  the change time, which only Unix has; elsewhere the cache could not tell.
- `CheckpointTools`: the user's own selection of tools (`SessionTools`), and a
  tool's failures beyond whether they hold the checkpoint (`Recovery`).  A run of
  three batches cannot show more than three with edits; that bound is the theorem's,
  which has no limit of batches.
- `SessionTools` and `SessionSettings`: in the passing runs each request asks for
  something new.  Returning to an earlier choice is section 6's second point.
- `Completions`: the run follows one request at a time; the process's caches,
  changed by several at once, are bounded sets whose eviction is not modelled.
- `AgentRun`: what a batch of tools does is a choice, so it promises nothing of
  the tools; their own modules do.
- Of the idle scheduler: the lease, the merge of another process's record and
  the choice of the project.

What comes next: the scheduler's lease with two processes, and the drafts and caches of
the frontend against late answers.

## 8. Running it

`tlc -config <file>.cfg <module>` for a row of section 3 (the pairs are in
`PROJECT.json`), and `tlapm <module>.tla` for each of the modules `*Proofs`.
