# A TLA+ model of ASRbox

ASRbox is a local transcription service: a Python backend (FastAPI, SQLite, worker
threads, subprocesses), a web frontend and a Tauri shell that starts the backend. This
directory models the parts of it whose correctness depends on the order in which threads,
requests, commits and restarts happen, checks the models with TLC on small instances and
proves the most important results with TLAPS for instances of every size.

## 1. Inventory

| Component (source) | State | Operations | What makes it hard | What makes it correct |
|---|---|---|---|---|
| Task lifecycle (`backend/services/tasks.py`) | rows of tasks, chunks, segments, versions; two work queues; worker threads | create, cancel, retry, retranscribe, delete, reconcile, chunk retry, cleanup, relink, post-processing; the pipeline `run_task` | handlers on the event loop, in pool threads and workers interleave; some checks and commits are not under the lock; SQLite's write lock; crash and restart | one writer per task; a cancelled task does not complete; completed results are kept and have a transcript; every active task settles |
| Task registry (`task_runtime.py`) | queued, running and cancelled ids | mark, request_cancel, active_ids | in memory only, updated apart from the rows | no id is stranded |
| Transition lock (`task_transitions.py`) | holder | acquire, release | used by most but not all mutations | check-and-claim sections exclude each other; no deadlock |
| Transcript editing and versions (`tasks.py`, `versions.py`) | segments, version history | edit, split, merge, restore, post-process | optimistic base versions, concurrent jobs | no lost update, history is append-only |
| Worker pools (`tasks.py`) | counts and targets | grow, replace a dying thread | a dying thread against a settings change | targets are reached, never a queue without a worker |
| Local transcription subprocess (`tasks.py`, `local_task_worker.py`) | state file, process, stall timers | start, poll, kill, resume finished chunks | a stall deadline against a late answer | finished chunks are used once |
| Batches (`tasks.py`) | batch id of tasks | create, status, retry failed | partial failure | the status is that of the members |
| Translation runs (`translation.py`) | runs, batches, translation versions; one queue and worker | create, cancel, retry, execute, edit | network waits outside the lock; attempts; a dying worker | one active run per task; only the current attempt writes; results are published once and complete |
| Proofreading runs (`proofreading.py`) | runs, suggestions | create, execute, apply | the transcript changes under the run | stale suggestions are not applied |
| Model downloads (`models.py`) | in-memory progress, queue, files | download, pause, resume, cancel, delete | control calls against the worker's file operations | at most one download of a model; no "ready" model without its files |
| Model storage relocation (`model_storage.py`) | location, journal, files | plan, copy, verify, switch, clean up | crash between the steps | one complete copy is always the configured one |
| CUDA kit (`cuda_kit.py`) | installation state, files | install, cancel, remove, repair | crash and cancel between steps | a half-installed kit is never used |
| Resource tickets (`resource_tickets.py`) | tickets | issue, validate, expire | eviction at the limit | a live ticket opens its own resource only |
| Event bus (`utils/events.py`) and event stream | bounded subscriber queues | publish, subscribe | a full queue drops events | a client that reloads converges |
| Storage (`storage.py`) | files, archives | usage, cleanup, backup, restore | sweeps without the lock | nothing of an active task is removed |
| Uploads and media (`uploads.py`, `media.py`) | files | import, normalise, split | I/O errors | outcome: success, error or cancellation |
| LLM providers (`llm_providers.py`, `llm_capabilities.py`), chat (`chat.py`) | provider rows; sessions, messages, a worker per question | edit, test, apply what a test recommends; send, stream, stop | a test takes minutes while rows change; readers go away | what is applied was tested on that configuration; no shown text is lost |
| Speech providers (`providers.py`), model registry (`registry.py`) | rows; two tables written by hand | edit, test, delete; search, filter, sort | forms over a list that changes; tables that must agree | a save names the provider it was filled from; the tables agree |
| Settings and media folders (`settings.py`, `config.py`, `media_storage.py`) | defaults; `media-storage.json` | patch from several places | stale forms, ignored nulls, two windows | the last choice counts; untouched keys are kept |
| Platform, migrations, exports, quality, diagnostics, logs, MCP server | rows | read, write, format | - | - |
| Web frontend: pages (`routes`, `components`) | cached answers, forms, dialogs, address | clicks, polls, events, answers | answers arrive late, lost and overtaken; other windows | the user's choice is what is done, and lists catch up |
| Web frontend: the link to the server (`serverStore.ts`, `eventStream.ts`, `useDesktopServerControl.ts`) | server, stream, polls | choose, start, reconnect | events are dropped and missed | the window comes to show its own server |
| Tauri shell (`tauri/src-tauri`) | sidecar process, update state | start, supervise, stop, update | a cancellation against the download thread | one download at a time |

The components meet in three places: the SQLite rows (every commit is visible to all
threads; one writer at a time), `task_transition_lock` (tasks, translation, proofreading,
storage and model storage take it) and the registry, which handlers ask before they touch
a task. `PROJECT.json` lists every component with its status, and under `hazards` what is
hard to test in each of them.

## 2. Plan

1. **Task lifecycle** (done): `TaskRuntime`, `TaskLifecycle`, `TaskProperties`, `MCTask`,
   proofs in `TaskLifecycle_proofs` and `TaskResults_proofs`: every safety property the runs
   find to hold.
2. **Translation** (done): the contract of a run (`TranslationContract`) and the
   queue/worker/attempt protocol that implements it (`Translation`), refinement checked
   and proved.
3. **The server's other jobs** (done): `ModelStorage`, `CudaKit`, `MediaFolders`,
   composed with translation in `MCServices`; `Proofreading`, `ModelDesk`, `ChatDesk` each
   together with the page that shows them. Proofs in `Services_proofs`, `Pages_proofs` and
   `Providers_proofs`.
4. **The pages** (done): one module per page with the handlers it calls, composed in
   `MCPages` and `MCPagesLive`; their safety and action properties proved in `Pages_proofs`
   (tasks and transcripts), `Editor_proofs` (the transcript editor and its text algorithms)
   and `Providers_proofs` (what is configured), and for the window in `Window_proofs`.
5. Left: the storage sweep and transcript restore as request kinds of `TaskLifecycle`, and
   the batching algorithms of translation.

## 3. The task lifecycle

### Modules

* `TaskRuntime` - `task_runtime.py`: `queuedIds`, `runningIds`, `cancelledIds`, one action
  per function (each runs under the registry's own lock).
* `TaskLifecycle` - the rows (`status`, `chunks`, `transcript`, `versioned`, `route`), the
  queues, a program counter per worker and per request thread, `task_transition_lock`
  (`lock`) and SQLite's write lock (`writer`).
* `TaskProperties` - what is claimed. `MCTask` - the sets the instances use.

One action stands for one database commit, one registry call, one acquisition of the lock
or one read that a later step relies on. The handlers declared `async def` that never leave
the event loop (cancel, retry, retranscribe, delete, reconcile) are steps of one thread,
`EventLoop`; creation, chunk retry, cleanup, relink and post-processing run in
`PoolThreads`. A statement that writes waits for the write lock; only the completion
transaction of `run_task` keeps it across a step that another thread can see, from
`_store_segments` to the completion commit, and only when the quality report has no
warnings (with warnings, the diagnostics and log rows commit in between).

Data is abstracted to what the properties tell apart: a task's chunk rows to the set of
statuses that occur among them, its text and segments to one Boolean, its versions to
another, an engine call to success, error or cancellation. `Restart` is a crash at any
point followed by `mark_interrupted_tasks`.

Errors come in three places, counted together by `MaxEscapes`. An error out of `run_task`
or a chunk retry (`EscapeRun`, `AbortChunks`) is recorded by a best-effort write, which may
fail itself and then leaves the row active. A request may fail between its commit and the
call that registers and queues the task (`DropRequest`). The cleanup behind the completion
commit may fail together with the log row of its handler, and then the outer handler of
`run_task` takes the completed row for a failed one (`FailCleanUp`). The history variable
`lost` holds the tasks whose enqueueing or whose failure's record got lost, until somebody
queues, cancels or reconciles them or the process starts again: no other active row may be
without an owner.

Left out of the lifecycle: transcript editing and restore, batches, the storage sweep, the
number of workers in a pool (fixed in the model) and the supervision of the local
subprocess (its result is an outcome of the transcription steps).

### Assumptions about clients

`RetryAfterDrain` says whether clients retry (retry, retranscribe, chunk retry) only tasks
of which no untracked leftover remains: no queue entry of an earlier enqueueing, no worker
that has taken one without claiming it, none that is burying an escaped error. The code
does not enforce it; the finding `task_twice` is what happens without it. `Requests` names
the kinds of requests an instance sends, `MayWarn` whether quality warnings occur.

### Runs

| Run | Question | Result |
|---|---|---|
| `task_registry` (`MCTaskAll`) | Is any id stranded in the registry (`TrackedIsServed`), any active row or cancel flag abandoned (`ActiveIsOwned`)? All request kinds, 3 requests, two errors in any of the wrong places (behind the commit of a request, out of a run, in the record of a failure, in the cleanup), one restart | holds: the only rows without an owner are those in `lost` |
| `task_writers` (`MCTaskWriters`) | One writer per task, tracked; requests commit nothing under it but a cancellation; completed tasks have transcript and version; only a request, or the failure of the cleanup that follows, takes a completed status away. 5 requests, two chunks per recovery, one error, one restart, no reconciliation (see `task_orphan`) | holds when clients retry drained tasks |
| `task_progress` (`MCTaskLive`) | Does every active task settle (or end in `lost`), is every lock released, does a cancellation that has returned stay? Fair threads, one error, no quality warnings | holds |
| `task_twice` | "a task never executes twice concurrently" (`openspec/specs/transcription-lifecycle/spec.md:38`) | violated: cancel a queued task, retry it, two workers take the two entries |
| `task_late_cancel` | "a cancelled task is never committed as completed" (`spec.md:114`) | violated with quality warnings |
| `task_kept_result` | "the task remains cancelled without transcript output" (`spec.md:119`) | violated: the cancellation commits after the completion it did not see |
| `task_orphan` | "without corrupting completed results" (`spec.md:36`) | violated: reconciliation reads the registry before the rows |

Bounds: one task (tasks share no state but the queues and locks, and a worker busy with
another task is a worker that does not take a step), one worker per queue (two in
`task_twice`, where both must take an entry), one pool thread beside the event loop, 2 to 5
requests: enough to create, cancel and requeue a task, retry its chunks and add a request
that races with these. Deadlock is not checked because the system may really stop: with
all requests answered and the queues empty nothing happens.

Fairness (`task_progress`): weak fairness of each worker and each request thread. Threads
are scheduled by the operating system, waits for the lock and for the write lock end
because their holders are threads too, and an engine call returns (the local subprocess is
killed when it stalls; provider calls have timeouts). Requests and restarts are not fair.

### Proofs

All for any sets of tasks, workers, pool threads and kinds of requests and any bounds,
quality warnings, escaping errors and restarts included unless a hypothesis excludes them.

| Theorem | Module | Hypotheses | Inductive invariant |
|---|---|---|---|
| `TypeOKHolds` | `TaskLifecycle_proofs` | - | `Typed` |
| `TrackedIsServedHolds`, `ActiveIsOwnedHolds` | `TaskLifecycle_proofs` | - | `Kinded`, `Served` |
| `SingleWriterHolds`, `WriterIsTrackedHolds` | `TaskResults_proofs` | `RetryAfterDrain` | `Exclusive` |
| `CompletedHasTranscriptHolds` | `TaskResults_proofs` | `RetryAfterDrain` | `Kept` |
| `RequestsSpareWritersHolds` | `TaskResults_proofs` | `RetryAfterDrain`, no `reconcile` | `Untouched` |
| `CompletedIsKeptHolds` | `TaskResults_proofs` | `RetryAfterDrain`, no `reconcile` | `Kept`, `Untouched` |
| `CancelHoldsHolds` | `TaskResults_proofs` | `RetryAfterDrain`, no `reconcile`, `~MayWarn` | `Untouched`, `Uncancelled` |

The hypotheses are those of the runs, and each is there because the property is false
without it: `task_twice`, `task_orphan` and `task_late_cancel` are the counterexamples
(`task_orphan` also of `RequestsSpareWriters`: the reconciliation commits under a writer it
did not see). What the registry promises needs none of them, and that a completed task has
its transcript, or has one writer, holds with reconciliations too.

* `Typed` splits the typing by owner and adds what the actions need to stay typed: a worker
  or handler past its idle state has a task, and bounded counters are in range.
* `Served` says who will move an id or a row on. For an id in the registry: an entry of a
  queue, or a request about to put one (`QueuedServed`), a worker or chunk retry that runs it
  (`RunningServed`). For a row: `ActiveIsOwned` is not inductive, since an owner may be about
  to leave without touching the row - a worker that skips or finishes, a request that has
  committed. `RowServed` counts only those that will still settle or queue it. A worker that
  sees a cancel flag leaves an active row behind at three places (when it reads the row, when
  it starts the run, when it refreshes the row), and `FlaggedRowServed` says that the row is
  then never alone: the cancellation has yet to commit, or somebody past these three checks
  will settle it; or it is in `lost`. `Kinded` ties a request's program counter to its kind.
* `Exclusive`: `SingleWriter` is not inductive, because two entries of one task in the queues
  are two future writers. At most one party *holds* a task, where a queue entry, an
  unfinished enqueueing, a worker anywhere between `get` and the end of its run and a chunk
  retry all hold it (`OneHolder`); whoever runs a task or retries its chunks is in
  `runningIds` (`HolderTracked`); whoever is in a locked section holds the lock
  (`Controlled`); and nothing holds a task that was never created (`HeldExists`).
* `Kept`: the transcript is stored, or lies in the worker's open transaction, before the row
  says completed; a chunk retry that will restore "completed" claimed a task that had its
  transcript, or is about to merge a complete set of chunks that nobody changes under the
  lock.
* `Untouched`: what waits to be executed has a row that a worker executes or leaves alone,
  and stays in the registry until it is cancelled. Only so can a request that asked the
  registry once (`_require_not_active`) rely on the answer until it commits: a worker that
  took the task before that stops at its next look at the cancel flag.
* `Uncancelled`: from its last look at the flag to its commit a worker has SQLite's write
  lock, so the commit of a cancellation waits for it; and a chunk retry restores "completed"
  under the lock that a new flag needs.

Each is preserved action by action.

The proofs corrected the model in one way: alternatives of `GatherChunks`, `RefreshRow`,
`RecordFailure` and `ModelCategory` were CASE expressions whose guards overlap. TLC takes
the first guard that holds, but TLA+ lets CASE take any of them, and a theorem speaks of
all; they are IF ... ELSE now, in the order of the code.

Only model-checked: `ActiveSettles` and `LocksAreReleased` (liveness, out of TLAPS's reach).

## 4. Translation runs

### Modules

* `TranslationContract` - what a run promises, without queue, thread or provider: it moves
  through the statuses of `translation.py`, its batches are stored once, its result is
  published once and whole, a revision is written on top of the latest one.
* `Translation` - the protocol: the rows of runs, batches and versions, the queue of
  `(run, attempt)` pairs, `enqueue` split into its two steps, the worker thread with its
  exit and replacement, and the program counter of `execute_run` (`job`).
* `TranslationProperties` - what is claimed, the refinement mapping included (`done` of the
  contract is the set of batches whose translation is stored). `MCTranslation` - instances.

| Code | Action |
|---|---|
| `create_run`, `cancel_run`, `retry_run`, `edit_version` | `CreateRun`, `CancelRun`, `RetryRun`, `OpenEditor` and `EditVersion` |
| `enqueue` | `PutRun`, `EnsureWorker` |
| `_work_loop` | `TakeRun`, `ExitWorker`, `LeaveQueue` |
| `execute_run`, one action per locked section | `BeginRun`, `CheckBatch`, `StoreBatch`, `PublishRun` |
| `_translate_batch`, before and after the request | `AskProvider`, `ReceiveAnswer` |
| `_repair_alignment` | `RepairAlignment`, then `AskProvider` and `ReceiveAnswer` again |
| exceptions, `_fail_run` and its own failure | `BreakRun`, `FailRun` |
| `delete_for_task`, `mark_interrupted_runs` | `DeleteTask`, `Restart` |

Every access to the rows is inside `task_transition_lock` and commits at most once, so one
locked section is one action. `BeginRun` has a commit and then checks in one section: what
fails there fails with the run already running. An answer is good, bad enough to split the
batch and ask again, or an error; a failed check of the assembled result ends the run or
asks for some cues again. A provider is what it is configured to (`Configs`) or disabled;
a deleted provider is one that is never enabled again. Run ids are UUIDs and not reused.

The model leaves out how segments are cut into batches, how answers are parsed and judged,
the texts, and the unique index on active runs, which `OneActiveRun` shows is never hit.

### Runs

| Run | Question | Result |
|---|---|---|
| `services` (`MCServices`, with the jobs of section 5) | Has a task ever two active runs, does the queue ever wait for nobody? Two runs of a task, two attempts each, database errors, an exiting thread | holds |
| `translation_progress` (`MCTranslationLive`) | Does the protocol implement the contract (`ContractHolds`); is an active run always in somebody's hands, does it end and is the queue emptied (`RunsSettle`); are its batches of one configuration and never paid for twice? Two batches, two attempts, two configurations, two editors, a split, an exiting thread, a restart | holds if the database does not fail the worker's first or last commit |
| `translation_fault` (`MCTranslationFault`) | Is an active run served although the database fails: "失败运行保留清理后诊断" - a failed run keeps a diagnosis (`openspec/specs/transcript-translation/spec.md:190`) | violated: the run stays queued or running with nobody to serve it |

Bounds: one task, because runs of different tasks share only the queue, and a second run
of the same task shares the queue too and competes for the active place; two batches are a
stored one beside one that is not; the second attempt lets an old queue entry or an old
answer meet a newer attempt. Deadlock is not checked: with an empty queue and all
requests answered the system rests.

Fairness (`translation_progress`): weak fairness of the worker's steps, of a thread that
leaves and of each enqueueing call. They are threads of the operating system, the lock is
held only for short sections, and a request to a provider has a deadline
(`REMOTE_REQUEST_TIMEOUT`, `LOCAL_REQUEST_TIMEOUT`). Clients, exceptions and restarts are
not fair. Without `DatabaseMayFail` only: with it, runs may stay active for ever.

### Proofs

All safety properties of the runs above are proved for every set of tasks, runs and
editors, any number of batches and any bounds.

All are in `Translation_proofs`.

* `TranslationTypeOK`. `Typed` adds to `TypeOK` that the worker has a run while it works on
  one, that the batch it asks for exists, and that a thread that ends is counted once
  (`ExitsCounted`).
* `TranslationImplementsContract`, by showing that initial states map to initial states and
  every step to a step of the contract or a stutter. What the worker must know for that is
  the invariant `Progress`: as long as the run is still its own (`Mine`, the code's
  `_current`), the batch it asks for has no translation (`NextBatch`), what it repairs and
  publishes is complete (`WholeRun`), and only completed runs have revisions (`Published`).
  It is inductive because requests never make a run running or touch the batches of one
  (`RequestsEndRuns`). `OneActiveRunHolds` and `EditsSawLatestHolds` are then proved of
  contract steps only and inherited; `NotAskedAgainHolds` follows from `Progress` too.
* `ActiveRunIsServedHolds`, assuming `~DatabaseMayFail` (`translation_fault` is the
  counterexample without it), from `Served`, which adds that a worker with a running run is
  not about to exit; `QueueHasWorkerHolds`; and `OneConfigurationHolds` from `Origin` (the
  worker's configuration is that of its run, and only created runs have batches).

`EditsSawLatest` (a revision is based on the latest one) is a step of the contract, so
`ContractHolds` checks it; it has a theorem of its own.

Only model-checked: `RunsSettle` (liveness).

## 5. The window's pages and the server's other jobs

### Modules

Each module models a page or panel together with the handlers it calls and whoever else
changes the same state. A request is `asked`, `answered` and arrived; between these steps
everything else may happen, and an answer may be lost. What another component does to the
state is one action that stands for all of it (`OthersChange`, `TrOthers`, ...).

| Module | Code | What is in it |
|---|---|---|
| `TaskDesk` | `TasksPage.tsx`, `ConfirmAction.tsx` | the cached list, the selection effects, confirmations, single calls and batches |
| `AiDesk` | `AIPage.tsx`, `router.tsx`, links to it | which task the panels work on; the answer to a started translation |
| `TranscriptEditor` | `TranscriptViewer.tsx`, `transcriptDiff.ts` | segment drafts, search and replace, bulk save, comparison of versions |
| `Proofreading` | `proofreading.py`, `ProofreadingPanel.tsx` | queue, worker, suggestions, their choice and application |
| `TranslationDesk` | `TranslationPanel.tsx` | the run on the screen, the version in the editor, unsaved edits |
| `ChatDesk` | `chat.py`, `ChatPanel.tsx`, `eventStream.ts` | sessions, questions, a worker and a stream per answer, stop and leave |
| `AudioDesk` | `PersistentAudioPlayer.tsx`, `audioStore.ts`, the waveform player | two players whose audio element answers by events |
| `ModelDesk` | `models.py`, `ModelsPage.tsx`, `ModelManagement.tsx` | the queue of downloads with pause, resume, cancel and delete |
| `ModelCatalog` | `registry.py`, `modelCatalog.ts`, `ModelLadder.tsx` | the two tables of models, search, filters, pins and order |
| `ServerLink` | `serverStore.ts`, `eventStream.ts`, `events.py`, `useDesktopServerControl.ts` | choice and start of the server, stream, dropped events, polls |
| `SettingsDesk` | `settings.py`, `SettingsPage.tsx`, `uiStore.ts` | the form and two other buttons over the same row; preferences and their export |
| `Ingest` | `TranscribePage.tsx` | files, checks, defaults that arrive late, the task that is created |
| `ProviderDesk` | `llm_providers.py`, `llm_capabilities.py`, `LLMProvidersPanel.tsx` | rows, form, capability test, what it recommends |
| `AsrProviders` | `providers.py`, `ProvidersPage.tsx` | one dialog and form over a list that changes |
| `MediaFolders` | `config.py`, `media_storage.py`, `MediaStorageSettings.tsx` | the settings file, locks of the environment, two windows |
| `ModelStorage` | `model_storage.py`, `ModelStorageSettings.tsx` | plan, copy, final copy, switch, cleanup, recovery at a restart |
| `CudaKit` | `cuda_kit.py`, `main.rs`, `CudaAccelerationSettings.tsx` | download, verification, installation, removal, marker, releases |
| `AppUpdates` | `update.rs`, `appUpdateStore.ts`, `AboutSettings.tsx` | check, download thread, cancellation, events to the window |

The modules share no variable. `MCPages`, `MCPagesLive` and `MCServices` choose one of them
at the start of a behaviour (`page`, `service`) and let only its actions happen, so that
TLC explores the sum of the state spaces. What two of them would say of the same data is
said by the one whose code decides it: `TranslationDesk` knows of a run only that it is
active and how many revisions it has, and takes every change `Translation` allows.

### Runs

| Run | Module | Properties |
|---|---|---|
| `pages` (`MCPages`) | `TranscriptEditor` | `MarkedIsReplaced`: the hits that are counted and marked are those a replacement changes, and replacing all at once is replacing one by one |
| | `Proofreading` | `ActiveRunHasWorker`; `AppliedIsReviewed`: nothing is applied to a transcript other than the one the run read |
| | `TranslationDesk` | `TrReviewIsCurrent`: the editor holds a version of the run on the screen |
| | `AppUpdates` | `OneTransfer`: one download writes the package at a time |
| | `AudioDesk` | `WaveformIsCurrent`: the waveform shown is that of the audio that plays |
| | `SettingsDesk` | `SavedDefaultIsKept`: the default saved last is the one the pages make of the row |
| | `Ingest` | `CreatedFitsModel`: the language asked for is one the model takes |
| | `ProviderDesk` | `AppliedWasTested`: recommendations are stored on the configuration they were tested on |
| | `AsrProviders` | `SavedIsOwn`: a save names the provider its fields were read from |
| | `ModelCatalog` | assumptions evaluated by TLC on the whole catalogue: both tables name the same models (`TablesAgree`, `TablesAreOfModels`), every model is in one group (`GroupsPartition`) and gets a place (`LadderSortsAll`; proved for any models on show), the guide shows what exists (`GuideIsShown`) |
| `pages_progress` (`MCPagesLive`) | `TaskDesk` | `ConfirmedIsAsked`: a confirmation acts on the task it was opened on; `DeskCatchesUp`: the list shows the server's tasks again and again |
| | `AiDesk` | `AiTaskIsKept`: a list that arrives never replaces the task in the panels |
| | `ChatDesk` | `AnswerIsKept`: what there is of an answer is stored in the end |
| | `ModelDesk` | `DownloadIsListed`; `DownloadSettles`: a download ends unless it waits for one that is paused |
| | `ServerLink` | `TasksCatchUp`: dropped and missed events leave nothing stale |
| `services` (`MCServices`) | `ModelStorage` | `ModelsAreKept`: every root that the moves have made a home of the models holds every file, across damage, cancellation and restarts |
| | `CudaKit` | `KitIsVerified`: the marker vouches for the files that were verified; not that they fit the release (see Known deviations) |
| | `MediaFolders` | `SavesOnlyTouched`: over a file that can be read, a stale panel overwrites no key its user did not set |

All of these hold. What the passing properties except, because the code does lose it and nothing in the
repository promises otherwise, is said in their comments:

* `ActiveRunHasWorker`: runs whose enqueueing failed behind the commit (`EnqueueFails`), or
  whose failure could not be recorded (`FailRun`), are kept in `unserved`.
* `AnswerIsKept`: parts of an answer whose write fails (`ReplyLost`: the handler writes with
  the session that failed), or that a worker holds when the server stops
  (`ChatServerStops`), and those of a deleted session.
* `SavesOnlyTouched`: a settings file that cannot be read is taken for empty and written
  anew by the next save, which drops the keys it does not touch (`StoredKeys`).

`DiffIsExact` compares the displayed difference of two versions with its
definition: what it shows of each version are its lines, in order and from the first on;
unless it is simplified or cut at `maxLines`, both versions can be read off it and no common
subsequence is longer than what it shows as the same. TLC evaluates it (`ShownDiffIsExact`
in `MCPages`) for all versions of up to three lines of two kinds and six pairs of limits.

Bounds: two of everything that can be confused (tasks, providers, models, sessions,
tracks, roots), one where a second would only be renamed; four releases of the kit, of
which the third goes back to the torch of the first and the last does not say its own
(`TorchOf`, `Untold`; the values are in `MCKit`), so that a kit may fit another release, or nobody can tell; two or three clicks or
calls, so that one is under way while another is made; one mishap, fault or restart each
(two for `ServerLink`); three choices of a target for the models, so that a move may go
back to the root an earlier one left. Deadlock is not checked: a window nobody clicks in rests.

Fairness, each only while its page is visited: the timer of the task list and the calls of
the page are served (`TaskDesk`); a provider answers, fails or times out (`ChatDesk`); the
download thread goes on and a hub answers or fails (`ModelDesk`); the poll of the list is
answered while the server is up (`ServerLink`). These are timers of the browser, threads
and requests with a timeout. Clicks, other windows, faults and restarts are not fair.

### Proofs

For any sets of files, roots, keys, tasks, models, providers, tracks and segments and any
bounds; each with the inductive invariant it needs.

The server's jobs (`Services_proofs`):

* `ModelsAreKeptHolds`, `MoverIsKnownHolds`, `StorageTypeOKHolds`, from `StorageInv`: how far
  the thread is tells where the files are - at the source, then also in the staging
  directory or at the target, then at the target alone (`FilesOnTheirWay`) - and that its
  job still counts as active (`ThreadKnown`). Without the latter a second job could start
  under a thread that a cancellation had marked; `MoverIsKnown` states it. This proof found
  a fault of the model: it remembered one home of the files, while a move that fails after
  the switch leaves two. That this matters takes four choices of a target, more than TLC
  is given; `homes` is a set now.
* `KitIsVerifiedHolds`, from `KitInv`: when the manifest is about to be written, what is
  installed is of the release the thread was started by, or what a removal left of it
  (`MarkedNext`), through failures, removals and a next process.
* `SavesOnlyTouchedHolds`, over a file that can be read, from `FoldersInv`: the draft differs from the answer it started
  from only in touched keys (`DraftFollows`), so that a request carries no other
  (`SendsTouched`).
* `ServicesTypeOKHolds`: all of the composition of the run is typed. By
  `ServicesAreThemselves` a behaviour of `ServicesSpec` is one of each component, because
  none writes another's variables; what is proved of a component holds in the composition.

The pages that work on tasks and transcripts (`Pages_proofs`):

* `RunsHaveWorkers` and `ReviewedIsApplied`, from an invariant of the proofreading service
  alone, whatever the panel sends: every queued run is queued once and not executed, what is
  executed is active, what is active is about to be queued, queued, executed or lost
  (`QueueIsSound`); a run whose
  source is the latest version has the texts of the transcript (`SourceIsKept`).
* `TrReviewIsCurrentHolds`: what is on show, and the answer on its way, were true once
  (`TrListsTrue`), runs and their revisions only become more (`TrGoesOn`), so a version the
  page opens exists; and a save that is answered late moves the editor only if this is still
  on the run the save was made in (`TrSavesTrue`).
* `WaveformHolds`: a request that is still wanted is one for the audio that is shown
  (`WantedIsShown`), since every change of track withdraws the others.
* `CreatedFitsModelHolds`: after every render the request fits what is known (`Fits`); the
  effects run one after the other, and the last must not undo the first (`FittedFits`).
* `ConfirmedIsAskedHolds`: an open dialog was opened on the selected task, and the selected
  task is listed (`DialogIsOnSelected`).
* `AiTaskIsKeptHolds`: an address is named as soon as there is something to name
  (`AddressNamesTask`), so a list that arrives finds the name and not the newest task.

The pages that configure (`Providers_proofs`):

* `TestedIsApplied`. `updated_at`, which no two updates give alike, tells every copy of a
  row that the window holds from every other: where a table has the date of a copy it has
  the copy, for the same provider (`Agrees`), which holds of rows, items, the test under
  way, its result and what is being stored.
* `SavedIsOwnHolds`: while the dialog is open its form is filled from the listed row of the
  provider being edited (`FormIsOfEditing`), and what has been sent was (`SendsOwn`).
* `SavedDefaultIsKeptHolds`: a patch that is on its way makes the choice it was sent for, or
  leaves the default alone (`WritesMake`), although a null in it is ignored. It assumes that
  no model and no provider is named like the null or the mark of an absent key
  (`SettingsAssumption`): in the code these are `None` and a missing key, never strings.
* `DownloadIsListedHolds`: a download that no deletion made the service forget waits in one
  place only - the queue, a call about to queue it, or the worker (`PendsOnce`) - so that
  whoever takes it off the list takes it from where it waits.
* `OneTransferHolds`: as long as a start has not ended for the shell the snapshot is in
  progress (`LiveIsAlone`), under whose lock the next start is refused.
* `LadderSortsShown`: whatever models are on show, whatever the key and the downloads, each
  is in exactly one row and no row is worse than the next. A model's place is one more than
  the number of those ahead of it; to be ahead is an order of the models, so two of them
  have different places, and as many places as models leave none empty.

The transcript editor (`Editor_proofs`):

* `EditorTypeOKHolds`, from `EditorTyped`: drafts, displayed texts, cached answers and what
  is being saved are transcripts of texts. It assumes only that the texts and words a user
  can enter are sequences of characters (`EditorAssumption`).
* `MarkedIsReplacedHolds`. The page marks hits by splitting a text at the word, counts and
  replaces them by searching for it, and replaces all by splitting and joining: three
  recursions over the text, which agree for every text and word. No induction theorem of the
  library can be used here, so the induction is a least counterexample: a set of positions
  of a text that contains the end, and each position with all later ones, is all of them
  (`InductionFromEnd`), and a function defined from the end of a text exists and obeys its
  equation (`RecursionFromEnd`). `MarksAgree` and `ReplacedAgree` follow by induction from
  the end of the text.
* `DiffIsExactAlways`: `DiffIsExact` for all versions and limits. The table and the walk are
  recursions in two directions, from the last row and column (`GridFilled`, `GridInduction`).
  From every cell the walk shows the rest of both versions and as many common lines as the
  table says (`WalkShows`), and two lists of line numbers that rise and match are never
  longer than that (`TableBounds`): without its first line such a match lies below and right
  of the cell, and if the two lines differ it lies below or right of it anyhow.

The window (`Window_proofs`): by `WindowImplementsPages` a behaviour of `PagesSpec` is one of
every page's specification, so `WindowKeepsPromises` carries over the theorems above, and
`PagesTypeOKHolds` the typing of each page. The typing needs invariants of its own where a
number is bounded only by what happened: the version of a transcript by the edits and the
runs that were applied (`VersionIsCounted`), the date of a row by the updates of all rows.
It needs what the bounds of an instance give: at least one run, one revision and one update
may happen, a jump of the player is within the track, and the media are finitely many.

Only model-checked, and why:

* `DeskCatchesUp`, `AnswerIsKept`, `DownloadSettles`, `TasksCatchUp`: liveness under
  fairness.
* The tables of `ModelCatalog`: they are constants, on which TLC evaluates the assumptions.

### Known deviations

Met while modelling, in the models, and with no run of their own. The first three
contradict a sentence of the repository:

* `tasks.py:1111`: "cleanup must not fail a completed task" (`:1110`), but the handler of a
  failing cleanup writes its warning with the session that failed; when that raises too,
  `run_task` turns the row it has just completed into a failed one (`FailCleanUp`).
* `cuda_kit.py:373`: a kit whose torch is not the backend's "becomes outdated"
  (`openspec/specs/model-management/spec.md:97`), but the backend's version is asked of the
  import system, where a kit that the shell has put on the path comes first: after an update
  that kit is compared with itself (`CurrentTorch`).
* `proofreading.py:686`: a run that an exception escapes from is to be marked as failed
  (`openspec/specs/transcript-proofreading/spec.md:94`), but where the database refuses that
  write as well, the run stays active until the process starts again (`FailRun`).

No document promises the contrary of the others:

* `MediaStorageSettings.tsx:23`: choices in the panel are dropped when a refetched answer
  differs.
* `cuda_kit.py:773`: where the state file cannot be written or the thread does not start,
  the job stays running without a thread and refuses downloads and removals until the
  process starts again; a kit of another release counts as ready while the torch versions
  are the same (`:374`).
* `TranslationPanel.tsx:200`: a save answered after its review was left takes back the
  panel's warning for the edits of the next one. `PersistentAudioPlayer.tsx:47`: a play()
  that a pause aborted switches off a later one.
* `TasksPage.tsx:188`: `clearAllTasks` is defined and never called; the handler behind it is
  modelled where the start page calls it (`Ingest`, `ClearTasks`).
* `model_storage.py:636`: a relocation that ends between the check and the mark of a
  cancellation stays "cancelling"; `:597`: a failed last write of the state rolls the root
  back; `:446`: an operation that has passed `require_storage` may register after the plan.
* `main.rs:713`, `cuda_kit.py:441`: a kit whose removal was cut short by a crash is still
  put into the environment. `CudaAccelerationSettings.tsx:148`: the job of a deleted kit
  stays "completed", so the download button does not return; `:82`: the effect that
  restarts the application never runs.
* `ProvidersPage.tsx:265` compares with `openai-compatible`, `providers.py:75` stores
  `openai_compatible`; `ProvidersPage.tsx:163`: the delete confirmation acts on whatever
  provider is selected when it is confirmed.
* `storage.py:115`: the sweep of orphans may take the files of a running task.
* `ModelManagement.tsx:129`: a row shows another grade than the ladder.
* `AIPage.tsx:53`: the link to the chat forgets the selected task; `TranslationPanel.tsx:90`:
  the answer to a started translation leads back to its task from whatever page is open
  then (`TranslationStarted`).

## 6. Not modelled

* Resource tickets: one map under one lock; the player asks for another ticket when one is
  refused, which `AudioDesk` has.
* The number of threads in a pool and the supervision of the local subprocess: clocks and
  CPU times; `TaskLifecycle` takes their verdict as the outcome of a step.
* The storage sweep, backup and restore: file trees and archives. The sweep's races with
  running tasks are listed under `hazards`.
* Exports, quality reports, diagnostics, logs, migrations, the adapters to the engines and
  providers, the MCP server: formatting, rows that are only appended to, and external
  services, which appear as outcomes.
* Of the window: dictionaries and messages (`i18n.ts`, `userMessages.ts`), types of the API
  client, layout, notices, the global search, the health page and the cleanup form.
