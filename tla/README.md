# CWTools language server: TLA+ models, checks and proofs

CWTools is a language server for the script files of Paradox games, written in
Rust (`engine/crates/`), with a VS Code extension in front of it (`extension/`).
The models here are about the server, `engine/crates/lsp`: a multi-threaded
program whose handlers, validation tasks and sweeps share one document store,
one index and one stream of diagnostics. What follows says how the server is
built, what is modelled, what TLC checks and what TLAPS proves.

Paths below are relative to the repository; `lsp/` is `engine/crates/lsp/src/`.

## The system

| Part | State | Operations | What is hard | What makes it correct |
|---|---|---|---|---|
| Transport (`lsp/transport.rs`) | the frame reader's header and body, the place of each message | read a frame, `SpawnRequests::call`, cancel | the pump polls handler futures in any order; a handler that blocks blocks the protocol | frames never cross; messages take effect as if in order |
| Notification queue (`lsp/state.rs` 1515–1835, `lsp/lib.rs` `run`) | tail completion, chain of completions, permits, channel, worker | `reserve`, `barrier`, `claim`, `send_background`, `wait`, worker loop | panics, cancelled or dropped senders, lost wake-ups, shutdown | order; nobody stranded; permits returned |
| Document handlers (`lsp/server.rs` `did_*_impl`) | document store, generation, debounce handles | open, change, save, close | each awaits locks, permits and tasks in the middle | a closed document is cleared and its file indexed |
| Validation (`lsp/validate.rs`) | info index, validated marks, trees, pending sweeps, permits | `debounced_validate`, the dependent and export sweeps, publishing | superseded, aborted and concurrent runs; work on stale snapshots | diagnostics of the current buffer against the current index |
| Document store (`lsp/state.rs` 438–1130) | texts, hashes, trees, cached localisation, use sites, retained bytes | open, change, set tree, replace sites, cache localisation, mark, remove | saturating arithmetic over many partial updates | the account equals what is held; limits hold |
| Scan (`lsp/scan/`) | scan guard, pending file events, debounce task, fingerprints | full scan, watched batch, idle reindex, loc and vanilla loading | exclusion, panics in a scan, events that arrive during one | one scan at a time; no event lost |
| Configuration (`lsp/config.rs`) | rules, roots, settings generations | reload, root change | in-flight work of the old configuration | the last settings win |
| Baseline (`lsp/baseline_runtime.rs`) | entries, epoch, capture | load, capture, filter | a capture racing a scan | stale captures are refused |
| Rename and other snapshot edits (`lsp/navigation/`, `lsp/code_action/`) | none of their own | build edits from snapshots | documents that move meanwhile | stale edits are refused |
| Read-only features (hover, completion, tokens, lenses, graph …) | caches | requests | caches of an older revision | a function of one snapshot |
| String table (`string_table`) | base table and overlay regions | intern, reclaim | a region reclaimed while in use | held trees resolve |
| Parse cache (`cache`) | files on disk | read, write by rename, prune | several processes, crashes | a reader sees a whole entry or none |
| Parser, rules, validation, localisation, index | none | pure functions | – | – |
| CLI and driver | one session | batch validation, watch | – | – |
| Extension host | client, restart budget, watchers | start, restart, commands, graph | restarts and late answers | one client at a time |

Messages come in on the transport; document and workspace notifications go
through the notification queue to one worker; requests run on tasks of their
own behind a barrier. Handlers change the document store under its lock, bump
`edit_generation` and spawn a debounced validation; a validation takes one of
two permits, writes the shared index, reads it, marks the document validated,
publishes, and sweeps the open documents that may depend on what it changed. A
scan replaces the whole index and revalidates the open documents. The extension
only starts the server and feeds it.

`PROJECT.json` lists every component with what is left out, and every hazard at
its line.

## Modules

| Module | What it is |
|---|---|
| `OrderedNotifications` | what the queue promises: read, start, settle; a handler starts when all earlier notifications are settled |
| `NotificationQueue` | the queue in full: reservations, barriers, the `wait()` loop step by step, permits, channel, worker, panics, drops, shutdown |
| `NotificationQueueProofs` | TLAPS proofs about it |
| `EditPipeline` | handlers, validation runs, index, sweeps, publications |
| `EditPipelineProofs` | TLAPS proofs about it |
| `WorkspaceIndex` | watched-file events and their batches, workspace scans, open documents, and the index they all write |
| `WorkspaceIndexProofs`, `WorkspaceDetectProofs` | TLAPS proofs about it |
| `DocumentStore` | the store of open documents: its methods, the use sites beside it, the account of retained bytes and its limits |
| `DocumentStoreProofs`, `DocumentStoreAccountProofs` | TLAPS proofs about it |
| `MCNotificationQueue`, `MCEditPipeline`, `MCWorkspaceIndex`, `MCDocumentStore` | their instances for TLC |

Operators named as variants are plausible bugs: each `mutants` entry of
`PROJECT.json` replaces a definition with one of them, and the property it names
then fails.

### NotificationQueue

| Model | Code |
|---|---|
| `received`, `kind`, `pc[m]` | the message stream; the future, task or job that stands for message m |
| `tail`, `previous`, `done`, `skippedTo` | `NotificationQueue.tail`, `NotificationCompletion`; completions are named by their message, 0 is `completed()` |
| `current`, `waitPhase`, `notified` | the locals of `NotificationCompletion::wait` and its `Notified` future |
| `permits`, `slotQueue` | `sender_slots`, a FIFO semaphore |
| `channel`, `worker`, `workerAlive` | the mpsc channel and the worker loop in `run()` |
| `ReceiveNotification`, `ReceiveRequest` | `SpawnRequests::call`: `reserve()` or `barrier()` |
| `Claim`, `PollUnqueued`, `DropReservation` | first poll of the handler: `claim_notification`, or a handler that enqueues nothing |
| `AcquireSlot`, `WaitStep`, `Send`, `RunInline` | `send_background` and `send_inner` |
| `TakeJob`, `FinishJob`, `PanicJob` | the worker and `QueuedNotification` |
| `DropClaimed`, `DropSender`, `StopWorker` | the drop guards when the runtime shuts down |

`wait()` is split where other tasks can interleave: enable the future, read the
state, park, wake. The flag and the notification inside `complete` and
`skip_to` are one step: the flag is set before the notification and a waiter
that is enabled in between either sees the flag or is woken. `is_running()` is
true in the server (only unit tests build an undrained queue), so the inline
path is the closed channel's.

### EditPipeline

| Model | Code |
|---|---|
| `open`, `version`, `text`, `content`, `astVersion`, `ast`, `validated` | `DocumentStore`: `text` is the identity of the buffer's `Arc<str>`, `content` what the buffer exports (and its hash) |
| `disk`, `index` | the files; what `info_service` and `inline_scripts` hold of each document |
| `generation` | `edit_generation` |
| `exports`, `names` | `pending_export_sweep`; whether `pending_changed_names` is non-empty |
| `handles`, `spawned` | `debounce_handles`, `next_debounce_id` |
| `actor[0]` | the notification worker's current handler |
| `actor[r]` | the r-th `debounced_validate` task and the task that joins it |
| `published` | the last `publishDiagnostics` of each document: its content and what it saw of the others |

Handlers run one at a time: that is `JobsInOrder` and `OneJobAtATime` of the
queue. Each step is a stretch of code under one lock or between two awaits:
`Begin` (read the text), `Index` (`replace_indexed_file_checked`), `Validate`
(the traversal under the index read lock), `Accept` (`mark_validated`,
`set_ast_with_use_sites`), `Publish`, then the sweeps. `Abort` drops a cancelled
run at an await, `CancelValidate` is the traversal's cancel flag, and `Cleanup`
is the joining task. `did_close` is eight steps, from the removal of the
document to the client's answer after its own sweep.

Two waits are for the client: a sweep of pending exports asks it to refresh its
CodeLenses before pending is cleared (state `clearing`, left by `ClearPending`),
and a close or a run asks it once more at its end (`refreshing`, left by
`EndRefresh`). Neither request has a timeout (`detached_client_request`); the
close makes both on the notification worker, the run under its permit. `Leave`
lets the end come without a request, too: the client may not know it, and a run
that changed no CodeLens makes none.

Abstractions, each named at its definition or here:

- documents are script files of a scanned workspace (`index_ready`), none
  ignored; no localisation, no `.cwt`; no admission limit is met;
- the ruleset tracks no uses, so a run knows which export revision it covered;
- every document mentions every exported name, so the token filter of a sweep
  lets all of them through and the sets of names reduce to "some" or "none";
  `full` changes nothing then;
- contents stand for exports and for inline-script bodies alike: both are
  re-registered by the same steps and swept the same way (a superseded sweep
  for a script body requeues no names, one for names does: a superseded export
  sweep requeues some or none);
- every document has a file on disk, so a close always finds one to restore;
- diagnostics are a function of the document's content and of what the index
  says of the others;
- the debounce delay is merged with the wait for a permit; a cancelled run may
  pass its next await or be dropped at it, which allows more than tokio does;
- a removed document and its removed handle, and a new generation and the run
  spawned for it, are one step: both are made by the one handler that runs;
- fixable edits, baseline counts and semantic tokens are left out, and so is the
  early end of a close of an ignored file, which asks for CodeLenses at another
  place (`lsp/server.rs` 753).

### WorkspaceIndex

| Model | Code |
|---|---|
| `disk`, `stat`, `outbox` | the files, what `stat` says of them, and the events the client's watcher has not sent yet |
| `buffer`, `validated` | the open documents, and whether their buffer is indexed |
| `index` | `info_service`, of each file the text it was read from |
| `pending`, `deleted` | `watched_pending` and `watched_deleted` |
| `slot`, `window` | the `JoinHandle` in `watched_debounce`, and the tasks of `spawn_watched_batch_window` |
| `signatures`, `fingerprint` | `watched_signatures`, `last_scan_fingerprint` |
| `scanning`, `scan` | `scan_in_progress`, and how far each caller of `validate_entire_workspace_tracked` got |
| `DidChangeWatchedFiles`, `ArmForEvents` | `did_change_watched_files_impl`: queue the events, then `arm_watched_batch` |
| `DrainPending` … `RearmAfterBatch` | a window: drain under two locks, `process_watched_batch` (`BatchStats`, `BatchReads` and `BatchIndexes` for each file), release the slot, look at the queues again |
| `BatchScan`, `BatchLosesScan` | a batch over `WATCHED_BULK_CAP`: a quiet scan, or back into the queues while another scan runs |
| `PanicBatch`, `RetryBatch` | the join of the batch's task, and its one retry |
| `StartScan` … `RearmAfterScan` | a scan: flag, loading bar, discovery, parallel parse, merge, prune, fingerprint, `ScanGuard::finish`, rearm |
| `OpenBar`, `EndScanRefresh`, `EndBatchRefresh` | the client's answers: to `WorkDoneProgressCreate` before a scan that is not quiet, and to the refreshes after a scan or a batch |
| `DropScan`, `CloseDropped`, `DropFinishing`, `PanicScan` | `Drop for ScanGuard`, of a dropped request and of a panic, before `finish` (the refreshes included) and within it |
| `CloseRead`, `CloseRestore` | `did_close` reads the file and gives the index its text |

A batch stats a file, reads it, and writes the index, in three steps: the read
is a blocking task, and after it the batch waits for a validation permit. A
scan reads each file at its turn and merges file by file: between these steps
batches, closes and validations write the same index. Abstractions:

- a text is a version number, and every write makes a new one; a stat tells two
  writes apart; the fingerprint is the stats it was made of (in the code a hash
  of paths, sizes and times, with the settings generation, which is constant
  here);
- `debounced_validate` of an open document is one step (`EditPipeline` has it in
  full), and so is a revalidation after a scan;
- a client that refuses the loading bar is asked again at the next phase; the
  model asks once, before the first. The waits after a scan or a batch, first
  for semantic tokens, then for CodeLenses, are one, and a batch's stands for its
  sweeps, too, which may panic there;
- left out: created and deleted folders, resource files, localisation keys, the
  sweeps and publications after a batch or a scan, the parse cache, progress,
  the idle gate of the background reindex (its scan is a quiet scan like a
  batch's).

### DocumentStore

| Model | Code |
|---|---|
| `store.docs`, `store.validated` | `DocumentStore.documents` with `line_indices`, and `validated`; `text` is the identity of the buffer's `Arc<str>` |
| `store.uses` | `OpenUseSiteIndex`: keys per file, capacities of its tables, `capacity_bytes` |
| `store.retained` | `retained_text_bytes` |
| `CanOpen`/`Opened`, `CanChange`/`Changed`, `SetAst`, `ReplaceReferenceSites`, `SetLocCache`, `Marks`, `Removed` | `open_with_hash`, `change_with_hash`, `set_ast_with_use_sites`, `replace_reference_sites`, `set_loc_cache`, `mark_validated`, `remove` |
| `Admits` | `replacement_total_with_capacity` |
| `ReplaceFile`, `RemoveFile`, `TouchedCapacity`, `ShrinkTouched` | `replace_file`, `remove_file`, `touched_capacity`, `shrink_touched` |
| `Open`, `Change`, `Close`, `Move` | the handlers of the notification worker; `Move` is `move_open_document` of a rename |
| `StartValidation`, `CacheLoc`, `Accept` | `debounced_validate`, as far as it touches the store |
| `StartRefresh`, `Classify`, `ReplaceNext` | `refresh_open_reference_sites`: read, work without the lock, replace under it |
| `lock`, `LoadRules` | the store's mutex while a refresh replaces sites one by one; `set_ruleset` |

The methods are operators from a store to a store, as in the code they are
methods without an await; the actions are their callers. A refused text leaves
the store as it was, but for `Move`, which has removed the document by then:
refused under its new name it is closed. Abstractions:

- bytes are counted in small units: a text has a length and a line index, a
  use site, a slot and an entry of a list weigh one each; a file has one site
  per key, and a key's own table one cell per file;
- removing an entry leaves no tombstone, so a table's capacity follows from how
  it grew and was shrunk; `TableSize(n)` is the least capacity hashbrown has for
  n entries, which growing and `shrink_to_fit` both arrive at. The proofs know
  of it only `TableAssumption`: nothing for no entry, at least n for n, and no
  more for n entries than for a table that holds n;
- a refresh finds the sites of all its trees under one ruleset; the code asks
  for the ruleset again for each tree;
- left out: URIs over `MAX_DOCUMENT_URI_BYTES`, the refusal messages, the
  content hashes (written with the text), the check of the workspace's roots at
  an opening, and the parse trees a request makes for itself.

## What the runs check

All runs have `CHECK_DEADLOCK FALSE`: a session ends, and the client may stop.

| Run | Bounds | What it shows |
|---|---|---|
| `queue_safety` | 4 messages, 2 permits, channel of 1, overtaking 1 | order, barriers, wake-ups, permits; the queue implements `OrderedNotifications` |
| `queue_liveness` | 3 messages | every message is settled or answered; a request needs only what was sent before it, even if jobs hang |
| `edit_safety` | 2 documents, 2 contents, 2 runs, 2 permits | supersession, abort, close and reopening leave no wrong index entry, mark, publication or cleared sweep |
| `edit_reopen_liveness` | 1 document, 3 runs, 2 permits | the same with versions that repeat after a reopening; every open buffer is validated in the end, and, if the client answers, every handler returns |
| `edit_at_rest`, `edit_publish_order`, `close_dependents` | 2 documents, 2 runs | findings 1 to 3 |
| `index_safety_liveness` | 2 files, 1 write, 2 windows, cap 1, 1 command, 1 fault | one scan and one batch at a time; if the client answers, queued events are taken and the scan flag is put back |
| `index_detects` | 2 files, 2 writes, 2 windows, cap 4, 1 command, 1 fault | a file on disk that the index holds otherwise is one the next quiet pass sees |
| `over_cap_drift`, `scan_flag_lost` | 2 files, 2 writes, cap 1; 1 file, 1 fault | findings 4 and 5 |
| `store_account` | 3 files of which 2 open, 4 texts, 2 rulesets, 1 task | the account is exact and comes back to zero; limits hold; sites are of the version of the document's tree |

Why these bounds are enough to see the interesting cases:

- Four messages hold a notification dropped between two others with a request
  behind them; two permits and a channel of one make senders wait for each
  other. The channel never holds more than one job (`OneJobAtATime`), so its
  size does not matter.
- `Overtaking` bounds how many later handlers the pump polls before an earlier
  one. It must stay below `SenderSlots`: otherwise permits go to senders that
  wait for a handler that waits for a permit, and the queue stops (TLC shows it
  with `Overtaking = SenderSlots = 2`). The code has 1024 permits and at most
  63 overtaking handlers, because at most `CONCURRENCY_LEVEL` = 64 handlers
  are in flight.
- Two documents are one that changes and one that depends on it; two runs are a
  run and its successor, or one of each document. A document reopened with the
  version an older run works on needs three runs and one document.
- `MaxRuns` bounds the client's notifications: each edit spawns one run.
- Two windows are one that has the slot and one that has released it and looks at
  the queues; a third waits until one of them is over. Two files with a cap of one make a
  checkout of both go over the cap; two writes let a file change again under
  a batch or a scan that has read it. One fault is a panic or a dropped request
  at any one place; the proofs allow any number.
- In `store_account` the long text (24 of 27 units) leaves room for two use
  sites and not for a third, and one long and one wide document fill the
  retained limit of 50, so each of the three refusals and both kinds of table
  growth occur; the overshoot described below reaches 51. One task is enough
  for the account, which is a matter of single store operations, and for
  results that come back late, which need edits, closes and reopenings in
  between; any number of tasks is in the proofs. Contents that differ in what
  they cost, not in what they say, are two.

Fairness. The runtime polls every task that is ready and the worker takes every
job, so the steps of tasks, runs and handlers are weakly fair. The client, its
answers, its cancellations and the end of the session are not. That a client
answers is nothing the server can promise, and no request it waits for has a
timeout; a property that takes it says so. `ClientAnswers`, weak fairness of
the answers alone, is the hypothesis of `HandlerReturns` in `EditPipeline` and
of `ScanReturnsFlag`, `EventsTaken` and `ScanReleased` in `WorkspaceIndex`.
Without it a close waits on the notification worker for ever, and a scan keeps
its flag. `EventuallyValidated` does without, on its instance of one document:
a run that waits for an answer keeps its permit only until its successor aborts
it. With more documents than permits it would take it, too. Neither property
needs strong fairness: a permit is given back by a step that is itself fair.
`HangingSpec`, used by `queue_liveness`, takes fairness from all but the
waiting and the finishing of requests; `NobodyStranded` is stated under the
fairness it needs. In `WorkspaceIndex` the handlers, windows and scans that
have begun are fair; nobody has to write a file, start a scan, answer, or fail.

What a reader should know of the properties of `WorkspaceIndex`:

- `OneScanAtATime` has an exemption. The flag is set exactly while a scan has still
  to put it back (`Owners`), except after a request was dropped within
  `ScanGuard::finish` (`Lost`, finding 5): then it is set, nobody puts it back, and no
  scan runs any more. A drop or panic at any other place, the refreshes after the
  fingerprint included, gives it back.
- `NoEventStranded` and `EventsTaken` have an exception. A window that finds both
  queues empty ends without looking back, and its handle stays in the slot until
  it is finished; an event queued in that moment sees a live handle and gets no
  window of its own. It waits for the next event or the next scan. The exception
  is stated, `slot # NoWindow`, and nothing else is let through.
- `StaleIsDetected` is checked with nothing open: when files are edited, a
  close that has read a file before it was written again (`CloseRead`,
  `CloseRestore`) leaves the older text in the index after a scan or batch put
  the newer one there, as a batch does in finding 4. It takes that no batch goes
  over the cap, for the reason finding 4 gives.
- `StaleIsDetected` is about files that are on disk. A file that was *removed* may
  stay in the index with nothing to say so, because its absence, unlike a write,
  gives the fingerprint a value it had before. Either a scan that found the file
  after it was created again merges it and is cancelled, when it has been removed
  once more: the index holds it, and the fingerprint of an earlier scan is that
  of the disk. Or a batch that read the file before its removal indexes it after
  a scan pruned it, and the deletion event is drained together with an older
  change: `resolve_watched_deletes` (`lsp/scan/mod.rs` 616) takes that for a
  change, whose missing file is skipped. Both need three writes.

And of `DocumentStore`: `SitesOfTree` compares versions, as
`replace_reference_sites` does. A document closed and opened again starts its
versions again, and when it has reached that of a refresh that was under way,
the refresh's sites of the earlier text pass the check until the next
validation; the property does not see that. `OverLimitOnlyBySites` says how the
limit of 128 MiB may be passed. `capacity_bound` foresees four slots for a new
key; a table that is full doubles, which is more when it is large. A tree is
therefore admitted under a bound that its sites then exceed. The property is
that nothing else does it: no text and no cached localisation takes the store
over its limit, or further over.

## Proofs

`NotificationQueueProofs` proves, for every number of messages, permits, channel
slots and overtaking handlers:

- `TypeCorrect`, `OrderCorrect` (`JobsInOrder`), `BarrierCorrect`
  (`RequestsSeeEarlier`), `OneJobCorrect` (`OneJobAtATime`) and `WakeupCorrect`
  (`NoLostWakeup`);
- `PermitsCorrect` (`PermitsAccounted`), which counts the messages that hold a
  permit: every step leaves that set and the free permits alone, or adds one
  message and takes a free permit, or removes one and gives its permit back. A
  job handed over takes its sender's permit with it;
- `Implementation`: every behaviour of `NotificationQueue` is one of
  `OrderedNotifications`.

The only assumption is `ConstantsAssumption`: the bounds are natural numbers and
there is at least one permit and one channel slot. `JobsInOrder` is not
inductive: that a body runs in order depends on where its sender's walk along
the chain of completions is. The inductive invariant `OrderInv` adds

- `ChainOK` and `CompletionsOK`: a completion is done or skipped exactly when
  its message is settled, a skip points at `previous`, and no notification lies
  between a message and its `previous`;
- `WaitersOK`: all notifications between the place a waiter looks at and the
  waiter's own are settled;
- `PastWaitOK`: whoever is past its wait has every earlier notification settled;
- `QueuesOK`, `ReadOK`, `KindsOK`: what is in the permit queue and the channel,
  and that unread messages have no state.

A skip moves the waiter one place back over a settled message, and `done` of the
place it looks at then settles all before it, because that place was itself past
its wait; this is the step that needs all of them together. `NoLostWakeup`
follows from the order of `wait()`: a waiter registers before it reads.

`WorkspaceIndexProofs` proves, for every number of files, windows, commands,
writes and faults, and every cap:

- `TypeCorrect`;
- `OneScanCorrect` (`OneScanAtATime`), which is inductive: every step that begins a
  scan's ownership sees the flag clear, and every step that ends it clears the
  flag, but for the drop within `finish`, which leaves it set, so that none
  begins after it;
- `OneBatchCorrect` (`OneBatchAtATime`), from `SlotOK`: every window that has not
  released the slot is the one in it. A dead handle means that no window holds
  on to the slot, so arming cannot make a second owner;
- `EventsKept` (`NoEventStranded`), from `KeptInv`: `SlotOK`, `OneScanAtATime` and
  `FaultsOK` (panicked windows and dropped scans are counted). It needs all
  three: a window leaves events to a running scan, which must then exist, and a
  scan leaves them to the window in the slot, which must then be alive.

`WorkspaceDetectProofs` proves, under the same constants, that a stale index is
detected: `DetectionCorrect`, that `StaleIsDetected` holds of every behaviour in
which nothing is open and no batch goes over the cap (`Undisturbed`), and
`DetectionUnedited`, the same from the constants alone, for a workspace that is
not edited and has at most half as many files as a batch takes. A batch holds at
most one change and one deletion of each file, which is what the half is for.
The hypothesis is needed: finding 4 is what happens without it. The inductive
invariant `DetectInv` says of each file on disk who is still to bring it to the
index:

- `FingerprintOK`: a file whose stat the fingerprint knows is `Fine`: the index
  holds it as it is, or a change of it is on its way and the signatures do not
  make the batch skip it, or a batch is about to index its present text;
- `ScansOK`: the same for what a scan has discovered, as far as it has got. A scan
  that discovered the file as it no longer is will record a fingerprint the file
  does not match, and began with one;
- `WindowsOK`: a file that a batch has looked at and not yet indexed has not the
  stat its signature notes (`NoteOK`); what the batch has read is the present text,
  or another change of the file has been announced since, and the stat it noted is
  then an old one, too (`ReadOK`), so that the signature it leaves makes no later
  batch skip the change;
- `DeletesOK`: the deletion of a file that exists again is never the last of its
  events to be processed, so a batch cannot take it out of the index for good.
  A change of it follows, or is drained together with the deletion and strikes it;
- `DiskOK`: each write makes a stat that neither the signatures nor the fingerprint
  hold.

TLC checked `DetectInv` on the instance of `index_detects` before it was proved.

`EditPipelineProofs` proves, for every set of documents and contents, every number
of runs and at least one permit (`ConstantsAssumption`):

- `TypeCorrect`, and `CurrentTreesAreOfBuffers` (`CurrentTreeIsOfBuffer`);
- `ClosedStaysCleared` (`ClosedIsCleared`);
- `ValidatedArePublished` (`ValidatedIsPublished`);
- `IndexFollows` (`IndexFollowsDocuments`);
- `PendingIsDurable` (`PendingClearedOnlyWhenSwept`), an action property.

They share `DocumentsInv`: no actor knows a buffer, generation or revision that is
still to come (`CountersOK`), a handle is that of a run of its document
(`HandlesOK`), and the identity of a buffer tells its content (`TextsOK`). A
version alone does not: it starts again when a document is reopened, and
`CurrentTreeIsOfBuffer` is inductive only because a close and a reopening drop the
tree. On top of it

- `PublishedOrOwed`: every open document, validated or not, shows the diagnostics
  of its buffer, or a run that was not cancelled, and whose buffer or version is
  still the document's, is on its way to publish them. The step that cancels a
  run of an open document is the one that spawns its successor;
- `IndexedOK`: a run past the index whose buffer is still the document's finds it
  indexed, since everyone who writes the entry checks, or is, the newest buffer;
- `SweepInv`: what a run or a sweep's validations saw is what the index still says,
  as long as no edit was scheduled and no export changed since the bounds it
  carries (`SawOK`), and a sweep that is not stale covers every open document
  (`SweepsCover`), either by a result or by one still to do; only the document of
  the run itself is spared (`SweepShapes`). The document the handler has just given
  a new buffer is the exception the property names: its run, spawned in the next
  step, raises the generation, and validates that document itself.

`DocumentStoreProofs` proves, for every set of files, keys and tasks, all sizes,
limits, texts and rulesets, and every growth of tables that makes room
(`TableAssumption`):

- `TypeCorrect`, `LimitsCorrect` (`LimitsHold`) and `SitesCorrect` (`SitesOfTree`).

One inductive invariant serves the three: `StoreInv`, kept by each method of the
store by a lemma of its own (`OpenedKeeps`, `ChangedKeeps`, `SetAstKeeps` and so on),
together with the types of the tasks. Its strengthening is `TreesOK`: a document
has a version other than 0, and one without a tree has none of a tree, so the
version check of `replace_reference_sites` cannot pass for a document that was
never parsed. Because an admission is stated about what is replaced, `LimitsHold`
holds whether or not the account is exact.

`DocumentStoreAccountProofs` proves, of the same store, `AccountCorrect`
(`Accounted`), `NothingLeftCorrect` (`NothingLeft`) and `OverLimitCorrect`
(`OverLimitOnlyBySites`). What is held is the size of a set with an element for
each unit, so that no sum over the documents has to be taken: a method changes
the part of one file, and the lemmas about finite sets split the rest off
(`CellsSplit`, `ElsewhereKept`). The account itself is kept by differences that
saturate at zero; that they never do is a consequence of the invariant, `FullInv`:

- `AccountInv`: each table has room for what is in it, `uses.bytes` is the capacity
  held, and `retained` is what a count gives (`Held`);
- `TreeBytesOK`: the bytes noted for a tree are those of the text it is of. The
  code notes them in a call of its own, from the snapshot's text;
- `TextsOK`: the number of a text tells its content, in the documents and in the
  snapshots of runs that come back late.

`OverLimitOnlyBySites` is proved method by method (`Restrained`), from `AccountInv`.

Every invariant and action property of the passing runs is thus stated by a
theorem. Model-checked only are the liveness properties, because fairness and
ENABLED are out of the prover's reach: `RequestNeedsOnlyEarlier`, `NobodyStranded`,
`HandlerReturns`, `EventuallyValidated`, `ScanReturnsFlag` and `EventsTaken`. The
violated properties below are refuted by TLC's counterexamples; nothing is proved
about them, except that `DetectionCorrect` says what finding 4 depends on.

## Findings

Each is a run TLC finds violated, in the code as it is.

1. `edit_at_rest` (`lsp/validate.rs` 1541). Two documents changed within one
   debounce window: the newer run's sweep is incomplete because the older run
   has not been accepted, the older run's sweep is refused because its
   generation is not the newest, and the pending change is left to nobody. The
   older document keeps diagnostics of the other's old exports until the next
   edit. (The idle reindex is off in the engine unless the client sets it.)
2. `edit_publish_order` (`lsp/validate.rs` 1303). Publications are checked
   against the buffer's version and hash, not against what they were computed
   from: a slow one overwrites a sweep's newer result for the same buffer.
3. `close_dependents` (`lsp/server.rs` 918). A close ignores that its sweep was
   incomplete and records nothing pending, so a dependent being validated at
   that moment keeps the diagnostics of the discarded text.

4. `over_cap_drift` (`lsp/scan/watched.rs` 216). A batch has read a file when a
   checkout writes it again; a foreground scan merges the new text and records
   the fingerprint; the batch then indexes the older text over it. The second
   checkout makes a batch over the cap, whose quiet scan is skipped, because the
   fingerprint already covers those files. The index keeps the older text, and
   no quiet pass sees it.
5. `scan_flag_lost` (`lsp/scan/mod.rs` 147). `ScanGuard::finish` marks the guard
   finished before it waits to close the loading bar. A command cancelled at that
   wait drops the guard, whose `Drop` then does nothing: `scan_in_progress` stays
   set, and no scan runs until the server restarts.

## Not modelled, and the plan

Pure functions over large data (parser, rules, validation, localisation,
completion) stay out: TLC cannot enumerate inputs that would say anything, and
what the pipeline needs of them is what they read. Build and packaging are not
part of the running program.

What the models leave out of the code they cover is named above. Between them:
the store of `EditPipeline` never refuses a text or a tree, and the scan of
`WorkspaceIndex` does not publish. Not modelled at all: the frame reader, vanilla
and parent mods, configuration reloads beyond a new ruleset, the baseline,
rename and other snapshot edits, the string table's regions, the parse cache on
disk, and the extension host; `PROJECT.json` says why or when, part by part.

Planned, in this order:

1. `EditPipeline` with document tokens and use tracking, and with trees refused
   by the store; then its composition with the scan's revalidation of open
   documents.
2. `FrameReader`: the header and body states against a reference reader.
3. Rename snapshots, baseline capture, command cancellation, the parse cache.
4. Proofs: the safety half of the liveness properties (who holds the permit or the
   flag a waiter waits for), and that one validation run sees no document but as
   the index has it.
