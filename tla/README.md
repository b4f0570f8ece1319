# LogTapper: verification project

LogTapper is a desktop log analyser: a Rust/Tauri back end (`src/src-tauri`), a
Solid front end (`src/src-solid`, with the framework-free part in
`src/src-shared`) and an MCP sidecar (`src/mcp-server`) through which an agent
drives the same back end.  The modules here model the parts of the system where
threads, tasks, events, files and crashes meet; TLC checks them on small
instances and TLAPS proves what matters most of them for all instances.

1. [Inventory](#1-inventory) - 2. [How to read and run it](#2-how-to-read-and-run-it) -
3. [The modules](#3-the-modules) - 4. [The runs](#4-the-runs) -
5. [What is proved](#5-what-is-proved) -
6. [Disagreements between code and documentation](#6-disagreements-between-code-and-documentation) -
7. [Not modelled](#7-not-modelled)

## 1. Inventory

Paths are relative to `src/src-tauri/src`, or to `src/src-solid` for `.ts` files.

| Part | State | Operations | What makes it correct | Module |
|---|---|---|---|---|
| Live ADB stream (`services/stream.rs`, epochs in `commands/mod.rs`) | `sessions`, `stream_tasks`, `stream_epochs`, three continuous-state maps, `pipeline_results` | `start_with_source`, `run_streaming_task`, `flush_batch`, `stop`, `update_*`, `close` | a late re-insert of a batch undoes no stop, close or update; results and state agree; no line is skipped but those of a batch the epoch moved under | `LiveStream` |
| Stream source (`core/log_source.rs`) | lines in memory, spill file with offsets and handle, loss counter | `push_raw_line`, `evict`, `raw_line`, `write_stream_lines` | a line that leaves memory is in the spill file or counted as lost, once; the file is bounded; what was spilled reads back | `StreamSource` |
| Agent event ring (`services/events.rs`, `stream::events`) | ring of 2000 events, `seq`, `latest_seq` | `push`, `drain_since`, `events` | every event up to an agent's cursor was delivered or reported as missed, never both | `AgentRing` refines `EventFeed` |
| Auto-save (`workspace/autosave.rs`, `services/workspace.rs`, `lib.rs`) | envelope, `.ltw` files, `app_state.json`, generations, window | `schedule`, `flush`, `save`, exit, rename, delete | generations that agree mean that everything scheduled was written; an exit keeps it; no flush or save lists a deleted workspace again | `Autosave` |
| Workspace transitions (`workspace/workspaceStore.ts`, `load_and_restore`) | the active workspace on both sides | switch, open, new, an agent's load | nothing of one workspace gets into the file of another, and no file loses an artifact | `WorkspaceSwitch` |
| Save flag of the window (`workspaceStore.ts`) | dirty flag, timer, saves in flight | `markMutated`, `autoSave`, `flushForTransition` | a dirty workspace has a save ahead; a transition discards only what is in the file | `DirtyFlag` |
| Session registry, background indexer (`services/sessions.rs`, `core/session_identity.rs`) | `sessions`, `indexing_tasks`, generations, artifacts to restore | `open_file`, `close`, indexer | an index is a prefix of its file; one file has one session with its artifacts | `Sessions` |
| Parsers and line index (`core/*_parser.rs`, `core/session.rs`) | line offsets, metadata, tags, sections | detection, first pass, chunks | neither lines nor sections depend on where the chunks were cut | `LineIndex` |
| Pipeline runs (`services/pipeline.rs`, `services/chain.rs`) | run locks, cancel tokens, chain, three result maps | run, stop, chain edits, close | runs of a session serialise, a stop reaches a run that waits, the three maps are of one run | `PipelineRuns` |
| Batch algorithm and engines (`commands/pipeline_core.rs`, `processors/`) | state of each processor | prefilter, layers, `process_line`, merge | a stream arrives at the results of the run over the file | `PipelineCore` over `Engines` |
| Filters, watches, searches, windows of lines (`services/{filters,watches,search,lines}.rs`) | `active_filters`, `active_watches` | create, chunk, page, cancel, evaluate | a scan in chunks finds what one step would, none twice; a watch counts each line once | `Scans` |
| MCP bridge and sidecar (`commands/mcp.rs`) | child slot, generation, ports, bridge | start, stop, port change, supervise | every child that runs can be killed; a stop wins | `Sidecar` |
| Processors, packs, marketplace (`services/{marketplace,processors}.rs`) | maps in memory, files on disk, pending updates | install, update, packs, uninstall, launch | what is installed survives a restart; a pack has its members | `Library` |
| Bookmarks and analyses (`services/{bookmarks,analyses}.rs`, two stores of the window) | a store per session, the window's copy | create, update, delete, restore, events | once everything was heard the copy is the store | `Artifacts` |
| Query bar (`query/backendFilter.ts`, `query/filterScan.ts`, `core/filter.rs`) | expression, scan, pages | extract criteria, scan, supersede | the criteria accept what the expression accepts (they do not for two kinds of OR); what is shown is what it wants | `FilterExpr`, `FilterScan` |
| Analyzers of the window (`analyzers/analyzerStore.ts`) | copy of the chain, catalog, one row per session, cache of results | edit, run, hear events | chain and results shown are the back end's | `Analyzers` |
| Tabs (`app/sessions.ts`, `app/actions.ts`) | tabs, focus, totals | open, close, probe | the tabs are the open sessions with all their lines | `Tabs` |
| Live captures of the window (`viewer/createStreamSession.ts`, `stream/streamStore.ts`) | current capture, status, tab, counters | start, stop, channel, close | the capture that runs is the one the window can stop | `Capture` |
| Viewer (`viewer/cacheBinding.ts`, `src-shared/{viewport,cache}`) | cache, fetches in flight, window | scroll, fetch, evict, replace | no line of an old text is shown; every visible row is fetched | `Viewer` |
| Anonymizer and access policy (`services/{policy,settings}.rs`, `anonymizer/`) | modes, config, tokens, pages | read, change a setting, restart | an agent gets raw text only if the settings allowed it; tokens are stable | `Redaction` |
| Device state panel (`devicestate/deviceStateStore.ts`, `services/tracker.rs`) | snapshot, changes, history | select, move, run, refresh | what is shown when all is heard is what the back end holds | `DeviceState` |
| Workspace file formats, sections, timeline, insights, charts, activity, focus, navigation, themes, application update, layout | | | | not modelled (section 7) |

Everything shared in the back end lives in `AppState` (`commands/mod.rs`), one
mutex per map.  Commands of the window, requests of the agent and background
tasks run on different threads of one process; no lock spans an operation, so
an operation is a sequence of critical sections and one critical section is one
action of a model.  The window is one thread: its code runs between two awaits
without interruption, and what it awaits arrives in orders of its own.

| Between | By | Order that the models assume |
|---|---|---|
| window and back end | `invoke` of a synchronous command | run and answered in the order they were sent (one main thread) |
| | `invoke` of an asynchronous command | any |
| | events (`emit`) | the order they were sent, none relative to answers |
| | the channel of a capture | the order they were sent, none relative to answers and events |
| agent and back end | requests to the bridge | any |
| back end and its tasks | `stream_tasks`, `indexing_tasks`, cancel tokens, `notify` | as the code tests them |
| back end and files | read, write, rename | a write fails or ends; a crash falls between two of them |

## 2. How to read and run it

* A module models one component: `XInit`, one action per operation or critical
  section, `XNext`, `XSpec`, then its properties.  All but the first modules
  prefix their names (`Ses`, `Run`, `Mcp`, ...) so that they can be extended
  together.
* `MC*` modules hold instances.  Small ones (`MCLiveStream`, `MCSessions`, ...)
  define values for constants.  `MCProgress`, `MCServices`, `MCDesktop` and
  `MCWindow` are *sums* of components that do not interact: the variable `part`
  says which component runs and the others stay as they began, so a property of
  a component holds of the sum exactly if it holds of the component, and one run
  of TLC answers for all of them.  Components that do interact are composed by
  EXTENDS with shared variables (`WorkspaceSwitch` over `Autosave`,
  `PipelineCore` over `Engines`, `FilterScan` over `FilterExpr`).
* `*_proofs` modules hold theorems; `Services_proofs` is about `StreamSource`, `Sessions`,
  `Redaction` and `PipelineRuns`, `FrontEnd_proofs` about `DirtyFlag`, `WorkspaceSwitch`
  and `Capture`, `Window_proofs` about `DeviceState`, `Artifacts` and `Tabs`, `Agents_proofs`
  about `AgentRing` and `Sidecar`, the others about the module they are named after.
* Variables called *history* are read by no guard of a program step; they only
  let a property talk of the past.
* `tlc -config MCServices.cfg MCServices` checks a run, `tlapm Library_proofs.tla`
  the proofs of a module.

## 3. The modules

One action is one critical section (one `lock_svc` or `lock_or_err` region), or
one stretch without `await` of an asynchronous function, and what the code keeps
in local variables between two of them is a variable of the model (`batch`,
`flush`, `sw`, `runCall`, `libCall`).

### 3.1 The live stream: `LiveStream`

| Model | Code |
|---|---|
| `Start*` | `start_with_source`: insert the session, `seed_stream_epoch`, `resolve_stream_chain` and `seed_continuous_state`, the cancel sender into `stream_tasks`, `spawn` |
| `TaskOpen`, `TaskEof`, `TaskCancelled`, `TaskExit` | `run_streaming_task` and its `StreamTaskGuard` |
| `FlushBegin` .. `FlushReinsertTrackers` | `flush_batch` in its order: epoch, transformer clones, transformer re-insert, append, state clones, reporters with the merge into `pipeline_results`, trackers |
| `StopCancel`, `CloseCancel`, `CloseRemoveSession`, `Clear` | `stream::stop`, `sessions::close`, `clear_stream_epoch_with` |
| `Update(k, ids)` | `update_processors`, `update_trackers`, `update_transformers` through `bump_stream_epoch_with` |

A processor's continuous state is the set of line numbers it has consumed, with
the number of the seeding that created it (`birth`) and the line count at that
time (`from`); what a processor computes from a line is in `Engines`.  The
session is one: a restarted stream gets a new id and all maps are keyed by it.
`NoResurrection` and `TerminalStaysClean` say that no late re-insert decides
against a later command, as long as nothing re-seeds a session that was cleared;
without that condition it is refuted (run `stream_resurrect`).  `ResultsSound`
relates the results published to the states, and both to the lines.

Visible in the model and stated by no property: a close between the insertion of
the session and that of the cancel sender finds no sender, and the task that
`start` then spawns runs for a session that is gone.  An update during a batch
makes the guard drop the batch for processors the update *kept*: their state
misses those lines (`superseded`), which the comment at the guard does not say.

### 3.2 The stream source: `StreamSource`

`Arrive` is step 3 of `flush_batch` (append, `evict`); opening the file, its
failure, a line spilled, a write that fails after any number of bytes, the cap
and the end of an eviction are the loop of `evict_inner` line by line.  Reading
and saving are `raw_line` and `write_stream_lines`.  Bytes are modelled (a byte is
a line and a position) because the file handle is shared: a write does not seek,
a read does.  `SrcSound` accounts for every line whatever happens; that a
spilled line reads back is claimed while no read came before the last eviction,
no spill file was created late and no write failed: each of the three alone
breaks it, the first in the run `source_read`.

### 3.3 The event ring: `AgentRing` and `EventFeed`

`TakeNumber` and `Insert` are `RingSink::push` (the number is taken before the
lock of the buffer), `NoteLatest` and `Drain` are `stream::events` with any
`limit` the route lets through.  `EventFeed` is what the polling contract
promises: a page is an interval of events above the cursor, and what it skips is
reported and was at least `Cap` behind the newest.  `issued <- seq` is the whole
refinement mapping.  A page can report a `latest_seq` below its own `next_since`,
so a client must not subtract one from the other.

### 3.4 The auto-save: `Autosave`

| Model | Code |
|---|---|
| `Mutate`, `ScheduleAutosave` | a handler of analyses or bookmarks, then `schedule_autosave` |
| `Debounced`, `Gate` .. `FlushDone`, `FlushFails` | the scheduler loop and `flush`: suppression window, envelope, sessions, divergence check, artifacts, `write_workspace_snapshot`, `record_auto_save_in_app_state`, the flushed generation |
| `ExitFlush`, `Gone` | the exit handler of `lib.rs` |
| `Save`, `SaveCollect`, `SaveWrite`, `SyncEnvelope`, `BeginSwitch` | `services/workspace.rs` |
| `Delete*`, `Rename*`, `EditFails` | `delete_workspace`, `rename_workspace`, each by any of the `Editors` (the desktop's commands, the routes of the agents): the read of `app-state.json` apart from its write, the sessions closed one by one, removals of files that fail and are passed over, a list that cannot be written |

`flush` has two instances, the scheduler's and the exit handler's, which may be
in flight together.  Time is left out: the debounce and the window may end at
any moment.  The conditions in the properties are what the code needs: a `save`
that snapshot before a flush and writes after it puts an older state over a
newer file, so `SavedIsKept` speaks of the files while the scheduler is the only
writer (`CleanMeansReached` has no such condition); sessions opened between the
two looks at the live sessions fool the second.  A flush or save in flight during
a deletion re-creates the file.  A flush of a workspace saved under an explicit
path records that path as `auto_save_path`, which `delete_workspace` removes
whatever `delete_file` says; the model has it, no property forbids it.

The lock of `app-state.json` is held for its write alone, so edits of the list
overlap: of two deletions, or a deletion and a rename, the one that writes last
puts back what the other took off, with the path of a file that is gone
(`DeletionStands` is refuted, 3.18).  `NeverRelisted` says that this is the only
way back: no flush, record of a flush, save, exit or window lists a deleted
workspace, only the write of an edit of something else that had read the list
before.  `ListedFileExists` (in `SnapshotsSound`): the list names a missing auto-save file only of
a workspace whose deletion has yet to write the list, or of one in `undone`, which
such a late write has put back or whose deletion could not write the list.

### 3.5 Transitions: `WorkspaceSwitch`

Extends `Autosave` with the steps of `switchWorkspace`, `openWorkspace`,
`newWorkspace` and of `load_and_restore`; of the handlers of `Autosave` it keeps
those the desktop uses.  Two constants name assumptions rather than bounds.
`Settled`: a transition starts when every artifact is on disk and no flush is in
flight; without it the run `switch_pending` loses an artifact.  `SlowSwitch =
FALSE`: the transition is over before the window lapses; past the deadline the
code promises nothing.  `ArtifactsPlaced` and `FilesKept` hold until an agent has
loaded a workspace (`load_and_restore` never caches an envelope of its own, so
the next flush writes its analyses under the identity of the workspace that was
open) and while no incoming file was unreadable.

### 3.6 The save flag: `DirtyFlag`

`markMutated`, `autoSave`, `saveWorkspace`, `flushForTransition` and the listener
of `workspace-auto-saved`, with the back end's flush.  Edits are numbered, so
*which* edit is in the envelope and in the file is visible.  An edit during the
await of a save is marked clean by its return, and one between a flush and its
event by the event; `dirCrossed` remembers it, and the properties about the file
are stated for behaviours without it.

### 3.7 Sessions: `Sessions`

`open_file` in its critical sections (rescue of the marks of an older version,
stale sessions, insert, the sender of the indexer, restored artifacts, the
answer), `close`, the push of the pipeline meta, rewrites of the file on disk, and
the indexer's check, chunk and finish.  A session id is the pair of the file's
version and the label asked for, as `session_identity` derives it from both.
`SesSound`: an index is a prefix of its file's chunks at all times; when no two
calls overlap and all have ended, a file has one session, its bookmarks and
references followed it, and the window shows what is open.

### 3.8 Runs: `PipelineRuns`, `PipelineCore`, `Engines`

`PipelineRuns` has the run lock, looked up by session id and dropped by a close,
the cancel token, the resolution of the chain, the snapshot, the chunks and the
three stores, against chain edits, stop, close and reopen.  The three result
maps are tagged with the run that stored them; `runTorn` records that a close
took the lock from under a run, after which two runs may mix (run `runs_mix`).
`PipelineCore` is the algorithm: one chain over one log, once as the file run
(prefilter, engines that live through all chunks, section ranges) and once as
the stream (state taken out, one batch, merged and put back).  `CoreSound`: the
stream arrives at the results of the file run where the prefilter is conclusive
(it is not for an unanchored tag pattern, run `prefilter_drops`), events agree
with the log, snapshots with the transitions, and a tracker behind a masking
transformer sees no secret.

### 3.9 The line index: `LineIndex`

Pure operators from the bytes of a file to its lines: detection in a sample of the
file, three parsers, tag table, first pass, chunks, sections.  `IdxSound` says
that no result depends on the cuts, that sections nest, and which lines of the
sample decide the type.  The sample of the code ends at a byte, that of the model
at a line.  `IdxReadersAgree` is refuted (3.18): the readers of a bug report of
another year have the wrong year.

### 3.10 Reading line by line: `Scans`

A scan locks `sessions` once to learn the length and again per chunk; in between
lines arrive, are evicted, and the session may be closed and opened under the
same id (`scnTouched`).  `ScnReadingSound`: untouched scans find exactly what one
step would, chunk by chunk, a filter says `complete` only with all matches, what
is off the list is cancelled, and a watch has counted every line since its
creation.

### 3.11 The sidecar: `Sidecar`

The thread that supervises a spawn is cut where it locks or sleeps; a child handle
that is dropped leaves its process running.  `McpSound`: every child that runs is
in the slot or in the hands of its supervisor, a child in the slot is of the last
generation unless a stop is on its way, and a running bridge can be told to stop.
Spawns fail, children die, and one that cannot be polled is dropped while it runs.
Two histories name what is excepted: `mcpRaced` (a supervisor for one port while
one for another is under way, a child that dies or is dropped on its way to the
slot) and `mcpLate` (a stop between the test of the
generation and the lock of the slot, `commands/mcp.rs:238`).  It is assumed that a
sidecar has bound its port or exited when its 750 ms to settle are over.

### 3.12 The library: `Library`

Every installed processor is twice, in memory and in a file, and so is every pack.
Calls are cut at their downloads, locks and file writes; a crash clears memory
and the next launch loads the files.  `LibrarySound`: what is installed survives a
restart, an installed pack has the members of its manifest, and a pack installed
from the current publication is not offered again.  Histories name where calls
met in the half-way of one thing (`libMixed`), what an uninstall or a failed
write excuses (`libExcused`), and which files are not what the calls made of them
(`libStray`): a file that could not be removed, an error that
`delete_processor_file` and `delete_pack_file` swallow (`LibLeaves`), and one that a
failed write has truncated (`LibCut`).  A cut file is one that the next launch cannot
parse; in the model it is as if it were not there.  Such a file is excepted until
it is written or removed again, or the next launch has read the disk: that launch
loads what was uninstalled, or misses what was installed
(`LibSurvivesRestart` without `libStray` is refuted, 3.18).  Visible in the model: the row of a pack that is
stale against its grown manifest, and a shared member uninstalled under the
installation of another pack.

### 3.13 Artifacts and the window's copy: `Artifacts`

A mutation changes the store under its lock and sends its event after, so two
mutations can be told in another order than they happened; the window hears by
events, answers and lists.  `ArtCopiesSettle`: when all was heard the copy agrees
with the store, for bookmarks but for one that was told out of order.

### 3.14 The query bar: `FilterExpr`, `FilterScan`

`FilterExpr` has the meaning of an expression, the criteria drawn from it and the
back end's evaluation of them, checked for every expression of a set; it is the
one module with RECURSIVE operators.  The extraction breaks both claims of its own
doc: an OR of two texts keeps the longer one and offers none of the lines that
have only the other (`FltExtractIsSuperset`, run `filter_superset`), and an OR
of AND groups over two fields passes as exact and is not (`FltExactIsExact`).
`FltExtractSound` says that there is no third way: an expression without an OR of
the first kind loses no line, one without an OR of the second is exact where it
says so.  `FilterScan` is the scan: the generation,
the listener of progress that is attached after the filter was created, pages,
windows of lines, and the lines of a live capture.  A scan whose last event found
no listener never ends (`FscScanEndsAtLast` is refuted).

### 3.15 The window's stores: `Analyzers`, `Tabs`, `Capture`, `DeviceState`

Each has the window's state, the back end as far as the window can see it, and
the messages between; the properties speak of the states in which nothing is on
its way, and name in a history (`anzGhost`, `tabGhost`, `capGhost`) each crossing of
messages that the code does not repair.  So a property reads: the two sides
agree, or one of these crossings, which the comments at the property describe,
has happened to this very session.

In `Analyzers` a call of an agent stores a chain under the lock (`AnzAgentEdit`, which
may name processors that are not installed, as `chain::set` takes any qualified id,
and may rest on a chain read before another change, as `chain::patch` does) and tells
of it after (`AnzTell`), so two calls can be told in another order than stored; the
run of named processors joins them to the chain in the same steps
(`AnzJoinReads`, `AnzJoinStores`, `AnzTell`).  The catalog of the window is what it
last read (`AnzRefresh`), not what it last heard.  Told out of order counts as
`crossed`, and a chain that names what is not installed, or an addition from a
catalog that is out of date, as `revived`.  `AnzGoneIsGone` asks for more where no
crossing can matter: no uninstalled processor is on the template, whatever
happened.

### 3.16 The viewer: `Viewer`

One pane: viewport reports, the fetch in flight that keeps others away, prefetch,
cache and eviction, jumps, filters, and the two ways the text of all lines
changes (opening as another type, a change of the anonymizer's mode).
`ViewerSound`: no line of an older text is held or shown once the window has dealt
with the new one, and every visible row was fetched.

### 3.17 Redaction: `Redaction`

The modes, permissions and detectors, on disk, in memory and in the window; the
token table; reads of an agent, of the window and of a copy, each of which looks
at the settings several times.  Two properties divide the question.
`RedactionSound` is about what is in a page, so it depends on the matches and the
tokens: an agent whom the settings allowed no raw text at any moment of its call
gets none that the detectors find, and one token stands for one value.
`RdxGateSound` holds whatever the detectors find: such an agent's page misses no
pass, a restart never allows more than was allowed, and the window settles on
the settings there are.

### 3.18 Stated and refuted

Some statements of comments and docs are definitions in the modules, with the
reason why TLC refutes them, and no run keeps them: `VwWindowFills`,
`VwLiveFollows`, `FscScanEndsAtLast`, `AnzCacheIsOfTheResult`, `CapTabIsWhole`,
`LibUpdatesReachTheWindow`, `ScnUntruncatedIsAll`, `DevShowsTheSelected`,
`DeletionStands`, `FltExactIsExact`, `AnzChainsAgree`, `IdxReadersAgree`.  Put in
place of the INVARIANTS of the run that extends the module (`DeletionStands`, a
PROPERTY, in `autosave_flush`; with `ScnRequests <- OneQuery` for the seventh; the
third is a PROPERTY of `FscFairSpec` in `MCFilterScan`, `FltExactIsExact` goes into
`filter_superset`) each gives its counterexample.

`IdxReadersAgree` says that the parser of a reader gives a line the time that the
index has.  `BugreportParser::parse_line` (`core/bugreport_parser.rs:311-313`) asks the
logcat parser first, which takes every line that does not start with dashes, so the
header never reaches `classify` and in a bug report of another year pipelines,
filters and the viewer keep the current year.

Properties whose exceptions are needed, with what refutes them otherwise:

* `ListedFileExists` without `undone`, `NeverRelisted` without `PutsBack`: two deletions
  of the two workspaces that overlap (3.4).
* `LibSurvivesRestart` without `libStray`: one removal that fails, or one write.
* `AnzGoneIsGone` without `revived`: an agent sets a chain with a processor after it
  was uninstalled, or the user adds one from a catalog not yet read again.
* `AnzChainsAgreeUncrossed`, if a change told out of order were not `crossed`: the
  window keeps the chain that was told last, not the one stored last.

## 4. The runs

| Run | Instance | What it shows |
|---|---|---|
| `autosave_flush` | 2 workspaces, 1 session, 2 artifacts, 2 editors of the list, any 2 disturbances (`MaxEvents`) of save or sync, failed write, rename, open, close, deletion and window, exit | the safety properties of 3.4 with both flushes in flight, two deletions or a deletion and a rename that overlap |
| `services` | the sum of stream, stream source, save flag, runs, processor chains, artifacts | `NoResurrection`, `TerminalStaysClean`, `ResultsSound`, `SrcSound`, `SrcSavedInOrder`, `DirSound`, `RunResultsConsistent`, `RunStopReaches`, `CoreSound`, `ArtCopiesSettle` |
| `desktop` | the sum of transitions, scans, sidecar, library, line index, sessions | `ArtifactsPlaced`, `FilesKept`, `ScnReadingSound`, `McpSound`, `LibrarySound`, `LineIndexSound`, `SesSound` |
| `window` | the sum of filter expressions, filter scan, analyzers, tabs, captures, viewer, redaction, device state | `FiltersSound`, `AnzWindowSound`, `TabsAgree`, `CapSettles`, `ViewerSound`, `RedactionSound`, `RdxGateSound`, `DevSound` |
| `progress` | the sum of stream, auto-save, ring, save flag, sessions, runs, scans, each under its fairness | `CallsSettle`, `EventuallyClean`, `EveryEventReachesAgents`, `EveryEventAccountedFor`, `ImplementsFeed`, `DirEditsReachTheFile`, `SesUndisturbedCompletes` |
| `stream_resurrect` | 1 processor of each kind, 1 caller | **violated**: `NoResurrectionEver` |
| `source_read` | retention 1, cap 9 | **violated**: `SrcSpilledStaysAccessible` |
| `switch_pending` | 1 artifact, 1 transition, `Settled = FALSE` | **violated**: `NothingLost` |
| `runs_mix` | 2 runs, 2 instances of the session | **violated**: `RunOfOneRun` |
| `index_settles` | 1 opener, 2 generations, 2 chunks | **violated**: `SesIndexingSettles` |
| `prefilter_drops` | chains with a tag pattern | **violated**: `CorePrefilterConclusive` |
| `filter_superset` | every expression of `Groups` over 7 leaves | **violated**: `FltExtractIsSuperset` |

Each sum also has one type invariant (`ServicesTypeOK`, `DesktopTypeOK`,
`WindowTypeOK`), which asks for the type of the component that runs.

Bounds are as small as the interesting cases allow, and limits of the code are
set so that each is hit:

* Stream: two callers are needed for a stop within a close, three seedings
  (`MaxStamp`) for start, update, update inside one batch.  Source: retention 2,
  cap 3 bytes, widths 0 and 1, 5 lines in batches of up to 3 reach the cap inside
  an eviction and have a batch larger than the retention.
* Ring: 4 events in a ring of 2 let it be overwritten twice; 2 agents, any limit.
* Auto-save: the two disturbances meet each other and both flushes in every
  order.  Transitions: 2 workspaces, 2 sessions, 2 artifacts, 2 transitions and 2
  saves go there and back.
* Save flag: 2 overlapping saves, 3 edits, 2 flushes, 2 failures.
* Sessions: 2 versions of a file of which the second is shorter, 2 labels, 2
  generations, one mark.  Runs: 2 runs, 2 instances of the session, 1 edit.
* Chains: one chain per combination of engines that exchange something, logs of
  up to 4 lines from an alphabet that hits and misses each rule, batches of 1 and
  2.  Line index: files with every kind of line at the cuts of a first pass of 2
  and chunks of 2 bytes, with and without byte order mark and last newline, bodies of
  up to 5 lines of which detection looks at 4.
* Scans: one call of each kind of request, one watch, 3 lines in chunks of 2 with a
  cap of 3, 2 opens.  Sidecar: 2 callers, 2 ports, 2 attempts, 2 processes, 3 calls
  or failures of a spawn.
* Library: 2 processors, 2 packs, 2 publications, 2 concurrent calls, a crash and a
  failure, which is a failed download or check, a cut write or a removal that is passed over.  Artifacts: 2 of one kind, 2 agents, 2 calls and a click.
* Window: two of each thing that can be confused with another (scans, runs, tabs,
  captures, trackers), and a budget per kind of input whose alternatives are
  enumerated in `*Budgets`: the inputs in one behaviour are few, but each
  combination of kinds has a behaviour.  For the analyzers: two runs, two edits, an
  edit with a run, one with an uninstall, and an edit between two calls of
  an agent and an uninstall.

`CHECK_DEADLOCK FALSE` is said where the bound on inputs ends the behaviour: a
process that has exited, a source that takes no more lines.  Only the callers of
the stream are a symmetry, in a run without liveness.

### Fairness

* Stream: a spawned task, a running `start` and a running command are scheduled by
  the runtime (weak fairness on each step).  `tokio::select!` starts at a random
  branch, so a cancel that is ready again and again is taken (strong fairness on
  `TaskCancelled`: each batch disables the branch for a while).  Nothing is
  assumed of the device or of who calls what.
* Ring: a push and a registration under way end; agents go on polling, as the
  contract asks them to.
* Auto-save: a handler that changed an artifact goes on to `schedule_autosave`, a
  signal is taken once it is quiet, a flush that runs goes on.  Handlers do not
  call for ever (`MaxMut`): an endless stream of signals closer together than the
  debounce would starve the flush, which has no maximal delay.
* Save flag: an armed timer fires and calls return.
* Sessions, runs, scans: a command, a task and a scan that have begun are scheduled
  until they end or wait for a lock, and one that waits for a free lock gets it
  (each run of the instance asks once, so that no fairness of the lock between
  runs is needed).  Nothing is assumed of who opens, closes, runs or cancels.

## 5. What is proved

TLAPS checks the following for every value of the constants that satisfies the
named assumptions of the modules.  They ask for no more than what the code has:
bounds are natural numbers, kinds of processor are disjoint, no thing is taken for
the value that stands for nothing (`NoneAssumption`, `SwitchAssumption`,
`LibAssumption`, `DirAssumption`, `McpAssumption`, `DevNoneAssumption`), the window is no
agent (`ArtAssumption`), a file has a first chunk (`TabAssumption`), the readers are of
the three kinds there are (`RdxAssumption`), a ring and a spill file have room for one
element (`RingAssumption`, `SrcAssumption`), and the shelf of a publication lists files
it has (`LibAssumption`).

Every safety theorem has the same shape: an invariant that is inductive (types,
then what the property needs to know of calls in flight), one lemma per action or
group of actions, and the property from it.

* **`LiveStream_proofs`**: `TypeCorrect`; `GuardInvariant`, `GuardNoResurrection`,
  `GuardTerminalStaysClean`; `StreamResultsSound`.  That every entry of the state maps
  belongs to the last command is not inductive: a re-insert needs to know that
  the clone it stores is still the live one.  `ClonesAreFresh` says so for batches
  whose epoch is current; it needs `EpochGrows` (an epoch once captured is not seen
  again unless nothing changed since) and that in turn `SeededUntilCleared` and
  `TaskAfterStart`.  `ResultsSound` needs `ResInv`: what a clone owes to the lines of its
  batch, before and after the append, in relation to what the live state owes.
* **`Agents_proofs`**, the ring: `RingInvariant` (type, contiguity, accounting), from the
  lemmas that what `drain_since` returns and what `limit` leaves are intervals of
  the ring; `NothingLostSilently`; `RingImplementsFeed`: each step of the ring is a
  step of `EventFeed` or leaves its variables alone.
* **`Autosave_proofs`**: all safety properties of the module.  `CleanReached`:
  `ReachInv` carries through a flush that the artifacts up to the generation it *saw
  at its start* are in its snapshot, then in a file; this is why the code must
  store that generation and not the current one.  `DeletedNeverRelisted`: for
  any number of editors, the types of what they have read (`ListTypes`) suffice: a
  flush changes the entry of a workspace only if it is listed, so what lists one
  again is an edit that read the list while it was there.
  `AutosaveKeeps`: while no other writer has been there the files are those the
  flushes wrote, each with at least what its predecessor had (`QuietInv`, `DiskInv`),
  and the exit either finds nothing pending or waits for a flush that has it all
  (`ExitInv`).  `AutosaveSnapshots`: `SnapInv` ties the sessions a flush holds to those
  of its envelope, `FileInv` each listed path to a file, across the writes between
  which a list names a file that is about to be there: an entry names one of the
  two paths of its own workspace, so no deletion removes the file of another, and
  what an editor has read is as good as the list unless the workspace is exempt.
* **`FrontEnd_proofs`**, save flag: `DirForgetsNothing`.  `DirCleanInv` says what a clean
  flag, an armed timer and each save in flight know of the last edit, as long as no
  edit met one of them.
* **`FrontEnd_proofs`**, transitions: `SwitchTypeCorrect`, `SwitchPlacesArtifacts`,
  `SwitchKeepsFiles`, under `Settled` and within the window.  `WindowInv`: the window
  is open from the first to the last step that matters, and no flush passes its
  gate in it.  `PlacesInv`: every writer holds an envelope and artifacts of the one
  workspace that is at home (`WritersAtHome`, `NoneForeign`), and each artifact is in
  memory, in the file, or in the hands of the transition (`InMemory`, `InFiles`,
  `WritersKeep`), by the phase the transition is in.
* **`FrontEnd_proofs`**, captures: `CaptureTypeCorrect` (no tab has more lines or a
  higher count than its session) and `CaptureSettles`.  Its invariant follows a
  capture from the call of `start`: what the guard of the channel knows
  (`CapStartInv`, `CapUnseenInv`, `CapGuardInv`), what the tab shows (`CapShownInv`), and
  that total and count, with the batches still in the channel, add up to the back
  end's (`CapChanInv`, `CapCountInv`).
* **`Services_proofs`**, stream source: `SrcTypeCorrect`, `SrcNothingUncounted`.  Per
  phase of an eviction, the lines gone are the spilled and the lost (`SrcCountInv`),
  the bytes stay within the cap and one line (`SrcCapInv`), and while undisturbed the
  file is the concatenation of its lines at their offsets (`SrcFileInv`).
* **`Services_proofs`**, sessions: `SesTypeCorrect`, `SesRegistryAgrees`.  `SesIndexInv` holds
  always: generations are ordered, an indexer's cursor is the length of the index
  of the generation it works for.  `SesRegistryInv` holds while no calls overlap: what
  is true in each phase of the one open, close or push that is under way.
* **`Services_proofs`**, settings: `RdxTypeCorrect`, `RdxGatesHold`.  `RdxDiskInv`: the files
  say what the memory says but for the one the command under way has written, which
  is why a crash between the two writes cannot open the gate.  `RdxStraightInv`, while
  no older value was put back over a change: the changes under way lead from the
  memory to the window's copy (`RdxChainInv`), no answer of before a change comes
  after it (`RdxClearInv`), and without a change the copy is right or a read that
  makes it so is ahead (`RdxCopyInv`); the pages fit the mode unless an answer on its
  way will make the window read them again (`RdxPagesInv`).  `RdxReadInv`: a read of
  an agent that was not allowed raw text so far has done each pass it came to.
* **`Window_proofs`**, device state: `DevTypeCorrect`, `DevPanelIsRight`.  What loads is on its
  way (`DevKeepInv`); what was answered under the last run the window heard of is the
  state that run found (`DevAnswerInv`); from these the panel shows, or is about to
  show, the state at the cursor (`DevCursorInv`) or now (`DevLiveInv`), and the
  history is the run's (`DevHistInv`).  Trackers and lines are finite sets, as a chain
  and a file have finitely many (`DevAssumption`).
* **`Window_proofs`**, bookmarks and analyses: `ArtTypeCorrect`, `ArtCopiesAgree`.  Versions are
  numbered by the mutations, so the invariant can say that the window is never ahead
  of the store (`ArtOrder`) and that a version no restore has brought is told or will
  be (`ArtHeard`).  The list of analyses has a last word on its way or something that
  will ask for one (`ArtListInv`), a cached one is what was told
  last, or a newer version is on its way (`ArtCacheInv`); a bookmark is made once and stays gone (`ArtLifeInv`), and one of an
  open session is in the window, on its way, or about to be fetched (`ArtShownInv`);
  `ArtClosedInv` has what may still cross a closing.
* **`Window_proofs`**, tabs: `TabTypeCorrect`, `TabTabsAgree`.  That the tabs are the open
  sessions when nothing is on its way is carried by `TabPlace`, for an id of which no
  close or announcement passed another answer: an open session has an answer, an
  announcement or an opening ahead that no news of a close follows, or a tab that no
  such news is ahead for; one that is not open has the news or the answer of a close
  ahead, or no tab.  `TabSpare` counts the news of closes the window does not take for
  the echo of its own; `TabEchoed` says that an echo it waits for is ahead.  The lines
  of a session that is indexed need more: `TabWhole` says that the last word on its
  way is that the index is complete, or that an answer, a probe of the present guard
  or a close of the user is ahead, or that the tab has all lines; hearing that the
  index is complete without a tab to tell it of is harmless only by `TabPlace`.
* **`Analyzers_proofs`**: `AnzTypeCorrect`, `AnzWindowAgrees`.  That the chains are equal when
  nothing is on its way says nothing of a state with messages.  `AnzChainsOk` is about
  the chain the agents told of last, which is not the stored one while a call has yet to tell: while no
  change of an agent met a push of the window, the last change on its way is the
  chain of the side that made it and without one the window has the chain told last
  (`AnzLinked`), and the last untold change is the stored chain (`AnzTells`).
  `AnzNowhere`: what the window has heard to be uninstalled is not on the template,
  and on its chain only if it was brought back; of what an agent's chain on its way
  names and is not installed, news is behind that chain (`AnzLive`).  For the runs, while own runs do not overlap:
  the own run under way is the one the window has, and it is over once it is both
  answered and heard of, in either order (`AnzOwnOk`); a row that shows running is an
  own run or will hear of the end of an agent's (`AnzRowOk`); the result shown is the
  one stored, or the news of that one is ahead (`AnzResultOk`).
* **`Services_proofs`**, runs: `RunTypeCorrect`, `RunStopIsHeard`, `RunMapsAgree`.  Stop is
  heard because a token registered before the lock is looked for stays registered
  until the run has ended (`RunStopInv`).  The maps agree because, until a close tears
  it, the lock object in the map is the one every run inside holds (`RunLockInv`), and
  what a run has stored is a prefix of the three writes (`RunMapsInv`).
* **`Agents_proofs`**, the sidecar: `McpTypeCorrect`, `McpSafe`.  `McpOwnInv`: a child is held by one
  supervisor or by the slot; `McpPortInv` and `McpLateInv` carry the two windows that
  the property excepts and show that there is no third.
* **`Library_proofs`**: `LibTypeCorrect`, `LibraryHolds`.  `LibAgree` relates memory and
  disk of each thing to the call that is in the half-way of it; `LibMembersInv` says
  for a pack under installation which members it has put there and who may have
  removed one, and what a file that was cut or left behind takes from whom
  (`LibStrayExcused`); `LibFromRow` ties the row of a pack to the publication it came from.

Model-checked only:

* liveness (`CallsSettle`, `EventuallyClean`, `EveryEventReachesAgents`,
  `DirEditsReachTheFile`, `SesUndisturbedCompletes`, `SesIndexingSettles`): out of the
  prover's reach;
* what a fold, SelectSeq, SortSeq or a recursion computes for every input, which needs
  an induction over data: `SrcSavedInOrder`, `CoreSound`, `LineIndexSound`, `FiltersSound`,
  the pages of `ScnReadingSound` and the cache of `ViewerSound`, whose lines are selected
  and sorted sequences, and of `RedactionSound` what the fold over the matches of a
  text makes of it;
* the type invariants of the sums, which follow from those of the components.

## 6. Disagreements between code and documentation

* **A late batch can undo a stop** (`stream_resurrect`).  The dropped epoch restarts
  at 1: a batch captures epoch 1 after an update, the stream is stopped, another
  update makes the epoch 1 again, the batch passes the guard and re-inserts the
  state of before the stop.  The field doc of `stream_epochs` rules this out.
* **A read corrupts the spill file** (`source_read`).  After a read the next eviction
  writes at the read's position; the doc of `evict` promises that evicted lines
  remain accessible.
* **A pending artifact is lost by a switch** (`switch_pending`).  The front end saves
  only when its own flag is dirty, the window suppresses the flush, and the next
  flush snapshots the incoming workspace; the comment in `flush` says that the
  pending state is persisted by it.
* **Two runs mix their results** (`runs_mix`).  A close drops the run lock while a run
  holds it, and the run of the session opened again does not wait; the comment at
  the lock says that the writes of two runs must not interleave.
* **A session stays indexing for ever** (`index_settles`).  An indexer that ends
  removes whatever sender is registered under its session id, that of its
  successor included, which takes the dropped channel for a cancel.
* **The prefilter drops lines that match** (`prefilter_drops`).  It tests the literal
  prefix of a tag pattern against the start of the tag, while the pattern is
  matched anywhere in it.
* **The criteria of a query lose lines** (`filter_superset`).  For `crash | timeout` the
  query bar asks the back end for the longer word alone, and shows no line that
  has only the other; its doc promises a superset of the expression.

What the models show beside these, with no run of its own, is named in 3.1, 3.4,
3.12, 3.14, 3.15 and 3.18.

## 7. Not modelled

* Formats and versions of `.ltw` and `.lts` (`workspace/ltw_v4.rs`, `workspace/lts.rs`,
  `services/export.rs`): a file is a set of artifacts and sessions.
* Sections, timeline, insights, charts: reads of one session under its lock.
* Activity journal, focus, navigation: single values and a bounded list, each
  under one lock.
* Themes, application update, the HTTP transport of the marketplace, device
  discovery: file, network and process I/O.
* Layout, selection, split panes, rendering, the wording of events and pages.
* Regular expressions, user scripts, what a detector recognises: a pattern is the
  set of words it hits, a script returns or fails.
* Poisoned mutexes (the code skips the step and logs), the eviction of old
  auto-save files, two transitions at a time in one window, which the store does
  not prevent.
* Progress and liveness of the window's stores: their properties speak of the
  states in which everything was heard.
