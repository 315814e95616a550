# engineer_kit in TLA+

engineer_kit is a Python library that ingests REST APIs into a Bronze layer
(DuckDB, Parquet or Delta Lake), incrementally, with a watermark per pipeline
in a state store, and a small web UI (the Local Lab) that runs pipelines in
threads. This directory models the parts in which steps of several actors,
failures and restarts meet; TLC checks the models on small instances and TLAPS
proves the core for every instance. Paths below are relative to
`src/src/engineer_kit/` unless they begin with `docs/`.

## The system

| Component | State it keeps | Operations | Talks to |
|---|---|---|---|
| Pipeline (`orchestration/pipeline.py`) | none between runs | `run`, `_run_step`: extract, load, commit, record | connector, destination, run log |
| Incremental strategy (`connectors/incremental.py`) | none | `resolve_window`, `commit` (compare-and-set) | state store |
| Extraction session (`connectors/extraction.py`) | started, exhausted, aborted, committed, highest date, invalid dates | `iter_records`, `commit`, `abort` | page loop, incremental strategy |
| Page loop and pagination (`connectors/api_connector.py`, `pagination.py`, `rest.py`) | per loop: requests seen, pages requested; per connector: the detected strategy of `AutoPagination` | `_iter_pages`, `profile`, `probe` | HTTP client |
| State stores (`storage/state_store.py`, `adapters/*/state_store.py`) | state key -> watermark, durable | `get_watermark`, `set_watermark`, `compare_and_set_watermark` | file, DuckDB, Delta |
| Destinations (`storage/duckdb_loader.py`, `adapters/parquet`, `adapters/delta`) | Bronze rows, durable | `load_with_context` | file system, DuckDB, Delta |
| Run manager (`ui/run_manager.py`, `ui/app.py`) | runs in memory, semaphore, ring buffers of log lines | `start_run`, `_execute`, `stream_log` | Pipeline, dbt, browsers |
| HTTP client (`http/`, `security/secrets.py`) | per call: target, retries, redirects, the signed request, the body so far | `request`, `AuthStrategy.apply` | APIs, secret file |
| Deduplicator (`connectors/dedup.py`) | a temporary SQLite file per stream, counts | `add`, `close` | file system |
| Profiler (`profiling/engine.py`) | per field: counts, types, exact digests or sketch registers | `profile_records` | page loop, deduplicator |
| Pipeline files (`config/pipeline_config.py`) | one YAML document per pipeline | `load_pipeline_config`, `save_pipeline_config`, `build_pipeline` | editor, pages, runs, CLI |
| Local Lab pages and editor (`ui/app.py`) | none; a warehouse connection per request | pages, `save_pipeline`, `trigger_run`, `profile_run` | pipeline files, warehouse, run manager |
| Managed flow, dbt (`orchestration/flow.py`, `transform/`) | the connection the flow owns; a process | `run` | Pipeline, warehouse, dbt |
| Audit file (`adapters/files/run_log.py`) | lines, a lock file | `record` | Pipeline |
| CLI (`cli.py`) | a warehouse connection | `run-config` | pipeline files, Pipeline |
| Scheduler, triggers, redaction, rendering, scaffolds | none of their own | | |

How they interact: a Pipeline step asks the connector for a session, whose
window is resolved from the watermark at once. The destination pulls records
through the session's generators, so the API is called while the load is in
progress. When the load has committed, the session commits: the strategy stores
a new watermark if the store still holds the one the window came from. Nothing
joins the two commits in one transaction; the *ingestion key*, a hash of source,
window and previous checkpoint, lets a retry replace what a failed attempt left.

What is hard: a failure or crash between the two commits; runs that overlap;
day changes (windows end today, in local time; commit instants are UTC); stores
whose answers are lost; directories swapped in two renames; generators of one
connector that interleave; run threads, log sinks and streams that race; retries
and redirects of requests that must not be repeated or sent elsewhere; files
rewritten under their readers; one warehouse file wanted by pages, runs, other
processes and dbt.

What makes each part correct:
- ingestion: no published record is skipped, a committed window keeps exactly
  its rows, a retry replaces the attempt it repeats, one checkpoint has one
  successor;
- state stores: each behaves as one atomic register per key, and calls return;
- destinations: each load applies as a whole or not at all; nothing is lost
  between two renames;
- extraction: a session that commits has delivered its whole window, whatever
  the API links to, within a bounded number of requests;
- a stream of records: the first record of each key is delivered and no other,
  what a profile says of a key agrees with it, credentials stay with their origin, a
  POST acts once, temporary files are removed, every draw comes back;
- the workspace: a task never works with two configurations mixed, the editor
  shows what it saved, dbt starts on confirmed ingestions only, nobody is refused
  the warehouse by a task that is over, audit lines stay whole, all tasks end;
- run manager: a pipeline is never at work twice, history and semaphore are
  bounded and exact, queued runs finish, streams end and miss nothing they
  could still have shown.

## Modules

`Ingestion.tla` is the core: Runs (calls of `Pipeline.run` for one source)
against one watermark and one Bronze table.

| In the module | In the code |
|---|---|
| `today`, `dated`, `Publish`, `NextDay` | the calendar and the API |
| `watermark`, `StoreWatermark` | the StateStore and `IncrementalStrategy.commit`; `by` stands for `last_run_at`, which is unique to a commit |
| `bronze`, `Promote` | rows with `_ingestion_key` and `_run_id`, replaced per key |
| `Start`, `Extract`, `Load`, `Commit` | `_run_step`: session and context, stream, destination, checkpoint |
| `LoadFails`, `CommitFails` | its two `except` branches; a load or a commit may have taken effect before the exception |
| `Crash` | the process dies; nothing in memory survives |
| `scenario` | incremental mode, who filters the window (`_incremental_filter_mode`), whether runs overlap, whether a run may be active at midnight, how far the UTC date is ahead |

Extraction is one read of the source, a destination commit and a compare-and-set
one step each; the following modules justify that.

- `Checkpoint.tla` states what a StateStore promises: one register per key, a
  call takes effect once between its start and its answer, a compare-and-set
  only on the watermark it saw. `StateStores.tla` models `JsonFileStateStore`
  (RLock per process, `flock` between processes, whole-document replace),
  `DuckDBStateStore` (snapshot, compare, delete and insert, commit) and
  `DeltaStateStore` (creation or MERGE, lost answers, the diagnosis in the
  exception handlers, the retry in `set_watermark`), and implements `Checkpoint`
  by a refinement mapping. DuckDB's and Delta's optimistic concurrency control
  are external: `NotWrittenSince` and `MayCommit` say what the adapters rely on.
- `Bronze.tla` states what a Destination promises: a load replaces its key (or
  the whole table) at one instant, or has no effect. `Destinations.tla` models
  the DuckDB transaction, the Parquet file and directory promotion with its
  backup, and the Delta commit, and implements `Bronze`. Each rename of the
  promotion may fail: `InstallFails` is the second one, and `PutBackFails` the
  third, in the handler of that failure, where nothing catches what it raises.
- `Extraction.tla` models sessions of one connector page by page: the reset of
  the shared pagination, `next_params`, the checks before each request
  (`max_pages`, repeated request, other origin), failures, `commit`, `abort` and
  `probe`. One record stands for the records of a page.
- `RunManager.tla` models `start_run`, the run thread from `thread.start` to the
  end of `with self._slots`, pruning, the log ring buffer, and a browser stream
  from `run_stream` to its `done` event. Ingestion and dbt are work that
  succeeds or fails.

- `HttpClient.tla` models one call of `HttpClient.request` after the other: the
  URL check (`CheckUrl`), the secret read once per call (`ApplyAuth`), the
  transport's retries (`ConnectFails` for a connection that was never made,
  `AnswerFails` for an answer that is lost or worth a retry), redirects (`Redirect`:
  limit, URL check, origin, method), and the bounded body (`ReadChunk`). The API
  answers as it likes; `Rotate` and `RemoveSecret` replace the secret meanwhile.
  `acted` counts the POSTs of a call that took effect at the API.
- `Dedup.tla` models the fingerprint store and its two limits: the number of keys,
  looked at for every new one, and the size of the file, looked at when an
  interval of insertions is committed. `Profile.tla` models `profile_records` for one
  field: exact digests up to the threshold, then HyperLogLog registers.
- `RestStream.tla` composes the three (INSTANCE, shared variables) with the
  generator that drives them: an `ExtractionSession` with deduplication, or
  `APIConnector.profile`. `Works` is what a `next()` goes through; `CloseGenerator`,
  `Abort` and `Crash` are what may happen to a suspended one.
- `PipelineConfig.tla` has no state: `Loads` says which documents
  `pipeline_config_from_dict` accepts, `ConfigOf` as what, `DocumentOf` what is written,
  `FormOf` and `ConfigFromForm` what the edit page shows and sends, and `Builds` and
  `ConnectorBuilds` what `build_pipeline` and `connector_from_config` accept.
  `LoadsFile` adds the limit of `load_pipeline_config` on the size of the file, and
  `HeadsIn` are the heads of a document, cut in one of its sections, that load.
- `LocalLab.tla` composes what shares a workspace. A task is one page request,
  run, `run-config` or `ManagedFlow.run`; `stage` is where it stands.

| In `LocalLab` | In the code |
|---|---|
| `BeginSave`, `WriteHead`, `EndSave`, `SaveFails` | `write_text` truncates, writes the document up to any byte, then the rest, or fails (`pipeline_config.py:820`) |
| `LoadConfig`, `StartRun`, `Profile` | `_load_or_404`, `RunManager.start_run`, `profile_run` |
| `Connect`, `ConnectFails`, `Blockers` | `duckdb.connect`; DuckDB's rules for one file are external |
| `Build`, `DropException` | `build_pipeline`, `ManagedFlow._resolve` and the connection it leaves in the traceback |
| `Ingest`, `LockJournal` to `AppendFails` | `Pipeline.run` and its entry in the audit file |
| `Close`, `DbtOpens`, `DbtEnds`, `EndTransform` | closing the connection, then dbt |
| `Crash` | the process of the Local Lab dies; dbt and other processes go on |

`MC*.tla` give TLC the instances. A component's theorems and proofs are in a
module of its name: `IngestionProofs`, `CheckpointProofs`, `StateStoresProofs`,
`DestinationsProofs`, `ExtractionProofs`, `RunManagerProofs`, `RestStreamProofs`
(which covers `HttpClient`, `Dedup` and `Profile` as the stream uses them) and
`LocalLabProofs` (with `PipelineConfig`).

## Runs

| Run | Shows | Bounds |
|---|---|---|
| `ingestion_core` | `CommittedWindowIntact`, `OneSuccessorPerCheckpoint`, `NoGap`, `SameDayRetryReplaces` | 3 runs, 3 records, 3 days, 5 scenarios |
| `retry_next_day` (violation) | `RetryReplacesWindow` fails | one scenario |
| `overlap_gap` (violation) | `NoGap` fails when runs overlap | one scenario |
| `ingestion_date_gap` (violation) | `NoGap` fails over midnight in INGESTION_DATE mode | one scenario |
| `state_stores` | `ImplementsRegister`, `OneSuccessor`, `CallsReturn` | 3 writers, 2 processes, 2 keys |
| `destinations` | `ImplementsBronze`, `BackupOutlivesGap` | 3 loads, 2 keys, every destination, mode and overlap |
| `extraction` | `CommitCoversWindow`, `RequestsAreBounded` | 2 sessions, 3 pages, `max_pages` 4 |
| `interleaved_auto` (violation) | `CommitCoversWindow` fails for interleaved automatic pagination | same |
| `run_manager` | `OneRunPerPipeline`, `HistoryIsSafe`, `SlotsAreAccountedFor` | 3 runs, 2 pipelines, history 2, 2 slots, 1 line |
| `run_manager_live` | `CompleteStreamMissesNothing`, `QueuedRunsFinish`, `StreamsEnd` | 2 runs, 1 slot, 2 lines, buffer of 1 |
| `rest_stream` | `FirstOccurrenceWins`, `ProfileForetellsDedup`, `CardinalityCoversAll`, `SpillIsBounded`, `NoFileLeftBehind`, `CredentialsStayHome`, `PostActsOnce`, `SendsAreBounded`, `RotationTakesEffect`, `DrawsEnd` | 8 families of streams of up to 6 records and 2 pages, 2 redirects, 1 retry, 2 chunks, 2 rotations, 3 keys, commits every 3 |
| `local_lab` | `SavedFormsComeBack`, `ConfigsAreNeverMixed`, `TransformsFollowCheckpoints`, `LinesAreWhole`, `RefusedByTheLiving`, `TasksEnd` | 3 tasks, 3 pipelines, 3 forms, 8 scenarios with at most 2 saves and 1 crash, stops in any of the 7 sections, and 143 documents each run, profiled and run by the CLI |

Why the bounds are enough. A gap or a duplicate needs an attempt that fails, one
that succeeds and one that overlaps or follows: three runs; the record in the
gap, one before it and one after it; the day of the attempt, of the retry and
one more. A lost update in a store needs two writers of different keys, a wrong
successor two of the same key, and a third one distinguishes threads from
processes. Three loads are one that is replaced, one that replaces it and one
that comes between. Three pages are a first, a middle and a last one, and
`max_pages` is one more so that both the limit and the loop check are met. Three
runs in a history of two make pruning choose; a buffer of one line makes the
ring overflow with the second.

In `rest_stream` the families have repetitions within a page and over pages, keys
that are equal only as strings, unusable keys, one key more than allowed, an
empty page, a link to another origin, an unsafe first URL and a sample that ends
within a page; the ranks and registers of their values collide. Two redirects with one retry each
let a call exhaust both. In `local_lab` the scenarios are: two runs and a page of
one pipeline while it is saved; a run on the warehouse, and a run and a
command-line run of one Parquet pipeline with one audit file; a run, a flow and a
page; a page, a flow and a run without a dbt project; a command-line run and two
pages; all but the first with a crash. Three tasks are one that holds the
warehouse, one that is refused, and one that comes in another mode or another
process. The 143 documents, with those the editor writes, meet the kinds of
values that keys may have and the main reasons not to load or not to build. In
three more scenarios the editor is at work: one save that may stop in any of the
seven sections (`Sections`), within a value or between two; one with a crash;
and two, of which the second may follow one that failed. Pages, profiles and a run
load the file before, in and after them. The forms are one with columns, one
without, and one whose document exceeds 1 MiB.

No run checks for deadlock: sessions, runs and calls are finite in number and
the systems really stop when all have ended.

Symmetry is declared on sets whose members no action tells apart, and never in
a run with a liveness property. `MCStateStores!MCInit` takes one of the scenarios
that differ by the names of keys or of two threads, and for Delta, whose calls
take most steps, those with two writers on one key and a third that compares.

Fairness. `StateStores!FairSpec`: a thread inside a call is scheduled, nobody
has to start a call, no call fails that could proceed, and a commit the database
rejects raises. Each writer makes one call, so weak fairness is enough for the
locks: a waiting thread cannot be overtaken for ever. `RunManager!FairSpec`:
threads are scheduled, a pipeline and dbt end (requests have timeouts and dbt
runs under `subprocess` with one), and a waiting stream wakes up by its timeout.
Weak fairness is enough for the semaphore in the run checked (two runs, one
slot): a run that holds the slot gives it back and the other one is then
continuously admitted. With more runs that are started again and again, an
unlucky run could wait for ever; `threading.Semaphore` promises no order.
`RestStream!FairSpec`: a thread that was called runs on, and every connection
and socket read has a timeout (`HttpClient._timeout`); a consumer need not come
back to a suspended generator, and a connection that trickles for ever ends at
`max_response_bytes`. `LocalLab!FairSpec`: request threads, run threads and
processes are scheduled, saves, pipelines and dbt end, and the caller of a flow
drops its exception; nobody has to send a request, save or crash.

## What the violations say

- `retry_next_day`: the key hashes `window_end`, which is the day of the
  attempt. `docs/architecture.md:166` promises that a retry gets the same key. A
  retry on a later day gets another one and Bronze keeps both copies.
  `SameDayRetryReplaces` is the part that holds.
- `overlap_gap`: the destination commits before the checkpoint is compared, and
  overlapping runs share a key; the loser of the compare-and-set may be the last
  to load and put back an older result. `docs/architecture.md:162` says the order
  prevents silent loss. It does while runs of a pipeline do not overlap; the
  Local Lab enforces that for its own runs, a scheduler and a second process do not.
- `ingestion_date_gap`: in INGESTION_DATE mode the next window starts on the
  (UTC) day of the commit, not of the extraction.
- `interleaved_auto`: `AutoPagination._resolved` belongs to the connector,
  while sessions, profiles and probes of it may interleave.

The other duplicates we know of and that no document denies: every run re-reads
the boundary day under a new key (by design, `incremental.py:22-27`); two
overlapping DuckDB loads of one key, and two overlapping first loads of one key
into Delta, both stay (`Serves` in `Destinations` names the overlaps for which
`Bronze` is promised). A
record dated in the future moves the watermark past today when the source gets
no end parameter. A run whose thread or log sink cannot be started stays
`running` (`thread[r] = "lost"`) and blocks its pipeline in the Local Lab; it is the
exception that `QueuedRunsFinish` names, so no property would catch it.

Behaviour that the models have because the code does, and that no document
denies, so that no property forbids it:
- overlapping loads of Parquet in OVERWRITE mode may lose the newest one: a
  load that moved the directory away and then fails puts it back if the place is
  free (`parquet/destination.py:182`), although a second load may have installed a
  newer directory there, and answered, before a third moved it away. It takes
  four loads, so no run with three shows it: the attempt to prove
  `ImplementsBronze` for every overlap failed at `InstallFails`, and TLC with four
  loads confirmed why. `Serves` therefore excludes these overlaps; what is left is
  `BackupOutlivesGap`, and that no directory ever mixes two loads;
- putting the old directory back is itself a rename in the handler
  (`parquet/destination.py:183`). If it raises too, the load ends in an error and
  the endpoint has no directory: readers find no table, and no later load puts
  the old rows back; they stay in `.<endpoint>.backup-<token>`, where
  `BackupOutlivesGap` finds them (`pc = "error"`), and `Content`, with which
  `Destinations` implements `Bronze`, counts them as the rows of the endpoint. The
  next load that installs a directory leaves that backup behind;
- profiling fingerprints raw values, extraction stringified ones: `1` and `"1"`
  are two keys to a profile and one to deduplication. `ProfileForetellsDedup` holds
  where the key has one type, and the profile's list of types says so;
- an error while the body is read is neither retried nor wrapped in
  `HttpRequestError` (`http/client.py:222`);
- `abort()` closes the page loop, not the generator the consumer holds: the
  temporary file goes when that one ends. A process that dies leaves it;
- the size of the temporary file is looked at every `_DEDUP_COMMIT_INTERVAL`
  insertions, so it may exceed `max_temp_bytes` by one interval (`SpillIsBounded`);
- a save rewrites the file in place. A reader may find it empty, and then refuses
  it, or cut at any byte. Keys are written in a fixed order and most are optional,
  so that many a cut file loads: with the last value cut short (a base URL, a
  date field, a list of columns), and with defaults for what was to follow
  (pagination, columns, destination, state, transform, run log). After a crash, a
  full disk or a `chmod` that raises it stays as it is. `ConfigsAreNeverMixed`
  says that it is nothing worse: a whole document or the head of one form (`WasCut`);
- `load_pipeline_config` refuses a file of more than 1 MiB, `save_pipeline_config`
  writes one. Such a form is answered with a redirect, as saved, and the pipeline
  cannot be loaded any more, by the edit page either. `SavedFormsComeBack` states
  the exception;
- a save from the edit page drops what the form has no input for (select,
  params, records, state key, state, destination path, secrets) and turns
  incremental mode on;
- pages open the warehouse read-only. In one process DuckDB refuses a second
  configuration, so a page fails while a run has it open and a run fails while a page
  does; a page of another process is refused while it is written;
- what `ManagedFlow._resolve` raises keeps the connection it opened until the
  caller drops the exception; and without a dbt project a flow raises
  `FileNotFoundError` after an ingestion that succeeded;
- an audit entry that was cut by a full disk or a crash has no newline: the next
  entry is whole (`LinesAreWhole`) but stands on the same line;
- `run-config` runs no dbt even if the file asks for it.

## Proofs

`IngestionProofs.tla` proves, for every set of runs and records, every calendar
length and every set of scenarios, from the four named assumptions of
`Ingestion` (bounds, scenarios, `None` is no value):

- `TypeCorrect`, `OneSuccessor`, `WindowsStayIntact`, `RetryIsIdempotent`, which
  are the invariants of `ingestion_core`;
- `NothingLeftBehind`: `NoGap` while runs do not overlap and the watermark dates
  what was read (`DatesWhatWasRead`: DATA_DATE mode, or no active run at midnight
  and equal local and UTC dates). The two violation runs show that neither
  condition can be dropped.

None of these is inductive. `IInv` adds: each window was resolved from the
checkpoint it names and that one was written by a committed run
(`WindowsResolved`); the checkpoints form a chain that does not return
(`CheckpointChain`); the one active run works on the current checkpoint and,
once it has loaded, has its rows in place (`OneRunAtATime`); every row's key is a
window that was resolved, and those of the open transition end no later than the
active window (`RowsAccountedFor`); what an extraction did not yield is not older
than what it yielded (`NewerThanExtracted`), which with `ReadToday` gives that
whatever lies behind the boundary was yielded to a committed run
(`BehindWasCommitted`). Each conjunct has its own lemma with one step per
action; `Inductive` combines them.

`CheckpointProofs.tla` proves `OneCallTakes` for the abstract register, for every
set of writers and keys with `None` no writer: of the compare-and-set calls that
saw the same watermark, at most one is taken. Its invariant adds that only
watermarks that were taken are stored or seen, and that a replaced one does not
return (`NeverReturns`).

The other modules prove, each for every value of its constants, the type
invariant and the safety properties of the run of the same name. Hypotheses
beyond the named assumptions of a component are listed here; where none is
named, there is none.

| Module | Theorems, and the properties they state | Hypotheses |
|---|---|---|
| `StateStoresProofs` | `StoresImplementRegister` (`ImplementsRegister`), `OneCallTakes` (`OneSuccessor`) | |
| `DestinationsProofs` | `DestinationsImplementBronze` (`ImplementsBronze`), `NothingIsLostInTheGap` (`BackupOutlivesGap`), `SnapshotsAreNeverMixed` | |
| `ExtractionProofs` | `CommittedWindowsAreComplete` (`CommitCoversWindow`), `PageLoopIsBounded` (`RequestsAreBounded`) | the first: `AutoIsNotShared` |
| `RunManagerProofs` | `NeverTwiceAtWork` (`OneRunPerPipeline`), `HistoryForgetsOnlyTheEnded` (`HistoryIsSafe`), `NoSlotIsLost` (`SlotsAreAccountedFor`), `CompleteStreams` (`CompleteStreamMissesNothing`) | `TypeCorrect`: finitely many runs |
| `RestStreamProofs` | `OnlyFirstsAreEmitted` (`FirstOccurrenceWins`), `CredentialsAreKept` (`CredentialsStayHome`), `PostsActOnce` (`PostActsOnce`), `RetriesAreBounded` (`SendsAreBounded`), `RotationsAreSeen` (`RotationTakesEffect`), `TemporaryFileIsRemoved` (`NoFileLeftBehind`), `TemporaryFileIsBounded` (`SpillIsBounded`), `CardinalitiesCoverAll` (`CardinalityCoversAll`), `ProfilesForetellDedup` (`ProfileForetellsDedup`) | |
| `LocalLabProofs` | `SavedFormsAreShownAgain` (`SavedFormsComeBack`), `NoMixedConfigs` (`ConfigsAreNeverMixed`), `TransformsComeSecond` (`TransformsFollowCheckpoints`), `LinesStayWhole` (`LinesAreWhole`), `RefusalsAreByTheLiving` (`RefusedByTheLiving`, an action property) | |

`AutoIsNotShared` says that sessions of one connector do not interleave if its
pagination is detected; `interleaved_auto` shows that the theorem needs it. The
assumptions on the constants say what a feed, a form or a document at the start
of a behaviour looks like (`FeedAssumption`, `ValuesAssumption`,
`FormsAssumption`, `ScenariosAssumption`: for example, that a checkbox is set or
not, or that a file of the workspace is named as its pipeline) and that `None` is
no value; TLC evaluates them in every run.

In each module `IInv` is the inductive invariant, a conjunction of named parts;
TLC has checked each part on the run of that module before it was proved.

- `StateStoresProofs`: a JSON call that has read the document holds both locks and
  what it read is what is stored (`LocksAreHeld`); a call compared before it takes
  effect (`ComparedBeforeEffect`), takes effect once (`EffectsOnce`), and sees no
  watermark while there is no table (`NoTableNoWatermark`). The refinement maps
  each step to one of `Checkpoint` or to a stutter, and `OneSuccessor` follows from
  `CheckpointProofs` through the mapping.
- `DestinationsProofs`: a load takes effect at one step (`StepsInOrder`), what its
  transaction deletes or finds missing is what it is to replace, as long as
  overlapping loads have other keys (`SnapshotsAreCurrent`,
  `NothingBeforeTheTable`), and alone, between its renames and while it puts the
  directory back, it finds the place as it left it (`AloneInTheGap`).
  `StepRefines` then has one step per action; `OthersKeepContent` is where
  `PutBack` must put back the current backup, and `PutBackFails` must leave it.
- `ExtractionProofs`: a session that draws was delivered the pages up to the one it
  holds, by links (`LinksFollowed`) or as many as its requests (`NumbersFollowed`,
  `RequestsCounted`); `AutoPagination` has not ended the session that uses it
  (`AutoUndeceived`); an exhausted session was handed its window
  (`ExhaustedCovers`).
- `RunManagerProofs`: a run is "running", and retained, from its start to the end of
  its work (`RunsInOrder`); the slots taken are the threads between acquire and
  release, counted through every exit (`Counted`); whatever lies behind a stream's
  cursor was passed on or dropped from the ring buffer (`StreamsInOrder`).
- `RestStreamProofs`: the state of the client within a call (`CallInOrder`), the
  target of each request and the origins that got credentials (`TargetIsHome`),
  the file (`FileInOrder`), the sketch (`FieldInOrder`), the place in the pages
  (`PlaceInOrder`) and the keys seen (`KeysInOrder`, which says that the table of
  fingerprints holds the keys of the records drawn and nothing else). `SketchGrows` is the
  lemma about HyperLogLog: adding a hash to the registers of a set gives those of
  the larger set.
- `LocalLabProofs`: a file that loads was written in whole or is the head of a
  form, and while a save is under way it is empty or a head of that form
  (`FilesInOrder`); the name stands before every section in which a document may
  stop, so that every head bears the name of its file (`NameComesFirst`); who is within a line of the audit file holds its
  lock, and while nobody is, the last line is at its end or torn
  (`JournalInOrder`); a connection is held only at the stages that use it, and dbt
  starts from what was confirmed (`HoldsInStage`). `SavedLoads` and
  `SavedFormIsShown` carry a form through `ConfigFromForm`, `DocumentOf`, `Loads`,
  `ConfigOf` and `FormOf`, for every form the editor may send.

Only model-checked: all liveness (`CallsReturn`, `QueuedRunsFinish`,
`StreamsEnd`, `DrawsEnd`, `TasksEnd`; TLAPS does not reach fairness or ENABLED), and
that the violations occur.

## Not modelled, and why

Row contents, schema evolution, type conversion and projection: data the
properties do not tell apart. `PageNumberPagination(stop_on_short_page=True)`
takes a short page for the last one, as its docstring warns; `Extraction` models
the default that draws until an empty page. The scheduler and triggers: a thin
layer over APScheduler, whose jobs are calls of what is modelled. Audit tables
in DuckDB and Delta: one insertion each, by the library. Construction of the
Delta adapters, of custom destinations and of third-party adapters. TLS
verification, identity headers and proxies of the client: options fixed at its
construction. The number a sketch estimates: `CardinalityCoversAll` is about
what it rests on. Nested fields and patterns of a profile, rendering, redaction,
terminal output, scaffolds: pure functions. Third-party stores that keep the
default compare-and-set, and destinations without `load_with_context`, promise
less by their own documentation. File modes, and deletion of stores, tables or
pipelines by a user, are outside all models. The temporary file of a stream can
always be removed: if `unlink` raised (`connectors/dedup.py:218`) the file would
stay, which `NoFileLeftBehind` does not consider. In `LocalLab` a save is seen
at one head at most between truncation and its end; heads that do not load are
treated as the empty file, since both are refused; and only columns make a
document exceed 1 MiB. `LocalLab` has one warehouse: the Local Lab ignores
`destination.path` of a DuckDB pipeline, `run-config` does not, and the model
assumes that it names the same file.

## Plan

1. Done: the modules above.
2. Done: proofs of every safety property of the runs, the two refinements
   included.
3. Compose: ingestion over the promised register and table, so that the
   one-step store and destination of `Ingestion` follow from the refinements.
