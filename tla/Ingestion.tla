----------------------------- MODULE Ingestion -----------------------------
(***************************************************************************)
(* One pipeline source ingested again and again: Pipeline._run_step        *)
(* (orchestration/pipeline.py) against an incremental strategy, a Bronze   *)
(* destination that replaces one ingestion key atomically, and a           *)
(* StateStore whose compare-and-set is atomic.  Runs may fail or crash     *)
(* between any two steps, time passes, and the source keeps publishing.    *)
(*                                                                         *)
(* The page loop, the session protocol and the physical destinations and   *)
(* state stores have modules of their own; here extraction is one read of  *)
(* the source and a destination commit or a compare-and-set is one step.   *)
(***************************************************************************)
EXTENDS Integers

CONSTANTS
    Runs,          \* attempts: each is one call of Pipeline.run for the source
    Records,       \* records the source may come to publish
    LastDay,       \* bound: the calendar has the days 0 .. LastDay
    InitialStart,  \* initial_start of the incremental configuration
    Scenarios,     \* the configurations and environments to consider
    None           \* no checkpoint, no window, not published

(* A scenario fixes what does not change while the pipeline lives:         *)
(*   mode     IncrementalMode                                              *)
(*   filter   RestConnector._incremental_filter_mode: who drops records    *)
(*            outside the window, the client or the source ("source-param" *)
(*            with a start parameter only), or nobody                      *)
(*   overlap  whether two runs of the pipeline may be active at once       *)
(*   midnight whether a run may be active when the day changes             *)
(*   utcAhead how many days the UTC date may be ahead of the local date    *)
Scenario == [mode : {"data_date", "ingestion_date"},
             filter : {"client-side", "source-param", "checkpoint-only"},
             overlap : BOOLEAN, midnight : BOOLEAN, utcAhead : {0, 1}]

ASSUME BoundsAssumption == LastDay \in Nat /\ InitialStart \in 0 .. LastDay
ASSUME ScenarioAssumption == Scenarios \subseteq Scenario

Days == 0 .. LastDay
DateRange == 0 .. LastDay + 1

(* Watermark: last_run_at is unique to the run that wrote it, so the run   *)
(* and its UTC date stand for it; last_data_date is kept as it is.         *)
Watermarks == [by : Runs, runDate : DateRange, dataDate : Days]
Windows == [start : DateRange, end : Days, before : Watermarks \union {None}]

ASSUME NoneAssumption == None \notin Watermarks \union Days \union Windows

Statuses == {"idle", "started", "extracted", "loaded",
             "success", "error", "checkpoint_error", "crashed"}

VARIABLES
    scenario,   \* the scenario of this behaviour, fixed at the start
    today,      \* date.today()
    dated,      \* record -> its date once the source has published it
    watermark,  \* what the StateStore holds for the state key
    bronze,     \* rows of the endpoint: a record under an ingestion key
    status,     \* run -> where _run_step stands, or the status it returned
    window,     \* run -> the IncrementalWindow it resolved
    extracted,  \* run -> the records its session yielded
    committed   \* history: the runs whose watermark the StateStore took

vars == <<scenario, today, dated, watermark, bronze,
          status, window, extracted, committed>>

Active(r) == status[r] \in {"started", "extracted", "loaded"}
Published(rec) == dated[rec] # None
-----------------------------------------------------------------------------
(* Where the next window starts: the checkpoint boundary, inclusive.       *)
StartPastBoundary(wm) ==
    IF wm = None THEN InitialStart
    ELSE IF scenario.mode = "data_date" THEN wm.dataDate + 1 ELSE wm.runDate
StartWithoutInitial(wm) ==
    IF wm = None THEN None
    ELSE IF scenario.mode = "data_date" THEN wm.dataDate ELSE wm.runDate

StartOf(wm) ==
    IF wm = None THEN InitialStart
    ELSE IF scenario.mode = "data_date" THEN wm.dataDate ELSE wm.runDate

(* The records of window w that reach the session, given who filters.      *)
InWindow(rec, w) ==
    CASE scenario.filter = "client-side" ->
            w.start <= dated[rec] /\ dated[rec] <= w.end
      [] scenario.filter = "source-param" -> w.start <= dated[rec]
      [] scenario.filter = "checkpoint-only" -> TRUE

(* LoadContext.for_window hashes the source, the window and the checkpoint *)
(* the window was resolved from: the window itself stands for the hash.    *)
KeyWithoutCheckpoint(r) == [window[r] EXCEPT !.before = None]
IngestionKey(r) == window[r]

(* build_bronze_rows stamps _ingestion_key and _run_id on every row.       *)
RowsOf(r) == [key : {IngestionKey(r)}, rec : extracted[r], run : {r}]

(* load_with_context in APPEND mode: the rows of the key are replaced.     *)
PromoteWithoutDelete(b, r) == b \union RowsOf(r)
Promote(b, r) == {row \in b : row.key # IngestionKey(r)} \union RowsOf(r)
-----------------------------------------------------------------------------
Init ==
    /\ scenario \in Scenarios
    /\ today = 0
    /\ dated = [rec \in Records |-> None]
    /\ watermark = None
    /\ bronze = {}
    /\ status = [r \in Runs |-> "idle"]
    /\ window = [r \in Runs |-> None]
    /\ extracted = [r \in Runs |-> {}]
    /\ committed = {}

(* The source publishes a record that carries the day it appears: older    *)
(* dates are the late arrivals the documentation leaves to the user.       *)
Publish(rec) ==
    /\ ~Published(rec)
    /\ dated' = [dated EXCEPT ![rec] = today]
    /\ UNCHANGED <<scenario, today, watermark, bronze,
                   status, window, extracted, committed>>

NextDay ==
    /\ today < LastDay
    /\ scenario.midnight \/ \A r \in Runs : ~Active(r)
    /\ today' = today + 1
    /\ UNCHANGED <<scenario, dated, watermark, bronze,
                   status, window, extracted, committed>>

(* extract_incremental: the window is resolved against the StateStore and  *)
(* the LoadContext gets its key; nothing has been requested yet.           *)
Start(r) ==
    /\ status[r] = "idle"
    /\ scenario.overlap \/ \A q \in Runs : ~Active(q)
    /\ window' = [window EXCEPT ![r] = [start |-> StartOf(watermark),
                                        end |-> today,
                                        before |-> watermark]]
    /\ status' = [status EXCEPT ![r] = "started"]
    /\ UNCHANGED <<scenario, today, dated, watermark, bronze, extracted, committed>>

(* The destination drains the session's stream to its end.                 *)
Extract(r) ==
    /\ status[r] = "started"
    /\ extracted' = [extracted EXCEPT
           ![r] = {rec \in Records : Published(rec) /\ InWindow(rec, window[r])}]
    /\ status' = [status EXCEPT ![r] = "extracted"]
    /\ UNCHANGED <<scenario, today, dated, watermark, bronze, window, committed>>

Load(r) ==
    /\ status[r] = "extracted"
    /\ bronze' = Promote(bronze, r)
    /\ status' = [status EXCEPT ![r] = "loaded"]
    /\ UNCHANGED <<scenario, today, dated, watermark, window, extracted, committed>>

(* Extraction or load raises: the session is aborted and the step ends     *)
(* with "error".  A remote destination may have committed before the       *)
(* exception reached the caller.                                           *)
LoadFails(r) ==
    /\ status[r] \in {"started", "extracted"}
    /\ \/ UNCHANGED bronze
       \/ status[r] = "extracted" /\ bronze' = Promote(bronze, r)
    /\ status' = [status EXCEPT ![r] = "error"]
    /\ UNCHANGED <<scenario, today, dated, watermark, window, extracted, committed>>

(* last_data_date of the new checkpoint: max_data_date or window.end.      *)
EffectiveDate(r, d) ==
    IF scenario.mode = "data_date" /\ extracted[r] # {}
    THEN /\ \E rec \in extracted[r] : dated[rec] = d
         /\ \A rec \in extracted[r] : dated[rec] <= d
    ELSE d = window[r].end

(* compare_and_set_watermark against the checkpoint the window started at. *)
Unconditional(r) == TRUE
StillCurrent(r) == watermark = window[r].before

StoreWatermark(r) ==
    /\ StillCurrent(r)
    /\ \E d \in Days, ahead \in 0 .. scenario.utcAhead :
         /\ EffectiveDate(r, d)
         /\ watermark' = [by |-> r, runDate |-> today + ahead, dataDate |-> d]
    /\ committed' = committed \union {r}

Commit(r) ==
    /\ status[r] = "loaded"
    /\ \/ /\ StoreWatermark(r)
          /\ status' = [status EXCEPT ![r] = "success"]
       \/ /\ ~StillCurrent(r)
          /\ status' = [status EXCEPT ![r] = "checkpoint_error"]
          /\ UNCHANGED <<watermark, committed>>
    /\ UNCHANGED <<scenario, today, dated, bronze, window, extracted>>

(* The commit is refused (invalid dates) or the StateStore raises, before  *)
(* or after the write took effect.                                         *)
CommitFails(r) ==
    /\ status[r] = "loaded"
    /\ \/ StoreWatermark(r)
       \/ UNCHANGED <<watermark, committed>>
    /\ status' = [status EXCEPT ![r] = "checkpoint_error"]
    /\ UNCHANGED <<scenario, today, dated, bronze, window, extracted>>

(* The process dies; a later run starts from what was made durable.        *)
Crash(r) ==
    /\ Active(r)
    /\ status' = [status EXCEPT ![r] = "crashed"]
    /\ UNCHANGED <<scenario, today, dated, watermark, bronze,
                   window, extracted, committed>>

Next ==
    \/ \E rec \in Records : Publish(rec)
    \/ NextDay
    \/ \E r \in Runs : \/ Start(r) \/ Extract(r) \/ Load(r) \/ LoadFails(r)
                       \/ Commit(r) \/ CommitFails(r) \/ Crash(r)

Spec == Init /\ [][Next]_vars
-----------------------------------------------------------------------------
TypeOK ==
    /\ scenario \in Scenarios
    /\ today \in Days
    /\ dated \in [Records -> Days \union {None}]
    /\ watermark \in Watermarks \union {None}
    /\ bronze \subseteq [key : Windows, rec : Records, run : Runs]
    /\ status \in [Runs -> Statuses]
    /\ window \in [Runs -> Windows \union {None}]
    /\ extracted \in [Runs -> SUBSET Records]
    /\ committed \subseteq Runs

(* docs/architecture.md:150-167: once the StateStore took a run's          *)
(* checkpoint, Bronze holds under its key exactly the rows of that run.    *)
(* Neither a retry, a later run of the same day, nor a crash may disturb   *)
(* them, as long as runs of the pipeline do not overlap.                   *)
WindowIntact(r) == {row \in bronze : row.key = IngestionKey(r)} = RowsOf(r)
CommittedWindowIntact ==
    ~scenario.overlap => \A r \in committed : WindowIntact(r)

(* Each checkpoint is left by at most one run: of the runs that resolved   *)
(* their windows from one watermark, the StateStore takes one.             *)
OneSuccessorPerCheckpoint ==
    \A q, r \in committed : window[q].before = window[r].before => q = r

(* connectors/incremental.py:22-27: no record is left behind the boundary  *)
(* of the next window without being in Bronze.  (A source that ignores the *)
(* window returns everything again, and nothing is behind.)                *)
LeftBehind(rec) ==
    /\ Published(rec)
    /\ scenario.filter # "checkpoint-only"
    /\ InitialStart <= dated[rec]
    /\ dated[rec] < StartOf(watermark)
NoGap ==
    \A rec \in Records : LeftBehind(rec) => \E row \in bronze : row.rec = rec

(* docs/architecture.md:162-166: a failed attempt leaves rows only under   *)
(* the transition that is still open, where the next attempt replaces      *)
(* them; a transition that was committed has the rows of the run that      *)
(* committed it and no others.                                             *)
OpenOrCommitted(row) ==
    \/ row.key.before = watermark
    \/ \E r \in committed : row \in RowsOf(r)
RetryReplacesWindow == \A row \in bronze : OpenOrCommitted(row)

(* The part of RetryReplacesWindow that holds: a retry on the calendar day *)
(* of the attempt it repeats resolves the same window and replaces it.     *)
SameDayRetryReplaces ==
    ~scenario.overlap =>
        \A row \in bronze : row.key.end = today => OpenOrCommitted(row)
=============================================================================
