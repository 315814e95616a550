-------------------------- MODULE IngestionProofs --------------------------
(* Ingestion's invariants proved for every set of runs and records, every  *)
(* calendar and every scenario.                                            *)
EXTENDS Ingestion, TLAPS

(* A run that left "idle" has its window, resolved from the checkpoint it  *)
(* names, and that checkpoint was written by a committed run.              *)
WindowsResolved ==
    \A r \in Runs : status[r] # "idle" =>
        /\ window[r] \in Windows
        /\ window[r].end <= today
        /\ window[r].start = StartOf(window[r].before)
        /\ window[r].before # None => window[r].before.by \in committed

(* The watermark is the last link of a chain without repetition.           *)
CheckpointChain ==
    /\ watermark # None => watermark.by \in committed
    /\ \A r \in committed : status[r] \in {"success", "checkpoint_error"}
    /\ \A r \in committed : window[r].before # watermark
    /\ OneSuccessorPerCheckpoint

(* Without overlap the one active run works on the current checkpoint.     *)
OneRunAtATime ==
    ~scenario.overlap =>
        /\ \A q, r \in Runs : Active(q) /\ Active(r) => q = r
        /\ \A r \in Runs : Active(r) => window[r].before = watermark
        /\ \A r \in Runs : status[r] = "loaded" => WindowIntact(r)

(* Where the rows of Bronze come from.                                     *)
RowsAccountedFor ==
    \A row \in bronze :
        /\ row.key.end <= today
        /\ row.key.start = StartOf(row.key.before)
        /\ ~scenario.overlap /\ row.key.before = watermark =>
               \A r \in Runs : Active(r) => row.key.end <= window[r].end

(* Published records are not dated in the future, and a record that an     *)
(* extraction did not yield is not older than what it yielded.             *)
NewerThanExtracted ==
    /\ \A rec \in Records : Published(rec) => dated[rec] <= today
    /\ \A r \in Runs : \A rec \in extracted[r] : Published(rec)
    /\ \A r \in Runs : status[r] \in {"extracted", "loaded"} =>
           \A rec \in Records :
               /\ Published(rec)
               /\ scenario.filter # "checkpoint-only"
               /\ window[r].start <= dated[rec]
               /\ rec \notin extracted[r]
               => /\ window[r].end <= dated[rec]
                  /\ \A e \in extracted[r] : dated[e] <= dated[rec]

(* Scenarios whose watermark dates what was read, not when it was stored.  *)
DatesWhatWasRead ==
    \/ scenario.mode = "data_date"
    \/ ~scenario.midnight /\ scenario.utcAhead = 0

ReadToday ==
    ~scenario.midnight => \A r \in Runs : Active(r) => window[r].end = today

(* The next window does not start in the future, and what lies behind its  *)
(* boundary was yielded to a committed run.                                *)
BehindWasCommitted ==
    DatesWhatWasRead =>
        /\ watermark # None => StartOf(watermark) <= today
        /\ \A rec \in Records : LeftBehind(rec) => \E r \in committed : rec \in extracted[r]

IInv ==
    /\ TypeOK
    /\ WindowsResolved
    /\ CheckpointChain
    /\ OneRunAtATime
    /\ RowsAccountedFor
    /\ NewerThanExtracted
    /\ ReadToday
    /\ BehindWasCommitted
    /\ CommittedWindowIntact
    /\ SameDayRetryReplaces
-----------------------------------------------------------------------------
(* A window starts within the calendar.                                    *)
LEMMA StartOfType ==
    ASSUME NEW wm \in Watermarks \union {None}
    PROVE  StartOf(wm) \in DateRange
  BY BoundsAssumption DEF StartOf, Watermarks, DateRange, Days

(* Promoting a run leaves exactly its own rows under its key.              *)
LEMMA PromoteInstalls ==
    ASSUME NEW r
    PROVE  {row \in Promote(bronze, r) : row.key = IngestionKey(r)} = RowsOf(r)
  BY DEF Promote, RowsOf

(* Promoting a run does not touch the rows under any other key.            *)
LEMMA PromoteKeepsOthers ==
    ASSUME NEW r, NEW key, key # IngestionKey(r)
    PROVE  {row \in Promote(bronze, r) : row.key = key} = {row \in bronze : row.key = key}
  BY DEF Promote, RowsOf

(* The rows of an active run are well typed.                               *)
LEMMA RowsOfType ==
    ASSUME TypeOK, WindowsResolved, NEW r \in Runs, status[r] # "idle"
    PROVE  RowsOf(r) \subseteq [key : Windows, rec : Records, run : Runs]
  BY DEF TypeOK, WindowsResolved, RowsOf, IngestionKey
-----------------------------------------------------------------------------
(* The invariant holds before the first run.                             *)
THEOREM InitEstablishes == Init => IInv
  <1> SUFFICES ASSUME Init PROVE IInv
      OBVIOUS
  <1>1. TypeOK
      BY BoundsAssumption DEF Init, TypeOK, Days, Statuses
  <1>2. WindowsResolved /\ OneRunAtATime /\ RowsAccountedFor /\ ReadToday
      BY DEF Init, WindowsResolved, OneRunAtATime, RowsAccountedFor, ReadToday, Active
  <1>3. CheckpointChain /\ CommittedWindowIntact /\ SameDayRetryReplaces
      BY DEF Init, CheckpointChain, OneSuccessorPerCheckpoint,
             CommittedWindowIntact, SameDayRetryReplaces
  <1>4. NewerThanExtracted /\ BehindWasCommitted
      BY DEF Init, NewerThanExtracted, BehindWasCommitted, LeftBehind, Published
  <1> QED
      BY <1>1, <1>2, <1>3, <1>4 DEF IInv

(* Every step keeps the variables well typed.                              *)
LEMMA TypeOKKept == IInv /\ [Next]_vars => TypeOK'
  <1> SUFFICES ASSUME IInv, [Next]_vars PROVE TypeOK'
      OBVIOUS
  <1> USE DEF IInv, TypeOK, Statuses
  <1>1. ASSUME NEW rec \in Records, Publish(rec) PROVE TypeOK'
      BY <1>1 DEF Publish
  <1>2. CASE NextDay
      BY <1>2, BoundsAssumption DEF NextDay, Days
  <1>3. ASSUME NEW r \in Runs, Start(r) PROVE TypeOK'
    <2>1. [start |-> StartOf(watermark), end |-> today, before |-> watermark] \in Windows
        BY StartOfType DEF Windows
    <2> QED
        BY <1>3, <2>1 DEF Start
  <1>4. ASSUME NEW r \in Runs, Extract(r) PROVE TypeOK'
      BY <1>4 DEF Extract
  <1>5. ASSUME NEW r \in Runs, Load(r) \/ LoadFails(r) PROVE TypeOK'
    <2>1. status[r] # "idle"
        BY <1>5 DEF Load, LoadFails
    <2>2. Promote(bronze, r) \subseteq [key : Windows, rec : Records, run : Runs]
        BY <2>1, RowsOfType DEF Promote
    <2> QED
        BY <1>5, <2>2 DEF Load, LoadFails
  <1>6. ASSUME NEW r \in Runs, Commit(r) \/ CommitFails(r) PROVE TypeOK'
    <2>1. ASSUME StoreWatermark(r)
          PROVE  watermark' \in Watermarks /\ committed' \subseteq Runs
      <3>1. PICK d \in Days, ahead \in 0 .. scenario.utcAhead :
                watermark' = [by |-> r, runDate |-> today + ahead, dataDate |-> d]
          BY <2>1 DEF StoreWatermark
      <3>2. scenario.utcAhead \in {0, 1}
          BY ScenarioAssumption DEF Scenario
      <3>3. today + ahead \in DateRange
          BY <3>2, BoundsAssumption DEF DateRange, Days
      <3> QED
          BY <2>1, <3>1, <3>3 DEF StoreWatermark, Watermarks
    <2> QED
        BY <1>6, <2>1 DEF Commit, CommitFails
  <1>7. ASSUME NEW r \in Runs, Crash(r) PROVE TypeOK'
      BY <1>7 DEF Crash
  <1>8. CASE UNCHANGED vars
      BY <1>8 DEF vars
  <1> QED
      BY <1>1, <1>2, <1>3, <1>4, <1>5, <1>6, <1>7, <1>8 DEF Next
(* No step changes the scenario.                                           *)
LEMMA ScenarioIsFixed == [Next]_vars => scenario' = scenario
  <1> SUFFICES ASSUME [Next]_vars PROVE scenario' = scenario
      OBVIOUS
  <1>1. CASE (\E rec \in Records : Publish(rec)) \/ NextDay \/ UNCHANGED vars
      BY <1>1 DEF Publish, NextDay, vars
  <1>2. ASSUME NEW r \in Runs, Start(r) \/ Extract(r) \/ Load(r) \/ LoadFails(r)
        PROVE  scenario' = scenario
      BY <1>2 DEF Start, Extract, Load, LoadFails
  <1>3. ASSUME NEW r \in Runs, Commit(r) \/ CommitFails(r) \/ Crash(r)
        PROVE  scenario' = scenario
      BY <1>3 DEF Commit, CommitFails, Crash
  <1> QED
      BY <1>1, <1>2, <1>3 DEF Next
-----------------------------------------------------------------------------
(* What the two actions that may move the watermark do: the run worked on  *)
(* the current checkpoint and is recorded as the author of the next one.   *)
LEMMA StoreWatermarkStep ==
    ASSUME TypeOK, NEW r \in Runs, StoreWatermark(r)
    PROVE  /\ watermark = window[r].before
           /\ watermark' # None
           /\ watermark'.by = r
           /\ committed' = committed \union {r}
  <1>1. PICK d \in Days, ahead \in 0 .. scenario.utcAhead :
            watermark' = [by |-> r, runDate |-> today + ahead, dataDate |-> d]
      BY DEF StoreWatermark
  <1>2. today + ahead \in DateRange
      BY ScenarioAssumption, BoundsAssumption DEF Scenario, TypeOK, DateRange, Days
  <1>3. watermark' \in Watermarks
      BY <1>1, <1>2 DEF Watermarks
  <1> QED
      BY <1>1, <1>3, NoneAssumption DEF StoreWatermark, StillCurrent

(* Every step keeps the windows tied to the checkpoints they came from.    *)
LEMMA WindowsResolvedKept == IInv /\ [Next]_vars => WindowsResolved'
  <1> SUFFICES ASSUME IInv, [Next]_vars PROVE WindowsResolved'
      OBVIOUS
  <1> USE DEF IInv, TypeOK, WindowsResolved, StartOf
  <1>1. ASSUME NEW rec \in Records, Publish(rec) PROVE WindowsResolved'
      BY <1>1 DEF Publish
  <1>2. CASE NextDay
    <2>1. \A r \in Runs : window[r] \in Windows => window[r].end \in Int
        BY DEF Windows, Days
    <2> QED
        BY <1>2, <2>1 DEF NextDay, Days
  <1>3. ASSUME NEW r \in Runs, Start(r) PROVE WindowsResolved'
    <2>1. [start |-> StartOf(watermark), end |-> today, before |-> watermark] \in Windows
        BY StartOfType DEF Windows
    <2> QED
        BY <1>3, <2>1 DEF Start, Days, CheckpointChain
  <1>4. ASSUME NEW r \in Runs, Extract(r) \/ Crash(r) PROVE WindowsResolved'
      BY <1>4 DEF Extract, Crash, Active
  <1>5. ASSUME NEW r \in Runs, Load(r) \/ LoadFails(r) PROVE WindowsResolved'
      BY <1>5 DEF Load, LoadFails
  <1>6. ASSUME NEW r \in Runs, Commit(r) \/ CommitFails(r) PROVE WindowsResolved'
    <2>1. committed \subseteq committed'
        BY <1>6 DEF Commit, CommitFails, StoreWatermark
    <2> QED
        BY <1>6, <2>1 DEF Commit, CommitFails
  <1>7. CASE UNCHANGED vars
      BY <1>7 DEF vars
  <1> QED
      BY <1>1, <1>2, <1>3, <1>4, <1>5, <1>6, <1>7 DEF Next

(* Every step keeps the watermarks a chain: the store takes a watermark    *)
(* only from the current one, and no run is taken twice.                   *)
LEMMA CheckpointChainKept == IInv /\ [Next]_vars => CheckpointChain'
  <1> SUFFICES ASSUME IInv, [Next]_vars PROVE CheckpointChain'
      OBVIOUS
  <1> USE DEF IInv, TypeOK, CheckpointChain, OneSuccessorPerCheckpoint
  <1>1. CASE \/ \E rec \in Records : Publish(rec)
             \/ NextDay
             \/ UNCHANGED vars
      BY <1>1 DEF Publish, NextDay, vars
  <1>2. ASSUME NEW r \in Runs, Start(r) PROVE CheckpointChain'
      BY <1>2 DEF Start
  <1>3. ASSUME NEW r \in Runs, Extract(r) \/ Load(r) \/ LoadFails(r) \/ Crash(r)
        PROVE  CheckpointChain'
      BY <1>3 DEF Extract, Load, LoadFails, Crash, Active
  <1>4. ASSUME NEW r \in Runs, Commit(r) \/ CommitFails(r) PROVE CheckpointChain'
    <2>1. /\ r \notin committed
          /\ status[r] = "loaded"
          /\ window' = window
          /\ status' \in {[status EXCEPT ![r] = "success"],
                          [status EXCEPT ![r] = "checkpoint_error"]}
        BY <1>4 DEF Commit, CommitFails
    <2>2. CASE UNCHANGED <<watermark, committed>>
        BY <2>1, <2>2
    <2>3. CASE StoreWatermark(r)
      <3>1. /\ watermark = window[r].before
            /\ watermark' # None
            /\ watermark'.by = r
            /\ committed' = committed \union {r}
          BY <2>3, StoreWatermarkStep
      <3>2. \A q \in committed : window[q].before # watermark'
          BY <2>1, <3>1 DEF WindowsResolved
      <3>3. window[r].before # watermark'
          BY <2>1, <3>1
      <3> QED
          BY <2>1, <3>1, <3>2, <3>3
    <2> QED
        BY <1>4, <2>2, <2>3 DEF Commit, CommitFails
  <1> QED
      BY <1>1, <1>2, <1>3, <1>4 DEF Next

(* The rows under the key of a run whose extraction is over change only    *)
(* when a run with the same key is promoted.                               *)
LEMMA PromoteKeepsWindow ==
    ASSUME NEW r, NEW q, bronze' = Promote(bronze, r), UNCHANGED <<window, extracted>>,
           window[q] # window[r], WindowIntact(q)
    PROVE  WindowIntact(q)'
  BY DEF WindowIntact, Promote, RowsOf, IngestionKey

(* After its promotion a run's window is intact.                           *)
LEMMA PromoteMakesIntact ==
    ASSUME NEW r, bronze' = Promote(bronze, r), UNCHANGED <<window, extracted>>
    PROVE  WindowIntact(r)'
  BY PromoteInstalls DEF WindowIntact, RowsOf, IngestionKey

(* Every step keeps the active run alone, on the current checkpoint, and   *)
(* its rows complete once they are promoted.                               *)
LEMMA OneRunAtATimeKept == IInv /\ [Next]_vars => OneRunAtATime'
  <1> SUFFICES ASSUME IInv, [Next]_vars PROVE OneRunAtATime'
      OBVIOUS
  <1> USE DEF IInv, TypeOK, OneRunAtATime, Active
  <1>1. CASE \/ \E rec \in Records : Publish(rec)
             \/ NextDay
             \/ UNCHANGED vars
      BY <1>1 DEF Publish, NextDay, vars, WindowIntact, RowsOf, IngestionKey
  <1>2. ASSUME NEW r \in Runs, Start(r) PROVE OneRunAtATime'
      BY <1>2 DEF Start
  <1>3. ASSUME NEW r \in Runs, Extract(r) PROVE OneRunAtATime'
      BY <1>3 DEF Extract
  <1>4. ASSUME NEW r \in Runs, Load(r) PROVE OneRunAtATime'
      BY <1>4, PromoteMakesIntact DEF Load
  <1>5. ASSUME NEW r \in Runs, LoadFails(r) \/ Crash(r) PROVE OneRunAtATime'
      BY <1>5 DEF LoadFails, Crash
  <1>6. ASSUME NEW r \in Runs, Commit(r) \/ CommitFails(r) PROVE OneRunAtATime'
      BY <1>6 DEF Commit, CommitFails
  <1> QED
      BY <1>1, <1>2, <1>3, <1>4, <1>5, <1>6 DEF Next
-----------------------------------------------------------------------------
(* Every step keeps account of where the rows of Bronze come from.         *)
LEMMA RowsAccountedForKept == IInv /\ [Next]_vars => RowsAccountedFor'
  <1> SUFFICES ASSUME IInv, [Next]_vars PROVE RowsAccountedFor'
      OBVIOUS
  <1> USE DEF IInv, TypeOK, RowsAccountedFor, StartOf, Active
  <1>1. CASE \/ \E rec \in Records : Publish(rec)
             \/ UNCHANGED vars
      BY <1>1 DEF Publish, vars
  <1>2. CASE NextDay
      BY <1>2 DEF NextDay, Days, Windows
  <1>3. ASSUME NEW r \in Runs, Start(r) PROVE RowsAccountedFor'
      BY <1>3 DEF Start, Windows
  <1>4. ASSUME NEW r \in Runs, Extract(r) \/ Crash(r) PROVE RowsAccountedFor'
      BY <1>4 DEF Extract, Crash
  <1>5. ASSUME NEW r \in Runs, Load(r) \/ LoadFails(r) PROVE RowsAccountedFor'
    <2>1. window[r] \in Windows /\ status[r] \in {"started", "extracted"}
        BY <1>5 DEF Load, LoadFails, WindowsResolved
    <2>2. \A row \in RowsOf(r) : row.key = window[r]
        BY DEF RowsOf, IngestionKey
    <2>3. \A row \in bronze' : row \in bronze \/ row.key = window[r]
        BY <1>5, <2>2 DEF Load, LoadFails, Promote
    <2>4. /\ window[r].end <= today
          /\ window[r].start = StartOf(window[r].before)
        BY <2>1 DEF WindowsResolved
    <2>5. ~scenario.overlap =>
              \A q \in Runs : Active(q) => q = r /\ window[r].end <= window[q].end
        BY <2>1 DEF OneRunAtATime, Windows, Days
    <2>6. /\ UNCHANGED <<scenario, today, watermark, window>>
          /\ \A q \in Runs : Active(q)' => Active(q)
        BY <1>5 DEF Load, LoadFails
    <2> QED
        BY <2>3, <2>4, <2>5, <2>6
  <1>6. ASSUME NEW r \in Runs, Commit(r) \/ CommitFails(r) PROVE RowsAccountedFor'
    <2>1. ~scenario.overlap => \A q \in Runs : ~Active(q)'
        BY <1>6 DEF Commit, CommitFails, OneRunAtATime
    <2> QED
        BY <1>6, <2>1 DEF Commit, CommitFails
  <1> QED
      BY <1>1, <1>2, <1>3, <1>4, <1>5, <1>6 DEF Next

(* Every step keeps the source's dates behind today, and what an           *)
(* extraction missed no older than what it yielded.                        *)
LEMMA NewerThanExtractedKept == IInv /\ [Next]_vars => NewerThanExtracted'
  <1> SUFFICES ASSUME IInv, [Next]_vars PROVE NewerThanExtracted'
      OBVIOUS
  <1> USE DEF IInv, TypeOK, NewerThanExtracted, Published
  <1>1. ASSUME NEW rec \in Records, Publish(rec) PROVE NewerThanExtracted'
    <2>1. today \in Days
        OBVIOUS
    <2>2. \A r \in Runs : status[r] # "idle" =>
              window[r].end <= today /\ window[r] \in Windows
        BY DEF WindowsResolved
    <2> QED
        BY <1>1, <2>1, <2>2, NoneAssumption DEF Publish, Days, Windows, DateRange
  <1>2. CASE NextDay
      BY <1>2, NoneAssumption DEF NextDay, Days
  <1>3. ASSUME NEW r \in Runs, Start(r) PROVE NewerThanExtracted'
      BY <1>3 DEF Start
  <1>4. ASSUME NEW r \in Runs, Extract(r) PROVE NewerThanExtracted'
    <2>1. window[r] \in Windows
        BY <1>4 DEF Extract, WindowsResolved
    <2>2. scenario.filter \in {"client-side", "source-param", "checkpoint-only"}
        BY ScenarioAssumption DEF Scenario
    <2>3. ASSUME NEW rec \in Records, Published(rec), scenario.filter # "checkpoint-only",
                 window[r].start <= dated[rec], rec \notin extracted'[r]
          PROVE  /\ window[r].end <= dated[rec]
                 /\ \A e \in extracted'[r] : dated[e] <= dated[rec]
      <3>1. scenario.filter = "client-side"
          BY <1>4, <2>2, <2>3 DEF Extract, InWindow
      <3>2. ~(dated[rec] <= window[r].end)
          BY <1>4, <2>3, <3>1 DEF Extract, InWindow
      <3>3. \A e \in extracted'[r] : e \in Records /\ Published(e) /\ dated[e] <= window[r].end
          BY <1>4, <3>1 DEF Extract, InWindow
      <3> QED
          BY <2>1, <2>3, <3>2, <3>3 DEF Windows, Days
    <2> QED
        BY <1>4, <2>3 DEF Extract
  <1>5. ASSUME NEW r \in Runs, Load(r) \/ LoadFails(r) PROVE NewerThanExtracted'
      BY <1>5 DEF Load, LoadFails
  <1>6. ASSUME NEW r \in Runs, Commit(r) \/ CommitFails(r) \/ Crash(r)
        PROVE  NewerThanExtracted'
      BY <1>6 DEF Commit, CommitFails, Crash
  <1>7. CASE UNCHANGED vars
      BY <1>7 DEF vars
  <1> QED
      BY <1>1, <1>2, <1>3, <1>4, <1>5, <1>6, <1>7 DEF Next

(* Without a midnight inside a run, the active window ends today.          *)
LEMMA ReadTodayKept == IInv /\ [Next]_vars => ReadToday'
  <1> SUFFICES ASSUME IInv, [Next]_vars PROVE ReadToday'
      OBVIOUS
  <1> USE DEF IInv, TypeOK, ReadToday, Active
  <1>1. CASE (\E rec \in Records : Publish(rec)) \/ NextDay \/ UNCHANGED vars
      BY <1>1 DEF Publish, NextDay, vars
  <1>2. ASSUME NEW r \in Runs, Start(r) PROVE ReadToday'
      BY <1>2 DEF Start
  <1>3. ASSUME NEW r \in Runs, Extract(r) \/ Load(r) \/ LoadFails(r) PROVE ReadToday'
      BY <1>3 DEF Extract, Load, LoadFails
  <1>4. ASSUME NEW r \in Runs, Commit(r) \/ CommitFails(r) \/ Crash(r) PROVE ReadToday'
      BY <1>4 DEF Commit, CommitFails, Crash
  <1> QED
      BY <1>1, <1>2, <1>3, <1>4 DEF Next
-----------------------------------------------------------------------------
(* The date a commit writes is not ahead of today, nor of any record the   *)
(* committed run should have read and did not.                             *)
LEMMA BoundaryOfCommit ==
    ASSUME IInv, DatesWhatWasRead, NEW r \in Runs, status[r] = "loaded",
           StoreWatermark(r), UNCHANGED <<scenario, today, dated>>
    PROVE  /\ StartOf(watermark)' <= today
           /\ \A rec \in Records :
                 /\ Published(rec) /\ scenario.filter # "checkpoint-only"
                 /\ window[r].start <= dated[rec]
                 /\ dated[rec] < StartOf(watermark)'
                 => rec \in extracted[r]
  <1> USE DEF IInv, TypeOK
  <1>1. PICK d \in Days, ahead \in 0 .. scenario.utcAhead :
            /\ EffectiveDate(r, d)
            /\ watermark' = [by |-> r, runDate |-> today + ahead, dataDate |-> d]
      BY DEF StoreWatermark
  <1>2. watermark' # None
      BY StoreWatermarkStep
  <1>3. /\ window[r] \in Windows
        /\ window[r].end <= today
      BY DEF WindowsResolved
  <1>4. CASE scenario.mode = "data_date"
    <2>1. StartOf(watermark)' = d
        BY <1>1, <1>2, <1>4 DEF StartOf
    <2>2. CASE extracted[r] # {}
      <3>1. PICK e \in extracted[r] : dated[e] = d
          BY <1>1, <1>4, <2>2 DEF EffectiveDate
      <3>2. d <= today
          BY <3>1 DEF NewerThanExtracted, Published
      <3>3. ASSUME NEW rec \in Records, Published(rec), scenario.filter # "checkpoint-only",
                   window[r].start <= dated[rec], dated[rec] < d, rec \notin extracted[r]
            PROVE  FALSE
        <4>1. d <= dated[rec]
            BY <3>1, <3>3 DEF NewerThanExtracted
        <4>2. dated[rec] \in Days /\ d \in Days
            BY <3>3 DEF Published
        <4> QED
            BY <3>3, <4>1, <4>2 DEF Days
      <3> QED
          BY <2>1, <3>2, <3>3
    <2>3. CASE extracted[r] = {}
      <3>1. d = window[r].end
          BY <1>1, <1>4, <2>3 DEF EffectiveDate
      <3> QED
          BY <1>3, <2>1, <3>1 DEF NewerThanExtracted, Published, Windows, Days
    <2> QED
        BY <2>2, <2>3
  <1>5. CASE ~scenario.midnight /\ scenario.utcAhead = 0 /\ scenario.mode # "data_date"
    <2>1. StartOf(watermark)' = today
        BY <1>1, <1>2, <1>5 DEF StartOf, Days
    <2>2. window[r].end = today
        BY <1>5 DEF ReadToday, Active
    <2> QED
        BY <2>1, <2>2 DEF NewerThanExtracted, Published, Days
  <1> QED
      BY <1>4, <1>5 DEF DatesWhatWasRead

(* Every step keeps what lies behind the boundary among what a committed   *)
(* run was given.                                                          *)
LEMMA BehindWasCommittedKept == IInv /\ [Next]_vars => BehindWasCommitted'
  <1> SUFFICES ASSUME IInv, [Next]_vars PROVE BehindWasCommitted'
      OBVIOUS
  <1> USE DEF IInv, TypeOK, BehindWasCommitted, DatesWhatWasRead, LeftBehind, Published
  <1>1. ASSUME NEW rec \in Records, Publish(rec) PROVE BehindWasCommitted'
    <2>1. UNCHANGED <<scenario, today, watermark, extracted, committed>>
        BY <1>1 DEF Publish
    <2>2. StartOf(watermark)' = StartOf(watermark)
        BY <2>1 DEF StartOf
    <2>3. DatesWhatWasRead => ~LeftBehind(rec)'
      <3>1. watermark = None => StartOf(watermark) = InitialStart
          BY DEF StartOf
      <3>2. StartOf(watermark) \in Int
          BY StartOfType, BoundsAssumption DEF DateRange
      <3>3. dated'[rec] = today
          BY <1>1 DEF Publish
      <3> QED
          BY <2>1, <2>2, <3>1, <3>2, <3>3, BoundsAssumption DEF Days
    <2>4. \A q \in Records \ {rec} : dated'[q] = dated[q]
        BY <1>1 DEF Publish
    <2> QED
        BY <2>1, <2>2, <2>3, <2>4
  <1>2. CASE NextDay
    <2>1. StartOf(watermark)' = StartOf(watermark)
        BY <1>2 DEF NextDay, StartOf
    <2>2. StartOf(watermark) \in Int
        BY StartOfType, BoundsAssumption DEF DateRange
    <2> QED
        BY <1>2, <2>1, <2>2 DEF NextDay, Days
  <1>3. ASSUME NEW r \in Runs,
               Start(r) \/ Extract(r) \/ Load(r) \/ LoadFails(r) \/ Crash(r)
        PROVE  BehindWasCommitted'
    <2>1. UNCHANGED <<scenario, today, dated, watermark, committed>>
        BY <1>3 DEF Start, Extract, Load, LoadFails, Crash
    <2>2. \A q \in committed : extracted'[q] = extracted[q]
        BY <1>3 DEF Start, Extract, Load, LoadFails, Crash, CheckpointChain
    <2>3. StartOf(watermark)' = StartOf(watermark)
        BY <2>1 DEF StartOf
    <2> QED
        BY <2>1, <2>2, <2>3
  <1>4. ASSUME NEW r \in Runs, Commit(r) \/ CommitFails(r) PROVE BehindWasCommitted'
    <2>1. status[r] = "loaded" /\ UNCHANGED <<scenario, today, dated, extracted>>
        BY <1>4 DEF Commit, CommitFails
    <2>2. CASE UNCHANGED <<watermark, committed>>
        BY <2>1, <2>2 DEF StartOf
    <2>3. CASE StoreWatermark(r) /\ DatesWhatWasRead
      <3>1. committed' = committed \union {r} /\ window[r].before = watermark
          BY <2>3, StoreWatermarkStep
      <3>2. window[r].start = StartOf(watermark) /\ window[r] \in Windows
          BY <2>1, <3>1 DEF WindowsResolved
      <3>3. /\ StartOf(watermark)' <= today
            /\ \A rec \in Records :
                  /\ Published(rec) /\ scenario.filter # "checkpoint-only"
                  /\ window[r].start <= dated[rec]
                  /\ dated[rec] < StartOf(watermark)'
                  => rec \in extracted[r]
          BY <2>1, <2>3, BoundaryOfCommit
      <3>4. ASSUME NEW rec \in Records, LeftBehind(rec)'
            PROVE  \E q \in committed' : rec \in extracted'[q]
        <4>1. CASE window[r].start <= dated[rec]
            BY <2>1, <3>1, <3>3, <3>4, <4>1
        <4>2. CASE dated[rec] < window[r].start
            BY <2>1, <2>3, <3>1, <3>2, <3>4, <4>2
        <4> QED
            BY <2>1, <3>2, <3>4, <4>1, <4>2 DEF Windows, DateRange, Days
      <3> QED
          BY <2>1, <3>3, <3>4
    <2> QED
        BY <1>4, <2>1, <2>2, <2>3 DEF Commit, CommitFails
  <1>5. CASE UNCHANGED vars
      BY <1>5 DEF vars, StartOf
  <1> QED
      BY <1>1, <1>2, <1>3, <1>4, <1>5 DEF Next

(* Every step keeps the rows of the committed windows as they are.         *)
LEMMA CommittedWindowIntactKept == IInv /\ [Next]_vars => CommittedWindowIntact'
  <1> SUFFICES ASSUME IInv, [Next]_vars, ~scenario.overlap,
                      NEW q \in committed'
               PROVE  WindowIntact(q)'
      BY ScenarioIsFixed DEF CommittedWindowIntact
  <1> USE DEF IInv, TypeOK, CommittedWindowIntact, CheckpointChain
  <1>1. CASE (\E rec \in Records : Publish(rec)) \/ NextDay \/ UNCHANGED vars
      BY <1>1 DEF Publish, NextDay, vars, WindowIntact, RowsOf, IngestionKey
  <1>2. ASSUME NEW r \in Runs, Start(r) \/ Extract(r) \/ Crash(r) PROVE WindowIntact(q)'
    <2>1. q \in committed /\ bronze' = bronze
        BY <1>2 DEF Start, Extract, Crash
    <2>2. window'[q] = window[q] /\ extracted'[q] = extracted[q]
        BY <1>2, <2>1 DEF Start, Extract, Crash
    <2> QED
        BY <2>1, <2>2 DEF WindowIntact, RowsOf, IngestionKey
  <1>3. ASSUME NEW r \in Runs, Load(r) \/ LoadFails(r) PROVE WindowIntact(q)'
    <2>1. q \in committed /\ UNCHANGED <<window, extracted>> /\ Active(r)
        BY <1>3 DEF Load, LoadFails, Active
    <2>2. window[r].before = watermark /\ window[q].before # watermark
        BY <2>1 DEF OneRunAtATime
    <2>3. CASE bronze' = Promote(bronze, r)
        BY <2>1, <2>2, <2>3, PromoteKeepsWindow
    <2>4. CASE bronze' = bronze
        BY <2>1, <2>4 DEF WindowIntact, RowsOf, IngestionKey
    <2> QED
        BY <1>3, <2>3, <2>4 DEF Load, LoadFails
  <1>4. ASSUME NEW r \in Runs, Commit(r) \/ CommitFails(r) PROVE WindowIntact(q)'
    <2>1. /\ status[r] = "loaded"
          /\ UNCHANGED <<bronze, window, extracted>>
          /\ q \in committed \/ q = r
        BY <1>4 DEF Commit, CommitFails, StoreWatermark
    <2>2. WindowIntact(q)
        BY <2>1 DEF OneRunAtATime
    <2> QED
        BY <2>1, <2>2 DEF WindowIntact, RowsOf, IngestionKey
  <1> QED
      BY <1>1, <1>2, <1>3, <1>4 DEF Next
(* Every step keeps the leftovers of failed attempts of today under the    *)
(* transition that is still open: the run that commits it has their key,   *)
(* and has replaced them.                                                  *)
LEMMA SameDayRetryReplacesKept == IInv /\ [Next]_vars => SameDayRetryReplaces'
  <1> SUFFICES ASSUME IInv, [Next]_vars, ~scenario.overlap,
                      NEW row \in bronze', row.key.end = today'
               PROVE  OpenOrCommitted(row)'
      BY ScenarioIsFixed DEF SameDayRetryReplaces
  <1> USE DEF IInv, TypeOK, SameDayRetryReplaces
  <1>1. CASE (\E rec \in Records : Publish(rec)) \/ UNCHANGED vars
      BY <1>1 DEF Publish, vars, OpenOrCommitted, RowsOf, IngestionKey
  <1>2. CASE NextDay
      BY <1>2 DEF NextDay, RowsAccountedFor, Windows, Days
  <1>3. ASSUME NEW r \in Runs, Start(r) \/ Extract(r) \/ Crash(r)
        PROVE  OpenOrCommitted(row)'
    <2>1. UNCHANGED <<today, watermark, bronze, committed>>
        BY <1>3 DEF Start, Extract, Crash
    <2>2. \A q \in committed : window'[q] = window[q] /\ extracted'[q] = extracted[q]
        BY <1>3 DEF Start, Extract, Crash, CheckpointChain
    <2> QED
        BY <2>1, <2>2 DEF OpenOrCommitted, RowsOf, IngestionKey
  <1>4. ASSUME NEW r \in Runs, Load(r) \/ LoadFails(r) PROVE OpenOrCommitted(row)'
    <2>1. UNCHANGED <<today, watermark, window, extracted, committed>> /\ Active(r)
        BY <1>4 DEF Load, LoadFails, Active
    <2>2. row \in bronze \/ row \in RowsOf(r)
        BY <1>4 DEF Load, LoadFails, Promote
    <2>3. CASE row \in bronze
        BY <2>1, <2>3 DEF OpenOrCommitted, RowsOf, IngestionKey
    <2>4. CASE row \in RowsOf(r)
        BY <2>1, <2>4 DEF OpenOrCommitted, RowsOf, IngestionKey, OneRunAtATime
    <2> QED
        BY <2>2, <2>3, <2>4
  <1>5. ASSUME NEW r \in Runs, Commit(r) \/ CommitFails(r) PROVE OpenOrCommitted(row)'
    <2>1. status[r] = "loaded" /\ UNCHANGED <<today, bronze, window, extracted>>
        BY <1>5 DEF Commit, CommitFails
    <2>2. OpenOrCommitted(row)
        BY <2>1
    <2>3. CASE UNCHANGED <<watermark, committed>>
        BY <2>1, <2>2, <2>3 DEF OpenOrCommitted, RowsOf, IngestionKey
    <2>4. CASE StoreWatermark(r)
      <3>1. committed' = committed \union {r} /\ window[r].before = watermark
          BY <2>4, StoreWatermarkStep
      <3>2. CASE row.key.before = watermark
        <4>1. row.key \in Windows /\ window[r] \in Windows
            BY <2>1 DEF WindowsResolved
        <4>2. row.key.start = window[r].start
            BY <2>1, <3>1, <3>2 DEF RowsAccountedFor, WindowsResolved
        <4>3. row.key.end = window[r].end
            BY <2>1, <3>2, <4>1 DEF RowsAccountedFor, WindowsResolved, Active, Windows, Days
        <4>4. row.key = IngestionKey(r)
            BY <3>1, <3>2, <4>1, <4>2, <4>3 DEF Windows, IngestionKey
        <4>5. row \in RowsOf(r)
            BY <2>1, <4>4 DEF OneRunAtATime, WindowIntact
        <4> QED
            BY <2>1, <3>1, <4>5 DEF OpenOrCommitted, RowsOf, IngestionKey
      <3>3. CASE \E q \in committed : row \in RowsOf(q)
          BY <2>1, <3>1, <3>3 DEF OpenOrCommitted, RowsOf, IngestionKey
      <3> QED
          BY <2>2, <3>2, <3>3 DEF OpenOrCommitted
    <2> QED
        BY <1>5, <2>3, <2>4 DEF Commit, CommitFails
  <1> QED
      BY <1>1, <1>2, <1>3, <1>4, <1>5 DEF Next
-----------------------------------------------------------------------------
(* The inductive invariant, from which the properties follow.              *)
THEOREM Inductive == Spec => []IInv
  <1>1. Init => IInv
      BY InitEstablishes
  <1>2. IInv /\ [Next]_vars => IInv'
      BY TypeOKKept, WindowsResolvedKept, CheckpointChainKept, OneRunAtATimeKept,
         RowsAccountedForKept, NewerThanExtractedKept, ReadTodayKept,
         BehindWasCommittedKept, CommittedWindowIntactKept, SameDayRetryReplacesKept
      DEF IInv
  <1> QED
      BY <1>1, <1>2, PTL DEF Spec

(* The variables of the ingestion keep their types.                        *)
THEOREM TypeCorrect == Spec => []TypeOK
  <1>1. IInv => TypeOK
      BY DEF IInv
  <1> QED
      BY <1>1, Inductive, PTL

(* Of the runs that resolved one checkpoint, the StateStore takes one.     *)
THEOREM OneSuccessor == Spec => []OneSuccessorPerCheckpoint
  <1>1. IInv => OneSuccessorPerCheckpoint
      BY DEF IInv, CheckpointChain
  <1> QED
      BY <1>1, Inductive, PTL

(* Without overlap, nothing disturbs the rows of a committed window.       *)
THEOREM WindowsStayIntact == Spec => []CommittedWindowIntact
  <1>1. IInv => CommittedWindowIntact
      BY DEF IInv
  <1> QED
      BY <1>1, Inductive, PTL

(* Without overlap, a retry on the same day replaces the failed attempt.   *)
THEOREM RetryIsIdempotent == Spec => []SameDayRetryReplaces
  <1>1. IInv => SameDayRetryReplaces
      BY DEF IInv
  <1> QED
      BY <1>1, Inductive, PTL

(* Without overlap, and when the watermark dates what was read, no record  *)
(* falls behind the boundary of the next window without being in Bronze.   *)
THEOREM NothingLeftBehind ==
    Spec => [](~scenario.overlap /\ DatesWhatWasRead => NoGap)
  <1>1. IInv => (~scenario.overlap /\ DatesWhatWasRead => NoGap)
    <2> SUFFICES ASSUME IInv, ~scenario.overlap, DatesWhatWasRead,
                        NEW rec \in Records, LeftBehind(rec)
                 PROVE  \E row \in bronze : row.rec = rec
        BY DEF NoGap
    <2>1. PICK r \in committed : rec \in extracted[r]
        BY DEF IInv, BehindWasCommitted
    <2>2. [key |-> IngestionKey(r), rec |-> rec, run |-> r] \in RowsOf(r)
        BY <2>1 DEF RowsOf
    <2>3. RowsOf(r) \subseteq bronze
        BY DEF IInv, CommittedWindowIntact, WindowIntact
    <2> QED
        BY <2>2, <2>3
  <1> QED
      BY <1>1, Inductive, PTL
=============================================================================
