----------------------------- MODULE RunManager -----------------------------
(***************************************************************************)
(* The runs of the Local Lab (ui/run_manager.py) and the browser streams   *)
(* that follow their logs (ui/app.py, run_stream): one thread per run, a   *)
(* semaphore that bounds the runs at work, a history that forgets old runs *)
(* and a ring buffer of log lines per run.                                 *)
(*                                                                         *)
(* A log line is its index.  What a run does to Bronze is in Ingestion;    *)
(* here an ingestion or a dbt run is work that succeeds or fails.          *)
(***************************************************************************)
EXTENDS Integers, FiniteSets

CONSTANTS
    Runs,           \* run ids that may be given out
    Pipelines,      \* names of the configured pipelines
    DbtPipelines,   \* those whose configuration selects dbt
    Streams,        \* requests for /runs/{run_id}/stream
    MaxRetained,    \* max_retained_runs
    MaxConcurrent,  \* max_concurrent_runs
    MaxLogLines,    \* max_log_lines
    LineLimit,      \* bound: lines a run logs in all
    None            \* no pipeline, no run

ASSUME LimitsAssumption ==
    {MaxRetained, MaxConcurrent, MaxLogLines, LineLimit} \subseteq Nat \ {0}
ASSUME DbtAssumption == DbtPipelines \subseteq Pipelines
ASSUME NoneAssumption == None \notin Pipelines \union Runs

VARIABLES
    retained,    \* RunManager._runs
    name,        \* run -> pipeline_name
    status,      \* run -> RunState.status
    thread,      \* run -> where its thread stands in _execute
    nextLine,    \* run -> _next_log_index
    finished,    \* run -> _finished
    startedAt,   \* run -> started_at
    finishedAt,  \* run -> finished_at, 0 while it is None
    clock,       \* the last instant given out
    slots,       \* what is left of the semaphore
    watched,     \* stream -> the run it follows
    cursor,      \* stream -> next_cursor
    passedOn,    \* history: stream -> the lines it delivered
    stream,      \* stream -> where it stands, or how it ended
    done         \* stream -> the status its "done" event carried

runVars == <<retained, name, status, thread, nextLine, finished,
             startedAt, finishedAt, clock, slots>>
streamVars == <<watched, cursor, passedOn, stream, done>>
vars == <<runVars, streamVars>>

Init ==
    /\ retained = {}
    /\ name = [r \in Runs |-> None]
    /\ status = [r \in Runs |-> "none"]
    /\ thread = [r \in Runs |-> "none"]
    /\ nextLine = [r \in Runs |-> 0]
    /\ finished = [r \in Runs |-> FALSE]
    /\ startedAt = [r \in Runs |-> 0]
    /\ finishedAt = [r \in Runs |-> 0]
    /\ clock = 0
    /\ slots = MaxConcurrent
    /\ watched = [s \in Streams |-> None]
    /\ cursor = [s \in Streams |-> 0]
    /\ passedOn = [s \in Streams |-> {}]
    /\ stream = [s \in Streams |-> "none"]
    /\ done = [s \in Streams |-> "none"]
-----------------------------------------------------------------------------
(* _prune_locked: a full history forgets the oldest run that has ended.    *)
Completed(r) == status[r] # "running"
SortKey(r) == IF finished[r] THEN finishedAt[r] ELSE startedAt[r]

AnyOldest(r) == \A q \in retained : SortKey(r) <= SortKey(q)
Oldest(r) ==
    /\ Completed(r)
    /\ \A q \in retained : Completed(q) => SortKey(r) <= SortKey(q)

Pruned ==
    IF Cardinality(retained) < MaxRetained THEN retained
    ELSE {r \in retained : ~Oldest(r)}

(* start_run, under RunManager._lock: a pipeline with a running run and a  *)
(* history full of running runs are refused, which changes nothing.        *)
AlreadyRunning(p) == \E q \in retained : status[q] = "running" /\ name[q] = p

StartRun(r, p) ==
    /\ thread[r] = "none"
    /\ ~AlreadyRunning(p)
    /\ Cardinality(Pruned) < MaxRetained
    /\ retained' = Pruned \union {r}
    /\ name' = [name EXCEPT ![r] = p]
    /\ status' = [status EXCEPT ![r] = "running"]
    /\ thread' = [thread EXCEPT ![r] = "created"]
    /\ clock' = clock + 1
    /\ startedAt' = [startedAt EXCEPT ![r] = clock']
    /\ UNCHANGED <<nextLine, finished, finishedAt, slots, streamVars>>

ThreadMoves(r, from, to) ==
    /\ thread[r] = from
    /\ thread' = [thread EXCEPT ![r] = to]

(* thread.start() outside the lock; it may raise, and the run stays behind *)
(* as "running" without a thread.                                          *)
ThreadStarts(r) ==
    /\ \/ ThreadMoves(r, "created", "queued")
       \/ ThreadMoves(r, "created", "lost")
    /\ UNCHANGED <<retained, name, status, nextLine, finished, startedAt,
                   finishedAt, clock, slots, streamVars>>

(* "with self._slots".                                                     *)
AcquireSlot(r) ==
    /\ slots > 0
    /\ slots' = slots - 1
    /\ ThreadMoves(r, "queued", "admitted")
    /\ UNCHANGED <<retained, name, status, nextLine, finished, startedAt,
                   finishedAt, clock, streamVars>>

(* visual_logger.add is outside the try: if it raises, the slot is given   *)
(* back and the run stays "running".                                       *)
AddSink(r) ==
    /\ \/ ThreadMoves(r, "admitted", "ingesting") /\ UNCHANGED slots
       \/ ThreadMoves(r, "admitted", "lost") /\ slots' = slots + 1
    /\ UNCHANGED <<retained, name, status, nextLine, finished, startedAt,
                   finishedAt, clock, streamVars>>

(* A line reaches RunState.append_log while the run's sink is attached.    *)
AlwaysAttached(r) == thread[r] \in {"ingesting", "transforming", "ending", "finished"}
SinkAttached(r) == thread[r] \in {"ingesting", "transforming", "ending"}

Log(r) ==
    /\ SinkAttached(r)
    /\ nextLine[r] < LineLimit
    /\ nextLine' = [nextLine EXCEPT ![r] = @ + 1]
    /\ UNCHANGED <<retained, name, status, thread, finished, startedAt,
                   finishedAt, clock, slots, streamVars>>

(* The status a run has after its ingestion succeeded: it is still running *)
(* while dbt has to follow.                                                *)
SuccessAtOnce(r) == "success"
IngestionStatus(r) == IF name[r] \in DbtPipelines THEN "running" ELSE "success"

Ingest(r) ==
    /\ \/ /\ ThreadMoves(r, "ingesting",
                         IF name[r] \in DbtPipelines THEN "transforming" ELSE "ending")
          /\ status' = [status EXCEPT ![r] = IngestionStatus(r)]
       \/ /\ ThreadMoves(r, "ingesting", "ending")
          /\ status' = [status EXCEPT ![r] = "error"]
    /\ UNCHANGED <<retained, name, nextLine, finished, startedAt,
                   finishedAt, clock, slots, streamVars>>

Transform(r) ==
    /\ ThreadMoves(r, "transforming", "ending")
    /\ \E outcome \in {"success", "error"} : status' = [status EXCEPT ![r] = outcome]
    /\ UNCHANGED <<retained, name, nextLine, finished, startedAt,
                   finishedAt, clock, slots, streamVars>>

(* finally: visual_logger.remove, then RunState.finish.                    *)
RemoveSink(r) ==
    /\ ThreadMoves(r, "ending", "removed")
    /\ UNCHANGED <<retained, name, status, nextLine, finished, startedAt,
                   finishedAt, clock, slots, streamVars>>

Finish(r) ==
    /\ ThreadMoves(r, "removed", "finished")
    /\ finished' = [finished EXCEPT ![r] = TRUE]
    /\ clock' = clock + 1
    /\ finishedAt' = [finishedAt EXCEPT ![r] = clock']
    /\ UNCHANGED <<retained, name, status, nextLine, startedAt, slots, streamVars>>

SlotKept(r) == slots
SlotGivenBackTwice(r) == slots + 2
SlotGivenBack(r) == slots + 1

ReleaseSlot(r) ==
    /\ ThreadMoves(r, "finished", "over")
    /\ slots' = SlotGivenBack(r)
    /\ UNCHANGED <<retained, name, status, nextLine, finished, startedAt,
                   finishedAt, clock, streamVars>>
-----------------------------------------------------------------------------
(* run_stream answers for a run it knows; stream_log looks the run up once *)
(* more when the first line is asked for.                                  *)
OpenStream(s, r) ==
    /\ stream[s] = "none"
    /\ r \in retained
    /\ watched' = [watched EXCEPT ![s] = r]
    /\ stream' = [stream EXCEPT ![s] = "opened"]
    /\ UNCHANGED <<runVars, cursor, passedOn, done>>

LookUpRun(s) ==
    /\ stream[s] = "opened"
    /\ stream' = [stream EXCEPT ![s] = IF watched[s] \in retained
                                       THEN "reading" ELSE "gone"]
    /\ UNCHANGED <<runVars, watched, cursor, passedOn, done>>

(* The lines of a run that its ring buffer still holds.                    *)
Buffered(r) == {i \in 0 .. nextLine[r] - 1 : nextLine[r] - MaxLogLines <= i}

(* wait_for_logs: lines the ring buffer dropped are skipped, the others    *)
(* are delivered together, and the stream ends with a finished run.        *)
Available(s) == {i \in Buffered(watched[s]) : cursor[s] <= i}
ReadAll(s) == IF Available(s) = {} THEN cursor[s] ELSE nextLine[watched[s]]

ReadLines(s) ==
    /\ stream[s] = "reading"
    /\ Available(s) # {} \/ finished[watched[s]]
    /\ passedOn' = [passedOn EXCEPT ![s] = @ \union Available(s)]
    /\ cursor' = [cursor EXCEPT ![s] = ReadAll(s)]
    /\ stream' = [stream EXCEPT ![s] = IF finished[watched[s]]
                                       THEN "complete" ELSE "reading"]
    /\ UNCHANGED <<runVars, watched, done>>

(* timeout seconds passed without a line.                                  *)
StreamWaits(s) == FALSE
StreamTimesOut(s) ==
    /\ stream[s] = "reading"
    /\ Available(s) = {} /\ ~finished[watched[s]]
    /\ stream' = [stream EXCEPT ![s] = "timed_out"]
    /\ UNCHANGED <<runVars, watched, cursor, passedOn, done>>

(* The "done" event carries the status the run has by then.                *)
SendDone(s) ==
    /\ stream[s] \in {"complete", "timed_out", "gone"}
    /\ done[s] = "none"
    /\ done' = [done EXCEPT ![s] = IF watched[s] \in retained
                                   THEN status[watched[s]] ELSE "unknown"]
    /\ UNCHANGED <<runVars, watched, cursor, passedOn, stream>>

RunStep(r) ==
    \/ ThreadStarts(r) \/ AcquireSlot(r) \/ AddSink(r) \/ Log(r)
    \/ Ingest(r) \/ Transform(r) \/ RemoveSink(r) \/ Finish(r) \/ ReleaseSlot(r)
StreamStep(s) == LookUpRun(s) \/ ReadLines(s) \/ StreamTimesOut(s) \/ SendDone(s)

Next ==
    \/ \E r \in Runs : (\E p \in Pipelines : StartRun(r, p)) \/ RunStep(r)
    \/ \E s \in Streams : (\E r \in Runs : OpenStream(s, r)) \/ StreamStep(s)

Spec == Init /\ [][Next]_vars

(* Threads are scheduled, a pipeline does not run for ever, and a waiting  *)
(* stream wakes up by its timeout at the latest.                           *)
FairSpec ==
    /\ Spec
    /\ \A r \in Runs : WF_vars(RunStep(r))
    /\ \A s \in Streams : WF_vars(StreamStep(s))
-----------------------------------------------------------------------------
Instants == 0 .. 2 * Cardinality(Runs)
TypeOK ==
    /\ retained \subseteq Runs
    /\ name \in [Runs -> Pipelines \union {None}]
    /\ status \in [Runs -> {"none", "running", "success", "error"}]
    /\ thread \in [Runs -> {"none", "created", "queued", "admitted", "ingesting",
                            "transforming", "ending", "removed", "finished",
                            "over", "lost"}]
    /\ nextLine \in [Runs -> 0 .. LineLimit]
    /\ finished \in [Runs -> BOOLEAN]
    /\ startedAt \in [Runs -> Instants]
    /\ finishedAt \in [Runs -> Instants]
    /\ clock \in Instants
    /\ slots \in 0 .. MaxConcurrent
    /\ watched \in [Streams -> Runs \union {None}]
    /\ cursor \in [Streams -> 0 .. LineLimit]
    /\ passedOn \in [Streams -> SUBSET (0 .. LineLimit - 1)]
    /\ stream \in [Streams -> {"none", "opened", "reading",
                               "complete", "timed_out", "gone"}]
    /\ done \in [Streams -> {"none", "running", "success", "error", "unknown"}]

(* run_manager.py:132-140: a pipeline is never at work twice, its dbt      *)
(* transformation included.                                                *)
AtWork(r) == thread[r] \in {"queued", "admitted", "ingesting", "transforming"}
OneRunPerPipeline ==
    \A q, r \in Runs : AtWork(q) /\ AtWork(r) /\ name[q] = name[r] => q = r

(* run_manager.py:1-7: the history is bounded, and it forgets no run that  *)
(* is still at work, which a browser could otherwise neither find nor      *)
(* prevent from being started again.                                       *)
HistoryIsSafe ==
    /\ Cardinality(retained) <= MaxRetained
    /\ \A r \in Runs : AtWork(r) => r \in retained

(* A stream that ends with its run has passed on the run's last lines, as  *)
(* many as the ring buffer holds, and its "done" event does not call the   *)
(* run running.                                                            *)
CompleteStreamMissesNothing ==
    \A s \in Streams : stream[s] = "complete" =>
        /\ Buffered(watched[s]) \subseteq passedOn[s]
        /\ done[s] # "running"

(* The semaphore admits no more runs than it should and loses no slot.     *)
HoldsSlot(r) == thread[r] \in {"admitted", "ingesting", "transforming",
                               "ending", "removed", "finished"}
SlotsAreAccountedFor ==
    slots + Cardinality({r \in Runs : HoldsSlot(r)}) = MaxConcurrent

(* A queued run is admitted in the end and, once its sink is in place, it  *)
(* finishes, so that its pipeline can be started again.                    *)
QueuedRunsFinish ==
    \A r \in Runs : thread[r] = "queued" ~> finished[r] \/ thread[r] = "lost"

(* Every stream ends with a "done" event.                                  *)
StreamsEnd == \A s \in Streams : stream[s] = "opened" ~> done[s] # "none"
=============================================================================
