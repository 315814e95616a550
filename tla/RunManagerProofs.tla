-------------------------- MODULE RunManagerProofs --------------------------
(***************************************************************************)
(* RunManager's invariants proved for every set of runs, pipelines and     *)
(* streams, every history, semaphore and ring buffer.                      *)
(***************************************************************************)
EXTENDS RunManager, FiniteSetTheorems, TLAPS

ThreadStates == {"none", "created", "queued", "admitted", "ingesting", "transforming",
                 "ending", "removed", "finished", "over", "lost"}

(* The types of the variables; the bound on the instants needs a count of  *)
(* the runs and follows below.                                             *)
Types ==
    /\ retained \subseteq Runs
    /\ name \in [Runs -> Pipelines \union {None}]
    /\ status \in [Runs -> {"none", "running", "success", "error"}]
    /\ thread \in [Runs -> ThreadStates]
    /\ nextLine \in [Runs -> 0 .. LineLimit]
    /\ finished \in [Runs -> BOOLEAN]
    /\ startedAt \in [Runs -> Nat]
    /\ finishedAt \in [Runs -> Nat]
    /\ clock \in Nat
    /\ slots \in Nat
    /\ watched \in [Streams -> Runs \union {None}]
    /\ cursor \in [Streams -> 0 .. LineLimit]
    /\ passedOn \in [Streams -> SUBSET (0 .. LineLimit - 1)]
    /\ stream \in [Streams -> {"none", "opened", "reading",
                               "complete", "timed_out", "gone"}]
    /\ done \in [Streams -> {"none", "running", "success", "error", "unknown"}]

(* A run is "running", and retained, from its start to the end of its work *)
(* or, when its thread is lost, for ever.                                  *)
Working == {"created", "queued", "admitted", "ingesting", "transforming", "lost"}
RunsInOrder ==
    \A r \in Runs :
        /\ thread[r] = "none" => status[r] = "none" /\ r \notin retained
        /\ thread[r] \in Working => status[r] = "running" /\ r \in retained
        /\ thread[r] \notin Working => status[r] # "running"
        /\ finished[r] <=> thread[r] \in {"finished", "over"}

(* No two running runs share a pipeline.                                   *)
OneRunning ==
    \A q, r \in Runs :
        status[q] = "running" /\ status[r] = "running" /\ name[q] = name[r] => q = r

(* What a stream did not pass on, the ring buffer dropped or it is still   *)
(* to come.                                                                *)
KeepsUp(s) == \A i \in Buffered(watched[s]) : i < cursor[s] => i \in passedOn[s]
StreamsInOrder ==
    \A s \in Streams :
        /\ stream[s] # "none" => /\ watched[s] \in Runs
                                 /\ thread[watched[s]] # "none"
                                 /\ cursor[s] <= nextLine[watched[s]]
                                 /\ KeepsUp(s)
        /\ stream[s] = "none" => cursor[s] = 0
        /\ done[s] # "none" => stream[s] \in {"complete", "timed_out", "gone"}
        /\ stream[s] = "complete" => finished[watched[s]]

(* What the semaphore and the history count is finite.                     *)
Holders == {r \in Runs : HoldsSlot(r)}
Counted ==
    /\ IsFiniteSet(retained) /\ Cardinality(retained) <= MaxRetained
    /\ IsFiniteSet(Holders) /\ SlotsAreAccountedFor

IInv ==
    /\ Types
    /\ RunsInOrder
    /\ OneRunning
    /\ StreamsInOrder
    /\ Counted
    /\ CompleteStreamMissesNothing
-----------------------------------------------------------------------------
(* No run was started, and no slot is taken.                               *)
LEMMA InitEstablishes == Init => IInv
<1> SUFFICES ASSUME Init PROVE IInv
  OBVIOUS
<1>1. Types
  BY LimitsAssumption DEF Init, Types, ThreadStates
<1>2. RunsInOrder /\ OneRunning /\ StreamsInOrder /\ CompleteStreamMissesNothing
  BY DEF Init, RunsInOrder, OneRunning, StreamsInOrder,
     CompleteStreamMissesNothing, Working
<1>3. Holders = {}
  BY DEF Init, Holders, HoldsSlot
<1>4. Counted
  BY <1>3, FS_EmptySet, LimitsAssumption DEF Init, Counted,
     SlotsAreAccountedFor, Holders
<1> QED
  BY <1>1, <1>2, <1>4 DEF IInv

(* Every step keeps the variables well typed.                              *)
LEMMA TypesKept == IInv /\ [Next]_vars => Types'
<1> SUFFICES ASSUME IInv, [Next]_vars PROVE Types'
  OBVIOUS
<1> USE LimitsAssumption DEF IInv, Types, ThreadStates, runVars, streamVars
<1>1. ASSUME NEW r \in Runs, NEW p \in Pipelines, StartRun(r, p) PROVE Types'
  BY <1>1 DEF StartRun, Pruned
<1>2. ASSUME NEW r \in Runs, RunStep(r) PROVE Types'
  <2>1. CASE ThreadStarts(r)
    BY <2>1 DEF ThreadStarts, ThreadMoves
  <2>2. CASE AcquireSlot(r)
    BY <2>2 DEF AcquireSlot, ThreadMoves
  <2>3. CASE AddSink(r)
    BY <2>3 DEF AddSink, ThreadMoves
  <2>4. CASE Log(r)
    BY <2>4 DEF Log, SinkAttached
  <2>5. CASE Ingest(r)
    BY <2>5 DEF Ingest, ThreadMoves, IngestionStatus
  <2>6. CASE Transform(r)
    BY <2>6 DEF Transform, ThreadMoves
  <2>7. CASE RemoveSink(r)
    BY <2>7 DEF RemoveSink, ThreadMoves
  <2>8. CASE Finish(r)
    BY <2>8 DEF Finish, ThreadMoves
  <2>9. CASE ReleaseSlot(r)
    BY <2>9 DEF ReleaseSlot, ThreadMoves, SlotGivenBack
  <2> QED
    BY <1>2, <2>1, <2>2, <2>3, <2>4, <2>5, <2>6, <2>7, <2>8, <2>9 DEF RunStep
<1>3. ASSUME NEW s \in Streams, NEW r \in Runs, OpenStream(s, r) PROVE Types'
  BY <1>3 DEF OpenStream
<1>4. ASSUME NEW s \in Streams, StreamStep(s) PROVE Types'
  <2>1. stream[s] # "none" => watched[s] \in Runs
    BY DEF StreamsInOrder
  <2>2. CASE ReadLines(s)
    BY <2>1, <2>2 DEF ReadLines, ReadAll, Available, Buffered
  <2>3. CASE LookUpRun(s) \/ StreamTimesOut(s)
    BY <2>3 DEF LookUpRun, StreamTimesOut
  <2>4. CASE SendDone(s)
    BY <2>1, <2>4, NoneAssumption DEF SendDone, RunsInOrder, Working
  <2> QED
    BY <1>4, <2>2, <2>3, <2>4 DEF StreamStep
<1>5. CASE UNCHANGED vars
  BY <1>5 DEF vars
<1> QED
  BY <1>1, <1>2, <1>3, <1>4, <1>5 DEF Next

(* Stream steps do not touch the runs.                                     *)
LEMMA StreamsOnlyWatch ==
  ASSUME NEW s \in Streams,
         StreamStep(s) \/ \E r \in Runs : OpenStream(s, r)
  PROVE  UNCHANGED runVars
  BY DEF StreamStep, OpenStream, LookUpRun, ReadLines, StreamTimesOut, SendDone

(* A started run is retained while it works, and its end is final.         *)
LEMMA RunsInOrderKept == IInv /\ [Next]_vars => RunsInOrder' /\ OneRunning'
<1> SUFFICES ASSUME IInv, [Next]_vars PROVE RunsInOrder' /\ OneRunning'
  OBVIOUS
<1> USE DEF IInv, Types, ThreadStates, RunsInOrder, OneRunning, Working
<1>1. ASSUME NEW r \in Runs, NEW p \in Pipelines, StartRun(r, p)
      PROVE  RunsInOrder' /\ OneRunning'
  <2>1. /\ Pruned \subseteq retained
        /\ \A q \in retained : status[q] = "running" => q \in Pruned
    BY DEF Pruned, Oldest, Completed
  <2>2. RunsInOrder'
    BY <1>1, <2>1 DEF StartRun
  <2>3. \A q \in Runs : status[q] = "running" => q \in retained /\ name[q] # p
    BY <1>1 DEF StartRun, AlreadyRunning
  <2>4. OneRunning'
    BY <1>1, <2>3 DEF StartRun
  <2> QED
    BY <2>2, <2>4
<1>2. ASSUME NEW r \in Runs, RunStep(r) PROVE RunsInOrder' /\ OneRunning'
  <2>1. CASE ThreadStarts(r)
    BY <2>1 DEF ThreadStarts, ThreadMoves
  <2>2. CASE AcquireSlot(r)
    BY <2>2 DEF AcquireSlot, ThreadMoves
  <2>3. CASE AddSink(r)
    BY <2>3 DEF AddSink, ThreadMoves
  <2>4. CASE Log(r)
    BY <2>4 DEF Log, SinkAttached
  <2>5. CASE Ingest(r)
    BY <2>5 DEF Ingest, ThreadMoves, IngestionStatus
  <2>6. CASE Transform(r)
    BY <2>6 DEF Transform, ThreadMoves
  <2>7. CASE RemoveSink(r)
    BY <2>7 DEF RemoveSink, ThreadMoves
  <2>8. CASE Finish(r)
    BY <2>8 DEF Finish, ThreadMoves
  <2>9. CASE ReleaseSlot(r)
    BY <2>9 DEF ReleaseSlot, ThreadMoves, SlotGivenBack
  <2> QED
    BY <1>2, <2>1, <2>2, <2>3, <2>4, <2>5, <2>6, <2>7, <2>8, <2>9 DEF RunStep
<1>3. ASSUME UNCHANGED runVars PROVE RunsInOrder' /\ OneRunning'
  BY <1>3 DEF runVars
<1> QED
  BY <1>1, <1>2, <1>3, StreamsOnlyWatch DEF Next, vars

(* What a step may do to a run that was started: its log grows until it    *)
(* finishes, and then nothing changes any more.                            *)
LEMMA StartedRunsGoOn ==
  ASSUME IInv, [Next]_vars, NEW r \in Runs, thread[r] # "none"
  PROVE  /\ thread'[r] # "none"
         /\ nextLine[r] <= nextLine'[r]
         /\ finished[r] => /\ finished'[r]
                           /\ nextLine'[r] = nextLine[r]
<1> USE DEF IInv, Types, ThreadStates, RunsInOrder, Working
<1>1. ASSUME NEW q \in Runs, NEW p \in Pipelines, StartRun(q, p)
      PROVE  /\ thread'[r] # "none"
             /\ UNCHANGED <<nextLine, finished>>
  BY <1>1 DEF StartRun, streamVars
<1>2. ASSUME NEW q \in Runs, Log(q)
      PROVE  /\ UNCHANGED <<thread, finished>>
             /\ nextLine[r] <= nextLine'[r]
             /\ finished[r] => nextLine'[r] = nextLine[r]
  BY <1>2, LimitsAssumption DEF Log, SinkAttached
<1>3. ASSUME NEW q \in Runs, RunStep(q), ~Log(q)
      PROVE  /\ thread'[r] # "none"
             /\ UNCHANGED nextLine
             /\ finished[r] => finished'[r]
  BY <1>3 DEF RunStep, ThreadStarts, AcquireSlot, AddSink, Ingest, Transform,
     RemoveSink, Finish, ReleaseSlot, ThreadMoves
<1>4. CASE UNCHANGED runVars
  BY <1>4, LimitsAssumption DEF runVars
<1> QED
  BY <1>1, <1>2, <1>3, <1>4, StreamsOnlyWatch, LimitsAssumption DEF Next, vars

(* The steps of runs keep what streams have seen.                          *)
LEMMA StreamsKeptByRuns ==
  ASSUME IInv, [Next]_vars, UNCHANGED streamVars
  PROVE  StreamsInOrder' /\ CompleteStreamMissesNothing'
<1> USE LimitsAssumption DEF IInv, Types, StreamsInOrder, streamVars
<1>1. ASSUME NEW s \in Streams, stream[s] # "none"
      PROVE  /\ watched[s] \in Runs /\ thread'[watched[s]] # "none"
             /\ cursor[s] <= nextLine'[watched[s]] /\ KeepsUp(s)'
             /\ finished[watched[s]] => /\ finished'[watched[s]]
                                        /\ Buffered(watched[s])' = Buffered(watched[s])
  <2>1. /\ watched[s] \in Runs
        /\ thread'[watched[s]] # "none"
        /\ nextLine[watched[s]] <= nextLine'[watched[s]]
        /\ finished[watched[s]] => /\ finished'[watched[s]]
                                   /\ nextLine'[watched[s]] = nextLine[watched[s]]
    BY <1>1, StartedRunsGoOn
  <2>2. nextLine' \in [Runs -> 0 .. LineLimit]
    BY TypesKept
  <2>3. UNCHANGED <<watched[s], cursor[s], passedOn[s]>>
    OBVIOUS
  <2>4. /\ cursor[s] <= nextLine[watched[s]] /\ KeepsUp(s)
        /\ cursor[s] \in Nat /\ nextLine[watched[s]] \in Nat /\ nextLine'[watched[s]] \in Nat
    BY <1>1, <2>1, <2>2
  <2>5. \A i \in Buffered(watched[s])' : i < cursor[s] => i \in Buffered(watched[s])
    BY <2>1, <2>3, <2>4 DEF Buffered
  <2>6. KeepsUp(s)'
    BY <2>3, <2>4, <2>5 DEF KeepsUp
  <2>7. finished[watched[s]] => Buffered(watched[s])' = Buffered(watched[s])
    BY <2>1, <2>3 DEF Buffered
  <2> QED
    BY <2>1, <2>3, <2>4, <2>6, <2>7
<1>2. StreamsInOrder'
  BY <1>1
<1>3. CompleteStreamMissesNothing'
  BY <1>1 DEF CompleteStreamMissesNothing
<1> QED
  BY <1>2, <1>3

(* What a stream reads it passes on, up to the last line of a finished run. *)
LEMMA StreamsKeptByStreams ==
  ASSUME IInv, NEW s \in Streams, StreamStep(s) \/ \E r \in Runs : OpenStream(s, r)
  PROVE  StreamsInOrder' /\ CompleteStreamMissesNothing'
<1> USE DEF IInv, Types, StreamsInOrder, CompleteStreamMissesNothing
<1>1. UNCHANGED runVars
  BY StreamsOnlyWatch
<1>2. ASSUME NEW r \in Runs, OpenStream(s, r)
      PROVE  StreamsInOrder' /\ CompleteStreamMissesNothing'
  <2>1. thread[r] # "none" /\ 0 <= nextLine[r]
    BY <1>2, LimitsAssumption DEF OpenStream, RunsInOrder
  <2> QED
    BY <1>1, <1>2, <2>1 DEF OpenStream, KeepsUp, Buffered, runVars
<1>3. CASE LookUpRun(s) \/ StreamTimesOut(s)
  BY <1>1, <1>3 DEF LookUpRun, StreamTimesOut, KeepsUp, Buffered, runVars
<1>4. CASE SendDone(s)
  <2>1. done'[s] = "running" => stream[s] # "complete"
    BY <1>4 DEF SendDone, RunsInOrder, Working
  <2>2. UNCHANGED <<watched, cursor, passedOn, stream, nextLine, finished, thread>>
    BY <1>1, <1>4 DEF SendDone, runVars
  <2>3. /\ stream[s] \in {"complete", "timed_out", "gone"}
        /\ \A v \in Streams \ {s} : done'[v] = done[v]
    BY <1>4 DEF SendDone
  <2>4. \A v \in Streams : Buffered(watched[v])' = Buffered(watched[v])
    BY <2>2 DEF Buffered
  <2>5. StreamsInOrder'
    BY <2>2, <2>3, <2>4 DEF KeepsUp
  <2>6. CompleteStreamMissesNothing'
    BY <2>1, <2>2, <2>3, <2>4
  <2> QED
    BY <2>5, <2>6
<1>5. CASE ReadLines(s)
  <2>1. /\ stream[s] = "reading" /\ watched[s] \in Runs
        /\ cursor[s] <= nextLine[watched[s]] /\ KeepsUp(s) /\ done[s] = "none"
    BY <1>5 DEF ReadLines
  <2>2. cursor[s] \in Nat /\ nextLine[watched[s]] \in Nat
    BY <2>1, LimitsAssumption
  <2>3. /\ UNCHANGED <<watched, done, nextLine, finished, thread>>
        /\ passedOn' = [passedOn EXCEPT ![s] = @ \union Available(s)]
        /\ cursor' = [cursor EXCEPT ![s] = ReadAll(s)]
        /\ stream' = [stream EXCEPT ![s] = IF finished[watched[s]]
                                          THEN "complete" ELSE "reading"]
    BY <1>1, <1>5 DEF ReadLines, runVars
  <2>4. Buffered(watched[s]) \subseteq passedOn[s] \union Available(s)
    BY <2>1, <2>2 DEF KeepsUp, Available, Buffered
  <2>5. ReadAll(s) <= nextLine[watched[s]]
    BY <2>1, <2>2 DEF ReadAll
  <2>6. Buffered(watched[s])' \subseteq passedOn'[s]
    BY <2>3, <2>4 DEF Buffered
  <2>7. StreamsInOrder'
    BY <2>1, <2>3, <2>5, <2>6 DEF KeepsUp, Buffered
  <2>8. CompleteStreamMissesNothing'
    BY <2>1, <2>3, <2>6 DEF Buffered
  <2> QED
    BY <2>7, <2>8
<1> QED
  BY <1>2, <1>3, <1>4, <1>5 DEF StreamStep

(* A finite set smaller than n, with one element more.                     *)
LEMMA OneMore ==
  ASSUME NEW S, IsFiniteSet(S), NEW x, NEW n \in Nat, Cardinality(S) < n
  PROVE  IsFiniteSet(S \union {x}) /\ Cardinality(S \union {x}) <= n
<1>1. Cardinality(S) \in Nat
  BY FS_CardinalityType
<1>2. /\ IsFiniteSet(S \union {x})
      /\ Cardinality(S \union {x}) = IF x \in S THEN Cardinality(S) ELSE Cardinality(S) + 1
  BY FS_AddElement
<1> QED
  BY <1>1, <1>2

(* A full history forgets a run before it keeps a new one; a slot is taken *)
(* by the run that enters "with self._slots" and given back by the run     *)
(* that leaves it.                                                         *)
LEMMA CountedKept == IInv /\ [Next]_vars => Counted'
<1> SUFFICES ASSUME IInv, [Next]_vars PROVE Counted'
  OBVIOUS
<1> DEFINE Account == slots + Cardinality(Holders) = MaxConcurrent
<1> USE LimitsAssumption DEF IInv, Types, ThreadStates
<1>a. Account
  BY DEF Counted, SlotsAreAccountedFor, Holders
<1>b. ASSUME IsFiniteSet(retained'), Cardinality(retained') <= MaxRetained,
             IsFiniteSet(Holders'), Account'
      PROVE  Counted'
  BY <1>b DEF Counted, SlotsAreAccountedFor, Holders
<1>c. /\ IsFiniteSet(retained) /\ Cardinality(retained) <= MaxRetained
      /\ IsFiniteSet(Holders)
  BY DEF Counted
<1>0. Cardinality(retained) \in Nat /\ Cardinality(Holders) \in Nat
  BY <1>c, FS_CardinalityType
<1>1. ASSUME NEW r \in Runs, NEW p \in Pipelines, StartRun(r, p) PROVE Counted'
  <2>1. IsFiniteSet(Pruned) /\ Cardinality(Pruned) \in Nat
    BY <1>c, FS_Subset, FS_CardinalityType DEF Pruned
  <2>2. IsFiniteSet(retained') /\ Cardinality(retained') <= MaxRetained
    <3>1. retained' = Pruned \union {r} /\ Cardinality(Pruned) < MaxRetained
      BY <1>1 DEF StartRun
    <3> QED
      BY <2>1, <3>1, OneMore
  <2>3. Holders' = Holders
    BY <1>1 DEF StartRun, Holders, HoldsSlot
  <2> QED
    BY <1>1, <1>a, <1>b, <1>c, <2>2, <2>3 DEF StartRun
<1>2. ASSUME NEW r \in Runs, RunStep(r) PROVE Counted'
  <2>1. UNCHANGED retained
    BY <1>2 DEF RunStep, ThreadStarts, AcquireSlot, AddSink, Log, Ingest,
       Transform,
       RemoveSink, Finish, ReleaseSlot
  <2>2. CASE AcquireSlot(r)
    <3>1. r \notin Holders /\ Holders' = Holders \union {r} /\ slots' = slots - 1
      BY <2>2 DEF AcquireSlot, ThreadMoves, Holders, HoldsSlot
    <3>2. IsFiniteSet(Holders \union {r}) /\ Cardinality(Holders \union {r}) = Cardinality(Holders) + 1
      BY <1>c, <3>1, FS_AddElement
    <3> QED
      BY <1>0, <1>a, <1>b, <1>c, <2>1, <3>1, <3>2
  <2>3. CASE AddSink(r) \/ ReleaseSlot(r)
    <3>1. \/ Holders' = Holders /\ slots' = slots
          \/ r \in Holders /\ Holders' = Holders \ {r} /\ slots' = slots + 1
      BY <2>3 DEF AddSink, ReleaseSlot, SlotGivenBack, ThreadMoves, Holders,
         HoldsSlot
    <3>2. CASE Holders' = Holders /\ slots' = slots
      BY <1>a, <1>b, <1>c, <2>1, <3>2
    <3>3. CASE r \in Holders /\ Holders' = Holders \ {r} /\ slots' = slots + 1
      <4>1. /\ IsFiniteSet(Holders \ {r})
            /\ Cardinality(Holders \ {r}) = Cardinality(Holders) - 1
        BY <1>c, <3>3, FS_RemoveElement
      <4> QED
        BY <1>0, <1>a, <1>b, <1>c, <2>1, <3>3, <4>1
    <3> QED
      BY <3>1, <3>2, <3>3
  <2>4. CASE \/ ThreadStarts(r) \/ Log(r) \/ Ingest(r) \/ Transform(r)
             \/ RemoveSink(r) \/ Finish(r)
    <3>1. Holders' = Holders /\ slots' = slots
      BY <2>4 DEF ThreadStarts, Log, Ingest, Transform, RemoveSink, Finish,
         ThreadMoves,
         Holders, HoldsSlot
    <3> QED
      BY <1>a, <1>b, <1>c, <2>1, <3>1
  <2> QED
    BY <1>2, <2>2, <2>3, <2>4 DEF RunStep
<1>3. CASE UNCHANGED runVars
  <2>1. UNCHANGED <<retained, slots>> /\ Holders' = Holders
    BY <1>3 DEF runVars, Holders, HoldsSlot
  <2> QED
    BY <1>a, <1>b, <1>c, <2>1
<1> QED
  BY <1>1, <1>2, <1>3, StreamsOnlyWatch DEF Next, vars

(* One step, of a run or of a stream.                                      *)
LEMMA StepPreserves == IInv /\ [Next]_vars => IInv'
<1> SUFFICES ASSUME IInv, [Next]_vars PROVE IInv'
  OBVIOUS
<1>1. Types' /\ RunsInOrder' /\ OneRunning' /\ Counted'
  BY TypesKept, RunsInOrderKept, CountedKept
<1>2. \/ UNCHANGED streamVars
      \/ \E s \in Streams : StreamStep(s) \/ \E r \in Runs : OpenStream(s, r)
  BY DEF Next, vars, StartRun, RunStep, ThreadStarts, AcquireSlot, AddSink,
     Log, Ingest,
     Transform, RemoveSink, Finish, ReleaseSlot, streamVars
<1>3. StreamsInOrder' /\ CompleteStreamMissesNothing'
  BY <1>2, StreamsKeptByRuns, StreamsKeptByStreams
<1> QED
  BY <1>1, <1>3 DEF IInv

(* The invariant holds of every behaviour of the Local Lab's runs.         *)
THEOREM Invariance == Spec => []IInv
  BY InitEstablishes, StepPreserves, PTL DEF Spec

(* ui/run_manager.py:132-140: no pipeline is at work twice, its dbt        *)
(* transformation included.                                                *)
THEOREM NeverTwiceAtWork == Spec => []OneRunPerPipeline
<1>1. IInv => OneRunPerPipeline
  BY DEF IInv, Types, RunsInOrder, OneRunning, OneRunPerPipeline, AtWork,
     Working
<1> QED
  BY <1>1, Invariance, PTL

(* ui/run_manager.py:1-7: the history stays within max_retained_runs and   *)
(* holds every run that is at work.                                        *)
THEOREM HistoryForgetsOnlyTheEnded == Spec => []HistoryIsSafe
<1>1. IInv => HistoryIsSafe
  BY DEF IInv, RunsInOrder, Counted, HistoryIsSafe, AtWork, Working
<1> QED
  BY <1>1, Invariance, PTL

(* The semaphore's slots are conserved, however a run leaves it.           *)
THEOREM NoSlotIsLost == Spec => []SlotsAreAccountedFor
<1>1. IInv => SlotsAreAccountedFor
  BY DEF IInv, Counted
<1> QED
  BY <1>1, Invariance, PTL

(* A stream that ends with its run has passed on what the ring buffer      *)
(* holds, and does not report the run as running.                          *)
THEOREM CompleteStreams == Spec => []CompleteStreamMissesNothing
<1>1. IInv => CompleteStreamMissesNothing
  BY DEF IInv
<1> QED
  BY <1>1, Invariance, PTL
-----------------------------------------------------------------------------
(* Every run is given two instants, its start and its end.                 *)
Started == {r \in Runs : thread[r] # "none"}
Ended == {r \in Runs : finished[r]}
InstantsAreCounted ==
    /\ clock = Cardinality(Started) + Cardinality(Ended)
    /\ \A r \in Runs : startedAt[r] <= clock /\ finishedAt[r] <= clock

(* No instant was given out yet.                                           *)
LEMMA InitCounts == Init => InstantsAreCounted
<1> SUFFICES ASSUME Init PROVE InstantsAreCounted
  OBVIOUS
<1>1. Started = {} /\ Ended = {}
  BY DEF Init, Started, Ended
<1> QED
  BY <1>1, FS_EmptySet DEF Init, InstantsAreCounted

(* StartRun and Finish take the next instant, each once per run.           *)
LEMMA StepCounts ==
  ASSUME IsFiniteSet(Runs), IInv, InstantsAreCounted, [Next]_vars
  PROVE  InstantsAreCounted'
<1> USE DEF IInv, Types, ThreadStates, InstantsAreCounted
<1>1. /\ IsFiniteSet(Started) /\ Cardinality(Started) \in Nat
      /\ IsFiniteSet(Ended) /\ Cardinality(Ended) \in Nat
  <2>1. IsFiniteSet(Started) /\ IsFiniteSet(Ended)
    BY FS_Subset DEF Started, Ended
  <2> QED
    BY <2>1, FS_CardinalityType
<1>2. ASSUME NEW r \in Runs, NEW p \in Pipelines, StartRun(r, p)
      PROVE  InstantsAreCounted'
  <2>1. r \notin Started /\ Started' = Started \union {r} /\ Ended' = Ended
    BY <1>2 DEF StartRun, Started, Ended
  <2>2. Cardinality(Started \union {r}) = Cardinality(Started) + 1
    BY <1>1, <2>1, FS_AddElement
  <2> QED
    BY <1>1, <1>2, <2>1, <2>2 DEF StartRun
<1>3. ASSUME NEW r \in Runs, Finish(r) PROVE InstantsAreCounted'
  <2>1. r \notin Ended /\ Ended' = Ended \union {r} /\ Started' = Started
    BY <1>3 DEF Finish, ThreadMoves, Started, Ended, RunsInOrder, Working
  <2>2. Cardinality(Ended \union {r}) = Cardinality(Ended) + 1
    BY <1>1, <2>1, FS_AddElement
  <2> QED
    BY <1>1, <1>3, <2>1, <2>2 DEF Finish
<1>4. ASSUME NEW r \in Runs, RunStep(r), ~Finish(r) PROVE InstantsAreCounted'
  <2>1. UNCHANGED <<clock, startedAt, finishedAt, finished>>
    BY <1>4 DEF RunStep, ThreadStarts, AcquireSlot, AddSink, Log, Ingest,
       Transform,
       RemoveSink, ReleaseSlot
  <2>2. \A q \in Runs : thread'[q] # "none" <=> thread[q] # "none"
    BY <1>4 DEF RunStep, ThreadStarts, AcquireSlot, AddSink, Log, Ingest,
       Transform,
       RemoveSink, ReleaseSlot, ThreadMoves
  <2>3. Started' = Started /\ Ended' = Ended
    BY <2>1, <2>2 DEF Started, Ended
  <2> QED
    BY <2>1, <2>3
<1>5. CASE UNCHANGED runVars
  <2>1. UNCHANGED <<clock, startedAt, finishedAt>> /\ Started' = Started /\ Ended' = Ended
    BY <1>5 DEF runVars, Started, Ended
  <2> QED
    BY <2>1
<1> QED
  BY <1>2, <1>3, <1>4, <1>5, StreamsOnlyWatch DEF Next, vars

(* The state of the runs stays well typed when finitely many run ids are   *)
(* given out.                                                              *)
THEOREM TypeCorrect ==
  ASSUME IsFiniteSet(Runs)
  PROVE  Spec => []TypeOK
<1>1. Init => InstantsAreCounted
  BY InitCounts
<1>2. IInv /\ InstantsAreCounted /\ [Next]_vars => InstantsAreCounted'
  BY StepCounts
<1>3. IInv /\ InstantsAreCounted => TypeOK
  <2> SUFFICES ASSUME IInv, InstantsAreCounted PROVE TypeOK
    OBVIOUS
  <2>1. /\ Cardinality(Runs) \in Nat
        /\ Cardinality(Started) \in Nat /\ Cardinality(Started) <= Cardinality(Runs)
        /\ Cardinality(Ended) \in Nat /\ Cardinality(Ended) <= Cardinality(Runs)
    <3>1. IsFiniteSet(Started) /\ IsFiniteSet(Ended)
      BY FS_Subset DEF Started, Ended
    <3>2. Cardinality(Started) <= Cardinality(Runs) /\ Cardinality(Ended) <= Cardinality(Runs)
      BY FS_Subset DEF Started, Ended
    <3> QED
      BY <3>1, <3>2, FS_CardinalityType
  <2>2. /\ clock \in Instants
        /\ startedAt \in [Runs -> Instants] /\ finishedAt \in [Runs -> Instants]
    BY <2>1 DEF IInv, Types, InstantsAreCounted, Instants
  <2>3. Cardinality(Holders) \in Nat /\ slots + Cardinality(Holders) = MaxConcurrent
    BY FS_CardinalityType DEF IInv, Counted, SlotsAreAccountedFor, Holders
  <2>4. slots \in 0 .. MaxConcurrent
    <3>1. slots \in Nat
      BY DEF IInv, Types
    <3> QED
      BY <2>3, <3>1, LimitsAssumption
  <2> QED
    BY <2>2, <2>4 DEF IInv, Types, TypeOK, ThreadStates
<1> QED
  BY <1>1, <1>2, <1>3, Invariance, PTL DEF Spec
=============================================================================
