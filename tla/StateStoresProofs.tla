-------------------------- MODULE StateStoresProofs --------------------------
(***************************************************************************)
(* The three official stores implement the register of Checkpoint, proved  *)
(* for every set of writers, processes and keys; what the register         *)
(* promises (CheckpointProofs) then holds of each of them.                 *)
(***************************************************************************)
EXTENDS StateStores, TLAPS

JsonSteps == {"entered", "locked", "read", "replaced"}
DeltaSteps == {"refresh", "refreshed", "creating", "merging", "create_raised", "merge_raised"}

(* Every step of a call belongs to one store; only set_watermark refreshes *)
(* what it expects.                                                        *)
StepsOfStore ==
    \A w \in Writers :
        /\ pc[w] \in JsonSteps => backend = "json"
        /\ pc[w] = "compared" => backend = "duckdb"
        /\ pc[w] \in DeltaSteps => backend = "delta"
        /\ pc[w] \in {"refresh", "refreshed"} => kind[w] = "set"

(* A JSON call holds the lock of its process, and from its reading of the  *)
(* document on the lock file: no other writer moves the document under it. *)
LocksAreHeld ==
    \A w \in Writers :
        /\ pc[w] \in JsonSteps => rlock[ProcessOf[w]] = w
        /\ pc[w] \in {"locked", "read", "replaced"} => flock = w
        /\ pc[w] = "read" => snapshot[w] = stored

(* What a call has compared before it takes effect.                        *)
ComparedBeforeEffect ==
    \A w \in Writers :
        /\ pc[w] = "read" => Matches(w, snapshot[w])
        /\ pc[w] = "compared" => Matches(w, snapshot[w])
        /\ pc[w] = "merging" => snapshot[w][key[w]] = expected[w]
        /\ pc[w] \in {"creating", "create_raised"} => expected[w] = None

(* Before Delta's table exists there is no watermark to be seen.           *)
NoTableNoWatermark ==
    backend = "delta" /\ ~created =>
        /\ \A k \in Keys : stored[k] = None
        /\ \A w \in Writers : expected[w] = None

(* A call took effect before it reports success; a compare-and-set has not *)
(* taken effect while it may still do so.                                  *)
EffectsOnce ==
    \A w \in Writers :
        /\ pc[w] = "replaced" => took[w]
        /\ kind[w] = "cas" /\ took[w] =>
               pc[w] \in {"replaced", "create_raised", "merge_raised"} \union Endings

IInv ==
    /\ TypeOK
    /\ StepsOfStore
    /\ LocksAreHeld
    /\ ComparedBeforeEffect
    /\ NoTableNoWatermark
    /\ EffectsOnce
-----------------------------------------------------------------------------
(* Nobody has called, and no lock is held.                                 *)
LEMMA InitEstablishes == Init => IInv
<1> SUFFICES ASSUME Init PROVE IInv
  OBVIOUS
<1>1. stored \in [Keys -> Watermarks] /\ snapshot \in [Writers -> [Keys -> Watermarks]]
  BY DEF Init, Watermarks
<1>2. TypeOK
  BY <1>1 DEF Init, TypeOK, Watermarks, Endings
<1> QED
  BY <1>2 DEF Init, IInv, StepsOfStore, LocksAreHeld, ComparedBeforeEffect,
     NoTableNoWatermark, EffectsOnce, Endings, JsonSteps, DeltaSteps

(* JsonFileStateStore, one step at a time under its two locks.             *)
LEMMA JsonPreserves ==
  ASSUME IInv, NEW w \in Writers,
         EnterProcess(w) \/ LockFile(w) \/ ReadDocument(w) \/ ReplaceDocument(w)
           \/ JsonReturns(w) \/ JsonFails(w)
  PROVE  IInv'
<1> USE ProcessAssumption, NoneAssumption DEF MovesTo, Endings, JsonSteps, DeltaSteps
<1>1. CASE EnterProcess(w)
  <2>1. TypeOK'
    BY <1>1 DEF IInv, EnterProcess, TypeOK
  <2>2. StepsOfStore' /\ LocksAreHeld'
    BY <1>1 DEF IInv, EnterProcess, TypeOK, StepsOfStore, LocksAreHeld
  <2>3. ComparedBeforeEffect' /\ NoTableNoWatermark' /\ EffectsOnce'
    BY <1>1 DEF IInv, EnterProcess, TypeOK, ComparedBeforeEffect,
       NoTableNoWatermark, EffectsOnce, Matches
  <2> QED
    BY <2>1, <2>2, <2>3 DEF IInv
<1>2. CASE LockFile(w)
  <2>1. TypeOK'
    BY <1>2 DEF IInv, LockFile, TypeOK
  <2>2. StepsOfStore' /\ LocksAreHeld'
    BY <1>2 DEF IInv, LockFile, TypeOK, StepsOfStore, LocksAreHeld
  <2>3. ComparedBeforeEffect' /\ NoTableNoWatermark' /\ EffectsOnce'
    BY <1>2 DEF IInv, LockFile, TypeOK, ComparedBeforeEffect,
       NoTableNoWatermark, EffectsOnce, Matches
  <2> QED
    BY <2>1, <2>2, <2>3 DEF IInv
<1>3. CASE ReadDocument(w)
  <2>1. TypeOK'
    BY <1>3 DEF IInv, ReadDocument, Leave, TypeOK
  <2>2. StepsOfStore' /\ LocksAreHeld'
    BY <1>3 DEF IInv, ReadDocument, Leave, TypeOK, StepsOfStore, LocksAreHeld
  <2>3. ComparedBeforeEffect'
    BY <1>3 DEF IInv, ReadDocument, TypeOK, ComparedBeforeEffect, Matches
  <2>4. NoTableNoWatermark'
    BY <1>3 DEF IInv, ReadDocument, NoTableNoWatermark
  <2>5. EffectsOnce'
    BY <1>3 DEF IInv, ReadDocument, TypeOK, EffectsOnce
  <2> QED
    BY <2>1, <2>2, <2>3, <2>4, <2>5 DEF IInv
<1>4. CASE ReplaceDocument(w)
  <2>1. TypeOK'
    BY <1>4 DEF IInv, ReplaceDocument, StoreWatermark, TypeOK, Watermarks
  <2>2. StepsOfStore' /\ LocksAreHeld'
    BY <1>4 DEF IInv, ReplaceDocument, StoreWatermark, TypeOK, StepsOfStore,
       LocksAreHeld
  <2>3. ComparedBeforeEffect' /\ NoTableNoWatermark' /\ EffectsOnce'
    BY <1>4 DEF IInv, ReplaceDocument, StoreWatermark, TypeOK, StepsOfStore,
       ComparedBeforeEffect, NoTableNoWatermark, EffectsOnce, Matches
  <2> QED
    BY <2>1, <2>2, <2>3 DEF IInv
<1>5. CASE JsonReturns(w) \/ JsonFails(w)
  <2>1. TypeOK'
    BY <1>5 DEF IInv, JsonReturns, JsonFails, Leave, TypeOK
  <2>2. StepsOfStore' /\ LocksAreHeld'
    BY <1>5 DEF IInv, JsonReturns, JsonFails, Leave, TypeOK, StepsOfStore,
       LocksAreHeld
  <2>3. ComparedBeforeEffect' /\ NoTableNoWatermark' /\ EffectsOnce'
    BY <1>5 DEF IInv, JsonReturns, JsonFails, TypeOK, ComparedBeforeEffect,
       NoTableNoWatermark, EffectsOnce, Matches
  <2> QED
    BY <2>1, <2>2, <2>3 DEF IInv
<1> QED
  BY <1>1, <1>2, <1>3, <1>4, <1>5

(* get_watermark, and DuckDBStateStore.                                    *)
LEMMA DuckPreserves ==
  ASSUME IInv, NEW w \in Writers,
         GetWatermark(w) \/ BeginTransaction(w) \/ CommitTransaction(w) \/ RollBack(w)
  PROVE  IInv'
<1> USE ProcessAssumption, NoneAssumption DEF MovesTo, Endings, JsonSteps, DeltaSteps
<1>1. CASE GetWatermark(w)
  <2>1. TypeOK'
    BY <1>1 DEF IInv, GetWatermark, TypeOK, Watermarks
  <2>2. StepsOfStore' /\ LocksAreHeld'
    BY <1>1 DEF IInv, GetWatermark, TypeOK, StepsOfStore, LocksAreHeld
  <2>3. ComparedBeforeEffect' /\ NoTableNoWatermark' /\ EffectsOnce'
    BY <1>1 DEF IInv, GetWatermark, TypeOK, StepsOfStore, ComparedBeforeEffect,
       NoTableNoWatermark, EffectsOnce, Matches
  <2> QED
    BY <2>1, <2>2, <2>3 DEF IInv
<1>2. CASE BeginTransaction(w)
  <2>1. TypeOK'
    BY <1>2 DEF IInv, BeginTransaction, TypeOK, Watermarks
  <2>2. StepsOfStore' /\ LocksAreHeld'
    BY <1>2 DEF IInv, BeginTransaction, TypeOK, StepsOfStore, LocksAreHeld
  <2>3. ComparedBeforeEffect' /\ NoTableNoWatermark' /\ EffectsOnce'
    BY <1>2 DEF IInv, BeginTransaction, TypeOK, StepsOfStore,
       ComparedBeforeEffect,
       NoTableNoWatermark, EffectsOnce, Matches
  <2> QED
    BY <2>1, <2>2, <2>3 DEF IInv
<1>3. CASE CommitTransaction(w)
  <2>1. TypeOK'
    BY <1>3 DEF IInv, CommitTransaction, StoreWatermark, NotWrittenSince,
       TypeOK, Watermarks
  <2>2. StepsOfStore' /\ LocksAreHeld'
    BY <1>3 DEF IInv, CommitTransaction, StoreWatermark, NotWrittenSince,
       TypeOK, StepsOfStore, LocksAreHeld
  <2>3. ComparedBeforeEffect' /\ NoTableNoWatermark' /\ EffectsOnce'
    BY <1>3 DEF IInv, CommitTransaction, StoreWatermark, NotWrittenSince,
       TypeOK, StepsOfStore, ComparedBeforeEffect,
       NoTableNoWatermark, EffectsOnce, Matches
  <2> QED
    BY <2>1, <2>2, <2>3 DEF IInv
<1>4. CASE RollBack(w)
  <2>1. TypeOK'
    BY <1>4 DEF IInv, RollBack, TypeOK, Watermarks
  <2>2. StepsOfStore' /\ LocksAreHeld'
    BY <1>4 DEF IInv, RollBack, TypeOK, StepsOfStore, LocksAreHeld
  <2>3. ComparedBeforeEffect' /\ NoTableNoWatermark' /\ EffectsOnce'
    BY <1>4 DEF IInv, RollBack, TypeOK, StepsOfStore, ComparedBeforeEffect,
       NoTableNoWatermark, EffectsOnce, Matches
  <2> QED
    BY <2>1, <2>2, <2>3 DEF IInv
<1> QED
  BY <1>1, <1>2, <1>3, <1>4

(* DeltaStateStore.                                                        *)
LEMMA DeltaPreserves ==
  ASSUME IInv, NEW w \in Writers,
         Refresh(w) \/ FindsNoTable(w) \/ LoadTable(w) \/ DeltaCommit(w) \/ Diagnose(w) \/ DeltaCommitRaises(w) \/ DeltaFails(w)
  PROVE  IInv'
<1> USE ProcessAssumption, NoneAssumption DEF MovesTo, Endings, JsonSteps, DeltaSteps
<1>1. CASE Refresh(w)
  <2>1. TypeOK'
    BY <1>1 DEF IInv, Refresh, TypeOK, Watermarks
  <2>2. StepsOfStore' /\ LocksAreHeld'
    BY <1>1 DEF IInv, Refresh, TypeOK, StepsOfStore, LocksAreHeld
  <2>3. ComparedBeforeEffect' /\ NoTableNoWatermark' /\ EffectsOnce'
    BY <1>1 DEF IInv, Refresh, TypeOK, StepsOfStore, ComparedBeforeEffect,
       NoTableNoWatermark, EffectsOnce, Matches
  <2> QED
    BY <2>1, <2>2, <2>3 DEF IInv
<1>2. CASE FindsNoTable(w)
  <2>1. TypeOK'
    BY <1>2 DEF IInv, FindsNoTable, MayCompare, TypeOK, Watermarks
  <2>2. StepsOfStore' /\ LocksAreHeld'
    BY <1>2 DEF IInv, FindsNoTable, MayCompare, TypeOK, StepsOfStore,
       LocksAreHeld
  <2>3. ComparedBeforeEffect' /\ NoTableNoWatermark' /\ EffectsOnce'
    BY <1>2 DEF IInv, FindsNoTable, MayCompare, TypeOK, StepsOfStore,
       ComparedBeforeEffect,
       NoTableNoWatermark, EffectsOnce, Matches
  <2> QED
    BY <2>1, <2>2, <2>3 DEF IInv
<1>3. CASE LoadTable(w)
  <2>1. TypeOK'
    BY <1>3 DEF IInv, LoadTable, MayCompare, DeltaConflict, TypeOK, Watermarks
  <2>2. StepsOfStore' /\ LocksAreHeld'
    BY <1>3 DEF IInv, LoadTable, MayCompare, DeltaConflict, TypeOK,
       StepsOfStore, LocksAreHeld
  <2>3. /\ pc' \in {[pc EXCEPT ![w] = "merging"], [pc EXCEPT ![w] = "refresh"],
                     [pc EXCEPT ![w] = "conflict"]}
        /\ pc'[w] = "merging" => stored[key[w]] = expected[w]
        /\ pc'[w] = "refresh" => kind[w] = "set"
    BY <1>3 DEF IInv, LoadTable, DeltaConflict, TypeOK
  <2>4. ComparedBeforeEffect' /\ NoTableNoWatermark'
    BY <1>3, <2>3 DEF IInv, LoadTable, TypeOK, StepsOfStore,
       ComparedBeforeEffect,
       NoTableNoWatermark, Matches
  <2>5. EffectsOnce'
    BY <1>3, <2>3 DEF IInv, LoadTable, MayCompare, TypeOK, EffectsOnce
  <2> QED
    BY <2>1, <2>2, <2>4, <2>5 DEF IInv
<1>4. CASE DeltaCommit(w)
  <2>1. TypeOK'
    BY <1>4 DEF IInv, DeltaCommit, StoreWatermark, NotWrittenSince, MayCommit,
       TypeOK, Watermarks
  <2>2. StepsOfStore' /\ LocksAreHeld'
    BY <1>4 DEF IInv, DeltaCommit, StoreWatermark, NotWrittenSince, MayCommit,
       TypeOK, StepsOfStore, LocksAreHeld
  <2>3. /\ pc' \in {[pc EXCEPT ![w] = "ok"], [pc EXCEPT ![w] = "create_raised"],
                     [pc EXCEPT ![w] = "merge_raised"]}
        /\ pc'[w] = "create_raised" => pc[w] = "creating"
    BY <1>4 DEF IInv, DeltaCommit, MayCommit, TypeOK
  <2>4. ComparedBeforeEffect' /\ NoTableNoWatermark'
    BY <1>4, <2>3 DEF IInv, DeltaCommit, TypeOK, StepsOfStore,
       ComparedBeforeEffect,
       NoTableNoWatermark, Matches
  <2>5. EffectsOnce'
    BY <1>4, <2>3 DEF IInv, DeltaCommit, StoreWatermark, TypeOK, EffectsOnce
  <2> QED
    BY <2>1, <2>2, <2>4, <2>5 DEF IInv
<1>5. CASE Diagnose(w)
  <2>1. TypeOK'
    BY <1>5 DEF IInv, Diagnose, DeltaConflict, TypeOK, Watermarks
  <2>2. StepsOfStore' /\ LocksAreHeld'
    BY <1>5 DEF IInv, Diagnose, DeltaConflict, TypeOK, StepsOfStore,
       LocksAreHeld
  <2>3. ComparedBeforeEffect' /\ NoTableNoWatermark' /\ EffectsOnce'
    BY <1>5 DEF IInv, Diagnose, DeltaConflict, TypeOK, StepsOfStore,
       ComparedBeforeEffect,
       NoTableNoWatermark, EffectsOnce, Matches
  <2> QED
    BY <2>1, <2>2, <2>3 DEF IInv
<1>6. CASE DeltaCommitRaises(w) \/ DeltaFails(w)
  <2>1. TypeOK'
    BY <1>6 DEF IInv, DeltaCommitRaises, DeltaFails, TypeOK, Watermarks
  <2>2. StepsOfStore' /\ LocksAreHeld'
    BY <1>6 DEF IInv, DeltaCommitRaises, DeltaFails, TypeOK, StepsOfStore,
       LocksAreHeld
  <2>3. ComparedBeforeEffect'
    BY <1>6 DEF IInv, DeltaCommitRaises, DeltaFails, TypeOK, ComparedBeforeEffect, Matches
  <2>4. NoTableNoWatermark'
    BY <1>6 DEF IInv, DeltaCommitRaises, DeltaFails, NoTableNoWatermark
  <2>5. EffectsOnce'
    BY <1>6 DEF IInv, DeltaCommitRaises, DeltaFails, TypeOK, EffectsOnce
  <2> QED
    BY <2>1, <2>2, <2>3, <2>4, <2>5 DEF IInv
<1> QED
  BY <1>1, <1>2, <1>3, <1>4, <1>5, <1>6

(* A process that dies takes its calls and their locks with it.            *)
LEMMA KillPreserves ==
  ASSUME IInv, NEW p \in Processes, Kill(p)
  PROVE  IInv'
<1> USE ProcessAssumption, NoneAssumption DEF Endings, JsonSteps, DeltaSteps
<1>1. TypeOK'
  BY DEF IInv, Kill, TypeOK
<1>2. StepsOfStore' /\ LocksAreHeld'
  BY DEF IInv, Kill, InCall, TypeOK, StepsOfStore, LocksAreHeld
<1>3. ComparedBeforeEffect' /\ NoTableNoWatermark' /\ EffectsOnce'
  BY DEF IInv, Kill, TypeOK, ComparedBeforeEffect, NoTableNoWatermark,
     EffectsOnce, Matches
<1> QED
  BY <1>1, <1>2, <1>3 DEF IInv

(* One step of any writer, or the death of a process.                      *)
LEMMA StepPreserves == IInv /\ [Next]_vars => IInv'
<1> SUFFICES ASSUME IInv, [Next]_vars PROVE IInv'
  OBVIOUS
<1>1. ASSUME NEW w \in Writers, GetWatermark(w) \/ Proceeds(w) \/ Fails(w) PROVE IInv'
  BY <1>1, JsonPreserves, DuckPreserves, DeltaPreserves DEF Proceeds, Fails
<1>2. ASSUME NEW p \in Processes, Kill(p) PROVE IInv'
  BY <1>2, KillPreserves
<1>3. CASE UNCHANGED vars
  BY <1>3 DEF vars, IInv, TypeOK, StepsOfStore, LocksAreHeld,
     ComparedBeforeEffect,
     NoTableNoWatermark, EffectsOnce, Matches
<1> QED
  BY <1>1, <1>2, <1>3 DEF Next

(* The invariant holds of every behaviour of the stores.                   *)
THEOREM Invariance == Spec => []IInv
  BY InitEstablishes, StepPreserves, PTL DEF Spec

(* The stores keep their state well typed.                                 *)
THEOREM TypeCorrect == Spec => []TypeOK
<1>1. IInv => TypeOK
  BY DEF IInv
<1> QED
  BY <1>1, Invariance, PTL
-----------------------------------------------------------------------------
(* The register starts empty.                                              *)
LEMMA InitRefines == Init => Register!Init
  BY DEF Init, Register!Init, Answer

(* A step that is invisible to the register.                               *)
LEMMA Invisible ==
  ASSUME UNCHANGED <<stored, key, kind, took>>,
         \A w \in Writers : kind[w] = "cas" => expected'[w] = expected[w],
         \A w \in Writers : Answer(w)' = Answer(w)
  PROVE  UNCHANGED Register!vars
  BY DEF Register!vars

(* A call of w is answered, without an effect in this step.                *)
LEMMA AnswersRefines ==
  ASSUME NEW w \in Writers, NEW how \in Endings, TypeOK,
         InCall(w), pc' = [pc EXCEPT ![w] = how],
         UNCHANGED <<stored, key, kind, took, expected>>
  PROVE  Register!Answers(w, how)
  BY DEF Register!Answers, Answer, InCall, Endings, TypeOK

(* A call of w has its effect, and may be answered at once.                *)
LEMMA TakesRefines ==
  ASSUME NEW w \in Writers, IInv, InCall(w),
         kind[w] = "cas" => stored[key[w]] = expected[w] /\ ~took[w],
         StoreWatermark(w, stored),
         UNCHANGED <<key, kind, expected>>,
         NEW step, pc' = [pc EXCEPT ![w] = step], step = "ok" \/ step \notin {"idle"} \union Endings
  PROVE  Register!Take(w) \/ Register!TakeAndSucceed(w)
<1>1. Answer(w) = "pending"
  BY DEF InCall, Answer, Endings
<1>2. CASE step = "ok"
  BY <1>1, <1>2 DEF Register!TakeAndSucceed, StoreWatermark, Answer, Endings,
     IInv, TypeOK
<1>3. CASE step \notin {"idle"} \union Endings
  BY <1>1, <1>3 DEF Register!Take, StoreWatermark, Answer, Endings, IInv, TypeOK
<1> QED
  BY <1>2, <1>3

(* A call that is refused compared its key with a moved watermark.         *)
LEMMA RefusesRefines ==
  ASSUME NEW w \in Writers, TypeOK, InCall(w),
         kind[w] = "cas" => stored[key[w]] # expected[w],
         MovesTo(w, "conflict"),
         UNCHANGED <<stored, key, kind, took, expected>>
  PROVE  Register!Refuse(w)
<1>1. Register!Answers(w, "conflict")
  BY AnswersRefines DEF MovesTo, Endings
<1> QED
  BY <1>1 DEF Register!Refuse

(* A step that moves w on to a step that neither begins nor ends a call.   *)
LEMMA MovesInvisibly ==
  ASSUME NEW w \in Writers, TypeOK, InCall(w),
         NEW step, step \notin {"idle"} \union Endings, MovesTo(w, step),
         UNCHANGED <<stored, key, kind, took>>,
         \A v \in Writers : kind[v] = "cas" => expected'[v] = expected[v]
  PROVE  UNCHANGED Register!vars
<1>1. \A v \in Writers : Answer(v)' = Answer(v)
  BY DEF MovesTo, Answer, InCall, TypeOK
<1> QED
  BY <1>1, Invisible

(* A JSON call takes its effect when the document is replaced.             *)
LEMMA JsonRefines ==
  ASSUME IInv, NEW w \in Writers,
         EnterProcess(w) \/ LockFile(w) \/ ReadDocument(w) \/ ReplaceDocument(w)
           \/ JsonReturns(w) \/ JsonFails(w)
  PROVE  [Register!Next]_(Register!vars)
<1>0. TypeOK
  BY DEF IInv
<1>1. CASE EnterProcess(w) \/ LockFile(w)
  <2>1. /\ InCall(w) /\ UNCHANGED <<stored, key, kind, took, expected>>
        /\ MovesTo(w, "entered") \/ MovesTo(w, "locked")
    BY <1>1 DEF EnterProcess, LockFile, InCall, Endings
  <2> QED
    BY <1>0, <2>1, MovesInvisibly DEF Endings
<1>2. CASE ReadDocument(w)
  <2>1. InCall(w) /\ UNCHANGED <<stored, key, kind, took, expected>>
    BY <1>2 DEF ReadDocument, InCall, Endings
  <2>2. CASE Matches(w, stored)
    BY <1>0, <1>2, <2>1, <2>2, MovesInvisibly DEF ReadDocument, Endings
  <2>3. CASE ~Matches(w, stored)
    <3>1. Register!Refuse(w)
      BY <1>0, <1>2, <2>1, <2>3, RefusesRefines DEF ReadDocument, Matches
    <3> QED
      BY <3>1 DEF Register!Next
  <2> QED
    BY <2>2, <2>3
<1>3. CASE ReplaceDocument(w)
  <2>1. /\ InCall(w) /\ UNCHANGED <<key, kind, expected>>
        /\ pc' = [pc EXCEPT ![w] = "replaced"]
    BY <1>3 DEF ReplaceDocument, InCall, Endings, MovesTo
  <2>2. StoreWatermark(w, stored)
    BY <1>3 DEF ReplaceDocument, IInv, LocksAreHeld
  <2>3. kind[w] = "cas" => stored[key[w]] = expected[w] /\ ~took[w]
    BY <1>3 DEF ReplaceDocument, IInv, LocksAreHeld, ComparedBeforeEffect,
       Matches,
       EffectsOnce, Endings
  <2>4. Register!Take(w) \/ Register!TakeAndSucceed(w)
    BY <2>1, <2>2, <2>3, TakesRefines DEF Endings
  <2> QED
    BY <2>4 DEF Register!Next
<1>4. CASE JsonReturns(w)
  <2>1. took[w]
    BY <1>4 DEF JsonReturns, IInv, EffectsOnce
  <2>2. Register!Answers(w, "ok")
    BY <1>0, <1>4, AnswersRefines DEF JsonReturns, MovesTo, InCall, Endings
  <2> QED
    BY <2>1, <2>2 DEF Register!Succeed, Register!Next
<1>5. CASE JsonFails(w)
  <2>1. Register!Answers(w, "error")
    BY <1>0, <1>5, AnswersRefines DEF JsonFails, MovesTo, InCall, Endings
  <2> QED
    BY <2>1 DEF Register!Fail, Register!Next
<1> QED
  BY <1>1, <1>2, <1>3, <1>4, <1>5

(* DuckDB's transaction takes its effect when it commits.                  *)
LEMMA DuckRefines ==
  ASSUME IInv, NEW w \in Writers,
         GetWatermark(w) \/ BeginTransaction(w) \/ CommitTransaction(w) \/ RollBack(w)
  PROVE  [Register!Next]_(Register!vars)
<1>0. TypeOK
  BY DEF IInv
<1>1. CASE GetWatermark(w)
  <2>1. Register!Observe(w)
    BY <1>0, <1>1 DEF GetWatermark, Register!Observe, Answer, Endings, TypeOK
  <2> QED
    BY <2>1 DEF Register!Next
<1>2. CASE BeginTransaction(w)
  <2>1. InCall(w) /\ UNCHANGED <<stored, key, kind, took, expected>>
    BY <1>2 DEF BeginTransaction, InCall, Endings
  <2>2. CASE Matches(w, stored)
    BY <1>0, <1>2, <2>1, <2>2, MovesInvisibly DEF BeginTransaction, Endings
  <2>3. CASE ~Matches(w, stored)
    <3>1. Register!Refuse(w)
      BY <1>0, <1>2, <2>1, <2>3, RefusesRefines DEF BeginTransaction, Matches
    <3> QED
      BY <3>1 DEF Register!Next
  <2> QED
    BY <2>2, <2>3
<1>3. CASE CommitTransaction(w)
  <2>1. /\ InCall(w) /\ UNCHANGED <<key, kind, expected>>
        /\ StoreWatermark(w, stored)
        /\ pc' = [pc EXCEPT ![w] = "ok"]
    BY <1>3 DEF CommitTransaction, InCall, Endings, MovesTo
  <2>2. kind[w] = "cas" => stored[key[w]] = expected[w] /\ ~took[w]
    BY <1>3 DEF CommitTransaction, NotWrittenSince, IInv, ComparedBeforeEffect,
       Matches,
       EffectsOnce, Endings
  <2>3. Register!Take(w) \/ Register!TakeAndSucceed(w)
    BY <2>1, <2>2, TakesRefines
  <2> QED
    BY <2>3 DEF Register!Next
<1>4. CASE RollBack(w)
  <2>1. Register!Answers(w, "error")
    BY <1>0, <1>4, AnswersRefines DEF RollBack, MovesTo, InCall, Endings
  <2> QED
    BY <2>1 DEF Register!Fail, Register!Next
<1> QED
  BY <1>1, <1>2, <1>3, <1>4

(* Delta's conflict is a refusal, or set_watermark's one silent refresh.   *)
LEMMA ConflictRefines ==
  ASSUME NEW w \in Writers, TypeOK, InCall(w),
         kind[w] = "cas" => stored[key[w]] # expected[w],
         DeltaConflict(w),
         UNCHANGED <<stored, key, kind, took, expected>>
  PROVE  [Register!Next]_(Register!vars)
<1>1. CASE MovesTo(w, "refresh")
  BY <1>1, MovesInvisibly DEF Endings
<1>2. CASE MovesTo(w, "conflict")
  <2>1. Register!Refuse(w)
    BY <1>2, RefusesRefines
  <2> QED
    BY <2>1 DEF Register!Next
<1> QED
  BY <1>1, <1>2 DEF DeltaConflict

(* Delta's commit is the effect, whether it is acknowledged or raises.     *)
LEMMA DeltaRefines ==
  ASSUME IInv, NEW w \in Writers,
         Refresh(w) \/ FindsNoTable(w) \/ LoadTable(w) \/ DeltaCommit(w) \/ Diagnose(w)
           \/ DeltaCommitRaises(w) \/ DeltaFails(w)
  PROVE  [Register!Next]_(Register!vars)
<1>0. TypeOK
  BY DEF IInv
<1>1. CASE Refresh(w)
  <2>1. InCall(w) /\ kind[w] = "set"
    BY <1>1 DEF Refresh, InCall, Endings, IInv, StepsOfStore
  <2>2. \A v \in Writers : kind[v] = "cas" => expected'[v] = expected[v]
    BY <1>0, <1>1, <2>1 DEF Refresh, TypeOK
  <2> QED
    BY <1>0, <1>1, <2>1, <2>2, MovesInvisibly DEF Refresh, Endings
<1>2. CASE FindsNoTable(w)
  BY <1>0, <1>2, MovesInvisibly DEF FindsNoTable, MayCompare, InCall, Endings
<1>3. CASE LoadTable(w)
  <2>1. InCall(w) /\ UNCHANGED <<stored, key, kind, took, expected>>
    BY <1>3 DEF LoadTable, MayCompare, InCall, Endings
  <2>2. CASE stored[key[w]] = expected[w]
    BY <1>0, <1>3, <2>1, <2>2, MovesInvisibly DEF LoadTable, Endings
  <2>3. CASE stored[key[w]] # expected[w]
    BY <1>0, <1>3, <2>1, <2>3, ConflictRefines DEF LoadTable
  <2> QED
    BY <2>2, <2>3
<1>4. CASE DeltaCommit(w)
  <2>1. pc[w] \in {"creating", "merging"} /\ InCall(w)
    BY <1>4 DEF DeltaCommit, MayCommit, InCall, Endings
  <2>2. kind[w] = "cas" => stored[key[w]] = expected[w] /\ ~took[w]
    <3>1. CASE pc[w] = "creating"
      BY <1>0, <1>4, <3>1 DEF DeltaCommit, MayCommit, TypeOK, IInv,
         ComparedBeforeEffect,
         NoTableNoWatermark, EffectsOnce, Endings
    <3>2. CASE pc[w] = "merging"
      BY <1>4, <3>2 DEF DeltaCommit, MayCommit, NotWrittenSince, IInv,
         ComparedBeforeEffect,
         EffectsOnce, Endings
    <3> QED
      BY <2>1, <3>1, <3>2
  <2>3. PICK step \in {"ok", "create_raised", "merge_raised"} : pc' = [pc EXCEPT ![w] = step]
    BY <1>4 DEF DeltaCommit, MovesTo
  <2>4. StoreWatermark(w, stored) /\ UNCHANGED <<key, kind, expected>>
    BY <1>4 DEF DeltaCommit
  <2>5. Register!Take(w) \/ Register!TakeAndSucceed(w)
    BY <2>1, <2>2, <2>3, <2>4, TakesRefines DEF Endings
  <2> QED
    BY <2>5 DEF Register!Next
<1>5. CASE Diagnose(w)
  <2>1. InCall(w) /\ UNCHANGED <<stored, key, kind, took, expected>>
    BY <1>5 DEF Diagnose, InCall, Endings
  <2>2. CASE DeltaConflict(w) /\ stored[key[w]] # expected[w]
    BY <1>0, <2>1, <2>2, ConflictRefines
  <2>3. CASE MovesTo(w, "error")
    <3>1. Register!Answers(w, "error")
      BY <1>0, <2>1, <2>3, AnswersRefines DEF MovesTo, Endings
    <3> QED
      BY <3>1 DEF Register!Fail, Register!Next
  <2> QED
    BY <1>5, <2>2, <2>3 DEF Diagnose, IInv, ComparedBeforeEffect
<1>6. CASE DeltaCommitRaises(w)
  BY <1>0, <1>6, MovesInvisibly DEF DeltaCommitRaises, InCall, Endings
<1>7. CASE DeltaFails(w)
  <2>1. Register!Answers(w, "error")
    BY <1>0, <1>7, AnswersRefines DEF DeltaFails, MovesTo, InCall, Endings
  <2> QED
    BY <2>1 DEF Register!Fail, Register!Next
<1> QED
  BY <1>1, <1>2, <1>3, <1>4, <1>5, <1>6, <1>7

(* A process that dies leaves all its calls unanswered at once.            *)
LEMMA KillRefines ==
  ASSUME IInv, NEW p \in Processes, Kill(p)
  PROVE  [Register!Next]_(Register!vars)
<1> DEFINE dead == {w \in Writers : ProcessOf[w] = p /\ InCall(w)}
<1>1. UNCHANGED <<stored, key, kind, took, expected>>
  BY DEF Kill
<1>2. \A w \in dead : Answer(w) = "pending"
  BY DEF InCall, Answer
<1>3. \A w \in Writers : Answer(w)' = IF w \in dead THEN "dead" ELSE Answer(w)
  BY DEF Kill, Answer, Endings
<1>4. Register!Die(dead)
  BY <1>1, <1>2, <1>3 DEF Register!Die
<1> QED
  BY <1>4 DEF Register!Next

(* Every step of the stores is a step of the register, or invisible to it. *)
LEMMA StepRefines == IInv /\ [Next]_vars => [Register!Next]_(Register!vars)
<1> SUFFICES ASSUME IInv, [Next]_vars PROVE [Register!Next]_(Register!vars)
  OBVIOUS
<1>1. ASSUME NEW w \in Writers, GetWatermark(w) \/ Proceeds(w) \/ Fails(w)
      PROVE  [Register!Next]_(Register!vars)
  BY <1>1, JsonRefines, DuckRefines, DeltaRefines DEF Proceeds, Fails
<1>2. ASSUME NEW p \in Processes, Kill(p) PROVE [Register!Next]_(Register!vars)
  BY <1>2, KillRefines
<1>3. CASE UNCHANGED vars
  BY <1>3, Invisible DEF vars, Answer
<1> QED
  BY <1>1, <1>2, <1>3 DEF Next

(* adapters/files, adapters/duckdb, adapters/delta state_store.py: every   *)
(* store, with its locks, transactions and late acknowledgements, behaves  *)
(* as one register with an atomic compare-and-set per state key.           *)
THEOREM StoresImplementRegister == Spec => ImplementsRegister
<1>1. Init => Register!Init
  BY InitRefines
<1>2. IInv /\ [Next]_vars => [Register!Next]_(Register!vars)
  BY StepRefines
<1>3. Spec => Register!Spec
  BY <1>1, <1>2, Invariance, PTL DEF Spec, Register!Spec
<1> QED
  BY <1>3 DEF ImplementsRegister
-----------------------------------------------------------------------------
(* The theorems about Checkpoint, of the register the stores implement.    *)
RegisterProofs == INSTANCE CheckpointProofs WITH
    store <- stored,
    expected <- [w \in Writers |-> IF kind[w] = "cas" THEN expected[w] ELSE None],
    answer <- [w \in Writers |-> Answer(w)]

(* storage/state_store.py:59-87: through any store, of the compare-and-set *)
(* calls that saw the same watermark of a key at most one is taken.        *)
THEOREM OneCallTakes == Spec => []OneSuccessor
<1>1. Init => RegisterProofs!IInv
  <2>1. Init => RegisterProofs!Init
    BY InitRefines DEF Register!Init, RegisterProofs!Init
  <2> QED
    BY <2>1, RegisterProofs!InitEstablishes
<1>2. IInv /\ RegisterProofs!IInv /\ [Next]_vars => RegisterProofs!IInv'
  <2> SUFFICES ASSUME IInv, RegisterProofs!IInv, [Next]_vars PROVE RegisterProofs!IInv'
    OBVIOUS
  <2>1. [Register!Next]_(Register!vars)
    BY StepRefines
  <2>2. [RegisterProofs!Next]_(RegisterProofs!vars)
    BY <2>1
    DEF Register!vars, RegisterProofs!vars, Register!Next, RegisterProofs!Next,
        Register!Observe, RegisterProofs!Observe, Register!Take, RegisterProofs!Take,
        Register!TakeAndSucceed, RegisterProofs!TakeAndSucceed,
        Register!Succeed, RegisterProofs!Succeed, Register!Refuse, RegisterProofs!Refuse,
        Register!Fail, RegisterProofs!Fail, Register!Answers, RegisterProofs!Answers,
        Register!Die, RegisterProofs!Die
  <2> QED
    BY <2>2, NoneAssumption, RegisterProofs!StepPreserves
<1>3. RegisterProofs!IInv => OneSuccessor
  BY DEF RegisterProofs!IInv, RegisterProofs!OneSuccessor, OneSuccessor,
     Register!OneSuccessor,
     RegisterProofs!OnlyCas, Register!OnlyCas
<1> QED
  BY <1>1, <1>2, <1>3, Invariance, PTL DEF Spec
=============================================================================
