-------------------------- MODULE CheckpointProofs --------------------------
(* What Checkpoint promises, proved for every set of writers and keys.     *)
EXTENDS Checkpoint, TLAPS

(* A stored watermark was taken from a writer of its key.                  *)
StoredWasTaken ==
    \A k \in Keys : store[k] # None => took[store[k]] /\ key[store[k]] = k

(* A call takes effect, and sees a watermark, only after it was made; what *)
(* it saw had been stored.                                                 *)
CallsInOrder ==
    /\ \A w \in Writers : answer[w] = "none" => ~took[w]
    /\ \A w \in Writers : expected[w] # None => took[expected[w]]

(* A watermark that a compare-and-set replaced does not come back.         *)
NeverReturns ==
    \A w \in Writers : took[w] /\ OnlyCas(key[w]) => store[key[w]] # expected[w]

IInv ==
    /\ TypeOK
    /\ StoredWasTaken
    /\ CallsInOrder
    /\ NeverReturns
    /\ OneSuccessor

(* Nothing was stored, and nobody has called.                              *)
LEMMA InitEstablishes == Init => IInv
  BY DEF Init, IInv, TypeOK, StoredWasTaken, CallsInOrder, NeverReturns,
         OneSuccessor, Watermarks

(* Take and TakeAndSucceed have the same effect on the register.           *)
Effect(w) ==
    /\ answer[w] = "pending"
    /\ kind[w] = "cas" => store[key[w]] = expected[w] /\ ~took[w]
    /\ store' = [store EXCEPT ![key[w]] = w]
    /\ took' = [took EXCEPT ![w] = TRUE]
    /\ answer' \in {answer, [answer EXCEPT ![w] = "ok"]}
    /\ UNCHANGED <<key, kind, expected>>

(* What the steps of the register do to the value and to the callers.    *)
LEMMA StepKinds ==
  ASSUME TypeOK, [Next]_vars
  PROVE  \/ \E w \in Writers : Observe(w)
         \/ \E w \in Writers : Effect(w)
         \/ /\ UNCHANGED <<store, key, kind, expected, took>>
            /\ answer' \in [Writers -> {"none", "pending"} \union Endings]
            /\ \A w \in Writers : answer'[w] = "none" => answer[w] = "none"
<1>1. ASSUME NEW w \in Writers, Take(w) \/ TakeAndSucceed(w)
      PROVE  Effect(w)
  BY <1>1 DEF Take, TakeAndSucceed, Effect
<1>2. ASSUME NEW w \in Writers, Succeed(w) \/ Refuse(w) \/ Fail(w)
      PROVE  /\ UNCHANGED <<store, key, kind, expected, took>>
             /\ answer' \in [Writers -> {"none", "pending"} \union Endings]
             /\ \A v \in Writers : answer'[v] = "none" => answer[v] = "none"
  BY <1>2 DEF Succeed, Refuse, Fail, Answers, TypeOK, Endings
<1>3. ASSUME NEW dead \in SUBSET Writers, Die(dead)
      PROVE  /\ UNCHANGED <<store, key, kind, expected, took>>
             /\ answer' \in [Writers -> {"none", "pending"} \union Endings]
             /\ \A v \in Writers : answer'[v] = "none" => answer[v] = "none"
  BY <1>3 DEF Die, TypeOK, Endings
<1>4. CASE UNCHANGED vars
  BY <1>4 DEF vars, TypeOK
<1> QED
  BY <1>1, <1>2, <1>3, <1>4 DEF Next

(* One step preserves the invariant; the effect of a compare-and-set is    *)
(* the interesting one: its watermark is new, so nobody has seen it.       *)
LEMMA StepPreserves ==
  ASSUME None \notin Writers, IInv, [Next]_vars
  PROVE  IInv'
<1> USE DEF Watermarks
<1>1. TypeOK
  BY DEF IInv
<1>2. CASE \E w \in Writers : Observe(w)
  <2>1. PICK w \in Writers : Observe(w)
    BY <1>2
  <2>2. /\ UNCHANGED <<store, key, kind, took>>
        /\ answer[w] = "none" /\ answer' = [answer EXCEPT ![w] = "pending"]
        /\ \A v \in Writers \ {w} : expected'[v] = expected[v]
        /\ expected' \in [Writers -> Writers \union {None}]
        /\ expected'[w] \in {expected[w], store[key[w]]}
    BY <2>1, <1>1 DEF Observe, TypeOK
  <2>3. TypeOK'
    BY <2>2, <1>1 DEF TypeOK
  <2>4. ~took[w] /\ key[w] \in Keys
    BY <2>2, <1>1 DEF IInv, CallsInOrder, TypeOK
  <2>5. StoredWasTaken'
    BY <2>2 DEF IInv, StoredWasTaken
  <2>6. CallsInOrder'
    BY <2>2, <2>4, <1>1 DEF IInv, CallsInOrder, StoredWasTaken, TypeOK
  <2>7. NeverReturns' /\ OneSuccessor'
    BY <2>2, <2>4 DEF IInv, NeverReturns, OneSuccessor, OnlyCas
  <2> QED
    BY <2>3, <2>5, <2>6, <2>7 DEF IInv
<1>3. CASE \E w \in Writers : Effect(w)
  <2>1. PICK w \in Writers : Effect(w)
    BY <1>3
  <2>2. key[w] \in Keys /\ store' = [store EXCEPT ![key[w]] = w]
        /\ took' = [took EXCEPT ![w] = TRUE] /\ UNCHANGED <<key, kind, expected>>
    BY <2>1, <1>1 DEF Effect, TypeOK
  <2>3. TypeOK'
    BY <2>1, <2>2, <1>1 DEF Effect, TypeOK, Endings
  <2>4. StoredWasTaken' /\ CallsInOrder'
    BY <2>1, <2>2, <1>1 DEF IInv, StoredWasTaken, CallsInOrder, Effect, TypeOK
  <2>5. ASSUME OnlyCas(key[w])
        PROVE  /\ \A v \in Writers : expected[v] # w
               /\ \A v \in Writers : took[v] /\ key[v] = key[w]
                      => expected[v] # expected[w]
    <3>1. ~took[w] /\ store[key[w]] = expected[w]
      BY <2>1, <2>5 DEF Effect, OnlyCas
    <3>2. \A v \in Writers : expected[v] # w
      BY <3>1 DEF IInv, CallsInOrder
    <3> QED
      BY <3>1, <3>2, <2>5 DEF IInv, NeverReturns
  <2>6. NeverReturns'
    BY <2>2, <2>5, <1>1 DEF IInv, NeverReturns, OnlyCas, TypeOK
  <2>7. OneSuccessor'
    BY <2>2, <2>5, <1>1 DEF IInv, OneSuccessor, OnlyCas, TypeOK
  <2> QED
    BY <2>3, <2>4, <2>6, <2>7 DEF IInv
<1>4. CASE /\ UNCHANGED <<store, key, kind, expected, took>>
           /\ answer' \in [Writers -> {"none", "pending"} \union Endings]
           /\ \A w \in Writers : answer'[w] = "none" => answer[w] = "none"
  BY <1>4 DEF IInv, TypeOK, StoredWasTaken, CallsInOrder, NeverReturns,
              OneSuccessor, OnlyCas
<1> QED
  BY <1>1, <1>2, <1>3, <1>4, StepKinds

(* storage/state_store.py:59-87: of the compare-and-set calls that saw the *)
(* same watermark of a key, at most one is taken.                          *)
THEOREM OneCallTakes ==
  ASSUME None \notin Writers
  PROVE  Spec => []OneSuccessor
<1>1. Init => IInv
  BY InitEstablishes
<1>2. IInv /\ [Next]_vars => IInv'
  BY StepPreserves
<1>3. IInv => OneSuccessor
  BY DEF IInv
<1> QED
  BY <1>1, <1>2, <1>3, PTL DEF Spec
=============================================================================
