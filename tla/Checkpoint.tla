----------------------------- MODULE Checkpoint -----------------------------
(***************************************************************************)
(* What a StateStore promises to the incremental strategies that share it  *)
(* (storage/state_store.py): each state key holds one watermark, and a     *)
(* writer replaces it only if it still is the watermark the writer saw.    *)
(* A call has one effect, at one instant between its start and its answer. *)
(* set_watermark, which asks for no such check, may strike more than once. *)
(*                                                                         *)
(* A writer makes one call, with a watermark of its own: the writer's name *)
(* stands for the watermark, which carries the instant of the commit.      *)
(***************************************************************************)
CONSTANTS
    Writers,  \* calls of compare_and_set_watermark or set_watermark
    Keys,     \* state keys
    None      \* no watermark yet; not a writer

VARIABLES
    store,     \* state key -> its watermark
    key,       \* writer -> the state key it works on
    kind,      \* writer -> "cas" or "set"
    expected,  \* writer -> the watermark a compare-and-set expects
    took,      \* writer -> whether its watermark was ever stored
    answer     \* writer -> "none", "pending" or how its call ended

vars == <<store, key, kind, expected, took, answer>>

Watermarks == Writers \union {None}
Endings == {"ok", "conflict", "error", "dead"}

Init ==
    /\ store = [k \in Keys |-> None]
    /\ key \in [Writers -> Keys]
    /\ kind \in [Writers -> {"cas", "set"}]
    /\ expected = [w \in Writers |-> None]
    /\ took = [w \in Writers |-> FALSE]
    /\ answer = [w \in Writers |-> "none"]

(* get_watermark, from which a window and later the call are derived.      *)
Observe(w) ==
    /\ answer[w] = "none"
    /\ expected' = IF kind[w] = "cas"
                   THEN [expected EXCEPT ![w] = store[key[w]]] ELSE expected
    /\ answer' = [answer EXCEPT ![w] = "pending"]
    /\ UNCHANGED <<store, key, kind, took>>

(* The effect of the call.                                                 *)
Take(w) ==
    /\ answer[w] = "pending"
    /\ kind[w] = "cas" => store[key[w]] = expected[w] /\ ~took[w]
    /\ store' = [store EXCEPT ![key[w]] = w]
    /\ took' = [took EXCEPT ![w] = TRUE]
    /\ UNCHANGED <<key, kind, expected, answer>>

Answers(w, how) ==
    /\ answer[w] = "pending"
    /\ answer' = [answer EXCEPT ![w] = how]
    /\ UNCHANGED <<store, key, kind, expected, took>>

Succeed(w) == took[w] /\ Answers(w, "ok")
Refuse(w) == (kind[w] = "cas" => store[key[w]] # expected[w]) /\ Answers(w, "conflict")
Fail(w) == Answers(w, "error") \/ Answers(w, "dead")

(* A store may take the watermark and answer in one step.                  *)
TakeAndSucceed(w) ==
    /\ answer[w] = "pending"
    /\ kind[w] = "cas" => store[key[w]] = expected[w] /\ ~took[w]
    /\ store' = [store EXCEPT ![key[w]] = w]
    /\ took' = [took EXCEPT ![w] = TRUE]
    /\ answer' = [answer EXCEPT ![w] = "ok"]
    /\ UNCHANGED <<key, kind, expected>>

(* A process dies with all the calls it had pending.                       *)
Die(dead) ==
    /\ \A w \in dead : answer[w] = "pending"
    /\ answer' = [w \in Writers |-> IF w \in dead THEN "dead" ELSE answer[w]]
    /\ UNCHANGED <<store, key, kind, expected, took>>

Next ==
    \/ \E w \in Writers : \/ Observe(w) \/ Take(w) \/ TakeAndSucceed(w)
                          \/ Succeed(w) \/ Refuse(w) \/ Fail(w)
    \/ \E dead \in SUBSET Writers : Die(dead)

Spec == Init /\ [][Next]_vars
-----------------------------------------------------------------------------
TypeOK ==
    /\ store \in [Keys -> Watermarks]
    /\ key \in [Writers -> Keys]
    /\ kind \in [Writers -> {"cas", "set"}]
    /\ expected \in [Writers -> Watermarks]
    /\ took \in [Writers -> BOOLEAN]
    /\ answer \in [Writers -> {"none", "pending"} \union Endings]

(* storage/state_store.py:59-87: of the compare-and-set calls that saw the *)
(* same watermark of a key, at most one is taken, whatever was answered.   *)
(* A plain set_watermark on the same key gives up this protection.         *)
OnlyCas(k) == \A w \in Writers : key[w] = k => kind[w] = "cas"
OneSuccessor ==
    \A v, w \in Writers :
        /\ took[v] /\ took[w] /\ key[v] = key[w] /\ OnlyCas(key[v])
        /\ expected[v] = expected[w]
        => v = w
=============================================================================
