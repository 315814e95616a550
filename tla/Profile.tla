------------------------------- MODULE Profile -------------------------------
(***************************************************************************)
(* profile_records (profiling/engine.py) for one field: presence, nulls,   *)
(* types and the adaptive cardinality, which counts exactly up to a        *)
(* threshold and then goes on with a HyperLogLog sketch.                   *)
(*                                                                         *)
(* A value is a record: its JSON type and its text.  The digest of a value *)
(* selects a register and has a rank; both are given.                      *)
(***************************************************************************)
EXTENDS Integers, FiniteSets

CONSTANTS
    Values,      \* [type, text], null included
    Null,        \* the null value, one of Values
    Missing,     \* the record does not have the field
    Registers,   \* registers of the sketch
    RegisterOf,  \* value -> the register of its digest
    RankOf,      \* value -> the rank of its digest
    Threshold    \* _EXACT_CARDINALITY_THRESHOLD

(* What the constants must satisfy; assumed where they are given.          *)
ConstantsFit ==
    /\ Null \in Values /\ Missing \notin Values
    /\ RegisterOf \in [Values -> Registers]
    /\ RankOf \in [Values -> Nat \ {0}]
    /\ Threshold \in Nat

VARIABLES
    analyzed,   \* records_analyzed
    present,    \* records_present
    nulls,      \* nulls
    types,      \* the non-null types observed
    exact,      \* _AdaptiveCardinality._exact
    sketching,  \* whether _exact was given up for the sketch
    registers,  \* registers of the sketch
    profiled    \* history: the values that were analyzed

vars == <<analyzed, present, nulls, types, exact, sketching, registers, profiled>>

NoRanks == [i \in Registers |-> 0]

Init ==
    /\ analyzed = 0 /\ present = 0 /\ nulls = 0 /\ types = {}
    /\ exact = {} /\ sketching = FALSE /\ registers = NoRanks
    /\ profiled = {}

(* add_hash: a register keeps the highest rank it was given.               *)
LastRank(regs, v) == [regs EXCEPT ![RegisterOf[v]] = RankOf[v]]
AddHash(regs, v) ==
    [regs EXCEPT ![RegisterOf[v]] = IF RankOf[v] > @ THEN RankOf[v] ELSE @]

(* The ranks of a set of digests, in whatever order they are added.        *)
Sketch(vs) ==
    [i \in Registers |->
        IF \A v \in vs : RegisterOf[v] # i THEN 0
        ELSE CHOOSE r \in {RankOf[v] : v \in {w \in vs : RegisterOf[w] = i}} :
                \A v \in vs : RegisterOf[v] = i => RankOf[v] <= r]

(* _AdaptiveCardinality.add: the value that exceeds the threshold is among *)
(* the exact digests the sketch starts with.                               *)
WithoutNewest(v) == exact
ExactWith(v) == exact \union {v}

AddValue(v) ==
    IF sketching
    THEN registers' = AddHash(registers, v) /\ UNCHANGED <<exact, sketching>>
    ELSE IF Cardinality(exact \union {v}) <= Threshold
    THEN exact' = ExactWith(v) /\ UNCHANGED <<sketching, registers>>
    ELSE /\ registers' = Sketch(ExactWith(v))
         /\ sketching' = TRUE
         /\ exact' = {}

(* One record: its value at the field, or Missing.                         *)
Analyze(v) ==
    /\ analyzed' = analyzed + 1
    /\ IF v = Missing
       THEN UNCHANGED <<present, nulls, types, exact, sketching, registers, profiled>>
       ELSE /\ present' = present + 1
            /\ nulls' = IF v = Null THEN nulls + 1 ELSE nulls
            /\ types' = IF v = Null THEN types ELSE types \union {v.type}
            /\ profiled' = profiled \union {v}
            /\ AddValue(v)

Next == \E v \in Values \union {Missing} : Analyze(v)

Spec == Init /\ [][Next]_vars
-----------------------------------------------------------------------------
(* profiling/engine.py:136-165: an exact cardinality is that of the values *)
(* seen; past the threshold the estimate rests on the ranks of all of them *)
(* and on nothing else, so it depends on no order and loses no value at    *)
(* the change.                                                             *)
CardinalityCoversAll ==
    IF sketching
    THEN Cardinality(profiled) > Threshold /\ registers = Sketch(profiled)
    ELSE exact = profiled /\ Cardinality(profiled) <= Threshold

TypeOK ==
    /\ {analyzed, present, nulls} \subseteq Nat
    /\ present <= analyzed /\ nulls <= present
    /\ exact \subseteq Values /\ profiled \subseteq Values
    /\ sketching \in BOOLEAN
    /\ registers \in [Registers -> Nat]
=============================================================================
