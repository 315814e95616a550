---------------------------- MODULE MCExtraction ----------------------------
(* Instances of Extraction for TLC.                                        *)
EXTENDS Extraction, TLC

Regular(n) == [last |-> n, tail |-> End, undated |-> {}]

(* Windows of every length, an undated record, loops and a foreign link.   *)
MCSources ==
    {Regular(n) : n \in Pages}
    \union {[last |-> 2, tail |-> End, undated |-> {2}],
            [last |-> 2, tail |-> Foreign, undated |-> {}],
            [last |-> 2, tail |-> 1, undated |-> {}],
            [last |-> 3, tail |-> 2, undated |-> {}]}

(* AutoPagination keeps its detection in the connector: its extractions    *)
(* run one after the other.                                                *)
MCScenarios ==
    [pagination : {"auto"}, dates : {"tracked", "filtered"}, interleave : {FALSE}]
    \union [pagination : {"link", "number"}, dates : {"ignored", "tracked"},
            interleave : {TRUE}]

(* InterleavedAuto: two windows of different length, drawn in turns.       *)
RegularSources == {Regular(n) : n \in Pages}
InterleavedAuto ==
    [pagination : {"auto"}, dates : {"tracked"}, interleave : {TRUE}]

Symmetric == Permutations(Sessions)
=============================================================================
