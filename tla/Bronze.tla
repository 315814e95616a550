------------------------------- MODULE Bronze -------------------------------
(***************************************************************************)
(* What a Destination promises to the Pipeline (storage/destination.py,    *)
(* docs/architecture.md:164-181): a load reaches the table as a whole, at  *)
(* one instant between its start and its answer, or not at all.  APPEND    *)
(* replaces what the table holds under the load's ingestion key, OVERWRITE *)
(* everything.                                                             *)
(*                                                                         *)
(* The rows of a load always appear together: the load stands for them.    *)
(***************************************************************************)
CONSTANTS
    Loads,  \* calls of Destination.load_with_context for one endpoint
    Keys    \* ingestion keys

VARIABLES
    mode,     \* "append" or "overwrite"
    key,      \* load -> its ingestion key
    hasRows,  \* load -> whether its stream yields a record at all
    table,    \* the loads whose rows a reader of the table finds
    applied,  \* load -> whether it took effect
    outcome   \* load -> "none", "loading" or how it ended

vars == <<mode, key, hasRows, table, applied, outcome>>

Rows(l) == IF hasRows[l] THEN {l} ELSE {}
Replaced(l) == IF mode = "overwrite" THEN table ELSE {m \in table : key[m] = key[l]}

Init ==
    /\ mode \in {"append", "overwrite"}
    /\ key \in [Loads -> Keys]
    /\ hasRows \in [Loads -> BOOLEAN]
    /\ table = {}
    /\ applied = [l \in Loads |-> FALSE]
    /\ outcome = [l \in Loads |-> "none"]

Begin(l) ==
    /\ outcome[l] = "none"
    /\ outcome' = [outcome EXCEPT ![l] = "loading"]
    /\ UNCHANGED <<mode, key, hasRows, table, applied>>

Applies(l) ==
    /\ outcome[l] = "loading" /\ ~applied[l]
    /\ table' = (table \ Replaced(l)) \union Rows(l)
    /\ applied' = [applied EXCEPT ![l] = TRUE]
    /\ UNCHANGED <<mode, key, hasRows>>

Apply(l) == Applies(l) /\ UNCHANGED outcome
ApplyAndEnd(l, how) == Applies(l) /\ outcome' = [outcome EXCEPT ![l] = how]

End(l, how) ==
    /\ outcome[l] = "loading"
    /\ how = "ok" => applied[l]
    /\ outcome' = [outcome EXCEPT ![l] = how]
    /\ UNCHANGED <<mode, key, hasRows, table, applied>>

Next ==
    \E l \in Loads :
        \/ Begin(l) \/ Apply(l)
        \/ \E how \in {"ok", "error", "crashed"} : ApplyAndEnd(l, how) \/ End(l, how)

Spec == Init /\ [][Next]_vars
=============================================================================
