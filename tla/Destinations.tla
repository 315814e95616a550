---------------------------- MODULE Destinations ----------------------------
(***************************************************************************)
(* The three official destinations, each load in its own steps:            *)
(*   duckdb   storage/duckdb_loader.py: BEGIN, DELETE, INSERTs, COMMIT     *)
(*   parquet  adapters/parquet/destination.py: a staged file renamed over  *)
(*            the key's file, or a staged directory that takes the place   *)
(*            of the endpoint's directory                                  *)
(*   delta    adapters/delta/destination.py: one commit of the table, that *)
(*            replaces the key's rows or creates the table                 *)
(* A load may fail or its process die between any two steps.               *)
(***************************************************************************)
EXTENDS FiniteSets

CONSTANTS
    Loads,      \* calls of load_with_context for one endpoint
    Keys,       \* ingestion keys
    Scenarios,  \* the destinations and environments to consider
    None        \* no backup

(* A scenario fixes the destination, its write mode, and which loads may   *)
(* be under way together: none, those of different keys, or any.           *)
Scenario == [backend : {"duckdb", "parquet", "delta"},
             mode : {"append", "overwrite"},
             overlap : {"none", "other keys", "any"}]

ASSUME ScenarioAssumption == Scenarios \subseteq Scenario
ASSUME NoneAssumption == None \notin Loads /\ \A rows \in SUBSET Loads : rows # None

VARIABLES
    scenario,  \* the scenario of this behaviour, fixed at the start
    key,       \* load -> its ingestion key
    hasRows,   \* load -> whether its stream yields a record at all
    exists,    \* whether the endpoint's directory or Delta table exists
    table,     \* the loads whose rows it holds
    seen,      \* load -> the table as its transaction or check found it
    found,     \* load -> whether it found the directory or table
    backup,    \* load -> the directory it moved away, or None
    moved,     \* history: the load that last moved the directory away
    applied,   \* history: load -> whether it took effect
    pc         \* load -> where it stands, or how it ended

vars == <<scenario, key, hasRows, exists, table, seen, found, backup,
          moved, applied, pc>>

Endings == {"ok", "error", "crashed"}
Loading(l) == pc[l] \notin {"idle"} \union Endings
Is(backend, mode) == scenario.backend = backend /\ scenario.mode = mode

RowsNamedByKey(l) == IF hasRows[l] THEN {key[l]} ELSE {}
Rows(l) == IF hasRows[l] THEN {l} ELSE {}
SameKey(l, rows) == {m \in rows : key[m] = key[l]}

MovesTo(l, step) == pc' = [pc EXCEPT ![l] = step]
Applied(l) == applied' = [applied EXCEPT ![l] = TRUE]

Init ==
    /\ scenario \in Scenarios
    /\ key \in [Loads -> Keys]
    /\ hasRows \in [Loads -> BOOLEAN]
    /\ exists = FALSE
    /\ table = {}
    /\ seen = [l \in Loads |-> {}]
    /\ found = [l \in Loads |-> FALSE]
    /\ backup = [l \in Loads |-> None]
    /\ moved = None
    /\ applied = [l \in Loads |-> FALSE]
    /\ pc = [l \in Loads |-> "idle"]

MayOverlap(l, m) ==
    \/ scenario.overlap = "any"
    \/ scenario.overlap = "other keys" /\ key[l] # key[m]

(* DuckDB: BEGIN fixes the snapshot and DELETE runs in it.  Parquet: the   *)
(* staging file or directory is made.  Delta: the first batch is drawn.    *)
Begin(l) ==
    /\ pc[l] = "idle"
    /\ \A m \in Loads : Loading(m) => MayOverlap(l, m)
    /\ seen' = [seen EXCEPT ![l] = table]
    /\ MovesTo(l, "filling")
    /\ UNCHANGED <<scenario, key, hasRows, exists, table, found, backup, moved, applied>>

(* Every batch was inserted, or written to the staged file.                *)
Fill(l) ==
    /\ pc[l] = "filling"
    /\ scenario.backend # "delta"
    /\ MovesTo(l, "filled")
    /\ UNCHANGED <<scenario, key, hasRows, exists, table, seen, found,
                   backup, moved, applied>>

(* Extraction or writing raises: rolled back, or the staging removed.      *)
Fail(l) ==
    /\ pc[l] \in {"filling", "filled", "checked"}
    /\ MovesTo(l, "error")
    /\ UNCHANGED <<scenario, key, hasRows, exists, table, seen, found,
                   backup, moved, applied>>

Crash(l) ==
    /\ Loading(l)
    /\ MovesTo(l, "crashed")
    /\ UNCHANGED <<scenario, key, hasRows, exists, table, seen, found,
                   backup, moved, applied>>
-----------------------------------------------------------------------------
(* DuckDB: what DELETE removed in the snapshot must still be there; rows   *)
(* committed since are neither seen nor in conflict.                       *)
Deletes(l) == IF scenario.mode = "overwrite" THEN seen[l] ELSE SameKey(l, seen[l])

CommitTransaction(l) ==
    /\ scenario.backend = "duckdb" /\ pc[l] = "filled"
    /\ Deletes(l) \subseteq table
    /\ exists' = TRUE
    /\ table' = (table \ Deletes(l)) \union Rows(l)
    /\ Applied(l)
    /\ MovesTo(l, "ok")
    /\ UNCHANGED <<scenario, key, hasRows, seen, found, backup, moved>>
-----------------------------------------------------------------------------
(* Parquet, APPEND: the staged file takes the name of its key, and the     *)
(* file of an empty retry is removed.                                      *)
KeptByEmptyRetry(l) == IF hasRows[l] THEN table \ SameKey(l, table) ELSE table
KeptByAppend(l) == table \ SameKey(l, table)

PromoteFile(l) ==
    /\ Is("parquet", "append") /\ pc[l] = "filled"
    /\ exists' = TRUE
    /\ table' = KeptByAppend(l) \union Rows(l)
    /\ Applied(l)
    /\ MovesTo(l, "ok")
    /\ UNCHANGED <<scenario, key, hasRows, seen, found, backup, moved>>

(* Parquet, OVERWRITE (_promote_overwrite): had_previous is read once.     *)
CheckPrevious(l) ==
    /\ Is("parquet", "overwrite") /\ pc[l] = "filled"
    /\ found' = [found EXCEPT ![l] = exists]
    /\ MovesTo(l, "checked")
    /\ UNCHANGED <<scenario, key, hasRows, exists, table, seen, backup, moved, applied>>

(* The rename fails if another load has moved the directory meanwhile;     *)
(* then there is nothing of its own to restore.                            *)
MoveAway(l) ==
    /\ Is("parquet", "overwrite") /\ pc[l] = "checked" /\ found[l]
    /\ \/ /\ exists
          /\ exists' = FALSE
          /\ backup' = [backup EXCEPT ![l] = table]
          /\ table' = {}
          /\ moved' = l
          /\ MovesTo(l, "moved")
       \/ /\ ~exists
          /\ MovesTo(l, "error")
          /\ UNCHANGED <<exists, table, backup, moved>>
    /\ UNCHANGED <<scenario, key, hasRows, seen, found, applied>>

(* The staged directory can be renamed to a missing or an empty one.       *)
MayInstall(l) == ~exists \/ table = {}
ReadyToInstall(l) == pc[l] = "moved" \/ (pc[l] = "checked" /\ ~found[l])

InstallDirectory(l) ==
    /\ Is("parquet", "overwrite")
    /\ ReadyToInstall(l) /\ MayInstall(l)
    /\ exists' = TRUE
    /\ table' = Rows(l)
    /\ Applied(l)
    /\ MovesTo(l, "installed")
    /\ UNCHANGED <<scenario, key, hasRows, seen, found, backup, moved>>

(* The rename raises: if the place is free, the own backup goes back to it.*)
InstallFails(l) ==
    /\ Is("parquet", "overwrite")
    /\ ReadyToInstall(l)
    /\ MovesTo(l, IF ~exists /\ backup[l] # None THEN "restoring" ELSE "error")
    /\ UNCHANGED <<scenario, key, hasRows, exists, table, seen, found,
                   backup, moved, applied>>

PutBack(l) ==
    /\ Is("parquet", "overwrite")
    /\ pc[l] = "restoring" /\ MayInstall(l)
    /\ exists' = TRUE
    /\ table' = backup[l]
    /\ backup' = [backup EXCEPT ![l] = None]
    /\ MovesTo(l, "error")
    /\ UNCHANGED <<scenario, key, hasRows, seen, found, moved, applied>>

(* This rename is in the handler, where nothing catches what it raises: for*)
(* the reason the first one failed, or because the place has been taken.   *)
BackupDropped(l) == backup' = [backup EXCEPT ![l] = None]
BackupLeft(l) == UNCHANGED backup

PutBackFails(l) ==
    /\ Is("parquet", "overwrite")
    /\ pc[l] = "restoring"
    /\ BackupLeft(l)
    /\ MovesTo(l, "error")
    /\ UNCHANGED <<scenario, key, hasRows, exists, table, seen, found, moved, applied>>

(* The backup is removed, or removing it raises after the promotion.       *)
RemoveBackup(l) ==
    /\ pc[l] = "installed"
    /\ \/ /\ backup' = [backup EXCEPT ![l] = None]
          /\ MovesTo(l, "ok")
       \/ /\ backup[l] # None
          /\ MovesTo(l, "error")
          /\ UNCHANGED backup
    /\ UNCHANGED <<scenario, key, hasRows, exists, table, seen, found, moved, applied>>
-----------------------------------------------------------------------------
(* Delta (_write, _commit_empty): whether the table exists is checked      *)
(* first; the records are drained while the commit is prepared.            *)
CheckTable(l) ==
    /\ scenario.backend = "delta" /\ pc[l] = "filling"
    /\ found' = [found EXCEPT ![l] = exists]
    /\ seen' = [seen EXCEPT ![l] = table]
    /\ MovesTo(l, "checked")
    /\ UNCHANGED <<scenario, key, hasRows, exists, table, backup, moved, applied>>

(* mode="overwrite" with the key's predicate, or delete, on a table that   *)
(* was found; mode="append" otherwise, and an empty load then does nothing.*)
ReplacedInDelta(l) ==
    IF scenario.mode = "overwrite" THEN table
    ELSE IF found[l] THEN SameKey(l, table) ELSE {}
NoConflict(l) ==
    IF scenario.mode = "overwrite" THEN table = seen[l]
    ELSE found[l] => SameKey(l, table) = SameKey(l, seen[l])

DeltaCommit(l) ==
    /\ scenario.backend = "delta" /\ pc[l] = "checked"
    /\ NoConflict(l)
    /\ exists' = (exists \/ hasRows[l] \/ scenario.mode = "overwrite")
    /\ table' = (table \ ReplacedInDelta(l)) \union Rows(l)
    /\ Applied(l)
    /\ MovesTo(l, "ok") \/ MovesTo(l, "error")
    /\ UNCHANGED <<scenario, key, hasRows, seen, found, backup, moved>>
-----------------------------------------------------------------------------
Next ==
    \E l \in Loads :
        \/ Begin(l) \/ Fill(l) \/ Fail(l) \/ Crash(l)
        \/ CommitTransaction(l) \/ PromoteFile(l)
        \/ CheckPrevious(l) \/ MoveAway(l) \/ InstallDirectory(l)
        \/ InstallFails(l) \/ PutBack(l) \/ PutBackFails(l) \/ RemoveBackup(l)
        \/ CheckTable(l) \/ DeltaCommit(l)

Spec == Init /\ [][Next]_vars
-----------------------------------------------------------------------------
TypeOK ==
    /\ scenario \in Scenarios
    /\ key \in [Loads -> Keys]
    /\ hasRows \in [Loads -> BOOLEAN]
    /\ exists \in BOOLEAN
    /\ table \subseteq Loads
    /\ seen \in [Loads -> SUBSET Loads]
    /\ found \in [Loads -> BOOLEAN]
    /\ backup \in [Loads -> ({None} \union SUBSET Loads)]
    /\ moved \in Loads \union {None}
    /\ applied \in [Loads -> BOOLEAN]
    /\ pc \in [Loads -> {"idle", "filling", "filled", "checked", "moved",
                         "restoring", "installed"} \union Endings]

(* The rows of the endpoint: in its directory or, where a load has moved   *)
(* that away, in the backup, from which a user may have to put them back.  *)
Content == IF exists \/ moved = None THEN table ELSE backup[moved]

(* Which loads may overlap without breaking the promise.  Transactions of  *)
(* DuckDB, and first loads into Delta, do not see the rows of each other's *)
(* key; and a load that fails to install a Parquet directory puts back     *)
(* what it moved away, although others may have replaced that since.       *)
Serves ==
    \/ scenario.overlap = "none"
    \/ scenario.overlap = "other keys" /\ scenario.mode = "append"
    \/ Is("parquet", "append") \/ Is("delta", "overwrite")

Outcome(l) ==
    IF pc[l] = "idle" THEN "none" ELSE IF pc[l] \in Endings THEN pc[l] ELSE "loading"

(* Nothing is promised, and nothing shown, of the other overlaps.          *)
Promised == INSTANCE Bronze WITH
    mode <- scenario.mode,
    table <- IF Serves THEN Content ELSE {},
    applied <- [l \in Loads |-> Serves /\ applied[l]],
    outcome <- [l \in Loads |-> IF Serves THEN Outcome(l) ELSE "none"]

(* Every destination applies each load as a whole or not at all.           *)
ImplementsBronze == Promised!Spec

(* No dataset is lost for good: the endpoint's directory is missing only   *)
(* while the load that moved it away is at work, or after that load ended  *)
(* in an error or crashed, never after one that succeeded; and its backup  *)
(* then holds the rows, for all that others, failing as well, did since.   *)
BackupOutlivesGap ==
    ~exists /\ moved # None =>
        /\ backup[moved] # None
        /\ pc[moved] \in {"moved", "restoring", "error", "crashed"}
=============================================================================
