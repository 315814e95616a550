---------------------------- MODULE StateStores ----------------------------
(***************************************************************************)
(* The three official StateStores, one call at a time per writer and every *)
(* writer interleaved with the others:                                     *)
(*   json    adapters/files/state_store.py: one document with all keys,    *)
(*           an RLock per process, an advisory file lock between processes *)
(*           and os.replace                                                *)
(*   duckdb  adapters/duckdb/state_store.py: a transaction that reads,     *)
(*           compares, deletes and inserts                                 *)
(*   delta   adapters/delta/state_store.py: table creation, or a MERGE     *)
(*           whose commit may fail or be acknowledged too late             *)
(* A writer is one thread that reads the watermark and later makes one     *)
(* call; its name stands for the watermark it writes.                      *)
(***************************************************************************)
CONSTANTS
    Writers,    \* threads that call the store
    Processes,  \* operating-system processes
    ProcessOf,  \* writer -> the process it runs in
    Keys,       \* state keys
    Backends,   \* the official stores to consider
    None        \* no watermark, or a lock nobody holds

ASSUME ProcessAssumption == ProcessOf \in [Writers -> Processes]
ASSUME BackendAssumption == Backends \subseteq {"json", "duckdb", "delta"}
ASSUME NoneAssumption == None \notin Writers

VARIABLES
    backend,   \* the store of this behaviour, fixed at the start
    stored,    \* state key -> the durable watermark
    created,   \* whether the Delta table exists
    key,       \* writer -> its state key
    kind,      \* writer -> "cas" (compare_and_set_watermark) or "set"
    expected,  \* writer -> the watermark it saw
    snapshot,  \* writer -> the document, transaction or table version it read
    pc,        \* writer -> where its call stands, or how it ended
    retried,   \* writer -> whether Delta's set_watermark refreshed once
    took,      \* history: writer -> whether its watermark was ever stored
    rlock,     \* process -> the writer holding JsonFileStateStore._lock
    flock      \* the writer holding the advisory file lock

vars == <<backend, stored, created, key, kind, expected, snapshot,
          pc, retried, took, rlock, flock>>

Watermarks == Writers \union {None}
Endings == {"ok", "conflict", "error", "dead"}
InCall(w) == pc[w] \notin {"idle"} \union Endings

Init ==
    /\ backend \in Backends
    /\ stored = [k \in Keys |-> None]
    /\ created = FALSE
    /\ key \in [Writers -> Keys]
    /\ kind \in [Writers -> {"cas", "set"}]
    /\ expected = [w \in Writers |-> None]
    /\ snapshot = [w \in Writers |-> stored]
    /\ pc = [w \in Writers |-> "idle"]
    /\ retried = [w \in Writers |-> FALSE]
    /\ took = [w \in Writers |-> FALSE]
    /\ rlock = [p \in Processes |-> None]
    /\ flock = None

(* get_watermark; the JSON store reads under the lock of its process.      *)
GetWatermark(w) ==
    /\ pc[w] = "idle"
    /\ backend = "json" => rlock[ProcessOf[w]] = None
    /\ expected' = [expected EXCEPT ![w] = stored[key[w]]]
    /\ pc' = [pc EXCEPT ![w] = "ready"]
    /\ UNCHANGED <<backend, stored, created, key, kind, snapshot,
                   retried, took, rlock, flock>>

(* "set" writes whatever it finds.                                         *)
MatchesAnything(w, seen) == TRUE
Matches(w, seen) == kind[w] = "set" \/ seen[key[w]] = expected[w]

DeleteWatermark(w, before) ==
    /\ stored' = [k \in Keys \ {key[w]} |-> before[k]]
    /\ took' = [took EXCEPT ![w] = TRUE]
StoreWatermark(w, before) ==
    /\ stored' = [before EXCEPT ![key[w]] = w]
    /\ took' = [took EXCEPT ![w] = TRUE]

(* The call of w moves on to step, or ends with it.                        *)
MovesTo(w, step) == pc' = [pc EXCEPT ![w] = step]
-----------------------------------------------------------------------------
(* JsonFileStateStore: "with self._lock, self._process_lock()".            *)
EnterProcess(w) ==
    /\ backend = "json" /\ pc[w] = "ready"
    /\ rlock[ProcessOf[w]] = None
    /\ rlock' = [rlock EXCEPT ![ProcessOf[w]] = w]
    /\ MovesTo(w, "entered")
    /\ UNCHANGED <<backend, stored, created, key, kind, expected, snapshot,
                   retried, took, flock>>

LockFileAtOnce(w) ==
    /\ backend = "json" /\ pc[w] = "entered"
    /\ flock' = w
    /\ MovesTo(w, "locked")
    /\ UNCHANGED <<backend, stored, created, key, kind, expected, snapshot,
                   retried, took, rlock>>

LockFile(w) ==
    /\ backend = "json" /\ pc[w] = "entered"
    /\ flock = None
    /\ flock' = w
    /\ MovesTo(w, "locked")
    /\ UNCHANGED <<backend, stored, created, key, kind, expected, snapshot,
                   retried, took, rlock>>

(* Leaving both "with" blocks, whatever ends the call.                     *)
LeaveProcessOnly(w) ==
    /\ rlock' = [rlock EXCEPT ![ProcessOf[w]] = None]
    /\ flock' = flock
Leave(w) ==
    /\ rlock' = [rlock EXCEPT ![ProcessOf[w]] = None]
    /\ flock' = IF flock = w THEN None ELSE flock

(* The whole document is read; a moved checkpoint is refused.              *)
ReadDocument(w) ==
    /\ backend = "json" /\ pc[w] = "locked"
    /\ snapshot' = [snapshot EXCEPT ![w] = stored]
    /\ IF Matches(w, stored)
       THEN MovesTo(w, "read") /\ UNCHANGED <<rlock, flock>>
       ELSE MovesTo(w, "conflict") /\ Leave(w)
    /\ UNCHANGED <<backend, stored, created, key, kind, expected, retried, took>>

(* The whole document is written to a temporary file that replaces it.     *)
ReplaceDocument(w) ==
    /\ backend = "json" /\ pc[w] = "read"
    /\ StoreWatermark(w, snapshot[w])
    /\ MovesTo(w, "replaced")
    /\ UNCHANGED <<backend, created, key, kind, expected, snapshot,
                   retried, rlock, flock>>

JsonReturns(w) ==
    /\ backend = "json" /\ pc[w] = "replaced"
    /\ MovesTo(w, "ok")
    /\ Leave(w)
    /\ UNCHANGED <<backend, stored, created, key, kind, expected, snapshot,
                   retried, took>>

(* An OSError or an unreadable document, before os.replace, or chmod's     *)
(* after it: the caller cannot tell them apart.                            *)
JsonFails(w) ==
    /\ backend = "json" /\ pc[w] \in {"entered", "locked", "read", "replaced"}
    /\ MovesTo(w, "error")
    /\ Leave(w)
    /\ UNCHANGED <<backend, stored, created, key, kind, expected, snapshot,
                   retried, took>>
-----------------------------------------------------------------------------
(* DuckDBStateStore: BEGIN gives w a snapshot, in which it compares.       *)
BeginTransaction(w) ==
    /\ backend = "duckdb" /\ pc[w] = "ready"
    /\ snapshot' = [snapshot EXCEPT ![w] = stored]
    /\ MovesTo(w, IF Matches(w, stored) THEN "compared" ELSE "conflict")
    /\ UNCHANGED <<backend, stored, created, key, kind, expected,
                   retried, took, rlock, flock>>

(* DuckDB commits a transaction only if the rows it wrote did not change   *)
(* after its snapshot; otherwise a statement or COMMIT raises.             *)
NotWrittenSince(w) == stored[key[w]] = snapshot[w][key[w]]

CommitTransaction(w) ==
    /\ backend = "duckdb" /\ pc[w] = "compared"
    /\ NotWrittenSince(w)
    /\ StoreWatermark(w, stored)
    /\ MovesTo(w, "ok")
    /\ UNCHANGED <<backend, created, key, kind, expected, snapshot,
                   retried, rlock, flock>>

(* A statement or COMMIT raises and the transaction is rolled back.        *)
RollBack(w) ==
    /\ backend = "duckdb" /\ pc[w] \in {"ready", "compared"}
    /\ MovesTo(w, "error")
    /\ UNCHANGED <<backend, stored, created, key, kind, expected, snapshot,
                   retried, took, rlock, flock>>
-----------------------------------------------------------------------------
(* DeltaStateStore.  set_watermark is a compare-and-set that refreshes the *)
(* expected watermark before it starts and once more after a conflict.     *)
DeltaConflict(w) ==
    IF kind[w] = "set" /\ ~retried[w]
    THEN /\ retried' = [retried EXCEPT ![w] = TRUE]
         /\ MovesTo(w, "refresh")
    ELSE /\ MovesTo(w, "conflict")
         /\ UNCHANGED retried

(* set_watermark reads the watermark it then compares with.                *)
Refresh(w) ==
    /\ backend = "delta"
    /\ \/ pc[w] = "refresh"
       \/ pc[w] = "ready" /\ kind[w] = "set" /\ ~retried[w]
    /\ expected' = [expected EXCEPT ![w] = stored[key[w]]]
    /\ MovesTo(w, "refreshed")
    /\ UNCHANGED <<backend, stored, created, key, kind, snapshot,
                   retried, took, rlock, flock>>

MayCompare(w) == pc[w] = IF kind[w] = "set" THEN "refreshed" ELSE "ready"

(* No table yet: the writer creates it with its row.  (An expected         *)
(* checkpoint without a table is a conflict; nothing here drops tables.)   *)
FindsNoTable(w) ==
    /\ backend = "delta" /\ MayCompare(w) /\ ~created
    /\ MovesTo(w, "creating")
    /\ UNCHANGED <<backend, stored, created, key, kind, expected, snapshot,
                   retried, took, rlock, flock>>

(* The table is loaded at its latest version, where the MERGE matches the  *)
(* expected watermark or updates no row.                                   *)
LoadTable(w) ==
    /\ backend = "delta" /\ MayCompare(w) /\ created
    /\ snapshot' = [snapshot EXCEPT ![w] = stored]
    /\ IF stored[key[w]] = expected[w]
       THEN MovesTo(w, "merging") /\ UNCHANGED retried
       ELSE DeltaConflict(w)
    /\ UNCHANGED <<backend, stored, created, key, kind, expected,
                   took, rlock, flock>>

(* write_deltalake(mode="error") creates the table unless another writer   *)
(* did; a MERGE commits unless the partition of the key was written.       *)
MayCommit(w) ==
    \/ pc[w] = "creating" /\ ~created
    \/ pc[w] = "merging" /\ NotWrittenSince(w)

(* The answer may be lost after the commit took effect.                    *)
DeltaCommit(w) ==
    /\ backend = "delta"
    /\ MayCommit(w)
    /\ StoreWatermark(w, stored)
    /\ created' = TRUE
    /\ \/ MovesTo(w, "ok")
       \/ MovesTo(w, IF pc[w] = "creating" THEN "create_raised" ELSE "merge_raised")
    /\ UNCHANGED <<backend, key, kind, expected, snapshot, retried, rlock, flock>>

DeltaCommitRaises(w) ==
    /\ backend = "delta" /\ pc[w] \in {"creating", "merging"}
    /\ MovesTo(w, IF pc[w] = "creating" THEN "create_raised" ELSE "merge_raised")
    /\ UNCHANGED <<backend, stored, created, key, kind, expected, snapshot,
                   retried, took, rlock, flock>>

(* The exception handlers read the watermark to tell a conflict from       *)
(* another failure; the read may fail as well.                             *)
Diagnose(w) ==
    /\ backend = "delta" /\ pc[w] \in {"create_raised", "merge_raised"}
    /\ LET moved == IF pc[w] = "create_raised" THEN stored[key[w]] # None
                    ELSE stored[key[w]] # expected[w]
       IN  \/ moved /\ DeltaConflict(w)
           \/ MovesTo(w, "error") /\ UNCHANGED retried
    /\ UNCHANGED <<backend, stored, created, key, kind, expected, snapshot,
                   took, rlock, flock>>

(* The table cannot be opened or read.                                     *)
DeltaFails(w) ==
    /\ backend = "delta" /\ pc[w] \in {"ready", "refresh", "refreshed"}
    /\ MovesTo(w, "error")
    /\ UNCHANGED <<backend, stored, created, key, kind, expected, snapshot,
                   retried, took, rlock, flock>>
-----------------------------------------------------------------------------
(* The operating system drops the locks of a process that dies.            *)
Kill(p) ==
    LET dead == {w \in Writers : ProcessOf[w] = p /\ InCall(w)}
    IN  /\ dead # {}
        /\ pc' = [w \in Writers |-> IF w \in dead THEN "dead" ELSE pc[w]]
        /\ rlock' = [rlock EXCEPT ![p] = None]
        /\ flock' = IF flock \in dead THEN None ELSE flock
        /\ UNCHANGED <<backend, stored, created, key, kind, expected, snapshot,
                       retried, took>>

Fails(w) == JsonFails(w) \/ RollBack(w) \/ DeltaCommitRaises(w) \/ DeltaFails(w)

Proceeds(w) ==
    \/ EnterProcess(w) \/ LockFile(w) \/ ReadDocument(w) \/ ReplaceDocument(w)
    \/ JsonReturns(w) \/ BeginTransaction(w) \/ CommitTransaction(w)
    \/ Refresh(w) \/ FindsNoTable(w) \/ LoadTable(w) \/ DeltaCommit(w) \/ Diagnose(w)

Next ==
    \/ \E w \in Writers : GetWatermark(w) \/ Proceeds(w) \/ Fails(w)
    \/ \E p \in Processes : Kill(p)

Spec == Init /\ [][Next]_vars

(* A commit that cannot succeed raises.                                    *)
Rejected(w) ==
    \/ ~NotWrittenSince(w) /\ RollBack(w)
    \/ ~MayCommit(w) /\ DeltaCommitRaises(w)

(* A thread inside a call is scheduled; nobody has to start one, and no    *)
(* call fails that could proceed.                                          *)
FairSpec == Spec /\ \A w \in Writers : WF_vars(Proceeds(w) \/ Rejected(w))
-----------------------------------------------------------------------------
TypeOK ==
    /\ backend \in Backends
    /\ stored \in [Keys -> Watermarks]
    /\ created \in BOOLEAN
    /\ key \in [Writers -> Keys]
    /\ kind \in [Writers -> {"cas", "set"}]
    /\ expected \in [Writers -> Watermarks]
    /\ snapshot \in [Writers -> [Keys -> Watermarks]]
    /\ pc \in [Writers -> {"idle", "ready", "entered", "locked", "read", "replaced",
                           "compared", "refresh", "refreshed", "creating", "merging",
                           "create_raised", "merge_raised"} \union Endings]
    /\ retried \in [Writers -> BOOLEAN]
    /\ took \in [Writers -> BOOLEAN]
    /\ rlock \in [Processes -> Writers \union {None}]
    /\ flock \in Writers \union {None}

(* How a writer looks to its caller.                                       *)
Answer(w) ==
    IF pc[w] = "idle" THEN "none"
    ELSE IF pc[w] \in Endings THEN pc[w] ELSE "pending"

Register == INSTANCE Checkpoint WITH
    store <- stored,
    expected <- [w \in Writers |-> IF kind[w] = "cas" THEN expected[w] ELSE None],
    answer <- [w \in Writers |-> Answer(w)]

(* Every official store behaves as one register per state key, with an     *)
(* atomic compare-and-set: no torn update, no key lost while another is    *)
(* written, no effect after the answer, no conflict without a moved value. *)
ImplementsRegister == Register!Spec

(* storage/state_store.py:59-87, through the stores.                       *)
OneSuccessor == Register!OneSuccessor

(* A call that begins ends, whoever holds the locks and dies with them.    *)
CallsReturn == \A w \in Writers : InCall(w) ~> pc[w] \in Endings
=============================================================================
