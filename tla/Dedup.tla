-------------------------------- MODULE Dedup --------------------------------
(***************************************************************************)
(* ExactKeyDeduplicator over _ExactFingerprintStore (connectors/dedup.py): *)
(* the fingerprints of one stream in a temporary SQLite file, with limits  *)
(* on the number of keys and on the size of the file.                      *)
(*                                                                         *)
(* The size of the file is the number of fingerprints committed to it.     *)
(***************************************************************************)
EXTENDS Integers, FiniteSets

CONSTANTS
    Fingerprints,    \* what distinct keys hash to
    MaxUniqueKeys,   \* max_unique_keys
    MaxTempKeys,     \* max_temp_bytes
    CommitInterval,  \* _DEDUP_COMMIT_INTERVAL
    Invalid          \* no usable key: absent, null, blank or not scalar

(* What the constants must satisfy; assumed where they are given.          *)
ConstantsFit ==
    /\ {MaxUniqueKeys, MaxTempKeys, CommitInterval} \subseteq Nat \ {0}
    /\ Invalid \notin Fingerprints

VARIABLES
    store,       \* "none", "open" or "closed"
    file,        \* whether the temporary file exists
    seen,        \* fingerprints of the table
    onDisk,      \* how many of them were committed
    duplicates,  \* duplicate_count
    invalid,     \* invalid_key_count
    pending,     \* insertions since the last commit
    verdict      \* what add gave last: "new", "duplicate", "invalid", "raised"

vars == <<store, file, seen, onDisk, duplicates, invalid, pending, verdict>>

Init ==
    /\ store = "none" /\ file = FALSE
    /\ seen = {} /\ onDisk = 0
    /\ duplicates = 0 /\ invalid = 0 /\ pending = 0
    /\ verdict = "none"

uniqueCount == Cardinality(seen)

(* The constructor.  The file is made first; if SQLite then fails, it is   *)
(* removed before the exception leaves.                                    *)
Create ==
    /\ store = "none"
    /\ store' = "open" /\ file' = TRUE
    /\ UNCHANGED <<seen, onDisk, duplicates, invalid, pending, verdict>>

CreateFails ==
    /\ store = "none"
    /\ store' = "closed" /\ file' = FALSE /\ verdict' = "raised"
    /\ UNCHANGED <<seen, onDisk, duplicates, invalid, pending>>
-----------------------------------------------------------------------------
(* A new fingerprint beyond max_unique_keys is refused at once, the size   *)
(* of the file when an interval of insertions has been committed.          *)
KeysOnlyAtCommit(now) == FALSE
TooManyKeys(now) == Cardinality(now) > MaxUniqueKeys
TooLarge(size) == size > MaxTempKeys

AddFingerprint(fp) ==
    /\ store = "open"
    /\ seen' = seen \union {fp}
    /\ duplicates' = IF fp \in seen THEN duplicates + 1 ELSE duplicates
    /\ LET result == IF fp \in seen THEN "duplicate" ELSE "new"
           full == pending + 1 >= CommitInterval
       IN  /\ pending' = IF full THEN 0 ELSE pending + 1
           /\ onDisk' = IF full THEN Cardinality(seen') ELSE onDisk
           /\ verdict' = IF \/ full /\ (TooManyKeys(seen') \/ TooLarge(onDisk'))
                            \/ fp \notin seen /\ TooManyKeys(seen')
                         THEN "raised" ELSE result
    /\ UNCHANGED <<store, file, invalid>>

(* An insertion, a commit or the look at the file raises.                  *)
AddFails ==
    /\ store = "open"
    /\ verdict' = "raised"
    /\ UNCHANGED <<store, file, seen, onDisk, duplicates, invalid, pending>>

(* A record without a usable key is counted; only a strict deduplicator    *)
(* raises.                                                                 *)
NotCounted == invalid
Counted == invalid + 1
RefuseInvalid(strict) == IF strict THEN "raised" ELSE "invalid"

AddInvalid(strict) ==
    /\ store = "open"
    /\ invalid' = Counted
    /\ verdict' = RefuseInvalid(strict)
    /\ UNCHANGED <<store, file, seen, onDisk, duplicates, pending>>

(* ExactKeyDeduplicator.add                                                *)
Add(fp, strict) ==
    \/ fp # Invalid /\ AddFingerprint(fp)
    \/ fp = Invalid /\ AddInvalid(strict)

(* close: what is pending is committed, and the file is removed even if    *)
(* that fails.                                                             *)
KeepFile == TRUE
RemoveFile == FALSE
Close ==
    /\ store = "open"
    /\ store' = "closed" /\ file' = RemoveFile
    /\ onDisk' \in {onDisk, Cardinality(seen)}
    /\ pending' = 0
    /\ UNCHANGED <<seen, duplicates, invalid, verdict>>

Next ==
    \/ Create \/ CreateFails
    \/ verdict # "raised" /\ \E fp \in Fingerprints \union {Invalid}, strict \in BOOLEAN :
          Add(fp, strict)
    \/ verdict # "raised" /\ AddFails
    \/ Close

Spec == Init /\ [][Next]_vars
-----------------------------------------------------------------------------
TypeOK ==
    /\ store \in {"none", "open", "closed"}
    /\ file \in BOOLEAN
    /\ seen \subseteq Fingerprints
    /\ {onDisk, duplicates, invalid} \subseteq Nat
    /\ pending \in 0 .. CommitInterval - 1
    /\ verdict \in {"none", "new", "duplicate", "invalid", "raised"}

(* connectors/dedup.py:166-208: the table holds at most one key more than  *)
(* allowed, and the file outgrows its limit by at most what one commit     *)
(* interval brings before the limit is looked at.                          *)
SpillIsBounded ==
    /\ uniqueCount <= MaxUniqueKeys + 1
    /\ onDisk <= MaxTempKeys + CommitInterval
=============================================================================
