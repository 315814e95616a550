------------------------- MODULE DestinationsProofs -------------------------
(***************************************************************************)
(* The three destinations, proved for every number of loads and keys: the  *)
(* directory of an endpoint is never lost, and where the loads that        *)
(* overlap do not stand in each other's way (Serves), each one reaches the *)
(* table as a whole or not at all, as Bronze promises.                     *)
(***************************************************************************)
EXTENDS Destinations, TLAPS

(* Loads that are under way together may be so.                            *)
OverlapInOrder ==
    \A l, m \in Loads : l # m /\ Loading(l) /\ Loading(m) => MayOverlap(l, m)

(* A load takes effect once; only an OVERWRITE of Parquet moves a          *)
(* directory away.                                                         *)
NotYetApplied == {"idle", "filling", "filled", "checked", "moved", "restoring"}
BeforeMove == {"idle", "filling", "filled", "checked"}
StepsInOrder ==
    /\ \A l \in Loads :
          /\ pc[l] \in NotYetApplied => ~applied[l]
          /\ pc[l] \in {"installed", "ok"} => applied[l]
          /\ pc[l] \in {"moved", "restoring", "installed"} => Is("parquet", "overwrite")
          /\ pc[l] \in BeforeMove => backup[l] = None
          /\ pc[l] = "restoring" => backup[l] # None
    /\ moved # None => Is("parquet", "overwrite")

(* What a transaction of DuckDB deletes is what a load is to replace, if   *)
(* the other loads have other keys or there are none.                      *)
ToReplace(l) == IF scenario.mode = "overwrite" THEN table ELSE SameKey(l, table)
SnapshotsAreCurrent ==
    scenario.backend = "duckdb" /\ Serves =>
        \A l \in Loads : Loading(l) => Deletes(l) = ToReplace(l)

(* Likewise a load into Delta that found no table has nothing to replace.  *)
NothingBeforeTheTable ==
    scenario.backend = "delta" =>
        /\ ~exists => table = {}
        /\ Serves /\ scenario.mode = "append" =>
              \A l \in Loads : pc[l] = "checked" /\ ~found[l] => SameKey(l, table) = {}

(* Alone, a load that moved the directory away is the one to put it back.  *)
AloneInTheGap ==
    scenario.overlap = "none" =>
        \A l \in Loads : pc[l] \in {"moved", "restoring"} => ~exists /\ moved = l

IInv ==
    /\ TypeOK /\ BackupOutlivesGap /\ OverlapInOrder /\ StepsInOrder
    /\ SnapshotsAreCurrent /\ NothingBeforeTheTable /\ AloneInTheGap
-----------------------------------------------------------------------------
(* Every load is idle at first, and nothing is there.                      *)
LEMMA InitEstablishes == Init => IInv
<1> SUFFICES ASSUME Init PROVE IInv
  OBVIOUS
<1>1. TypeOK
  BY DEF Init, TypeOK
<1>2. BackupOutlivesGap /\ AloneInTheGap /\ OverlapInOrder
  BY DEF Init, BackupOutlivesGap, AloneInTheGap, OverlapInOrder, Loading
<1>3. StepsInOrder
  BY DEF Init, StepsInOrder
<1>4. SnapshotsAreCurrent /\ NothingBeforeTheTable
  BY DEF Init, SnapshotsAreCurrent, NothingBeforeTheTable, Loading, SameKey
<1> QED
  BY <1>1, <1>2, <1>3, <1>4 DEF IInv

(* One action of one load, or nothing.                                     *)
Step(l) ==
    \/ Begin(l) \/ Fill(l) \/ Fail(l) \/ Crash(l)
    \/ CommitTransaction(l) \/ PromoteFile(l)
    \/ CheckPrevious(l) \/ MoveAway(l) \/ InstallDirectory(l)
    \/ InstallFails(l) \/ PutBack(l) \/ PutBackFails(l) \/ RemoveBackup(l)
    \/ CheckTable(l) \/ DeltaCommit(l)

(* Next says no more than that.                                            *)
LEMMA NextIsStep == Next <=> \E l \in Loads : Step(l)
  BY DEF Next, Step

(* What a load is about to write, replaces or puts back are loads.         *)
LEMMA TypePreserved ==
  ASSUME TypeOK, StepsInOrder, NEW l \in Loads, Step(l)
  PROVE  TypeOK'
<1> USE DEF TypeOK, MovesTo, Applied, Endings
<1>1. Rows(l) \subseteq Loads /\ \A rows : SameKey(l, rows) \subseteq rows
  BY DEF Rows, SameKey
<1>2. CASE Begin(l)
  BY <1>2 DEF Begin
<1>3. CASE Fill(l) \/ Fail(l) \/ Crash(l)
  BY <1>3 DEF Fill, Fail, Crash
<1>4. CASE CommitTransaction(l)
  BY <1>1, <1>4 DEF CommitTransaction
<1>5. CASE PromoteFile(l)
  BY <1>1, <1>5 DEF PromoteFile, KeptByAppend
<1>6. CASE CheckPrevious(l)
  BY <1>6 DEF CheckPrevious
<1>7. CASE MoveAway(l)
  BY <1>7 DEF MoveAway
<1>8. CASE InstallDirectory(l)
  BY <1>1, <1>8 DEF InstallDirectory
<1>9. CASE InstallFails(l)
  BY <1>9 DEF InstallFails
<1>10. CASE PutBack(l)
  <2>1. backup[l] \in SUBSET Loads
    BY <1>10 DEF PutBack, StepsInOrder
  <2> QED
    BY <1>10, <2>1 DEF PutBack
<1>11. CASE PutBackFails(l) \/ RemoveBackup(l)
  BY <1>11 DEF PutBackFails, BackupLeft, RemoveBackup
<1>12. CASE CheckTable(l)
  BY <1>12 DEF CheckTable
<1>13. CASE DeltaCommit(l)
  BY <1>1, <1>13 DEF DeltaCommit
<1> QED
  BY <1>2, <1>3, <1>4, <1>5, <1>6, <1>7, <1>8, <1>9, <1>10, <1>11, <1>12, <1>13
  DEF Step

(* What a step leaves as it is: the scenario, the keys, the other loads.   *)
LEMMA OthersStandStill ==
  ASSUME TypeOK, NEW l \in Loads, Step(l)
  PROVE  /\ UNCHANGED <<scenario, key, hasRows>>
         /\ \A m \in Loads : m # l =>
               /\ pc'[m] = pc[m] /\ applied'[m] = applied[m] /\ seen'[m] = seen[m]
               /\ found'[m] = found[m] /\ backup'[m] = backup[m]
<1> USE DEF TypeOK, MovesTo, Applied
<1>1. CASE Begin(l) \/ Fill(l) \/ Fail(l) \/ Crash(l)
  BY <1>1 DEF Begin, Fill, Fail, Crash
<1>2. CASE CommitTransaction(l) \/ PromoteFile(l) \/ CheckPrevious(l)
  BY <1>2 DEF CommitTransaction, PromoteFile, CheckPrevious
<1>3. CASE MoveAway(l) \/ InstallDirectory(l)
  BY <1>3 DEF MoveAway, InstallDirectory
<1>4. CASE InstallFails(l) \/ PutBack(l) \/ PutBackFails(l) \/ RemoveBackup(l)
  BY <1>4 DEF InstallFails, PutBack, PutBackFails, BackupLeft, RemoveBackup
<1>5. CASE CheckTable(l) \/ DeltaCommit(l)
  BY <1>5 DEF CheckTable, DeltaCommit
<1> QED
  BY <1>1, <1>2, <1>3, <1>4, <1>5 DEF Step

(* Begin is the only way to be under way.                                  *)
LEMMA OnlyBeginEnters ==
  ASSUME TypeOK, NEW l \in Loads, Step(l)
  PROVE  /\ Begin(l) \/ Loading(l)
         /\ Begin(l) => pc[l] = "idle" /\ pc'[l] = "filling"
<1> USE DEF TypeOK, MovesTo, Endings, Loading
<1>1. Begin(l) => pc[l] = "idle" /\ pc'[l] = "filling"
  BY DEF Begin
<1>2. ASSUME Fill(l) \/ Fail(l) \/ Crash(l) \/ CommitTransaction(l) \/ PromoteFile(l)
      PROVE  Loading(l)
  BY <1>2 DEF Fill, Fail, Crash, CommitTransaction, PromoteFile
<1>3. ASSUME CheckPrevious(l) \/ MoveAway(l) \/ InstallDirectory(l) \/ InstallFails(l)
      PROVE  Loading(l)
  BY <1>3 DEF CheckPrevious, MoveAway, InstallDirectory, InstallFails,
     ReadyToInstall
<1>4. ASSUME \/ PutBack(l) \/ PutBackFails(l) \/ RemoveBackup(l)
             \/ CheckTable(l) \/ DeltaCommit(l)
      PROVE  Loading(l)
  BY <1>4 DEF PutBack, PutBackFails, RemoveBackup, CheckTable, DeltaCommit
<1> QED
  BY <1>1, <1>2, <1>3, <1>4 DEF Step

(* MayOverlap does not ask who came first.                                 *)
LEMMA OverlapPreserved ==
  ASSUME TypeOK, OverlapInOrder, NEW l \in Loads, Step(l)
  PROVE  OverlapInOrder'
<1> SUFFICES ASSUME NEW a \in Loads, NEW b \in Loads, a # b, Loading(a)', Loading(b)'
             PROVE  MayOverlap(a, b)'
  BY DEF OverlapInOrder
<1>1. MayOverlap(a, b)' <=> MayOverlap(a, b)
  BY OthersStandStill DEF MayOverlap
<1>2. MayOverlap(a, b) <=> MayOverlap(b, a)
  BY DEF MayOverlap
<1>3. \A m \in Loads : m # l => (Loading(m)' <=> Loading(m))
  BY OthersStandStill DEF Loading
<1>4. CASE Begin(l) /\ l \in {a, b}
  <2>1. \A m \in Loads : Loading(m) => MayOverlap(l, m)
    BY <1>4 DEF Begin
  <2> QED
    BY <1>1, <1>2, <1>3, <1>4, <2>1
<1>5. CASE l \notin {a, b} \/ Loading(l)
  BY <1>1, <1>3, <1>5 DEF OverlapInOrder
<1> QED
  BY <1>4, <1>5, OnlyBeginEnters

(* Alone means that nobody else is under way.                              *)
LEMMA NobodyElse ==
  ASSUME TypeOK, OverlapInOrder, scenario.overlap = "none",
         NEW l \in Loads, Step(l), NEW m \in Loads, m # l
  PROVE  ~Loading(m)
<1>1. ~MayOverlap(l, m)
  BY DEF MayOverlap
<1>2. CASE Begin(l)
  BY <1>1, <1>2 DEF Begin
<1>3. CASE Loading(l)
  BY <1>1, <1>3 DEF OverlapInOrder
<1> QED
  BY <1>2, <1>3, OnlyBeginEnters

(* And loads of other keys that nobody else works on this one.             *)
LEMMA OtherKeys ==
  ASSUME TypeOK, OverlapInOrder, scenario.overlap \in {"none", "other keys"},
         NEW l \in Loads, Step(l), NEW m \in Loads, m # l, Loading(m)
  PROVE  key[m] # key[l] /\ scenario.overlap = "other keys"
<1>1. scenario.overlap # "none"
  BY NobodyElse
<1>2. MayOverlap(l, m)
  <2>1. CASE Begin(l)
    BY <2>1 DEF Begin
  <2>2. CASE Loading(l)
    BY <2>2 DEF OverlapInOrder
  <2> QED
    BY <2>1, <2>2, OnlyBeginEnters
<1> QED
  BY <1>1, <1>2 DEF MayOverlap

(* Each step in its turn.                                                  *)
LEMMA StepsPreserved ==
  ASSUME TypeOK, StepsInOrder, NEW l \in Loads, Step(l)
  PROVE  StepsInOrder'
<1> DEFINE InOrder(m) ==
             /\ pc[m] \in NotYetApplied => ~applied[m]
             /\ pc[m] \in {"installed", "ok"} => applied[m]
             /\ pc[m] \in {"moved", "restoring", "installed"} => Is("parquet", "overwrite")
             /\ pc[m] \in BeforeMove => backup[m] = None
             /\ pc[m] = "restoring" => backup[m] # None
<1>1. \A m \in Loads : InOrder(m)
  BY DEF StepsInOrder
<1>2. Is("parquet", "overwrite")' <=> Is("parquet", "overwrite")
  BY OthersStandStill DEF Is
<1>3. ASSUME NEW m \in Loads, m # l PROVE InOrder(m)'
  BY <1>1, <1>2, <1>3, OthersStandStill
<1>4. InOrder(l)'
  <2> USE <1>1, <1>2 DEF TypeOK, MovesTo, Applied, NotYetApplied, BeforeMove
  <2>1. CASE Begin(l)
    BY <2>1 DEF Begin
  <2>2. CASE Fill(l)
    BY <2>2 DEF Fill
  <2>3. CASE Fail(l)
    BY <2>3 DEF Fail
  <2>4. CASE Crash(l)
    BY <2>4 DEF Crash
  <2>5. CASE CommitTransaction(l)
    BY <2>5 DEF CommitTransaction
  <2>6. CASE PromoteFile(l)
    BY <2>6 DEF PromoteFile
  <2>7. CASE CheckPrevious(l)
    BY <2>7 DEF CheckPrevious
  <2>8. CASE MoveAway(l)
    BY <2>8 DEF MoveAway
  <2>9. CASE InstallDirectory(l)
    BY <2>9 DEF InstallDirectory
  <2>10. CASE InstallFails(l)
    BY <2>10 DEF InstallFails, ReadyToInstall
  <2>11. CASE PutBack(l) \/ PutBackFails(l) \/ RemoveBackup(l)
    BY <2>11 DEF PutBack, PutBackFails, BackupLeft, RemoveBackup
  <2>12. CASE CheckTable(l)
    BY <2>12 DEF CheckTable
  <2>13. CASE DeltaCommit(l)
    BY <2>13 DEF DeltaCommit
  <2> QED
    BY <2>1, <2>2, <2>3, <2>4, <2>5, <2>6, <2>7, <2>8, <2>9, <2>10, <2>11,
       <2>12, <2>13
       DEF Step
<1>5. moved' # None => Is("parquet", "overwrite")
  BY DEF Step, Begin, Fill, Fail, Crash, CommitTransaction, PromoteFile,
     CheckPrevious,
     MoveAway, InstallDirectory, InstallFails, PutBack, PutBackFails, RemoveBackup,
     CheckTable, DeltaCommit, StepsInOrder
<1> HIDE DEF InOrder
<1>6. \A m \in Loads : InOrder(m)'
  BY <1>3, <1>4
<1> QED
  BY <1>2, <1>5, <1>6 DEF StepsInOrder, InOrder
-----------------------------------------------------------------------------
(* The directory goes missing with its backup at hand, and the backup goes *)
(* only where the directory is back.                                       *)
LEMMA GapPreserved ==
  ASSUME TypeOK, StepsInOrder, BackupOutlivesGap, NEW l \in Loads, Step(l)
  PROVE  BackupOutlivesGap'
<1> SUFFICES ASSUME ~exists', moved' # None
             PROVE  /\ backup'[moved'] # None
                    /\ pc'[moved'] \in {"moved", "restoring", "error", "crashed"}
  BY DEF BackupOutlivesGap
<1> USE DEF TypeOK, MovesTo
<1>1. CASE MoveAway(l) /\ exists
  <2>1. moved' = l /\ backup'[l] = table /\ pc'[l] = "moved"
    BY <1>1 DEF MoveAway
  <2> QED
    BY <2>1, NoneAssumption
<1>2. CASE ~(MoveAway(l) /\ exists)
  <2>1. moved' = moved /\ ~exists
    BY <1>2 DEF Step, Begin, Fill, Fail, Crash, CommitTransaction, PromoteFile,
       CheckPrevious, MoveAway, InstallDirectory, InstallFails, PutBack, PutBackFails,
       RemoveBackup, CheckTable, DeltaCommit
  <2>2. /\ moved \in Loads /\ backup[moved] # None
        /\ pc[moved] \in {"moved", "restoring", "error", "crashed"}
    BY <2>1 DEF BackupOutlivesGap
  <2>3. CASE moved # l
    BY <2>1, <2>2, <2>3, OthersStandStill
  <2>4. CASE moved = l
    <3>1. Crash(l) \/ InstallFails(l) \/ PutBackFails(l)
      <4>1. ~InstallDirectory(l) /\ ~PutBack(l)
        BY DEF InstallDirectory, PutBack
      <4> QED
        BY <2>2, <2>4, <4>1 DEF Step, Begin, Fill, Fail, CommitTransaction,
           PromoteFile, CheckPrevious, MoveAway, RemoveBackup, CheckTable, DeltaCommit
    <3>2. pc'[l] \in {"restoring", "error", "crashed"} /\ backup' = backup
      BY <3>1 DEF Crash, InstallFails, PutBackFails, BackupLeft
    <3> QED
      BY <2>1, <2>2, <2>4, <3>2
  <2> QED
    BY <2>3, <2>4
<1> QED
  BY <1>1, <1>2

(* Alone, whoever moved the directory away finds the place as he left it.  *)
LEMMA AlonePreserved ==
  ASSUME TypeOK, OverlapInOrder, StepsInOrder, AloneInTheGap, NEW l \in Loads, Step(l)
  PROVE  AloneInTheGap'
<1> SUFFICES ASSUME scenario.overlap = "none", NEW m \in Loads,
                    pc'[m] \in {"moved", "restoring"}
             PROVE  ~exists' /\ moved' = m
  BY OthersStandStill DEF AloneInTheGap
<1>1. m = l
  <2>1. ASSUME m # l PROVE FALSE
    <3>1. pc[m] \in {"moved", "restoring"}
      BY <2>1, OthersStandStill
    <3>2. Loading(m)
      BY <3>1 DEF Loading, Endings
    <3> QED
      BY <2>1, <3>2, NobodyElse
  <2> QED
    BY <2>1
<1>2. (MoveAway(l) /\ exists) \/ InstallFails(l)
  BY <1>1 DEF TypeOK, MovesTo, Step, Begin, Fill, Fail, Crash,
     CommitTransaction,
     PromoteFile, CheckPrevious, MoveAway, InstallDirectory, PutBack, PutBackFails,
     RemoveBackup, CheckTable, DeltaCommit
<1>3. CASE MoveAway(l) /\ exists
  BY <1>1, <1>3 DEF MoveAway
<1>4. CASE InstallFails(l)
  <2>1. /\ pc[l] \in {"moved", "checked"} /\ UNCHANGED <<exists, moved>>
        /\ ~exists /\ backup[l] # None
    BY <1>1, <1>4 DEF TypeOK, MovesTo, InstallFails, ReadyToInstall
  <2>2. pc[l] = "moved"
    BY <2>1 DEF StepsInOrder, BeforeMove
  <2> QED
    BY <1>1, <2>1, <2>2 DEF AloneInTheGap
<1> QED
  BY <1>2, <1>3, <1>4

(* Only the last step of a load changes the rows of a DuckDB table.        *)
LEMMA SnapshotsPreserved ==
  ASSUME TypeOK, OverlapInOrder, SnapshotsAreCurrent, NEW l \in Loads, Step(l)
  PROVE  SnapshotsAreCurrent'
<1>1. UNCHANGED <<scenario, key, hasRows>>
  BY OthersStandStill
<1> SUFFICES ASSUME scenario.backend = "duckdb", Serves, NEW m \in Loads, Loading(m)'
             PROVE  Deletes(m)' = ToReplace(m)'
  BY <1>1 DEF SnapshotsAreCurrent, Serves, Is
<1> USE DEF TypeOK, MovesTo
<1>2. \/ scenario.overlap = "none"
      \/ scenario.overlap = "other keys" /\ scenario.mode = "append"
  BY DEF Serves, Is
<1>3. CASE Begin(l)
  <2>1. UNCHANGED table /\ seen'[l] = table
    BY <1>3 DEF Begin
  <2>2. CASE m = l
    BY <1>1, <2>1, <2>2 DEF Deletes, ToReplace, SameKey
  <2>3. CASE m # l
    <3>1. Loading(m) /\ seen'[m] = seen[m]
      BY <2>3, OthersStandStill DEF Loading
    <3>2. Deletes(m) = ToReplace(m)
      BY <3>1 DEF SnapshotsAreCurrent
    <3> QED
      BY <1>1, <2>1, <3>1, <3>2 DEF Deletes, ToReplace, SameKey
  <2> QED
    BY <2>2, <2>3
<1>4. CASE Fill(l) \/ Fail(l) \/ Crash(l)
  <2>1. UNCHANGED <<table, seen>> /\ Loading(l)
    BY <1>4 DEF Fill, Fail, Crash, Loading, Endings
  <2>2. Loading(m)
    BY <2>1, OthersStandStill DEF Loading
  <2>3. Deletes(m) = ToReplace(m)
    BY <2>2 DEF SnapshotsAreCurrent
  <2> QED
    BY <1>1, <2>1, <2>3 DEF Deletes, ToReplace, SameKey
<1>5. CASE CommitTransaction(l)
  <2>1. pc'[l] = "ok" /\ Loading(l) /\ table' = (table \ Deletes(l)) \union Rows(l)
    BY <1>5 DEF CommitTransaction, Loading, Endings
  <2>2. m # l
    BY <2>1 DEF Loading, Endings
  <2>3. Loading(m) /\ seen'[m] = seen[m]
    BY <2>2, OthersStandStill DEF Loading
  <2>4. key[m] # key[l] /\ scenario.mode = "append"
    BY <1>2, <2>2, <2>3, OtherKeys
  <2>5. Deletes(l) = SameKey(l, table) /\ Deletes(m) = SameKey(m, table)
    BY <2>1, <2>3, <2>4 DEF SnapshotsAreCurrent, ToReplace
  <2>6. SameKey(m, table') = SameKey(m, table)
    BY <2>1, <2>4, <2>5 DEF SameKey, Rows
  <2> QED
    BY <1>1, <2>3, <2>4, <2>5, <2>6 DEF Deletes, ToReplace, SameKey
<1>6. Begin(l) \/ Fill(l) \/ Fail(l) \/ Crash(l) \/ CommitTransaction(l) \/ RemoveBackup(l)
  BY DEF Step, PromoteFile, CheckPrevious, MoveAway, InstallDirectory,
     InstallFails, PutBack, PutBackFails, CheckTable, DeltaCommit, Is
<1>7. CASE RemoveBackup(l)
  <2>1. UNCHANGED <<table, seen>> /\ Loading(l)
    BY <1>7 DEF RemoveBackup, Loading, Endings
  <2>2. Loading(m)
    BY <2>1, OthersStandStill DEF Loading
  <2>3. Deletes(m) = ToReplace(m)
    BY <2>2 DEF SnapshotsAreCurrent
  <2> QED
    BY <1>1, <2>1, <2>3 DEF Deletes, ToReplace, SameKey
<1> QED
  BY <1>3, <1>4, <1>5, <1>6, <1>7

(* A Delta table that was not there had no rows, and only loads of other   *)
(* keys can have added some.                                               *)
LEMMA NothingPreserved ==
  ASSUME TypeOK, OverlapInOrder, NothingBeforeTheTable, NEW l \in Loads, Step(l)
  PROVE  NothingBeforeTheTable'
<1>1. UNCHANGED <<scenario, key, hasRows>>
  BY OthersStandStill
<1> SUFFICES ASSUME scenario.backend = "delta" PROVE NothingBeforeTheTable'
  BY <1>1 DEF NothingBeforeTheTable
<1> USE DEF TypeOK, MovesTo
<1>2. CASE DeltaCommit(l)
  <2>1. /\ exists' = (exists \/ hasRows[l] \/ scenario.mode = "overwrite")
        /\ table' = (table \ ReplacedInDelta(l)) \union Rows(l)
        /\ pc'[l] \in {"ok", "error"} /\ Loading(l)
    BY <1>2 DEF DeltaCommit, Loading, Endings
  <2>2. ~exists' => table' = {}
    BY <2>1 DEF NothingBeforeTheTable, Rows
  <2>3. ASSUME Serves, scenario.mode = "append",
               NEW m \in Loads, pc'[m] = "checked", ~found'[m]
        PROVE  SameKey(m, table)' = {}
    <3>1. m # l
      BY <2>1, <2>3
    <3>2. pc[m] = "checked" /\ ~found[m]
      BY <2>3, <3>1, OthersStandStill
    <3>3. SameKey(m, table) = {}
      BY <2>3, <3>2 DEF NothingBeforeTheTable
    <3>4. key[m] # key[l]
      <4>1. scenario.overlap \in {"none", "other keys"}
        BY <2>3 DEF Serves, Is
      <4>2. Loading(m)
        BY <3>2 DEF Loading, Endings
      <4> QED
        BY <3>1, <4>1, <4>2, OtherKeys
    <3> QED
      BY <1>1, <2>1, <3>3, <3>4 DEF SameKey, Rows
  <2> QED
    BY <1>1, <2>2, <2>3 DEF NothingBeforeTheTable, Serves, Is
<1>3. CASE CheckTable(l)
  <2>1. UNCHANGED <<exists, table>> /\ found'[l] = exists
    BY <1>3 DEF CheckTable
  <2>2. ASSUME Serves, scenario.mode = "append",
               NEW m \in Loads, pc'[m] = "checked", ~found'[m]
        PROVE  SameKey(m, table)' = {}
    <3>1. CASE m = l
      BY <2>1, <2>2, <3>1 DEF NothingBeforeTheTable, SameKey
    <3>2. CASE m # l
      BY <1>1, <2>1, <2>2, <3>2, OthersStandStill DEF NothingBeforeTheTable,
         SameKey
    <3> QED
      BY <3>1, <3>2
  <2> QED
    BY <1>1, <2>1, <2>2 DEF NothingBeforeTheTable, Serves, Is
<1>4. CASE Begin(l) \/ Fail(l) \/ Crash(l) \/ RemoveBackup(l)
  <2>1. UNCHANGED <<exists, table, found>> /\ pc'[l] # "checked"
    BY <1>4 DEF Begin, Fail, Crash, RemoveBackup
  <2>2. \A m \in Loads : pc'[m] = "checked" => pc[m] = "checked"
    BY <2>1, OthersStandStill
  <2>3. \A m \in Loads : SameKey(m, table)' = SameKey(m, table)
    BY <1>1, <2>1 DEF SameKey
  <2> QED
    BY <1>1, <2>1, <2>2, <2>3 DEF NothingBeforeTheTable, Serves, Is
<1>5. Begin(l) \/ Fail(l) \/ Crash(l) \/ RemoveBackup(l) \/ CheckTable(l) \/ DeltaCommit(l)
  BY DEF Step, Fill, CommitTransaction, PromoteFile, CheckPrevious, MoveAway,
     InstallDirectory, InstallFails, PutBack, PutBackFails, Is
<1> QED
  BY <1>2, <1>3, <1>4, <1>5
-----------------------------------------------------------------------------
(* All of it holds at every moment.                                        *)
LEMMA StepPreserves == IInv /\ [Next]_vars => IInv'
<1>1. ASSUME IInv, NEW l \in Loads, Step(l) PROVE IInv'
  BY <1>1, TypePreserved, OverlapPreserved, StepsPreserved, GapPreserved,
     AlonePreserved,
     SnapshotsPreserved, NothingPreserved DEF IInv
<1>2. ASSUME IInv, UNCHANGED vars PROVE IInv'
  <2>1. TypeOK' /\ BackupOutlivesGap'
    BY <1>2 DEF IInv, vars, TypeOK, BackupOutlivesGap
  <2>2. OverlapInOrder' /\ StepsInOrder' /\ AloneInTheGap'
    BY <1>2 DEF IInv, vars, OverlapInOrder, Loading, MayOverlap, StepsInOrder,
       Is,
       AloneInTheGap
  <2>3. SnapshotsAreCurrent' /\ NothingBeforeTheTable'
    BY <1>2 DEF IInv, vars, SnapshotsAreCurrent, NothingBeforeTheTable, Serves,
       Is,
       Loading, Deletes, ToReplace, SameKey
  <2> QED
    BY <2>1, <2>2, <2>3 DEF IInv
<1> QED
  BY <1>1, <1>2, NextIsStep

(* The inductive invariant of the three destinations.                      *)
THEOREM Invariance == Spec => []IInv
  BY InitEstablishes, StepPreserves, PTL DEF Spec

(* Every variable keeps to its type.                                       *)
THEOREM TypeCorrect == Spec => []TypeOK
<1>1. IInv => TypeOK
  BY DEF IInv
<1> QED
  BY <1>1, Invariance, PTL

(* ParquetDestination._promote_overwrite: whatever overlaps, fails or      *)
(* dies, putting the directory back included, the rows of a directory that *)
(* is missing are in the backup of the load that moved it away.            *)
THEOREM NothingIsLostInTheGap == Spec => []BackupOutlivesGap
<1>1. IInv => BackupOutlivesGap
  BY DEF IInv
<1> QED
  BY <1>1, Invariance, PTL
-----------------------------------------------------------------------------
(* The refinement mapping, variable by variable.                           *)
ShownTable == IF Serves THEN Content ELSE {}
ShownApplied == [l \in Loads |-> Serves /\ applied[l]]
ShownOutcome == [l \in Loads |-> IF Serves THEN Outcome(l) ELSE "none"]

(* What Bronze says of a load, in terms of the mapping.                    *)
Replaces(l) ==
    Content' = (Content \ (IF scenario.mode = "overwrite" THEN Content
                           ELSE SameKey(l, Content))) \union Rows(l)

(* A load that begins, that goes on, that takes effect or that ends is one *)
(* in Bronze too.                                                          *)
LEMMA StepIsShown ==
  ASSUME TypeOK, StepsInOrder, Serves, NEW l \in Loads, Step(l)
  PROVE  /\ UNCHANGED <<scenario.mode, key, hasRows>> /\ Serves'
         /\ ShownTable = Content /\ ShownTable' = Content'
         /\ ShownApplied[l] = applied[l] /\ ShownOutcome[l] = Outcome(l)
         /\ ShownApplied' = [ShownApplied EXCEPT ![l] = applied'[l]]
         /\ ShownOutcome' = [ShownOutcome EXCEPT ![l] = Outcome(l)']
<1>1. UNCHANGED <<scenario, key, hasRows>> /\ Serves'
  BY OthersStandStill DEF Serves, Is
<1>2. \A m \in Loads : m # l => applied'[m] = applied[m] /\ Outcome(m)' = Outcome(m)
  BY OthersStandStill DEF Outcome
<1>3. applied \in [Loads -> BOOLEAN] /\ applied' \in [Loads -> BOOLEAN]
  BY TypePreserved DEF TypeOK
<1>4. /\ \A m \in Loads : ShownApplied[m] = applied[m] /\ ShownApplied'[m] = applied'[m]
      /\ ShownApplied = [m \in Loads |-> ShownApplied[m]]
      /\ ShownApplied' = [m \in Loads |-> ShownApplied'[m]]
  BY <1>1, <1>3 DEF ShownApplied
<1>5. /\ \A m \in Loads : ShownOutcome[m] = Outcome(m) /\ ShownOutcome'[m] = Outcome(m)'
      /\ ShownOutcome = [m \in Loads |-> ShownOutcome[m]]
      /\ ShownOutcome' = [m \in Loads |-> ShownOutcome'[m]]
  BY <1>1 DEF ShownOutcome
<1>6. ShownApplied' = [ShownApplied EXCEPT ![l] = applied'[l]]
  BY <1>2, <1>4
<1>7. ShownOutcome' = [ShownOutcome EXCEPT ![l] = Outcome(l)']
  BY <1>2, <1>5
<1> QED
  BY <1>1, <1>4, <1>5, <1>6, <1>7 DEF ShownTable

(* What changes neither rows nor standing is no step of Bronze.            *)
LEMMA KeepsShown ==
  ASSUME TypeOK, StepsInOrder, Serves, NEW l \in Loads, Step(l),
         Content' = Content, applied'[l] = applied[l], Outcome(l)' = Outcome(l)
  PROVE  UNCHANGED Promised!vars
<1>1. ShownTable' = ShownTable /\ UNCHANGED <<scenario.mode, key, hasRows>>
  BY StepIsShown
<1>2. ShownApplied' = ShownApplied
  BY StepIsShown DEF ShownApplied
<1>3. ShownOutcome' = ShownOutcome
  BY StepIsShown DEF ShownOutcome
<1> QED
  BY <1>1, <1>2, <1>3 DEF Promised!vars, ShownTable, ShownApplied, ShownOutcome

(* A load that ends, and ends well only after it took effect.              *)
LEMMA EndIsShown ==
  ASSUME TypeOK, StepsInOrder, Serves, NEW l \in Loads, Step(l), NEW how \in Endings,
         Content' = Content, applied'[l] = applied[l], how = "ok" => applied[l],
         Outcome(l) = "loading", Outcome(l)' = how
  PROVE  Promised!End(l, how)
<1>1. ShownTable' = ShownTable /\ UNCHANGED <<scenario.mode, key, hasRows>>
  BY StepIsShown
<1>2. ShownApplied' = ShownApplied /\ (how = "ok" => ShownApplied[l])
  BY StepIsShown DEF ShownApplied
<1>3. ShownOutcome[l] = "loading" /\ ShownOutcome' = [ShownOutcome EXCEPT ![l] = how]
  BY StepIsShown
<1> QED
  BY <1>1, <1>2, <1>3 DEF Promised!End, ShownTable, ShownApplied, ShownOutcome

(* A load that takes effect, once, and replaces what it is to replace.     *)
LEMMA AppliesIsShown ==
  ASSUME TypeOK, StepsInOrder, Serves, NEW l \in Loads, Step(l),
         Replaces(l), ~applied[l], applied'[l], Outcome(l) = "loading"
  PROVE  Promised!Applies(l)
<1>1. UNCHANGED <<scenario.mode, key, hasRows>>
  BY StepIsShown
<1>2. ~ShownApplied[l] /\ ShownApplied' = [ShownApplied EXCEPT ![l] = TRUE]
  <2>1. applied'[l] = TRUE
    BY TypePreserved DEF TypeOK
  <2> QED
    BY <2>1, StepIsShown
<1>3. ShownOutcome[l] = "loading"
  BY StepIsShown
<1>4. ShownTable' = (ShownTable \ Promised!Replaced(l)) \union Promised!Rows(l)
  <2>1. ShownTable = Content /\ ShownTable' = Content'
    BY StepIsShown
  <2>2. Promised!Rows(l) = Rows(l)
    BY DEF Promised!Rows, Rows
  <2>3. Promised!Replaced(l) = IF scenario.mode = "overwrite" THEN Content
                               ELSE SameKey(l, Content)
    BY DEF Promised!Replaced, SameKey
  <2> QED
    BY <2>1, <2>2, <2>3 DEF Replaces
<1> QED
  BY <1>1, <1>2, <1>3, <1>4 DEF Promised!Applies, ShownTable, ShownApplied,
     ShownOutcome
-----------------------------------------------------------------------------
(* Where no directory is moved away, the rows are those of the table.      *)
LEMMA ContentIsTable ==
  ASSUME TypeOK, StepsInOrder, NEW l \in Loads, Step(l), ~Is("parquet", "overwrite")
  PROVE  Content = table /\ Content' = table'
<1>1. moved = None
  BY DEF StepsInOrder
<1>2. moved' = None
  BY StepsPreserved, OthersStandStill DEF StepsInOrder, Is
<1> QED
  BY <1>1, <1>2 DEF Content

(* What a load replaces when it takes effect is what Bronze says.          *)
LEMMA EffectsReplace ==
  ASSUME IInv, Serves, NEW l \in Loads, Step(l),
         \/ CommitTransaction(l) \/ PromoteFile(l)
         \/ InstallDirectory(l) \/ DeltaCommit(l)
  PROVE  Replaces(l)
<1> USE DEF IInv
<1>1. CASE CommitTransaction(l)
  <2>1. /\ scenario.backend = "duckdb" /\ Loading(l)
        /\ table' = (table \ Deletes(l)) \union Rows(l)
    BY <1>1 DEF CommitTransaction, Loading, Endings
  <2>2. Deletes(l) = ToReplace(l)
    BY <2>1 DEF SnapshotsAreCurrent
  <2>3. Content = table /\ Content' = table'
    BY <2>1, ContentIsTable DEF Is
  <2> QED
    BY <2>1, <2>2, <2>3 DEF Replaces, ToReplace
<1>2. CASE PromoteFile(l)
  <2>1. Is("parquet", "append") /\ table' = (table \ SameKey(l, table)) \union Rows(l)
    BY <1>2 DEF PromoteFile, KeptByAppend
  <2>2. Content = table /\ Content' = table'
    BY <2>1, ContentIsTable DEF Is
  <2> QED
    BY <2>1, <2>2 DEF Replaces, Is
<1>3. CASE InstallDirectory(l)
  <2>1. scenario.mode = "overwrite" /\ Content' = Rows(l)
    BY <1>3 DEF InstallDirectory, Is, Content
  <2> QED
    BY <2>1 DEF Replaces
<1>4. CASE DeltaCommit(l)
  <2>1. /\ scenario.backend = "delta" /\ pc[l] = "checked"
        /\ table' = (table \ ReplacedInDelta(l)) \union Rows(l)
    BY <1>4 DEF DeltaCommit
  <2>2. Content = table /\ Content' = table'
    BY <2>1, ContentIsTable DEF Is
  <2>3. CASE scenario.mode = "overwrite"
    BY <2>1, <2>2, <2>3 DEF Replaces, ReplacedInDelta
  <2>4. CASE scenario.mode # "overwrite"
    <3>1. scenario.mode = "append"
      BY <2>4, ScenarioAssumption DEF TypeOK, Scenario
    <3>2. ReplacedInDelta(l) = SameKey(l, table)
      <4>1. CASE found[l]
        BY <2>4, <4>1 DEF ReplacedInDelta
      <4>2. CASE ~found[l]
        <5>1. SameKey(l, table) = {}
          BY <2>1, <3>1, <4>2 DEF NothingBeforeTheTable
        <5> QED
          BY <2>4, <4>2, <5>1 DEF ReplacedInDelta
      <4> QED
        BY <4>1, <4>2
    <3> QED
      BY <2>1, <2>2, <2>4, <3>2 DEF Replaces
  <2> QED
    BY <2>3, <2>4
<1> QED
  BY <1>1, <1>2, <1>3, <1>4

(* Every other step leaves the rows where a reader finds them, or where    *)
(* they can be put back from; above all one that puts them back, or fails. *)
LEMMA OthersKeepContent ==
  ASSUME IInv, Serves, NEW l \in Loads, Step(l),
         \/ Begin(l) \/ Fill(l) \/ Fail(l) \/ Crash(l) \/ CheckPrevious(l) \/ CheckTable(l)
         \/ MoveAway(l) \/ InstallFails(l) \/ PutBack(l) \/ PutBackFails(l) \/ RemoveBackup(l)
  PROVE  Content' = Content
<1> USE DEF IInv, TypeOK
<1>1. CASE Begin(l) \/ Fill(l) \/ Fail(l) \/ Crash(l) \/ CheckPrevious(l) \/ CheckTable(l)
  BY <1>1 DEF Begin, Fill, Fail, Crash, CheckPrevious, CheckTable, Content
<1>2. CASE MoveAway(l)
  <2>1. CASE exists
    <3>1. moved' = l /\ backup'[l] = table /\ ~exists'
      BY <1>2, <2>1 DEF MoveAway
    <3> QED
      BY <2>1, <3>1, NoneAssumption DEF Content
  <2>2. CASE ~exists
    BY <1>2, <2>2 DEF MoveAway, Content
  <2> QED
    BY <2>1, <2>2
<1>3. CASE RemoveBackup(l)
  <2>1. UNCHANGED <<exists, table, moved>> /\ pc[l] = "installed"
    BY <1>3 DEF RemoveBackup
  <2>2. ~exists /\ moved # None => moved \in Loads /\ moved # l
    BY <2>1 DEF BackupOutlivesGap
  <2>3. ~exists /\ moved # None => backup'[moved] = backup[moved]
    BY <2>2, OthersStandStill
  <2> QED
    BY <2>1, <2>3 DEF Content
<1>4. CASE InstallFails(l) \/ PutBackFails(l)
  BY <1>4 DEF InstallFails, PutBackFails, Content, BackupLeft
<1>5. CASE PutBack(l)
  <2>1. /\ pc[l] = "restoring" /\ UNCHANGED moved /\ exists' /\ table' = backup[l]
        /\ Is("parquet", "overwrite")
    BY <1>5 DEF PutBack
  <2>2. scenario.overlap = "none"
    BY <2>1 DEF Serves, Is
  <2>3. ~exists /\ moved = l
    BY <2>1, <2>2 DEF AloneInTheGap
  <2> QED
    BY <2>1, <2>3, NoneAssumption DEF Content
<1> QED
  BY <1>1, <1>2, <1>3, <1>4, <1>5

(* Step by step, from the start of a load to its end.                      *)
LEMMA StepRefines ==
  ASSUME IInv, Serves, NEW l \in Loads, Step(l)
  PROVE  \/ Promised!Begin(l) \/ Promised!Apply(l) \/ UNCHANGED Promised!vars
         \/ \E how \in Endings : Promised!ApplyAndEnd(l, how) \/ Promised!End(l, how)
<1> USE DEF MovesTo, Applied, Endings
<1>1. TypeOK /\ StepsInOrder /\ pc \in [Loads -> {"idle", "filling", "filled", "checked",
                                                   "moved", "restoring", "installed"}
                                                  \union Endings]
      /\ applied \in [Loads -> BOOLEAN]
  BY DEF IInv, TypeOK
<1>2. pc[l] \notin {"idle"} \union Endings => Outcome(l) = "loading"
  BY DEF Outcome
<1>3. CASE Begin(l)
  <2>1. pc[l] = "idle" /\ pc'[l] = "filling" /\ UNCHANGED applied
    BY <1>1, <1>3 DEF Begin
  <2>2. Outcome(l) = "none" /\ Outcome(l)' = "loading"
    BY <2>1 DEF Outcome
  <2>3. Content' = Content
    BY <1>3 DEF Begin, Content
  <2>4. ShownTable' = ShownTable /\ UNCHANGED <<scenario.mode, key, hasRows>>
    BY <1>1, <2>3, StepIsShown
  <2>5. ShownApplied' = ShownApplied
    BY <1>1, <2>1, StepIsShown DEF ShownApplied
  <2>6. ShownOutcome[l] = "none" /\ ShownOutcome' = [ShownOutcome EXCEPT ![l] = "loading"]
    BY <1>1, <2>2, StepIsShown
  <2> QED
    BY <2>4, <2>5, <2>6 DEF Promised!Begin, ShownTable, ShownApplied,
       ShownOutcome
<1>4. CASE \/ Fill(l) \/ CheckPrevious(l) \/ CheckTable(l) \/ (MoveAway(l) /\ exists)
           \/ (InstallFails(l) /\ ~exists /\ backup[l] # None)
  <2>1. /\ pc[l] \in {"filling", "filled", "checked", "moved"}
        /\ pc'[l] \in {"filled", "checked", "moved", "restoring"} /\ UNCHANGED applied
    BY <1>1, <1>4 DEF Fill, CheckPrevious, CheckTable, MoveAway, InstallFails,
       ReadyToInstall
  <2>2. Outcome(l)' = Outcome(l)
    BY <2>1 DEF Outcome
  <2>3. Content' = Content
    BY <1>4, OthersKeepContent
  <2> QED
    BY <1>1, <2>1, <2>2, <2>3, KeepsShown
<1>5. CASE \/ Fail(l) \/ Crash(l) \/ (MoveAway(l) /\ ~exists)
           \/ (InstallFails(l) /\ ~(~exists /\ backup[l] # None))
           \/ PutBack(l) \/ PutBackFails(l) \/ RemoveBackup(l)
  <2>1. /\ pc[l] \notin {"idle"} \union Endings /\ pc'[l] \in Endings /\ UNCHANGED applied
        /\ pc'[l] = "ok" => pc[l] = "installed"
    BY <1>1, <1>5 DEF Fail, Crash, MoveAway, InstallFails, ReadyToInstall,
       PutBack, PutBackFails, RemoveBackup, Loading
  <2>2. Outcome(l) = "loading" /\ Outcome(l)' = pc'[l]
    BY <2>1 DEF Outcome
  <2>3. pc'[l] = "ok" => applied[l]
    BY <1>1, <2>1 DEF StepsInOrder
  <2>4. Content' = Content
    BY <1>5, OthersKeepContent
  <2>5. Promised!End(l, pc'[l])
    BY <1>1, <2>1, <2>2, <2>3, <2>4, EndIsShown
  <2> QED
    BY <2>1, <2>5
<1>6. ASSUME \/ CommitTransaction(l) \/ PromoteFile(l)
             \/ InstallDirectory(l) \/ DeltaCommit(l)
      PROVE  Promised!Applies(l) /\ Outcome(l) = "loading"
  <2>1. /\ pc[l] \in {"filled", "moved", "checked"} /\ applied'[l]
    BY <1>1, <1>6 DEF CommitTransaction, PromoteFile, InstallDirectory,
       ReadyToInstall,
       DeltaCommit
  <2>2. ~applied[l]
    BY <1>1, <2>1 DEF StepsInOrder, NotYetApplied
  <2>3. Replaces(l)
    BY <1>6, EffectsReplace
  <2> QED
    BY <1>1, <1>2, <2>1, <2>2, <2>3, AppliesIsShown
<1>7. CASE CommitTransaction(l) \/ PromoteFile(l) \/ DeltaCommit(l)
  <2>1. pc'[l] \in Endings
    BY <1>1, <1>7 DEF CommitTransaction, PromoteFile, DeltaCommit
  <2>2. Outcome(l)' = pc'[l]
    BY <2>1 DEF Outcome
  <2>3. ShownOutcome' = [ShownOutcome EXCEPT ![l] = pc'[l]]
    BY <1>1, <2>2, StepIsShown
  <2>4. Promised!ApplyAndEnd(l, pc'[l])
    BY <1>6, <1>7, <2>3 DEF Promised!ApplyAndEnd, ShownOutcome
  <2> QED
    BY <2>1, <2>4
<1>8. CASE InstallDirectory(l)
  <2>1. pc'[l] = "installed"
    BY <1>1, <1>8 DEF InstallDirectory
  <2>2. Outcome(l)' = "loading" /\ Outcome(l) = "loading"
    BY <1>6, <1>8, <2>1 DEF Outcome
  <2>3. ShownOutcome' = ShownOutcome
    BY <1>1, <2>2, StepIsShown DEF ShownOutcome
  <2> QED
    BY <1>6, <1>8, <2>3 DEF Promised!Apply, ShownOutcome
<1> QED
  BY <1>3, <1>4, <1>5, <1>7, <1>8 DEF Step

(* Of the other overlaps Bronze sees nothing.                              *)
LEMMA RestIsHidden ==
  ASSUME TypeOK, StepsInOrder, ~Serves, NEW l \in Loads, Step(l)
  PROVE  UNCHANGED Promised!vars
<1>1. UNCHANGED <<scenario, key, hasRows>>
  BY OthersStandStill
<1>2. ~Serves'
  BY <1>1 DEF Serves, Is
<1>3. ShownTable' = ShownTable
  BY <1>2 DEF ShownTable
<1>4. ShownApplied' = ShownApplied
  <2>1. ShownApplied = [m \in Loads |-> FALSE]
    BY DEF ShownApplied, TypeOK
  <2>2. ShownApplied' = [m \in Loads |-> FALSE]
    BY <1>2, TypePreserved DEF ShownApplied, TypeOK
  <2> QED
    BY <2>1, <2>2
<1>5. ShownOutcome' = ShownOutcome
  BY <1>2 DEF ShownOutcome
<1> QED
  BY <1>1, <1>3, <1>4, <1>5 DEF Promised!vars, ShownTable, ShownApplied,
     ShownOutcome

(* Destination.load_with_context, for the three official destinations: in  *)
(* APPEND and in OVERWRITE, whoever fails or dies in between, each load    *)
(* replaces what it is to replace at one instant, or nothing.              *)
THEOREM DestinationsImplementBronze == Spec => ImplementsBronze
<1>1. Init => Promised!Init
  <2> SUFFICES ASSUME Init PROVE Promised!Init
    OBVIOUS
  <2>1. scenario.mode \in {"append", "overwrite"}
    BY ScenarioAssumption DEF Init, Scenario
  <2>2. ShownTable = {}
    BY DEF Init, ShownTable, Content
  <2>3. ShownApplied = [l \in Loads |-> FALSE]
    BY DEF Init, ShownApplied
  <2>4. ShownOutcome = [l \in Loads |-> "none"]
    BY DEF Init, ShownOutcome, Outcome
  <2>5. key \in [Loads -> Keys] /\ hasRows \in [Loads -> BOOLEAN]
    BY DEF Init
  <2> QED
    BY <2>1, <2>2, <2>3, <2>4, <2>5 DEF Promised!Init, ShownTable,
       ShownApplied, ShownOutcome
<1>2. IInv /\ [Next]_vars => [Promised!Next]_(Promised!vars)
  <2>1. ASSUME IInv, NEW l \in Loads, Step(l) PROVE [Promised!Next]_(Promised!vars)
    <3>1. CASE Serves
      BY <2>1, <3>1, StepRefines DEF Promised!Next, Endings
    <3>2. CASE ~Serves
      BY <2>1, <3>2, RestIsHidden DEF IInv
    <3> QED
      BY <3>1, <3>2
  <2>2. ASSUME UNCHANGED vars PROVE UNCHANGED Promised!vars
    BY <2>2 DEF vars, Promised!vars, Content, Serves, Is, Outcome
  <2> QED
    BY <2>1, <2>2, NextIsStep
<1> QED
  BY <1>1, <1>2, Invariance, PTL DEF Spec, ImplementsBronze, Promised!Spec
-----------------------------------------------------------------------------
(* What is left of the promise when OVERWRITEs of Parquet overlap.         *)
IsSnapshot(rows) == rows = {} \/ \E m \in Loads : applied[m] /\ rows = {m}
OneSnapshot ==
    Is("parquet", "overwrite") =>
        /\ IsSnapshot(table)
        /\ \A l \in Loads : backup[l] # None => IsSnapshot(backup[l])

(* ParquetDestination in OVERWRITE mode: whoever overlaps, the directory   *)
(* and every backup hold the rows of one load that took effect, or none;   *)
(* never a part of them, and never those of two.                           *)
THEOREM SnapshotsAreNeverMixed == Spec => []OneSnapshot
<1>1. Init => OneSnapshot
  BY DEF Init, OneSnapshot, IsSnapshot
<1>2. ASSUME IInv, OneSnapshot, NEW l \in Loads, Step(l) PROVE OneSnapshot'
  <2>1. TypeOK /\ TypeOK' /\ Is("parquet", "overwrite")' = Is("parquet", "overwrite")
    BY <1>2, TypePreserved, OthersStandStill DEF IInv, Is
  <2> SUFFICES ASSUME Is("parquet", "overwrite")
               PROVE  /\ IsSnapshot(table)'
                      /\ \A m \in Loads : backup'[m] # None => IsSnapshot(backup[m])'
    BY <2>1 DEF OneSnapshot
  <2>2. \A m \in Loads : applied[m] => applied'[m]
    <3>1. UNCHANGED applied \/ Applied(l)
      BY <1>2 DEF Step, Begin, Fill, Fail, Crash, CommitTransaction,
         PromoteFile,
         CheckPrevious, MoveAway, InstallDirectory, InstallFails, PutBack, PutBackFails,
         RemoveBackup, CheckTable, DeltaCommit
    <3> QED
      BY <2>1, <3>1 DEF Applied, TypeOK
  <2>3. ASSUME NEW rows, IsSnapshot(rows)
        PROVE  rows = {} \/ \E m \in Loads : applied'[m] /\ rows = {m}
    BY <2>2, <2>3 DEF IsSnapshot
  <2>4. IsSnapshot(table)'
    <3>1. CASE InstallDirectory(l)
      <4>1. table' = Rows(l) /\ Applied(l)
        BY <3>1 DEF InstallDirectory
      <4>2. applied'[l]
        BY <2>1, <4>1 DEF Applied, TypeOK
      <4> QED
        BY <4>1, <4>2 DEF IsSnapshot, Rows
    <3>2. CASE ~InstallDirectory(l)
      <4>1. table' \in {table, {}} \/ (backup[l] # None /\ table' = backup[l])
        BY <1>2, <3>2 DEF IInv, StepsInOrder, Step, Begin, Fill, Fail, Crash, CommitTransaction,
           PromoteFile,
           CheckPrevious, MoveAway, InstallFails, PutBack, PutBackFails, RemoveBackup,
           CheckTable, DeltaCommit, Is
      <4>2. IsSnapshot(table) /\ (backup[l] # None => IsSnapshot(backup[l]))
        BY <1>2 DEF OneSnapshot
      <4> QED
        BY <2>3, <4>1, <4>2 DEF IsSnapshot
    <3> QED
      BY <3>1, <3>2
  <2>5. ASSUME NEW m \in Loads, backup'[m] # None PROVE IsSnapshot(backup[m])'
    <3>1. backup'[m] \in {backup[m], table}
      BY <1>2, <2>1, <2>5 DEF Step, Begin, Fill, Fail, Crash, CommitTransaction,
         PromoteFile, CheckPrevious, MoveAway, InstallDirectory, InstallFails, PutBack,
         PutBackFails, BackupLeft, RemoveBackup, CheckTable, DeltaCommit, TypeOK
    <3>2. IsSnapshot(table) /\ (backup[m] # None => IsSnapshot(backup[m]))
      BY <1>2 DEF OneSnapshot
    <3> QED
      BY <2>3, <2>5, <3>1, <3>2 DEF IsSnapshot
  <2> QED
    BY <2>4, <2>5
<1>3. ASSUME OneSnapshot, UNCHANGED vars PROVE OneSnapshot'
  BY <1>3 DEF OneSnapshot, IsSnapshot, Is, vars
<1>4. IInv /\ OneSnapshot /\ [Next]_vars => OneSnapshot'
  BY <1>2, <1>3, NextIsStep
<1> QED
  BY <1>1, <1>4, Invariance, PTL DEF Spec
=============================================================================
