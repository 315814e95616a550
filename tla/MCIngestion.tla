---------------------------- MODULE MCIngestion ----------------------------
(* Instances of Ingestion for TLC.                                         *)
EXTENDS Ingestion, TLC

DataDate(filter, overlap, midnight) ==
    [mode |-> "data_date", filter |-> filter,
     overlap |-> overlap, midnight |-> midnight, utcAhead |-> 0]

IngestionDate(filter, midnight, ahead) ==
    [mode |-> "ingestion_date", filter |-> filter,
     overlap |-> FALSE, midnight |-> midnight, utcAhead |-> ahead]

(* IngestionCore: one scenario for every way the properties depend on it.  *)
MCScenarios ==
    {DataDate("client-side", FALSE, TRUE), DataDate("source-param", FALSE, TRUE),
     DataDate("client-side", TRUE, TRUE), IngestionDate("source-param", FALSE, 0),
     IngestionDate("checkpoint-only", TRUE, 1)}

(* RetryNextDay: a client-side window, one run at a time, within the day.  *)
SequentialRuns == {DataDate("client-side", FALSE, FALSE)}

(* OverlapGap: the source filters from the start date, runs overlap.       *)
OverlappingRuns == {DataDate("source-param", TRUE, TRUE)}

(* IngestionDateGap: a run may be active when the day changes.             *)
RunsOverMidnight == {IngestionDate("source-param", TRUE, 0)}

Symmetric == Permutations(Runs) \union Permutations(Records)
=============================================================================
