---------------------------- MODULE MCIngestRuns ----------------------------
(***************************************************************************)
(* The two topics of an ingest run and the consumers that local-runner.ts  *)
(* runs for a row of each.                                                 *)
(***************************************************************************)
EXTENDS IngestRuns, TLC

CONSTANTS w1, w2

MCFamilies ==
    "ingest.requested" :> <<"ingest", "search">> @@ "facts.loaded" :> <<"rollup", "search">>
MCConsumers == {"ingest", "rollup", "search"}
=============================================================================
