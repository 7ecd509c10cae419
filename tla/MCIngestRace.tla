---------------------------- MODULE MCIngestRace ----------------------------
(***************************************************************************)
(* Two replicas for TLC, that serve the same batch at once, or different   *)
(* batches about one table, which one of them names twice.                 *)
(***************************************************************************)
EXTENDS MCIngest, IngestRace

RaceBatches == {b1, b2}
RaceEntities == (b1 :> <<Put(t, h2)>>)
             @@ (b2 :> <<Drop(t, "neither"), Put(t, h1)>>)
Replicas == Permutations(Replica)

\* The table is new, or known with other content.
RaceKnown == {[u \in Urn |-> IF u = t THEN C!Upserted(h1) ELSE C!Absent]}
=============================================================================
