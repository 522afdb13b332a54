--------------------------- MODULE MCIngestClient ---------------------------
(***************************************************************************)
(* Small instances of IngestClient: two files with two attempts each, and  *)
(* a queue of two events.                                                  *)
(***************************************************************************)
EXTENDS IngestClient, TLC

MCDocs == Files \X (1..MaxTries)
MCJobOf == [d \in Docs |-> TheJob]
MCFilterOf == [s \in Streams |-> TheJob]
MCExpected == [j \in Jobs |-> Cardinality(Files)]

Alike == Permutations(Files)
=============================================================================
