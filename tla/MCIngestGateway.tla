-------------------------- MODULE MCIngestGateway --------------------------
(***************************************************************************)
(* Small instances of IngestGateway: one pool and one job.  RowWork are    *)
(* the works whose rows are retained, SidecarWork those with a sidecar,    *)
(* TwinWork those that repeat one manifest entry.                          *)
(***************************************************************************)
EXTENDS IngestGateway, TLC

CONSTANTS RowWork, SidecarWork, TwinWork, e1, Limit, Cap

MCPoolOf == [w \in Work |-> "batch"]
MCClaimsFrom == [c \in Claimers |-> "batch"]
MCBytes == [w \in Work |-> 1]
MCQueueLimit == [p \in Pools |-> Limit]
MCLeaseCap == [p \in Pools |-> Cap]
MCLosable == {<<w, "payload">> : w \in Work}

MCExpected == [j \in Jobs |-> Cardinality(Work)]
MCKeyOf == [j \in Jobs |-> NoKey]
MCPrintOf == [j \in Jobs |-> NoPrint]
MCJobOf == [w \in Work |-> CHOOSE j \in Jobs : TRUE]
MCEntryOf == [w \in Work |-> IF w \in TwinWork THEN e1 ELSE NoEntry]
MCContentOf == [w \in Work |-> "file"]

MCSymmetry == Permutations(Claimers)
=============================================================================
