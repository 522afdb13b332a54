---------------------------- MODULE MCWorkBroker ----------------------------
(* Finite instances of WorkBroker: which works and claimers belong to the  *)
(* realtime pool and which carry a sidecar is given by sets; the payloads  *)
(* of the latter may vanish.                                               *)
EXTENDS WorkBroker, TLC

CONSTANTS RealtimeWork, RealtimeClaimers, SidecarWork, Limit, Cap

MCPoolOf == [w \in Work |-> IF w \in RealtimeWork THEN "realtime" ELSE "batch"]
MCClaimsFrom == [c \in Claimers |-> IF c \in RealtimeClaimers THEN "realtime" ELSE "batch"]
MCHasSidecar == SidecarWork
MCPayloadBytes == [w \in Work |-> 2]
MCSidecarBytes == [w \in Work |-> 1]
MCQueueLimit == [p \in Pools |-> Limit]
MCLeaseCap == [p \in Pools |-> Cap]
MCLosable == {<<w, "payload">> : w \in SidecarWork}

MCSymmetry == Permutations(Claimers) \cup Permutations(Work \ RealtimeWork)
=============================================================================
