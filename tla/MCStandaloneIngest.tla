------------------------- MODULE MCStandaloneIngest -------------------------
(***************************************************************************)
(* Small instances of StandaloneIngest: one job and one pool.  Twins are   *)
(* the uploads with the manifest entry e1, Edited those of them that send  *)
(* another file than the rest, WithSidecar those that name the sidecar s1. *)
(***************************************************************************)
EXTENDS StandaloneIngest, TLC

CONSTANTS Twins, Edited, WithSidecar, e1, s1, Size, Documents

MCExpected == [j \in Jobs |-> Documents]
MCKeyOf == [j \in Jobs |-> NoKey]
MCPrintOf == [j \in Jobs |-> NoPrint]
MCJobOf == [d \in Docs |-> CHOOSE j \in Jobs : TRUE]
MCEntryOf == [d \in Docs |-> IF d \in Twins THEN e1 ELSE NoEntry]
MCContentOf == [d \in Docs |-> IF d \in Edited THEN "edited" ELSE "file"]
MCSidecarOf == [d \in Docs |-> IF d \in WithSidecar THEN s1 ELSE NoSidecar]
MCPoolOf == [d \in Docs |-> "batch"]
MCQueueSize == [p \in Pools |-> Size]
MCServes == [k \in Workers |-> "batch"]
=============================================================================
