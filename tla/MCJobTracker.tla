---------------------------- MODULE MCJobTracker ----------------------------
(***************************************************************************)
(* Small instances of JobTracker for TLC.                                  *)
(*                                                                         *)
(* documents: three requests for jobs on one key, of which the first two   *)
(* name different fingerprints and the third none.  The third job takes    *)
(* three documents of five uploads, two of which are for one manifest      *)
(* entry, and its watchers hear of every second end.                       *)
(***************************************************************************)
EXTENDS JobTracker, TLC

CONSTANTS j1, j2, j3, d1, d2, d3, d4, d5, e1, k1, p1, p2, c1, c2

Expected_one == [j \in Jobs |-> IF j = j3 THEN 3 ELSE 1]
KeyOf_one == [j \in Jobs |-> k1]
PrintOf_one == [j \in Jobs |-> IF j = j1 THEN p1 ELSE IF j = j2 THEN p2 ELSE NoPrint]
JobOf_one == [d \in Docs |-> j3]
EntryOf_one == [d \in Docs |-> IF d \in {d1, d2} THEN e1 ELSE NoEntry]
ContentOf_one == [d \in Docs |-> IF d \in {d1, d2} THEN c1 ELSE c2]

Alike == Permutations({d3, d4, d5})
=============================================================================
