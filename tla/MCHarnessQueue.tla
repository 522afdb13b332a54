--------------------------- MODULE MCHarnessQueue ---------------------------
(* A schedule whose dispatches create one job or two, two threads that     *)
(* dispatch it and two runners; the backlog limit is one job.              *)
EXTENDS HarnessQueue, TLC

CONSTANTS t1, t2, nightly, r1, r2

MCLacks == [r \in Runners |-> IF r = r1 THEN {2} ELSE {}]
MCSymmetry == Permutations({t1, t2})
=============================================================================
