----------------------------- MODULE MCJobQueue -----------------------------
(* Instances of JobQueue for TLC. *)
EXTENDS JobQueue, TLC

CONSTANTS j1, j2, w1, w2, r1, r2, r3, c1, c2

\* r1 and r2 are threads of the worker w1; r3 is a thread of w2.
MCWorkerOf == [r \in Runners |-> IF r = r3 THEN w2 ELSE w1]

\* j1 comes first in the claim order.
MCRank == [j \in Jobs |-> IF j = j1 THEN 1 ELSE 2]

\* The commands do the same.
Interchangeable == Permutations(Clis)

\* Bounds on the faults: at most one, of one of these kinds.
One(kinds) ==
  {f \in [FaultKinds -> {0, 1}] :
    /\ \A k \in FaultKinds \ kinds : f[k] = 0
    /\ Cardinality({k \in kinds : f[k] = 1}) <= 1}

NoFaults == One({})
OneLate == One({"late"})
LateOrLost == One({"late", "result"})
LateOrOpen == One({"late", "open"})
=============================================================================
