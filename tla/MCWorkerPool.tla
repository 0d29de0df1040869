---------------------------- MODULE MCWorkerPool ----------------------------
(* An instance of WorkerPool for TLC: a role with all three providers, two   *)
(* of them on one host, one with two, one with one, and a job from a         *)
(* configuration this worker has not loaded.                                 *)
EXTENDS WorkerPool

CONSTANTS p1, p2, p3, p4

Hosts == [p \in {p1, p2, p3} |-> IF p = p3 THEN "cloud" ELSE "host"]
Allowed == [p \in {p1, p2, p3} |-> IF p = p2 THEN 2 ELSE 1]
Roles == [j \in Jobs |-> CASE j = 1 -> <<p1, p3, p2>> [] j = 2 -> <<p2>> [] OTHER -> <<p3, p1>>]
NewRoles == [j \in Jobs |-> CASE j = 1 -> <<p1, p3, p2>> [] j = 2 -> <<p2>> [] OTHER -> <<p2, p4>>]

\* One failure more and p2 cools.
Failures == [p \in {p1, p2, p3, p4} |-> IF p = p2 THEN 1 ELSE 0]

Retries == [j \in Jobs |-> IF j = 2 THEN 1 ELSE 2]
=============================================================================
