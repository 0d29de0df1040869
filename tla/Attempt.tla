------------------------------ MODULE Attempt ------------------------------
(***************************************************************************)
(* What the execution of a claimed job promises the queue: one result, and *)
(* "cancelled" only if somebody asked for it, or if the agent may stop its *)
(* turn of its own accord.  JobQueue's ExecReturn and ExecRaise are these  *)
(* returns; ProcRunner and AcpRun implement them.                          *)
(***************************************************************************)
CONSTANTS
  SelfCancels   \* TRUE iff the backend may report "cancelled" unasked

VARIABLES
  result,       \* what execute_job got, "crash" for an exception
  cancelling    \* the row's status is "cancelling"

Results == {"done", "failed", "timeout", "cancelled", "unavailable", "crash"}

Init == result = "none" /\ cancelling = FALSE

RequestCancel == cancelling' = TRUE /\ UNCHANGED result

Return(r) ==
  /\ result = "none"
  /\ r = "cancelled" => cancelling \/ SelfCancels
  /\ result' = r
  /\ UNCHANGED cancelling

Next == RequestCancel \/ \E r \in Results : Return(r)

Spec == Init /\ [][Next]_<<result, cancelling>>
=============================================================================
