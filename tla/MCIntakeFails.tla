--------------------------- MODULE MCIntakeFails ---------------------------
(***************************************************************************)
(* An instance of Intake that remembers which slots the scheduler failed   *)
(* to enqueue, to look at what becomes of them.                            *)
(***************************************************************************)
EXTENDS MCIntake

VARIABLE failed  \* history: the slots whose transaction was rolled back

\* The transaction of a tick raised: a BudgetError, or any other exception.
RolledBack(w) == Fails(w) \/ (Check(w) /\ lock' = None)

InitFails == Init /\ failed = {}

NextFails ==
  /\ Next
  /\ failed' = failed \cup {procs[w].key : w \in {v \in Workers : RolledBack(v)}}

SpecFails == InitFails /\ [][NextFails]_<<vars, failed>>

\* A slot whose enqueue failed is left unrecorded and retried: no later tick gives
\* it up as missed.
FailedRetried == \A s \in failed : ~GivenUp(s)
=============================================================================
