---------------------------- MODULE Transitions ----------------------------
(***************************************************************************)
(* The job-status state machine of herder: the statuses of a row of the    *)
(* jobs table, the legal edges between them and the sets of statuses the   *)
(* store's queries select by.  Pure definitions, shared by every module    *)
(* that touches a job row.                                                 *)
(***************************************************************************)

Statuses == {"pending", "waiting_approval", "approved", "running", "cancelling",
             "failed", "dead", "cancelled", "done", "rejected"}

\* The edges of the state machine, keyed by the status left.
LegalTransitions ==
  [ pending          |-> {"running", "cancelled"},
    waiting_approval |-> {"approved", "rejected", "cancelled"},
    approved         |-> {"running", "cancelled"},
    running          |-> {"done", "failed", "cancelled", "cancelling", "running"},
    cancelling       |-> {"done", "failed", "cancelled"},
    failed           |-> {"pending", "dead"},
    dead             |-> {"pending"},
    cancelled        |-> {"pending"},
    done             |-> {},
    rejected         |-> {} ]

\* assert_transition raises exactly when this is false.
IsLegal(from, to) == to \in LegalTransitions[from]

\* Statuses the budget and the duplicate search do not count as active.
Terminal == {"done", "failed", "dead", "cancelled", "rejected"}

\* The statuses enqueue_job gives a new row.
Enqueued == {"pending", "waiting_approval"}
=============================================================================
