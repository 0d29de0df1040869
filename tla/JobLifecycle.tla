---------------------------- MODULE JobLifecycle ----------------------------
(***************************************************************************)
(* What the job queue promises to a reader of the jobs table: each row     *)
(* starts as enqueue_job wrote it and moves only along the legal edges of  *)
(* Transitions, one row at a time.  The exception is `herder cancel', which *)
(* decides on the status it saw and overwrites whatever the row has become *)
(* since.  JobQueue is shown to implement this specification.              *)
(***************************************************************************)
EXTENDS Transitions

CONSTANTS
  Jobs,
  Callers    \* those who may cancel

VARIABLES
  status,    \* the status column, by job
  asked      \* the cancel each caller has under way: {} or {<<job, status seen>>}

\* What a cancel makes of the statuses it acts on.
CancelTo ==
  [pending |-> "cancelled", waiting_approval |-> "cancelled", approved |-> "cancelled",
   running |-> "cancelling"]

Init ==
  /\ status \in [Jobs -> Enqueued]
  /\ asked = [c \in Callers |-> {}]

Move(j, to) ==
  /\ IsLegal(status[j], to)
  /\ status' = [status EXCEPT ![j] = to]
  /\ UNCHANGED asked

Ask(c, j) ==
  /\ asked[c] = {}
  /\ status[j] \in DOMAIN CancelTo
  /\ asked' = [asked EXCEPT ![c] = {<<j, status[j]>>}]
  /\ UNCHANGED status

Cancel(c) ==
  /\ \E a \in asked[c] : status' = [status EXCEPT ![a[1]] = CancelTo[a[2]]]
  /\ asked' = [asked EXCEPT ![c] = {}]

Next ==
  \/ \E j \in Jobs, to \in Statuses : Move(j, to)
  \/ \E c \in Callers : Cancel(c) \/ \E j \in Jobs : Ask(c, j)

Spec == Init /\ [][Next]_<<status, asked>>
=============================================================================
