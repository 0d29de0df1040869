--------------------------- MODULE JobQueueProofs ---------------------------
(***************************************************************************)
(* Theorems about JobQueue, for any sets of jobs, workers, threads and     *)
(* commands, any max_retries and any number of crashes and faults.         *)
(***************************************************************************)
EXTENDS JobQueue, FiniteSetTheorems, TLAPS

(***************************************************************************)
(* How a step moves one process                                            *)
(***************************************************************************)

ProcsOK ==
  /\ procs \in [Procs -> Proc]
  /\ \A p \in Procs : WellFormed(procs[p])

RowsOK == jobs \in [Jobs -> JobRow]

\* Only p moves, and it stays well-formed.
Moved(p) ==
  /\ procs' \in [Procs -> Proc]
  /\ WellFormed(procs'[p])
  /\ \A q \in Procs \ {p} : procs'[q] = procs[q]

\* p is still working for the same claim.
SameRun(p) ==
  /\ procs'[p].job = procs[p].job
  /\ procs'[p].attempt = procs[p].attempt

\* p forgot its job: its thread returned to the pool, or its command exited.
Left(p) ==
  /\ procs'[p].pc \in {"idle", "exit"} /\ procs'[p].job = None
  /\ procs'[p].pc = "idle" => p \in Runners

\* Those of a process that has decided to put its job back.
Requeuing == {"requeue", "requeue_write"}

\* Those from which it may still put its job back.
Engaged == Working \cup {"finish_event", "policy"} \cup Requeuing

LEMMA MovedOK ==
  ASSUME ProcsOK, NEW p \in Procs, Moved(p)
  PROVE  ProcsOK'
BY DEF ProcsOK, Moved

LEMMA LeaveMoves ==
  ASSUME ProcsOK, NEW p \in Procs, Leave(p)
  PROVE  Moved(p) /\ Left(p)
BY DEF ProcsOK, Moved, Left, Leave, Idle, Proc, Steps, WellFormed

\* The steps a process takes with its local variables unchanged: those that
\* need an outcome or a status read have it already.
LEMMA GotoMoves ==
  ASSUME ProcsOK, NEW p \in Procs, NEW step \in Steps \ {"idle", "exit", "cancel_write", "record"},
         Goto(p, step),
         procs[p].pc \notin {"idle", "exit"},
         step \in {"finish", "finish_write", "finish_event"} => procs[p].outcome # "none",
         step \in {"finish_write", "finish_event", "requeue_write", "requeue_event",
                   "dead_write", "dead_event"} => procs[p].seen # "none"
  PROVE  /\ Moved(p) /\ SameRun(p)
         /\ procs'[p].pc = step
         /\ procs'[p].outcome = procs[p].outcome
<1>1. procs' \in [Procs -> Proc] /\ \A q \in Procs \ {p} : procs'[q] = procs[q]
  BY DEF ProcsOK, Goto, Proc
<1>2. /\ procs'[p].pc = step
      /\ procs'[p].job = procs[p].job
      /\ procs'[p].attempt = procs[p].attempt
      /\ procs'[p].outcome = procs[p].outcome
      /\ procs'[p].seen = procs[p].seen
  BY DEF ProcsOK, Goto, Proc
<1>3. WellFormed(procs'[p])
  BY <1>2 DEF ProcsOK, WellFormed
<1>4. QED
  BY <1>1, <1>2, <1>3 DEF Moved, SameRun

LEMMA CheckedMoves ==
  ASSUME ProcsOK, RowsOK, NEW p \in Procs,
         NEW step \in {"finish_write", "requeue_write", "dead_write"},
         Checked(p, step),
         procs[p].pc \notin {"idle", "exit"},
         step = "finish_write" => procs[p].outcome # "none"
  PROVE  /\ Moved(p) /\ SameRun(p)
         /\ procs'[p].pc = step
         /\ procs'[p].outcome = procs[p].outcome
<1>0. procs[p].job \in Jobs
  BY DEF ProcsOK, WellFormed
<1>1. jobs[procs[p].job].status \in Statuses
  BY <1>0 DEF RowsOK, JobRow
<1>2. procs' \in [Procs -> Proc] /\ \A q \in Procs \ {p} : procs'[q] = procs[q]
  <2>1. procs[p] \in Proc /\ step \in Steps
    BY DEF ProcsOK, Steps
  <2>2. [procs[p] EXCEPT !.pc = step, !.seen = jobs[procs[p].job].status] \in Proc
    BY <2>1, <1>1 DEF Proc
  <2>3. procs' = [procs EXCEPT ![p] = [procs[p] EXCEPT !.pc = step,
                                         !.seen = jobs[procs[p].job].status]]
    BY DEF Checked, ProcsOK, Proc
  <2>4. QED
    BY <2>2, <2>3 DEF ProcsOK
<1>3. /\ procs'[p].pc = step
      /\ procs'[p].job = procs[p].job
      /\ procs'[p].attempt = procs[p].attempt
      /\ procs'[p].outcome = procs[p].outcome
      /\ procs'[p].seen = jobs[procs[p].job].status
  BY DEF ProcsOK, Checked, Proc
<1>4. WellFormed(procs'[p])
  BY <1>0, <1>1, <1>3 DEF WellFormed, Statuses
<1>5. QED
  BY <1>2, <1>3, <1>4 DEF Moved, SameRun

LEMMA CrashPathMoves ==
  ASSUME ProcsOK, NEW r \in Procs, CrashPath(r), procs[r].pc \notin {"idle", "exit"}
  PROVE  /\ Moved(r) /\ SameRun(r)
         /\ procs'[r].pc = "record"
         /\ procs'[r].outcome = "internal"
<1>1. procs' \in [Procs -> Proc] /\ \A q \in Procs \ {r} : procs'[q] = procs[q]
  <2>1. [procs[r] EXCEPT !.pc = "record", !.outcome = "internal"] \in Proc
    BY DEF ProcsOK, Proc, Steps, Outcomes, Failures
  <2>2. procs' = [procs EXCEPT ![r] = [procs[r] EXCEPT !.pc = "record",
                                                      !.outcome = "internal"]]
    BY DEF CrashPath, ProcsOK, Proc
  <2>3. QED
    BY <2>1, <2>2 DEF ProcsOK
<1>2. /\ procs'[r].pc = "record"
      /\ procs'[r].job = procs[r].job
      /\ procs'[r].attempt = procs[r].attempt
      /\ procs'[r].outcome = "internal"
  BY DEF ProcsOK, CrashPath, Proc
<1>3. WellFormed(procs'[r])
  BY <1>2 DEF ProcsOK, WellFormed
<1>4. QED
  BY <1>1, <1>2, <1>3 DEF Moved, SameRun

\* What a caller of finish_job does next.
LEMMA AfterFinishMoves ==
  ASSUME ProcsOK, NEW r \in Procs, AfterFinish(r), procs[r].pc \notin {"idle", "exit"}
  PROVE  /\ Moved(r)
         /\ \/ Left(r)
            \/ SameRun(r) /\ procs'[r].pc = "policy"
<1>1. CASE Goto(r, "policy")
  BY <1>1, GotoMoves DEF Steps
<1>2. CASE Leave(r)
  BY <1>2, LeaveMoves
<1>3. QED
  BY <1>1, <1>2 DEF AfterFinish

(***************************************************************************)
(* What a step may do to one row, column by column                         *)
(***************************************************************************)

\* Only the row of j is written, and it stays a row.
Written(j) ==
  /\ jobs' \in [Jobs -> JobRow]
  /\ \A k \in Jobs \ {j} : jobs'[k] = jobs[k]

Claimed(j) ==
  /\ jobs[j].status \in {"pending", "approved", "running"}
  /\ jobs[j].status = "running" => jobs[j].lease = "expired"
  /\ jobs'[j].status = "running"
  /\ jobs'[j].worker \in Workers
  /\ jobs'[j].lease = "held"
  /\ jobs'[j].attempts = jobs[j].attempts + 1
  /\ jobs'[j].error = jobs[j].error

Finished(r, j) ==
  /\ procs[r].pc = "finish_write" /\ procs[r].job = j
  /\ procs'[r].pc = "finish_event"
  /\ jobs[j].status \in {"running", "cancelling"}
  /\ jobs'[j].status = Final(r)
  /\ jobs'[j].worker = None
  /\ jobs'[j].lease = "none"
  /\ jobs'[j].attempts = jobs[j].attempts
  /\ jobs'[j].error = IF Final(r) = "failed" THEN procs[r].outcome ELSE "none"

Requeued(j) ==
  /\ \E p \in Procs : /\ procs[p].pc = "requeue_write" /\ procs[p].job = j
                      /\ procs'[p].pc = "requeue_event"
  /\ jobs[j].status \in {"failed", "dead", "cancelled"}
  /\ jobs'[j].status = "pending"
  /\ jobs'[j].worker = None
  /\ jobs'[j].lease = "none"
  /\ jobs'[j].attempts = jobs[j].attempts
  /\ jobs'[j].error = "none"

\* Only the status is written.
Restated(j) ==
  /\ jobs'[j].worker = jobs[j].worker
  /\ jobs'[j].lease = jobs[j].lease
  /\ jobs'[j].attempts = jobs[j].attempts
  /\ jobs'[j].error = jobs[j].error

Killed(r, j) ==
  /\ procs[r].pc = "dead_write" /\ procs[r].job = j
  /\ jobs[j].status = "failed"
  /\ jobs'[j].status = "dead"
  /\ Restated(j)

Decided(j) ==
  /\ jobs[j].status = "waiting_approval"
  /\ jobs'[j].status \in {"approved", "rejected"}
  /\ jobs'[j].status = "approved" => j \notin gated'
  /\ Restated(j)

Flagged(c, j) ==
  /\ procs[c].pc = "cancel_write" /\ procs[c].job = j
  /\ procs'[c].pc = "exit"
  /\ procs[c].seen = "running"
  /\ jobs'[j].status = "cancelling"
  /\ Restated(j)

Cancelled(c, j) ==
  /\ procs[c].pc = "cancel_write" /\ procs[c].job = j
  /\ procs'[c].pc = "exit"
  /\ procs[c].seen # "running"
  /\ jobs'[j].status = "cancelled"
  /\ jobs'[j].worker = None
  /\ jobs'[j].lease = "none"
  /\ jobs'[j].attempts = jobs[j].attempts
  /\ jobs'[j].error = jobs[j].error

\* Nobody renews the lease, or this is a late one.
MayExpire(j) ==
  \/ \A r \in Runners : ~Tends(r, j)
  \/ faults'["late"] = faults["late"] + 1

\* A lease is renewed or runs out, a retry delay ends.
Ticked(j) ==
  /\ jobs'[j].status = jobs[j].status
  /\ jobs'[j].worker = jobs[j].worker
  /\ \/ jobs'[j].lease = jobs[j].lease
     \/ jobs[j].lease = "expired" /\ jobs'[j].lease = "held"
     \/ jobs[j].lease = "held" /\ jobs'[j].lease = "expired" /\ MayExpire(j)
  /\ jobs'[j].attempts = jobs[j].attempts
  /\ jobs'[j].error = jobs[j].error

LEMMA ClaimWrites ==
  ASSUME TypeOK, NEW r \in Runners, Claim(r)
  PROVE  \E j \in Jobs :
           /\ Written(j) /\ Claimed(j) /\ jobs'[j].worker = WorkerOf[r]
           /\ procs' = [procs EXCEPT ![r] = [Idle EXCEPT !.pc = "queued",
                                                         !.job = j,
                                                         !.attempt = jobs[j].attempts + 1]]
<1>1. PICK j \in Jobs :
        /\ Claimable(j)
        /\ jobs' = [jobs EXCEPT ![j].status = "running",
                                ![j].worker = WorkerOf[r],
                                ![j].lease = "held",
                                ![j].attempts = @ + 1]
        /\ procs' = [procs EXCEPT ![r] = [Idle EXCEPT !.pc = "queued",
                                                      !.job = j,
                                                      !.attempt = jobs[j].attempts + 1]]
  BY DEF Claim, NextAttempt
<1> DEFINE n == jobs[j].attempts + 1
           row == [jobs[j] EXCEPT !.status = "running", !.worker = WorkerOf[r],
                                  !.lease = "held", !.attempts = n]
<1>2. jobs[j] \in JobRow /\ WorkerOf[r] \in Workers /\ n \in Nat
  BY QueueAssumption DEF TypeOK, JobRow
<1>2a. jobs' = [jobs EXCEPT ![j].status = "running", ![j].worker = WorkerOf[r],
                           ![j].lease = "held", ![j].attempts = n]
  BY <1>1, <1>2 DEF TypeOK, JobRow
<1> HIDE DEF n
<1>3. /\ row \in JobRow
      /\ row.status = "running" /\ row.worker = WorkerOf[r] /\ row.lease = "held"
      /\ row.attempts = n /\ row.error = jobs[j].error
  BY <1>2 DEF JobRow, Statuses
<1>4. jobs' = [jobs EXCEPT ![j] = row]
  BY <1>2a, <1>2 DEF TypeOK, JobRow
<1> HIDE DEF row
<1>5. Written(j) /\ jobs'[j] = row
  BY <1>3, <1>4 DEF TypeOK, Written
<1>6. /\ jobs[j].status \in {"pending", "approved", "running"}
      /\ jobs[j].status = "running" => jobs[j].lease = "expired"
  BY <1>1 DEF Claimable
<1>7. Claimed(j) /\ jobs'[j].worker = WorkerOf[r]
  BY <1>2, <1>3, <1>5, <1>6 DEF Claimed, n
<1>8. QED
  BY <1>1, <1>5, <1>7

LEMMA FinishWrites ==
  ASSUME TypeOK, NEW r \in Runners, FinishWrite(r)
  PROVE  \/ UNCHANGED jobs /\ AfterFinish(r)
         \/ /\ Written(procs[r].job) /\ Finished(r, procs[r].job)
            /\ Goto(r, "finish_event")
<1> DEFINE j == procs[r].job
           error == IF Final(r) = "failed" THEN procs[r].outcome ELSE "none"
           row == [jobs[j] EXCEPT !.status = Final(r), !.error = error,
                                  !.worker = None, !.lease = "none"]
<1>1. /\ r \in Procs /\ procs[r] \in Proc
      /\ procs[r].outcome \in Outcomes
      /\ j \in Jobs
  BY DEF TypeOK, FinishWrite, WellFormed, Procs, Proc
<1>2. Final(r) \in {"failed", "done", "cancelled"} /\ error \in Failures \cup {"none"}
  BY <1>1 DEF Final, Outcomes, Failures
<1>3. jobs[j] \in JobRow
  BY <1>1 DEF TypeOK
<1> HIDE DEF error
<1>4. CASE jobs[j].status \in {"running", "cancelling"}
  <2>1. /\ row \in JobRow
        /\ row.status = Final(r) /\ row.worker = None /\ row.lease = "none"
        /\ row.attempts = jobs[j].attempts /\ row.error = error
    BY <1>2, <1>3 DEF JobRow, Statuses
  <2>2. jobs' = [jobs EXCEPT ![j].status = Final(r), ![j].error = error,
                             ![j].worker = None, ![j].lease = "none"]
    BY <1>4 DEF FinishWrite, Finishable, error
  <2>3. jobs' = [jobs EXCEPT ![j] = row]
    BY <1>1, <2>2 DEF TypeOK, JobRow
  <2> HIDE DEF row
  <2>4. Written(j) /\ jobs'[j] = row
    BY <1>1, <2>1, <2>3 DEF TypeOK, Written
  <2>5. procs'[r].pc = "finish_event"
    BY <1>1, <1>4 DEF FinishWrite, Finishable, Goto, TypeOK, Proc
  <2>5a. Finished(r, j)
    BY <1>4, <2>1, <2>4, <2>5 DEF Finished, FinishWrite, error
  <2>6. QED
    BY <1>4, <2>4, <2>5a DEF FinishWrite, Finishable
<1>5. CASE jobs[j].status \notin {"running", "cancelling"}
  BY <1>5 DEF FinishWrite, Finishable
<1>6. QED
  BY <1>4, <1>5

LEMMA RequeueWrites ==
  ASSUME TypeOK, NEW p \in Procs, RequeueWrite(p)
  PROVE  \/ UNCHANGED jobs /\ Leave(p)
         \/ /\ Written(procs[p].job) /\ Requeued(procs[p].job)
            /\ Goto(p, "requeue_event")
<1> DEFINE j == procs[p].job
           delay == Backoff /\ p \in Runners
           row == [jobs[j] EXCEPT !.status = "pending", !.error = "none", !.worker = None,
                                  !.lease = "none", !.deferred = delay]
<1>1. j \in Jobs /\ jobs[j] \in JobRow
  BY DEF TypeOK, RequeueWrite, WellFormed
<1>2. delay \in BOOLEAN
  BY QueueAssumption
<1> HIDE DEF delay
<1>3. CASE jobs[j].status \in {"failed", "dead", "cancelled"}
  <2>1. /\ row \in JobRow
        /\ row.status = "pending" /\ row.worker = None /\ row.lease = "none"
        /\ row.attempts = jobs[j].attempts /\ row.error = "none"
    BY <1>1, <1>2 DEF JobRow, Statuses
  <2>2. jobs' = [jobs EXCEPT ![j].status = "pending", ![j].error = "none",
                             ![j].worker = None, ![j].lease = "none",
                             ![j].deferred = delay]
    BY <1>3 DEF RequeueWrite, Requeueable, delay
  <2>3. jobs' = [jobs EXCEPT ![j] = row]
    BY <1>1, <2>2 DEF TypeOK, JobRow
  <2> HIDE DEF row
  <2>4. Written(j) /\ jobs'[j] = row
    BY <1>1, <2>1, <2>3 DEF TypeOK, Written
  <2>5. procs[p].pc = "requeue_write" /\ procs'[p].pc = "requeue_event"
    BY <1>3 DEF RequeueWrite, Requeueable, Goto, TypeOK, Proc
  <2>5a. Requeued(j)
    BY <1>3, <2>1, <2>4, <2>5 DEF Requeued
  <2>6. QED
    BY <1>3, <2>4, <2>5a DEF RequeueWrite, Requeueable
<1>4. CASE jobs[j].status \notin {"failed", "dead", "cancelled"}
  BY <1>4 DEF RequeueWrite, Requeueable
<1>5. QED
  BY <1>3, <1>4

\* An UPDATE that sets the status alone.
LEMMA StatusWrites ==
  ASSUME TypeOK, NEW j \in Jobs, NEW s \in Statuses,
         jobs' = [jobs EXCEPT ![j].status = s]
  PROVE  Written(j) /\ jobs'[j].status = s /\ Restated(j)
<1>1. jobs[j] \in JobRow
  BY DEF TypeOK
<1>2. /\ [jobs[j] EXCEPT !.status = s] \in JobRow
      /\ jobs' = [jobs EXCEPT ![j] = [jobs[j] EXCEPT !.status = s]]
  BY <1>1 DEF JobRow
<1>3. Written(j) /\ jobs'[j] = [jobs[j] EXCEPT !.status = s]
  BY <1>2 DEF TypeOK, Written
<1>4. QED
  BY <1>1, <1>3 DEF Restated, JobRow

LEMMA DeadWrites ==
  ASSUME TypeOK, NEW r \in Runners, DeadWrite(r)
  PROVE  \/ UNCHANGED jobs /\ Leave(r)
         \/ /\ Written(procs[r].job) /\ Killed(r, procs[r].job)
            /\ Goto(r, "dead_event")
<1>1. procs[r].job \in Jobs
  BY DEF TypeOK, DeadWrite, WellFormed, Procs
<1>2. CASE jobs[procs[r].job].status = "failed"
  BY <1>1, <1>2, StatusWrites DEF DeadWrite, Killable, Killed, Statuses
<1>3. CASE jobs[procs[r].job].status # "failed"
  BY <1>3 DEF DeadWrite, Killable
<1>4. QED
  BY <1>2, <1>3

LEMMA CancelWrites ==
  ASSUME TypeOK, NEW c \in Clis, CancelWrite(c)
  PROVE  /\ Written(procs[c].job)
         /\ Flagged(c, procs[c].job) \/ Cancelled(c, procs[c].job)
<1> DEFINE j == procs[c].job
           row == [jobs[j] EXCEPT !.status = "cancelled", !.worker = None, !.lease = "none"]
<1>a. procs'[c].pc = "exit"
  BY QueueAssumption DEF CancelWrite, Leave, Idle, TypeOK, Procs
<1>1. j \in Jobs /\ jobs[j] \in JobRow
  BY DEF TypeOK, CancelWrite, WellFormed, Procs
<1>2. CASE procs[c].seen = "running"
  BY <1>1, <1>2, <1>a, StatusWrites DEF CancelWrite, Flagged, Statuses
<1>3. CASE procs[c].seen # "running"
  <2>1. /\ row \in JobRow
        /\ row.status = "cancelled" /\ row.worker = None /\ row.lease = "none"
        /\ row.attempts = jobs[j].attempts /\ row.error = jobs[j].error
    BY <1>1 DEF JobRow, Statuses
  <2>2. jobs' = [jobs EXCEPT ![j].status = "cancelled", ![j].worker = None,
                             ![j].lease = "none"]
    BY <1>3 DEF CancelWrite
  <2>3. jobs' = [jobs EXCEPT ![j] = row]
    BY <1>1, <2>2 DEF TypeOK, JobRow
  <2> HIDE DEF row
  <2>4. Written(j) /\ jobs'[j] = row
    BY <1>1, <2>1, <2>3 DEF TypeOK, Written
  <2>5. Cancelled(c, j)
    BY <1>3, <1>a, <2>1, <2>4 DEF Cancelled, CancelWrite
  <2>6. QED
    BY <2>4, <2>5
<1>4. QED
  BY <1>2, <1>3

LEMMA LeaseWrites ==
  ASSUME TypeOK, NEW j \in Jobs, NEW l \in {"held", "expired"},
         \/ jobs[j].lease = "expired" /\ l = "held"
         \/ jobs[j].lease = "held" /\ l = "expired" /\ MayExpire(j),
         jobs' = [jobs EXCEPT ![j].lease = l]
  PROVE  Written(j) /\ Ticked(j)
<1>1. jobs[j] \in JobRow
  BY DEF TypeOK
<1>2. /\ [jobs[j] EXCEPT !.lease = l] \in JobRow
      /\ jobs' = [jobs EXCEPT ![j] = [jobs[j] EXCEPT !.lease = l]]
  BY <1>1 DEF JobRow
<1>3. Written(j) /\ jobs'[j] = [jobs[j] EXCEPT !.lease = l]
  BY <1>2 DEF TypeOK, Written
<1>4. QED
  BY <1>1, <1>3 DEF Ticked, JobRow

LEMMA DelayWrites ==
  ASSUME TypeOK, NEW j \in Jobs, jobs' = [jobs EXCEPT ![j].deferred = FALSE]
  PROVE  Written(j) /\ Ticked(j)
<1>1. jobs[j] \in JobRow
  BY DEF TypeOK
<1>2. /\ [jobs[j] EXCEPT !.deferred = FALSE] \in JobRow
      /\ jobs' = [jobs EXCEPT ![j] = [jobs[j] EXCEPT !.deferred = FALSE]]
  BY <1>1 DEF JobRow
<1>3. Written(j) /\ jobs'[j] = [jobs[j] EXCEPT !.deferred = FALSE]
  BY <1>2 DEF TypeOK, Written
<1>4. QED
  BY <1>1, <1>3 DEF Ticked, JobRow

(***************************************************************************)
(* What a step does, seen by the invariants                                *)
(***************************************************************************)

RowEffect ==
  \/ UNCHANGED jobs
  \/ \E j \in Jobs :
       /\ Written(j)
       /\ \/ Claimed(j)
          \/ \E r \in Runners : Finished(r, j) \/ Killed(r, j)
          \/ Requeued(j)
          \/ Decided(j)
          \/ \E c \in Clis : Flagged(c, j) \/ Cancelled(c, j)
          \/ Ticked(j)

LedgerEffect ==
  \/ UNCHANGED attempts
  \/ \E r \in Runners :
       /\ procs[r].pc = "record"
       /\ attempts' = [attempts EXCEPT ![procs[r].job] =
                         @ \cup {<<procs[r].attempt, procs[r].outcome>>}]

\* p, and nobody else, claimed a job.
Took(p) ==
  /\ \A q \in Procs \ {p} : procs'[q] = procs[q]
  /\ procs'[p].pc = "queued"
  /\ procs'[p].job \in Jobs
  /\ Claimed(procs'[p].job)
  /\ jobs'[procs'[p].job].worker = WorkerOf[p]
  /\ procs'[p].attempt = jobs[procs'[p].job].attempts + 1

\* p goes on with its claim.  The steps that later ones rely on are reached
\* from one place only.
Advanced(p) ==
  /\ SameRun(p)
  /\ procs'[p].pc = "finish" =>
       /\ procs[p].pc = "record" /\ procs'[p].outcome = procs[p].outcome
       /\ attempts' = [attempts EXCEPT ![procs[p].job] =
                         @ \cup {<<procs[p].attempt, procs[p].outcome>>}]
  /\ procs'[p].pc \in {"finish_write", "finish_event"} =>
       procs[p].pc \in {"finish", "finish_write"} /\ procs'[p].outcome = procs[p].outcome
  /\ procs'[p].pc = "dead" =>
       procs[p].pc = "policy" /\ jobs[procs[p].job].attempts >= MaxRetries
  /\ procs'[p].pc = "dead_write" => procs[p].pc = "dead"
  /\ procs'[p].pc \notin {"idle", "cancel_write"}
  /\ procs'[p].pc \in Working => procs[p].pc \in Working
  /\ procs'[p].pc \in Engaged => procs[p].pc \in Engaged
  /\ procs'[p].pc \in Requeuing => procs[p].pc \in Requeuing \/ MaxRetries # 0

ProcEffect(p) ==
  \/ procs'[p] = procs[p]
  \/ Left(p)
  \/ p \in Runners /\ Took(p)
  \/ p \in Clis /\ procs[p].pc = "idle" /\ procs'[p].pc = "cancel_write" /\ "cancel" \in Commands
  \/ p \in Clis /\ procs[p].pc = "idle" /\ procs'[p].pc = "requeue" /\ "retry" \in Commands
  \/ Advanced(p)

StepOK ==
  /\ TypeOK'
  /\ RowEffect
  /\ LedgerEffect
  /\ \A p \in Procs : ProcEffect(p)
  /\ faults["late"] <= faults'["late"]
  /\ gated' \subseteq gated

\* The variables no effect speaks of keep their types.
RestOK ==
  /\ lastEvent' \in [Jobs -> {<<>>} \cup (Statuses \X Statuses)]
  /\ crashed' \in SUBSET Workers
  /\ faults' \in [FaultKinds -> Nat] /\ faults["late"] <= faults'["late"]
  /\ gated' \subseteq gated

LEMMA LedgerTyped ==
  ASSUME TypeOK, LedgerEffect
  PROVE  attempts' \in [Jobs -> SUBSET (Nat \X Outcomes)]
<1>1. CASE UNCHANGED attempts
  BY <1>1 DEF TypeOK
<1>2. ASSUME NEW r \in Runners, procs[r].pc = "record",
             attempts' = [attempts EXCEPT ![procs[r].job] =
                            @ \cup {<<procs[r].attempt, procs[r].outcome>>}]
      PROVE  attempts' \in [Jobs -> SUBSET (Nat \X Outcomes)]
  <2>1. /\ procs[r].attempt \in Nat
        /\ procs[r].outcome \in Outcomes
        /\ procs[r].job \in Jobs
    BY <1>2 DEF TypeOK, WellFormed, Proc, Procs
  <2> DEFINE entry == <<procs[r].attempt, procs[r].outcome>>
  <2>2. entry \in Nat \X Outcomes
    BY <2>1
  <2> HIDE DEF entry
  <2>3. attempts[procs[r].job] \cup {entry} \in SUBSET (Nat \X Outcomes)
    BY <2>1, <2>2 DEF TypeOK
  <2>4. attempts' = [attempts EXCEPT ![procs[r].job] = attempts[procs[r].job] \cup {entry}]
    BY <1>2, <2>1 DEF entry, TypeOK
  <2>5. QED
    BY <2>1, <2>3, <2>4 DEF TypeOK
<1>3. QED
  BY <1>1, <1>2 DEF LedgerEffect

LEMMA OneMoves ==
  ASSUME TypeOK, NEW p \in Procs, Moved(p), ProcEffect(p), RestOK,
         RowEffect, LedgerEffect
  PROVE  StepOK
<1>1. ProcsOK'
  BY MovedOK DEF TypeOK, ProcsOK
<1>2. jobs' \in [Jobs -> JobRow]
  BY DEF TypeOK, RowEffect, Written
<1>3. attempts' \in [Jobs -> SUBSET (Nat \X Outcomes)]
  BY LedgerTyped
<1>4. TypeOK'
  BY <1>1, <1>2, <1>3 DEF TypeOK, ProcsOK, RestOK
<1>5. \A q \in Procs : ProcEffect(q)
  BY DEF Moved, ProcEffect
<1>6. QED
  BY <1>4, <1>5 DEF StepOK, RestOK

LEMMA NoneMoves ==
  ASSUME TypeOK, UNCHANGED procs, RestOK, RowEffect, LedgerEffect
  PROVE  StepOK
<1>1. jobs' \in [Jobs -> JobRow]
  BY DEF TypeOK, RowEffect, Written
<1>2. attempts' \in [Jobs -> SUBSET (Nat \X Outcomes)]
  BY LedgerTyped
<1>3. TypeOK'
  BY <1>1, <1>2 DEF TypeOK, RestOK
<1>4. QED
  BY <1>3 DEF StepOK, ProcEffect, RestOK

LEMMA RunnerStepOK ==
  ASSUME TypeOK, NEW r \in Runners, RunnerStep(r)
  PROVE  StepOK
<1>0. r \in Procs /\ ProcsOK /\ RowsOK
  BY DEF Procs, TypeOK, ProcsOK, RowsOK
<1> DEFINE Rest == UNCHANGED <<lastEvent, crashed, faults, gated>>
<1>a. Rest => RestOK
  BY DEF TypeOK, RestOK, FaultKinds
<1>1. CASE Claim(r)
  <2>1. PICK j \in Jobs :
          /\ Written(j) /\ Claimed(j) /\ jobs'[j].worker = WorkerOf[r]
          /\ procs' = [procs EXCEPT ![r] = [Idle EXCEPT !.pc = "queued",
                                                        !.job = j,
                                                        !.attempt = jobs[j].attempts + 1]]
    BY <1>1, ClaimWrites
  <2>2. jobs[j].attempts + 1 \in Nat
    BY DEF TypeOK, JobRow
  <2> DEFINE q == [Idle EXCEPT !.pc = "queued", !.job = j, !.attempt = jobs[j].attempts + 1]
  <2>3. /\ q \in Proc /\ WellFormed(q)
        /\ q.pc = "queued" /\ q.job = j /\ q.attempt = jobs[j].attempts + 1
    BY <2>2 DEF Idle, Proc, Steps, WellFormed
  <2>4. procs' = [procs EXCEPT ![r] = q]
    BY <2>1
  <2> HIDE DEF q
  <2>5. Moved(r) /\ procs'[r] = q
    BY <1>0, <2>3, <2>4 DEF Moved, ProcsOK
  <2>6. Took(r)
    BY <2>1, <2>3, <2>5 DEF Took, Moved
  <2>7. RowEffect /\ LedgerEffect /\ RestOK
    BY <1>1, <1>a, <2>1 DEF RowEffect, LedgerEffect, Claim
  <2>8. QED
    BY <1>0, <2>5, <2>6, <2>7, OneMoves DEF ProcEffect
<1>2. CASE Start(r)
  <2>1. Moved(r) /\ SameRun(r) /\ procs'[r].pc = "executing"
    BY <1>0, <1>2, GotoMoves DEF Start, Steps
  <2>2. RowEffect /\ LedgerEffect /\ RestOK
    BY <1>2, <1>a DEF RowEffect, LedgerEffect, Start
  <2>3. QED
    BY <1>0, <1>2, <2>1, <2>2, OneMoves DEF Start, ProcEffect, Advanced, Working, Engaged, Requeuing
<1>3. CASE StartFails(r)
  <2>1. Moved(r) /\ Left(r)
    BY <1>0, <1>3, LeaveMoves DEF StartFails
  <2>2. RowEffect /\ LedgerEffect /\ RestOK
    BY <1>3 DEF RowEffect, LedgerEffect, StartFails, Fault, FaultKinds, TypeOK, RestOK
  <2>3. QED
    BY <1>0, <2>1, <2>2, OneMoves DEF ProcEffect
<1>4. CASE Renew(r)
  <2>1. /\ procs[r].job \in Jobs
        /\ jobs[procs[r].job].lease = "expired"
        /\ jobs' = [jobs EXCEPT ![procs[r].job].lease = "held"]
    BY <1>0, <1>4 DEF Renew, ProcsOK, WellFormed
  <2>2. Written(procs[r].job) /\ Ticked(procs[r].job)
    BY <2>1, LeaseWrites
  <2>3. RowEffect /\ LedgerEffect /\ RestOK
    BY <1>4, <1>a, <2>1, <2>2 DEF RowEffect, LedgerEffect, Renew
  <2>4. QED
    BY <1>4, <2>3, NoneMoves DEF Renew
<1>5. ASSUME NEW outcome \in Outcomes \ {"internal"}, ExecReturn(r, outcome)
      PROVE  StepOK
  <2> DEFINE q == [procs[r] EXCEPT !.pc = "record", !.outcome = outcome]
  <2>1. procs[r] \in Proc /\ procs[r].job \in Jobs
    BY <1>0, <1>5 DEF ExecReturn, ProcsOK, WellFormed
  <2>2. /\ q \in Proc
        /\ q.pc = "record" /\ q.job = procs[r].job /\ q.attempt = procs[r].attempt
        /\ q.outcome = outcome
    BY <2>1 DEF Proc, Steps
  <2>3. procs' = [procs EXCEPT ![r] = q]
    BY <1>0, <1>5 DEF ExecReturn, ProcsOK, Proc
  <2> HIDE DEF q
  <2>4. WellFormed(q)
    BY <2>1, <2>2 DEF WellFormed, Outcomes, Failures
  <2>5. Moved(r) /\ SameRun(r) /\ procs'[r].pc = "record"
    BY <1>0, <2>2, <2>3, <2>4 DEF Moved, SameRun, ProcsOK
  <2>6. RowEffect /\ LedgerEffect /\ RestOK
    BY <1>5, <1>a DEF RowEffect, LedgerEffect, ExecReturn
  <2>7. QED
    BY <1>0, <1>5, <2>5, <2>6, OneMoves DEF ExecReturn, ProcEffect, Advanced, Working, Engaged, Requeuing
<1>6. CASE ExecRaise(r)
  <2>1. Moved(r) /\ SameRun(r) /\ procs'[r].pc = "record"
    BY <1>0, <1>6, CrashPathMoves DEF ExecRaise
  <2>2. RowEffect /\ LedgerEffect /\ RestOK
    BY <1>6, <1>a DEF RowEffect, LedgerEffect, ExecRaise
  <2>3. QED
    BY <1>0, <1>6, <2>1, <2>2, OneMoves DEF ExecRaise, ProcEffect, Advanced, Working, Engaged, Requeuing
<1>7. CASE RecordAttempt(r)
  <2>1. procs[r].outcome # "none"
    BY <1>0, <1>7 DEF RecordAttempt, ProcsOK, WellFormed
  <2>2. /\ Moved(r) /\ SameRun(r) /\ procs'[r].pc = "finish"
        /\ procs'[r].outcome = procs[r].outcome
    BY <1>0, <1>7, <2>1, GotoMoves DEF RecordAttempt, Steps
  <2>3. RowEffect /\ LedgerEffect /\ RestOK
    BY <1>7, <1>a DEF RowEffect, LedgerEffect, RecordAttempt
  <2>4. Advanced(r)
    BY <1>7, <2>2 DEF Advanced, RecordAttempt, Working, Engaged, Requeuing
  <2>5. QED
    BY <1>0, <2>2, <2>3, <2>4, OneMoves DEF ProcEffect
<1>8. CASE ResultLost(r)
  <2>1. Moved(r) /\ SameRun(r) /\ procs'[r].pc = "record"
    BY <1>0, <1>8, CrashPathMoves DEF ResultLost
  <2>2. RowEffect /\ LedgerEffect /\ RestOK
    BY <1>8 DEF RowEffect, LedgerEffect, ResultLost, Fault, FaultKinds, TypeOK, RestOK
  <2>3. QED
    BY <1>0, <1>8, <2>1, <2>2, OneMoves DEF ResultLost, ProcEffect, Advanced, Working, Engaged, Requeuing
<1>9. CASE FinishRead(r)
  <2>1. RowEffect /\ LedgerEffect /\ RestOK
    BY <1>9, <1>a DEF RowEffect, LedgerEffect, FinishRead
  <2>2. procs[r].pc = "finish" /\ procs[r].outcome # "none"
    BY <1>0, <1>9 DEF FinishRead, ProcsOK, WellFormed
  <2>3. CASE AfterFinish(r)
    BY <1>0, <2>1, <2>2, <2>3, AfterFinishMoves, OneMoves DEF ProcEffect, Advanced, Working, Engaged, Requeuing
  <2>4. CASE Checked(r, "finish_write")
    BY <1>0, <2>1, <2>2, <2>4, CheckedMoves, OneMoves DEF ProcEffect, Advanced, Working, Engaged, Requeuing
  <2>5. CASE Leave(r)
    BY <1>0, <2>1, <2>5, LeaveMoves, OneMoves DEF ProcEffect
  <2>6. CASE CrashPath(r)
    BY <1>0, <2>1, <2>2, <2>6, CrashPathMoves, OneMoves DEF ProcEffect, Advanced, Working, Engaged, Requeuing
  <2>7. QED
    BY <1>9, <2>3, <2>4, <2>5, <2>6 DEF FinishRead
<1>10. CASE FinishWrite(r)
  <2>1. LedgerEffect /\ RestOK
    BY <1>10, <1>a DEF LedgerEffect, FinishWrite
  <2>2. /\ procs[r].pc = "finish_write" /\ procs[r].outcome # "none"
        /\ procs[r].seen # "none" /\ procs[r].job \in Jobs
    BY <1>0, <1>10 DEF FinishWrite, ProcsOK, WellFormed
  <2>3. CASE UNCHANGED jobs /\ AfterFinish(r)
    <3>1. RowEffect
      BY <2>3 DEF RowEffect
    <3>2. QED
      BY <1>0, <2>1, <2>2, <2>3, <3>1, AfterFinishMoves, OneMoves DEF ProcEffect, Advanced, Working, Engaged, Requeuing
  <2>4. CASE /\ Written(procs[r].job) /\ Finished(r, procs[r].job)
             /\ Goto(r, "finish_event")
    <3>1. RowEffect
      BY <2>2, <2>4 DEF RowEffect
    <3>2. /\ Moved(r) /\ SameRun(r) /\ procs'[r].pc = "finish_event"
          /\ procs'[r].outcome = procs[r].outcome
      BY <1>0, <2>2, <2>4, GotoMoves DEF Steps
    <3>3. QED
      BY <1>0, <2>1, <2>2, <3>1, <3>2, OneMoves DEF ProcEffect, Advanced, Working, Engaged, Requeuing
  <2>5. QED
    BY <1>10, <2>3, <2>4, FinishWrites
<1>11. CASE FinishEvent(r)
  <2>1. procs[r].pc = "finish_event" /\ procs[r].job \in Jobs
    BY <1>0, <1>11 DEF FinishEvent, ProcsOK, WellFormed
  <2>2. /\ procs[r].outcome \in Outcomes
        /\ procs[r].seen \in Statuses
    BY <1>0, <2>1 DEF ProcsOK, WellFormed, Proc
  <2>3. <<procs[r].seen, Final(r)>> \in Statuses \X Statuses
    BY <2>2 DEF Final, Outcomes, Failures, Statuses
  <2>4. RowEffect /\ LedgerEffect /\ RestOK
    <3>1. UNCHANGED faults /\ UNCHANGED <<jobs, attempts, crashed, gated>>
      BY <1>11 DEF FinishEvent
    <3>2. faults["late"] \in Nat
      BY DEF TypeOK, FaultKinds
    <3>3. lastEvent' \in [Jobs -> {<<>>} \cup (Statuses \X Statuses)]
      BY <1>11, <2>3 DEF FinishEvent, TypeOK
    <3>4. QED
      BY <3>1, <3>2, <3>3 DEF RowEffect, LedgerEffect, RestOK, TypeOK
  <2>5. QED
    BY <1>0, <1>11, <2>1, <2>4, AfterFinishMoves, OneMoves DEF FinishEvent, ProcEffect, Advanced, Working, Engaged, Requeuing
<1>12. CASE PolicyRead(r)
  <2>1. RowEffect /\ LedgerEffect /\ RestOK
    BY <1>12, <1>a DEF RowEffect, LedgerEffect, PolicyRead
  <2>2. CASE ~Exhausted(jobs[procs[r].job]) /\ Goto(r, "requeue")
    <3>1. procs[r].pc = "policy" /\ procs[r].job \in Jobs
      BY <1>0, <1>12 DEF PolicyRead, ProcsOK, WellFormed
    <3>2. MaxRetries # 0
      BY <2>2, <3>1, QueueAssumption DEF Exhausted, TypeOK, JobRow
    <3>3. Moved(r) /\ SameRun(r) /\ procs'[r].pc = "requeue"
      BY <1>0, <2>2, <3>1, GotoMoves DEF Steps
    <3>4. Advanced(r)
      BY <3>1, <3>2, <3>3 DEF Advanced, Engaged, Requeuing, Working
    <3>5. QED
      BY <1>0, <2>1, <3>3, <3>4, OneMoves DEF ProcEffect
  <2>3. CASE jobs[procs[r].job].attempts >= MaxRetries /\ Goto(r, "dead")
    <3>1. Moved(r) /\ SameRun(r) /\ procs'[r].pc = "dead"
      BY <1>0, <1>12, <2>3, GotoMoves DEF PolicyRead, Steps
    <3>2. Advanced(r)
      BY <1>12, <2>3, <3>1 DEF Advanced, PolicyRead, Working, Engaged, Requeuing
    <3>3. QED
      BY <1>0, <2>1, <3>1, <3>2, OneMoves DEF ProcEffect
  <2>4. CASE Leave(r)
    BY <1>0, <2>1, <2>4, LeaveMoves, OneMoves DEF ProcEffect
  <2>5. QED
    BY <1>12, <2>2, <2>3, <2>4 DEF PolicyRead, Exhausted
<1>13. CASE DeadRead(r)
  <2>1. RowEffect /\ LedgerEffect /\ RestOK
    BY <1>13, <1>a DEF RowEffect, LedgerEffect, DeadRead
  <2>2. CASE Checked(r, "dead_write")
    BY <1>0, <1>13, <2>1, <2>2, CheckedMoves, OneMoves DEF DeadRead, ProcEffect, Advanced, Working, Engaged, Requeuing
  <2>3. CASE Leave(r)
    BY <1>0, <2>1, <2>3, LeaveMoves, OneMoves DEF ProcEffect
  <2>4. QED
    BY <1>13, <2>2, <2>3 DEF DeadRead
<1>14. CASE DeadWrite(r)
  <2>1. LedgerEffect /\ RestOK
    BY <1>14, <1>a DEF LedgerEffect, DeadWrite
  <2>2. /\ procs[r].pc = "dead_write" /\ procs[r].seen # "none" /\ procs[r].job \in Jobs
    BY <1>0, <1>14 DEF DeadWrite, ProcsOK, WellFormed
  <2>3. CASE UNCHANGED jobs /\ Leave(r)
    BY <1>0, <2>1, <2>3, LeaveMoves, OneMoves DEF RowEffect, ProcEffect
  <2>4. CASE /\ Written(procs[r].job) /\ Killed(r, procs[r].job)
             /\ Goto(r, "dead_event")
    <3>1. RowEffect
      BY <2>2, <2>4 DEF RowEffect
    <3>2. Moved(r) /\ SameRun(r) /\ procs'[r].pc = "dead_event"
      BY <1>0, <2>2, <2>4, GotoMoves DEF Steps
    <3>3. QED
      BY <1>0, <2>1, <3>1, <3>2, OneMoves DEF ProcEffect, Advanced, Working, Engaged, Requeuing
  <2>5. QED
    BY <1>14, <2>3, <2>4, DeadWrites
<1>15. CASE DeadEvent(r)
  <2>1. <<procs[r].seen, "dead">> \in Statuses \X Statuses
    BY <1>0, <1>15 DEF DeadEvent, ProcsOK, WellFormed, Proc, Statuses
  <2>2. RowEffect /\ LedgerEffect /\ RestOK
    <3>1. UNCHANGED faults /\ UNCHANGED <<jobs, attempts, crashed, gated>>
      BY <1>15 DEF DeadEvent
    <3>2. faults["late"] \in Nat
      BY DEF TypeOK, FaultKinds
    <3>3. lastEvent' \in [Jobs -> {<<>>} \cup (Statuses \X Statuses)]
      BY <1>15, <2>1 DEF DeadEvent, TypeOK
    <3>4. QED
      BY <3>1, <3>2, <3>3 DEF RowEffect, LedgerEffect, RestOK, TypeOK
  <2>3. QED
    BY <1>0, <1>15, <2>2, LeaveMoves, OneMoves DEF DeadEvent, ProcEffect
<1>16. QED
  BY <1>1, <1>2, <1>3, <1>4, <1>5, <1>6, <1>7, <1>8, <1>9, <1>10, <1>11, <1>12,
     <1>13, <1>14, <1>15 DEF RunnerStep

LEMMA RequeueStepOK ==
  ASSUME TypeOK, NEW p \in Procs, RequeueStep(p)
  PROVE  StepOK
<1>0. ProcsOK /\ RowsOK
  BY DEF TypeOK, ProcsOK, RowsOK
<1> DEFINE Rest == UNCHANGED <<lastEvent, crashed, faults, gated>>
<1>a. Rest => RestOK
  BY DEF TypeOK, RestOK, FaultKinds
<1>1. CASE RequeueRead(p)
  <2>1. RowEffect /\ LedgerEffect /\ RestOK
    BY <1>1, <1>a DEF RowEffect, LedgerEffect, RequeueRead
  <2>2. CASE Checked(p, "requeue_write")
    BY <1>0, <1>1, <2>1, <2>2, CheckedMoves, OneMoves DEF RequeueRead, ProcEffect, Advanced, Working, Engaged, Requeuing
  <2>3. CASE Leave(p)
    BY <1>0, <2>1, <2>3, LeaveMoves, OneMoves DEF ProcEffect
  <2>4. QED
    BY <1>1, <2>2, <2>3 DEF RequeueRead
<1>2. CASE RequeueWrite(p)
  <2>1. LedgerEffect /\ RestOK
    BY <1>2, <1>a DEF LedgerEffect, RequeueWrite
  <2>2. procs[p].pc = "requeue_write" /\ procs[p].seen # "none" /\ procs[p].job \in Jobs
    BY <1>0, <1>2 DEF RequeueWrite, ProcsOK, WellFormed
  <2>3. CASE UNCHANGED jobs /\ Leave(p)
    BY <1>0, <2>1, <2>3, LeaveMoves, OneMoves DEF RowEffect, ProcEffect
  <2>4. CASE /\ Written(procs[p].job) /\ Requeued(procs[p].job)
             /\ Goto(p, "requeue_event")
    <3>1. RowEffect
      BY <2>2, <2>4 DEF RowEffect
    <3>2. Moved(p) /\ SameRun(p) /\ procs'[p].pc = "requeue_event"
      BY <1>0, <2>2, <2>4, GotoMoves DEF Steps
    <3>3. QED
      BY <2>1, <3>1, <3>2, OneMoves DEF ProcEffect, Advanced, Working, Engaged, Requeuing
  <2>5. QED
    BY <1>2, <2>3, <2>4, RequeueWrites
<1>3. CASE RequeueEvent(p)
  <2>1. <<procs[p].seen, "pending">> \in Statuses \X Statuses
    BY <1>0, <1>3 DEF RequeueEvent, ProcsOK, WellFormed, Proc, Statuses
  <2>2. RowEffect /\ LedgerEffect /\ RestOK
    <3>1. UNCHANGED faults /\ UNCHANGED <<jobs, attempts, crashed, gated>>
      BY <1>3 DEF RequeueEvent
    <3>2. faults["late"] \in Nat
      BY DEF TypeOK, FaultKinds
    <3>3. lastEvent' \in [Jobs -> {<<>>} \cup (Statuses \X Statuses)]
      BY <1>3, <2>1 DEF RequeueEvent, TypeOK
    <3>4. QED
      BY <3>1, <3>2, <3>3 DEF RowEffect, LedgerEffect, RestOK, TypeOK
  <2>3. QED
    BY <1>0, <1>3, <2>2, LeaveMoves, OneMoves DEF RequeueEvent, ProcEffect
<1>4. QED
  BY <1>1, <1>2, <1>3 DEF RequeueStep

LEMMA CliStepOK ==
  ASSUME TypeOK, NEW c \in Clis, CliStep(c)
  PROVE  StepOK
<1>0. c \in Procs /\ ProcsOK
  BY DEF Procs, TypeOK, ProcsOK
<1> DEFINE Rest == UNCHANGED <<lastEvent, crashed, faults, gated>>
<1>a. Rest => RestOK
  BY DEF TypeOK, RestOK, FaultKinds
<1>1. ASSUME NEW j \in Jobs, CancelRead(c, j)
      PROVE  StepOK
  <2>1. RowEffect /\ LedgerEffect /\ RestOK
    BY <1>1, <1>a DEF RowEffect, LedgerEffect, CancelRead
  <2>2. CASE /\ jobs[j].status \in {"pending", "waiting_approval", "approved", "running"}
             /\ procs' = [procs EXCEPT ![c].pc = "cancel_write", ![c].job = j,
                                      ![c].seen = jobs[j].status]
    <3> DEFINE s == jobs[j].status
               q == [procs[c] EXCEPT !.pc = "cancel_write", !.job = j, !.seen = s]
    <3>1. procs[c] \in Proc /\ s \in {"pending", "waiting_approval", "approved", "running"}
      BY <1>0, <2>2 DEF ProcsOK
    <3>2. procs' = [procs EXCEPT ![c].pc = "cancel_write", ![c].job = j, ![c].seen = s]
      BY <2>2
    <3> HIDE DEF s
    <3>3. q \in Proc /\ q.pc = "cancel_write" /\ q.job = j /\ q.seen = s
      BY <3>1 DEF Proc, Steps, Statuses
    <3>4. procs' = [procs EXCEPT ![c] = q]
      BY <1>0, <3>2 DEF ProcsOK, Proc
    <3> HIDE DEF q
    <3>5. WellFormed(q)
      BY <3>1, <3>3 DEF WellFormed
    <3>6. Moved(c) /\ procs'[c].pc = "cancel_write"
      BY <1>0, <3>3, <3>4, <3>5 DEF Moved, ProcsOK
    <3>7. QED
      BY <1>0, <1>1, <2>1, <3>6, OneMoves DEF ProcEffect, CancelRead, Fresh
  <2>3. CASE Leave(c)
    BY <1>0, <2>1, <2>3, LeaveMoves, OneMoves DEF ProcEffect
  <2>4. QED
    BY <1>1, <2>2, <2>3 DEF CancelRead
<1>2. ASSUME NEW j \in Jobs, RetryRead(c, j)
      PROVE  StepOK
  <2>1. RowEffect /\ LedgerEffect /\ RestOK
    BY <1>2, <1>a DEF RowEffect, LedgerEffect, RetryRead
  <2>2. CASE procs' = [procs EXCEPT ![c].pc = "requeue", ![c].job = j]
    <3> DEFINE q == [procs[c] EXCEPT !.pc = "requeue", !.job = j]
    <3>1. procs[c] \in Proc
      BY <1>0 DEF ProcsOK
    <3>2. q \in Proc /\ q.pc = "requeue" /\ q.job = j
      BY <3>1 DEF Proc, Steps
    <3>3. procs' = [procs EXCEPT ![c] = q]
      BY <1>0, <2>2 DEF ProcsOK, Proc
    <3> HIDE DEF q
    <3>4. WellFormed(q)
      BY <3>2 DEF WellFormed
    <3>5. Moved(c) /\ procs'[c].pc = "requeue"
      BY <1>0, <3>2, <3>3, <3>4 DEF Moved, ProcsOK
    <3>6. QED
      BY <1>0, <1>2, <2>1, <3>5, OneMoves DEF ProcEffect, RetryRead, Fresh
  <2>3. CASE Leave(c)
    BY <1>0, <2>1, <2>3, LeaveMoves, OneMoves DEF ProcEffect
  <2>4. QED
    BY <1>2, <2>2, <2>3 DEF RetryRead
<1>3. ASSUME NEW j \in Jobs, Approve(c, j)
      PROVE  StepOK
  <2>1. Moved(c) /\ Left(c)
    BY <1>0, <1>3, LeaveMoves DEF Approve
  <2>2. LedgerEffect /\ RestOK
    BY <1>3 DEF LedgerEffect, Approve, RestOK, TypeOK, FaultKinds
  <2>3. RowEffect
    <3>1. CASE jobs[j].status = "waiting_approval"
      BY <1>3, <3>1, StatusWrites DEF Approve, RowEffect, Decided, Statuses
    <3>2. CASE jobs[j].status # "waiting_approval"
      BY <1>3, <3>2 DEF Approve, RowEffect
    <3>3. QED
      BY <3>1, <3>2
  <2>4. QED
    BY <1>0, <2>1, <2>2, <2>3, OneMoves DEF ProcEffect
<1>4. ASSUME NEW j \in Jobs, Reject(c, j)
      PROVE  StepOK
  <2>1. Moved(c) /\ Left(c)
    BY <1>0, <1>4, LeaveMoves DEF Reject
  <2>2. LedgerEffect /\ RestOK
    BY <1>4, <1>a DEF LedgerEffect, Reject
  <2>3. RowEffect
    <3>1. CASE jobs[j].status = "waiting_approval"
      BY <1>4, <3>1, StatusWrites DEF Reject, RowEffect, Decided, Statuses
    <3>2. CASE jobs[j].status # "waiting_approval"
      BY <1>4, <3>2 DEF Reject, RowEffect
    <3>3. QED
      BY <3>1, <3>2
  <2>4. QED
    BY <1>0, <2>1, <2>2, <2>3, OneMoves DEF ProcEffect
<1>5. CASE CancelWrite(c)
  <2>1. Moved(c) /\ Left(c)
    BY <1>0, <1>5, LeaveMoves DEF CancelWrite
  <2>2. LedgerEffect /\ RestOK
    BY <1>5, <1>a DEF LedgerEffect, CancelWrite
  <2>3. RowEffect
    BY <1>0, <1>5, CancelWrites DEF RowEffect, CancelWrite, ProcsOK, WellFormed
  <2>4. QED
    BY <1>0, <2>1, <2>2, <2>3, OneMoves DEF ProcEffect
<1>6. QED
  BY <1>1, <1>2, <1>3, <1>4, <1>5 DEF CliStep

LEMMA TimeOK ==
  ASSUME TypeOK, NEW j \in Jobs, Time(j) \/ LeaseLate(j)
  PROVE  StepOK
<1> DEFINE Rest == UNCHANGED <<lastEvent, crashed, gated>>
<1>1. UNCHANGED faults \/ Fault("late") =>
        faults' \in [FaultKinds -> Nat] /\ faults["late"] <= faults'["late"]
  BY DEF TypeOK, Fault, FaultKinds
<1>2. CASE Expire(j) /\ (UNCHANGED faults \/ Fault("late")) /\ MayExpire(j)
  <2>1. RowEffect
    BY <1>2, LeaseWrites DEF Expire, RowEffect
  <2>2. LedgerEffect /\ RestOK
    BY <1>1, <1>2 DEF Expire, LedgerEffect, RestOK, TypeOK
  <2>3. QED
    BY <1>2, <2>1, <2>2, NoneMoves DEF Expire
<1>3. CASE DelayOver(j)
  <2>1. RowEffect
    BY <1>3, DelayWrites DEF DelayOver, RowEffect
  <2>2. LedgerEffect /\ RestOK
    BY <1>3 DEF DelayOver, LedgerEffect, RestOK, TypeOK, FaultKinds
  <2>3. QED
    BY <1>3, <2>1, <2>2, NoneMoves DEF DelayOver
<1>4. QED
  BY <1>2, <1>3 DEF Time, LeaseRunsOut, LeaseLate, MayExpire, Fault, TypeOK, FaultKinds

\* A crash empties all threads of the worker at once.
LEMMA CrashOK ==
  ASSUME TypeOK, NEW w \in Workers, Crash(w)
  PROVE  StepOK
<1>1. Idle \in Proc /\ WellFormed(Idle) /\ Idle.pc = "idle" /\ Idle.job = None
  BY DEF Idle, Proc, Steps, WellFormed
<1>2. \A p \in Procs : (p \in Runners /\ procs'[p] = Idle) \/ procs'[p] = procs[p]
  BY DEF Crash
<1>3. procs' \in [Procs -> Proc]
  BY <1>1 DEF Crash, TypeOK
<1>4. \A p \in Procs : WellFormed(procs'[p]) /\ ProcEffect(p)
  BY <1>1, <1>2 DEF TypeOK, ProcEffect, Left
<1>5. TypeOK'
  BY <1>3, <1>4 DEF Crash, TypeOK
<1>6. QED
  BY <1>4, <1>5 DEF StepOK, RowEffect, LedgerEffect, Crash, TypeOK, FaultKinds

LEMMA StutterOK ==
  ASSUME TypeOK, UNCHANGED vars
  PROVE  StepOK
BY DEF TypeOK, vars, StepOK, RowEffect, LedgerEffect, ProcEffect, FaultKinds

LEMMA NextOK ==
  ASSUME TypeOK, [Next]_vars
  PROVE  StepOK
BY RunnerStepOK, RequeueStepOK, CliStepOK, TimeOK, CrashOK, StutterOK DEF Next

LEMMA InitTyped == Init => TypeOK
<1> SUFFICES ASSUME Init PROVE TypeOK
  OBVIOUS
<1>1. PICK s \in [Jobs -> Enqueued] :
        /\ jobs = [j \in Jobs |-> NewRow(s[j])]
        /\ gated = {j \in Jobs : s[j] = "waiting_approval"}
  BY DEF Init
<1>2. \A j \in Jobs : NewRow(s[j]) \in JobRow
  BY DEF NewRow, JobRow, Enqueued, Statuses
<1>3. jobs \in [Jobs -> JobRow]
  BY <1>1, <1>2
<1>4. Idle \in Proc /\ WellFormed(Idle)
  BY DEF Idle, Proc, Steps, WellFormed
<1>5. procs \in [Procs -> Proc] /\ \A p \in Procs : WellFormed(procs[p])
  BY <1>4 DEF Init
<1>6. gated \in SUBSET Jobs
  BY <1>1
<1>7. attempts \in [Jobs -> SUBSET (Nat \X Outcomes)]
  BY DEF Init
<1>8. lastEvent \in [Jobs -> {<<>>} \cup (Statuses \X Statuses)]
  BY DEF Init
<1>9. crashed \in SUBSET Workers /\ faults \in [FaultKinds -> Nat]
  BY DEF Init
<1>10. QED
  BY <1>3, <1>5, <1>6, <1>7, <1>8, <1>9 DEF TypeOK

(***************************************************************************)
(* Type correctness                                                        *)
(***************************************************************************)

\* Every variable keeps its type, and a process has the local variables its
\* position in the code needs: no step reads a job, an outcome or a status
\* that was never set.
THEOREM TypeCorrect == Spec => []TypeOK
<1>1. TypeOK /\ [Next]_vars => TypeOK'
  BY NextOK DEF StepOK
<1>2. QED
  BY InitTyped, <1>1, PTL DEF Spec

(***************************************************************************)
(* The inductive invariant                                                 *)
(***************************************************************************)

\* What a thread does next rests on what it did: an attempt is recorded before
\* the thread calls finish_job, and it calls mark_dead only for a job without
\* retries left.
ThreadsAccountable ==
  \A r \in Runners :
    /\ procs[r].pc \in {"finish", "finish_write", "finish_event"} =>
         <<procs[r].attempt, procs[r].outcome>> \in attempts[procs[r].job]
    /\ procs[r].pc \in {"dead", "dead_write"} =>
         jobs[procs[r].job].attempts >= MaxRetries

IInv ==
  /\ TypeOK
  /\ LogsNotShared
  /\ RunningReclaimable
  /\ ThreadsAccountable
  /\ DeadExhausted
  /\ DoneAccounted

LEMMA InitIInv == Init => IInv
<1> SUFFICES ASSUME Init PROVE IInv
  OBVIOUS
<1>1. TypeOK
  BY InitTyped
<1>2. PICK s \in [Jobs -> Enqueued] : jobs = [j \in Jobs |-> NewRow(s[j])]
  BY DEF Init
<1>3. \A j \in Jobs : /\ jobs[j].status \in Enqueued
                      /\ jobs[j].worker = None /\ jobs[j].lease = "none"
  BY <1>2 DEF NewRow
<1>4. \A p \in Procs : procs[p].pc = "idle" /\ procs[p].job = None
  BY DEF Init, Idle
<1>5. LogsNotShared
  BY <1>4, QueueAssumption DEF LogsNotShared, Active, Procs
<1>6. RunningReclaimable /\ DeadExhausted /\ DoneAccounted
  BY <1>3 DEF RunningReclaimable, DeadExhausted, DoneAccounted, Enqueued
<1>7. ThreadsAccountable
  BY <1>4 DEF ThreadsAccountable, Procs
<1>8. QED
  BY <1>1, <1>5, <1>6, <1>7 DEF IInv

\* The attempts column never decreases, and only a claim increases it.
LEMMA AttemptsGrow ==
  ASSUME TypeOK, StepOK, NEW j \in Jobs
  PROVE  /\ jobs[j].attempts \in Nat /\ jobs'[j].attempts \in Nat
         /\ jobs'[j].attempts >= jobs[j].attempts
<1>1. jobs[j].attempts \in Nat /\ jobs'[j].attempts \in Nat
  BY DEF TypeOK, StepOK, JobRow
<1>2. \/ jobs'[j].attempts = jobs[j].attempts
      \/ jobs'[j].attempts = jobs[j].attempts + 1
  BY DEF StepOK, RowEffect, Written, Claimed, Finished, Killed, Requeued, Decided,
         Flagged, Cancelled, Ticked, Restated
<1>3. QED
  BY <1>1, <1>2

\* A thread that has a job after the step has had it before, with the same
\* attempt number, unless it claims it in this step.
LEMMA RunKept ==
  ASSUME TypeOK, StepOK, NEW r \in Runners, procs'[r].job \in Jobs
  PROVE  Took(r) \/ SameRun(r)
<1>1. r \in Procs /\ None \notin Jobs /\ r \notin Clis
  BY QueueAssumption DEF Procs
<1>2. procs'[r] = procs[r] \/ Took(r) \/ Advanced(r)
  BY <1>1 DEF StepOK, ProcEffect, Left
<1>3. QED
  BY <1>2 DEF SameRun, Advanced

\* Two threads never claim in one step.
LEMMA OneClaims ==
  ASSUME TypeOK, LogsNotShared, NEW r \in Runners, NEW s \in Runners, Took(r), Took(s)
  PROVE  r = s
<1> SUFFICES ASSUME r # s PROVE FALSE
  OBVIOUS
<1> DEFINE j == procs'[s].job
<1>1. j \in Jobs /\ procs[s].job = j /\ procs[s].attempt = jobs[j].attempts + 1
  BY DEF Took, Procs
<1>2. jobs[j].attempts \in Nat
  BY <1>1 DEF TypeOK, JobRow
<1>3. procs[s].attempt \in 1..jobs[j].attempts
  BY <1>1 DEF LogsNotShared, Active
<1>4. QED
  BY <1>1, <1>2, <1>3

LEMMA LogsNotSharedKept ==
  ASSUME TypeOK, LogsNotShared, StepOK
  PROVE  LogsNotShared'
<1> SUFFICES ASSUME NEW j \in Jobs, NEW r \in Runners, procs'[r].job = j
             PROVE  /\ procs'[r].attempt \in 1..jobs'[j].attempts
                    /\ \A s \in Runners \ {r} :
                         procs'[s].job = j => procs'[s].attempt # procs'[r].attempt
  BY DEF LogsNotShared, Active
<1>1. /\ jobs[j].attempts \in Nat /\ jobs'[j].attempts \in Nat
      /\ jobs'[j].attempts >= jobs[j].attempts
  BY AttemptsGrow
<1>2. \A s \in Runners : procs'[s].job = j => Took(s) \/ SameRun(s)
  BY RunKept
<1>3. \A s \in Runners : SameRun(s) /\ procs'[s].job = j =>
        procs[s].job = j /\ procs'[s].attempt = procs[s].attempt
                         /\ procs[s].attempt \in 1..jobs[j].attempts
  BY DEF SameRun, LogsNotShared, Active
<1>4. \A s \in Runners : Took(s) /\ procs'[s].job = j =>
        procs'[s].attempt = jobs[j].attempts + 1 /\ jobs'[j].attempts = jobs[j].attempts + 1
  BY DEF Took, Claimed
<1>5. procs'[r].attempt \in 1..jobs'[j].attempts
  BY <1>1, <1>2, <1>3, <1>4
<1>6. ASSUME NEW s \in Runners \ {r}, procs'[s].job = j
      PROVE  procs'[s].attempt # procs'[r].attempt
  <2>1. CASE SameRun(r) /\ SameRun(s)
    BY <1>3, <1>6, <2>1 DEF LogsNotShared, Active
  <2>2. CASE Took(r) /\ SameRun(s)
    BY <1>1, <1>3, <1>4, <1>6, <2>2
  <2>3. CASE SameRun(r) /\ Took(s)
    BY <1>1, <1>3, <1>4, <1>6, <2>3
  <2>4. QED
    BY <1>2, <1>6, <2>1, <2>2, <2>3, OneClaims
<1>7. QED
  BY <1>5, <1>6

LEMMA RunningReclaimableKept ==
  ASSUME TypeOK, RunningReclaimable, StepOK
  PROVE  RunningReclaimable'
<1> SUFFICES ASSUME NEW j \in Jobs
             PROVE  /\ jobs'[j].worker # None <=> jobs'[j].lease # "none"
                    /\ jobs'[j].worker # None => jobs'[j].status \in {"running", "cancelling"}
                    /\ jobs'[j].status = "running" => jobs'[j].worker # None
  BY DEF RunningReclaimable
<1>1. /\ jobs[j].worker # None <=> jobs[j].lease # "none"
      /\ jobs[j].worker # None => jobs[j].status \in {"running", "cancelling"}
      /\ jobs[j].status = "running" => jobs[j].worker # None
  BY DEF RunningReclaimable
<1>2. CASE jobs'[j] = jobs[j]
  BY <1>1, <1>2
<1>3. CASE Claimed(j)
  BY <1>3, QueueAssumption DEF Claimed
<1>4. ASSUME NEW r \in Runners, Finished(r, j)
      PROVE  jobs'[j].worker = None /\ jobs'[j].lease = "none" /\ jobs'[j].status # "running"
  <2>1. procs[r].outcome \in Outcomes
    BY <1>4 DEF Finished, TypeOK, WellFormed, Procs, Proc
  <2>2. QED
    BY <1>4, <2>1 DEF Finished, Final, Outcomes, Failures
<1>5. ASSUME NEW r \in Runners, Killed(r, j)
      PROVE  jobs'[j].worker = None /\ jobs'[j].lease = "none" /\ jobs'[j].status # "running"
  BY <1>1, <1>5 DEF Killed, Restated
<1>6. CASE Requeued(j)
  BY <1>6 DEF Requeued
<1>7. CASE Decided(j)
  BY <1>1, <1>7 DEF Decided, Restated
<1>8. ASSUME NEW c \in Clis, Flagged(c, j)
      PROVE  /\ jobs'[j].worker # None <=> jobs'[j].lease # "none"
             /\ jobs'[j].status = "cancelling"
  BY <1>1, <1>8 DEF Flagged, Restated
<1>9. ASSUME NEW c \in Clis, Cancelled(c, j)
      PROVE  jobs'[j].worker = None /\ jobs'[j].lease = "none" /\ jobs'[j].status # "running"
  BY <1>9 DEF Cancelled
<1>10. CASE Ticked(j)
  BY <1>1, <1>10 DEF Ticked
<1>11. QED
  BY <1>2, <1>3, <1>4, <1>5, <1>6, <1>7, <1>8, <1>9, <1>10 DEF StepOK, RowEffect, Written

LEMMA DeadExhaustedKept ==
  ASSUME TypeOK, ThreadsAccountable, RunningReclaimable, DeadExhausted, StepOK
  PROVE  DeadExhausted'
<1> SUFFICES ASSUME NEW j \in Jobs
             PROVE  /\ jobs'[j].status = "dead" => jobs'[j].attempts >= MaxRetries
                    /\ jobs'[j].status \in {"failed", "dead"} => jobs'[j].error # "none"
  BY DEF DeadExhausted
<1>1. /\ jobs[j].status = "dead" => jobs[j].attempts >= MaxRetries
      /\ jobs[j].status \in {"failed", "dead"} => jobs[j].error # "none"
  BY DEF DeadExhausted
<1>2. ASSUME NEW r \in Runners, Finished(r, j)
      PROVE  /\ jobs'[j].status # "dead"
             /\ jobs'[j].status = "failed" => jobs'[j].error # "none"
  <2>1. procs[r].outcome \in Outcomes
    BY <1>2 DEF Finished, TypeOK, WellFormed, Procs, Proc
  <2>2. QED
    BY <1>2, <2>1 DEF Finished, Final, Outcomes, Failures
<1>3. ASSUME NEW r \in Runners, Killed(r, j)
      PROVE  jobs'[j].attempts >= MaxRetries /\ jobs'[j].error # "none"
  <2>1. jobs[j].attempts >= MaxRetries
    BY <1>3 DEF Killed, ThreadsAccountable
  <2>2. QED
    BY <1>1, <1>3, <2>1 DEF Killed, Restated
<1>4. CASE \/ Claimed(j)
           \/ Requeued(j)
           \/ Decided(j)
           \/ \E c \in Clis : Flagged(c, j) \/ Cancelled(c, j)
  BY <1>4 DEF Claimed, Requeued, Decided, Flagged, Cancelled
<1>5. CASE Ticked(j) \/ jobs'[j] = jobs[j]
  BY <1>1, <1>5 DEF Ticked
<1>6. QED
  BY <1>2, <1>3, <1>4, <1>5 DEF StepOK, RowEffect, Written

\* Nothing is ever deleted from the attempts table.
LEMMA LedgerGrows ==
  ASSUME TypeOK, StepOK, NEW j \in Jobs
  PROVE  attempts[j] \subseteq attempts'[j]
BY DEF TypeOK, StepOK, LedgerEffect

LEMMA ThreadsAccountableKept ==
  ASSUME TypeOK, ThreadsAccountable, StepOK
  PROVE  ThreadsAccountable'
<1> SUFFICES ASSUME NEW r \in Runners
             PROVE  /\ procs'[r].pc \in {"finish", "finish_write", "finish_event"} =>
                         <<procs'[r].attempt, procs'[r].outcome>> \in attempts'[procs'[r].job]
                    /\ procs'[r].pc \in {"dead", "dead_write"} =>
                         jobs'[procs'[r].job].attempts >= MaxRetries
  BY DEF ThreadsAccountable
<1>1. /\ procs[r].pc \in {"finish", "finish_write", "finish_event"} =>
            <<procs[r].attempt, procs[r].outcome>> \in attempts[procs[r].job]
      /\ procs[r].pc \in {"dead", "dead_write"} => jobs[procs[r].job].attempts >= MaxRetries
  BY DEF ThreadsAccountable
<1>2. r \in Procs /\ r \notin Clis
  BY QueueAssumption DEF Procs
<1>3. procs[r].pc \notin {"idle", "exit"} => procs[r].job \in Jobs
  BY <1>2 DEF TypeOK, WellFormed
<1>4. MaxRetries \in Nat
  BY QueueAssumption
<1>5. CASE procs'[r] = procs[r]
  BY <1>1, <1>3, <1>4, <1>5, LedgerGrows, AttemptsGrow
<1>6. CASE Left(r) \/ Took(r)
  BY <1>6 DEF Left, Took
<1>7. CASE Advanced(r)
  <2>1. CASE procs'[r].pc = "finish"
    <3>1. procs[r].job \in Jobs
      BY <1>3, <1>7, <2>1 DEF Advanced
    <3>2. attempts'[procs[r].job] =
            attempts[procs[r].job] \cup {<<procs[r].attempt, procs[r].outcome>>}
      BY <1>7, <2>1, <3>1 DEF Advanced, TypeOK
    <3>3. QED
      BY <1>7, <2>1, <3>2 DEF Advanced, SameRun
  <2>2. CASE procs'[r].pc \in {"finish_write", "finish_event"}
    BY <1>1, <1>3, <1>7, <2>2, LedgerGrows DEF Advanced, SameRun
  <2>3. CASE procs'[r].pc \in {"dead", "dead_write"}
    <3>1. procs[r].job \in Jobs /\ procs'[r].job = procs[r].job
          /\ jobs[procs[r].job].attempts >= MaxRetries
      BY <1>1, <1>3, <1>7, <2>3 DEF Advanced, SameRun
    <3>2. QED
      BY <1>4, <2>3, <3>1, AttemptsGrow
  <2>4. QED
    BY <2>1, <2>2, <2>3
<1>8. QED
  BY <1>2, <1>5, <1>6, <1>7 DEF StepOK, ProcEffect

LEMMA DoneAccountedKept ==
  ASSUME TypeOK, LogsNotShared, ThreadsAccountable, DoneAccounted, StepOK
  PROVE  DoneAccounted'
<1> SUFFICES ASSUME NEW j \in Jobs, jobs'[j].status = "done"
             PROVE  \E n \in 1..jobs'[j].attempts : <<n, "done">> \in attempts'[j]
  BY DEF DoneAccounted
<1>1. /\ attempts[j] \subseteq attempts'[j]
      /\ jobs[j].attempts \in Nat /\ jobs'[j].attempts \in Nat
      /\ jobs'[j].attempts >= jobs[j].attempts
  BY LedgerGrows, AttemptsGrow
<1>2. CASE jobs[j].status = "done"
  <2>1. PICK n \in 1..jobs[j].attempts : <<n, "done">> \in attempts[j]
    BY <1>2 DEF DoneAccounted
  <2>2. QED
    BY <1>1, <2>1
<1>3. ASSUME NEW r \in Runners, Finished(r, j)
      PROVE  \E n \in 1..jobs'[j].attempts : <<n, "done">> \in attempts'[j]
  <2>1. procs[r].outcome = "done"
    BY <1>3 DEF Finished, Final
  <2>2. <<procs[r].attempt, "done">> \in attempts[j]
    BY <1>3, <2>1 DEF Finished, ThreadsAccountable
  <2>3. procs[r].attempt \in 1..jobs[j].attempts
    BY <1>3 DEF Finished, LogsNotShared, Active
  <2>4. QED
    BY <1>1, <2>2, <2>3
<1>4. jobs[j].status = "done" \/ \E r \in Runners : Finished(r, j)
  BY DEF StepOK, RowEffect, Written, Claimed, Killed, Requeued, Decided, Flagged,
         Cancelled, Ticked
<1>5. QED
  BY <1>2, <1>3, <1>4

LEMMA NextIInv == IInv /\ [Next]_vars => IInv'
<1> SUFFICES ASSUME IInv, [Next]_vars PROVE IInv'
  OBVIOUS
<1>1. StepOK
  BY NextOK DEF IInv
<1>2. TypeOK'
  BY <1>1 DEF StepOK
<1>3. LogsNotShared'
  BY <1>1, LogsNotSharedKept DEF IInv
<1>4. RunningReclaimable'
  BY <1>1, RunningReclaimableKept DEF IInv
<1>5. ThreadsAccountable'
  BY <1>1, ThreadsAccountableKept DEF IInv
<1>6. DeadExhausted'
  BY <1>1, DeadExhaustedKept DEF IInv
<1>7. DoneAccounted'
  BY <1>1, DoneAccountedKept DEF IInv
<1>8. QED
  BY <1>2, <1>3, <1>4, <1>5, <1>6, <1>7 DEF IInv

THEOREM Invariance == Spec => []IInv
BY InitIInv, NextIInv, PTL DEF Spec

(***************************************************************************)
(* The safety properties                                                   *)
(***************************************************************************)

\* However late a lease was when a row was reclaimed, and however many workers
\* crash, two threads never write the logs or the attempts row of the same
\* attempt: claim_job hands out each attempt number once.
THEOREM LogsTheorem == Spec => []LogsNotShared
BY Invariance, PTL DEF IInv

\* A running row has an owner and a lease, so a crash of its worker never hides
\* it from claim_job for good.
THEOREM ReclaimTheorem == Spec => []RunningReclaimable
BY Invariance, PTL DEF IInv

\* A job is done only if record_attempt stored an attempt that says so.
THEOREM DoneTheorem == Spec => []DoneAccounted
BY Invariance, PTL DEF IInv

\* The retry policy marks only exhausted jobs dead, however stale the row it
\* decided on.
THEOREM DeadTheorem == Spec => []DeadExhausted
BY Invariance, PTL DEF IInv

\* What moves a row: every writer but request_cancel keeps to the edges of
\* LEGAL_TRANSITIONS, because its WHERE clause holds when it writes.
LEMMA RowMoves ==
  ASSUME TypeOK, StepOK, NEW j \in Jobs, IllegalMove(j)
  PROVE  \E c \in Clis : StaleCancel(c, j) /\ (Flagged(c, j) \/ Cancelled(c, j))
<1>1. PICK k \in Jobs :
        /\ Written(k)
        /\ \/ Claimed(k)
           \/ \E r \in Runners : Finished(r, k) \/ Killed(r, k)
           \/ Requeued(k)
           \/ Decided(k)
           \/ \E c \in Clis : Flagged(c, k) \/ Cancelled(c, k)
           \/ Ticked(k)
  BY DEF StepOK, RowEffect, IllegalMove
<1>2. j = k
  BY <1>1 DEF Written, IllegalMove
<1>3. ASSUME NEW r \in Runners, Finished(r, j)
      PROVE  FALSE
  <2>1. procs[r].outcome \in Outcomes
    BY <1>3 DEF Finished, TypeOK, WellFormed, Procs, Proc
  <2>2. jobs'[j].status \in {"failed", "done", "cancelled"}
    BY <1>3, <2>1 DEF Finished, Final, Outcomes
  <2>3. QED
    BY <1>3, <2>2 DEF Finished, IllegalMove, IsLegal, LegalTransitions
<1>4. ~Claimed(j) /\ ~Requeued(j) /\ ~Decided(j) /\ ~Ticked(j)
  BY DEF Claimed, Requeued, Decided, Ticked, IllegalMove, IsLegal, LegalTransitions
<1>5. \A r \in Runners : ~Killed(r, j)
  BY DEF Killed, IllegalMove, IsLegal, LegalTransitions
<1>6. PICK c \in Clis : Flagged(c, j) \/ Cancelled(c, j)
  BY <1>1, <1>2, <1>3, <1>4, <1>5
<1>7. procs[c].seen \in {"pending", "waiting_approval", "approved", "running"}
  BY <1>6 DEF Flagged, Cancelled, TypeOK, WellFormed, Procs
<1>8. procs[c].seen # jobs[j].status
  BY <1>6, <1>7 DEF Flagged, Cancelled, IllegalMove, IsLegal, LegalTransitions
<1>9. QED
  BY <1>6, <1>8 DEF Flagged, Cancelled, StaleCancel

\* The rows leave the edges of LEGAL_TRANSITIONS only when a cancel command
\* overwrites a status that changed after it read it; in particular no late
\* thread, retry or policy decision ever does.
THEOREM EdgesTheorem == Spec => OnlyStaleCancelIllegal
<1>1. TypeOK /\ [Next]_vars =>
        [\A j \in Jobs : IllegalMove(j) => \E c \in Clis : StaleCancel(c, j)]_vars
  BY NextOK, RowMoves
<1>2. QED
  BY TypeCorrect, <1>1, PTL DEF Spec, OnlyStaleCancelIllegal

\* No command is about to write a cancellation.
NoneCancelling == \A c \in Clis : procs[c].pc # "cancel_write"

LEMMA NoneCancellingKept ==
  ASSUME "cancel" \notin Commands, NoneCancelling, StepOK
  PROVE  NoneCancelling'
<1> SUFFICES ASSUME NEW c \in Clis PROVE procs'[c].pc # "cancel_write"
  BY DEF NoneCancelling
<1>1. c \in Procs /\ c \notin Runners
  BY QueueAssumption DEF Procs
<1>2. ProcEffect(c)
  BY <1>1 DEF StepOK
<1>3. QED
  BY <1>1, <1>2 DEF ProcEffect, Left, Advanced, NoneCancelling

\* A job that awaits approval only ever leaves that status by a decision.
Gate == \A j \in gated : jobs[j].status \in {"waiting_approval", "rejected"}

LEMMA GateKept ==
  ASSUME TypeOK, NoneCancelling, Gate, StepOK
  PROVE  Gate'
<1> SUFFICES ASSUME NEW j \in gated'
             PROVE  jobs'[j].status \in {"waiting_approval", "rejected"}
  BY DEF Gate
<1>1. j \in Jobs /\ jobs[j].status \in {"waiting_approval", "rejected"}
  BY DEF StepOK, TypeOK, Gate
<1>2. \A c \in Clis : ~Flagged(c, j) /\ ~Cancelled(c, j)
  BY DEF NoneCancelling, Flagged, Cancelled
<1>3. \A r \in Runners : ~Finished(r, j) /\ ~Killed(r, j)
  BY <1>1 DEF Finished, Killed
<1>4. ~Claimed(j) /\ ~Requeued(j)
  BY <1>1 DEF Claimed, Requeued
<1>5. jobs'[j] = jobs[j] \/ Decided(j) \/ Ticked(j)
  BY <1>1, <1>2, <1>3, <1>4 DEF StepOK, RowEffect, Written
<1>6. QED
  BY <1>1, <1>5 DEF Decided, Ticked

\* As long as nobody cancels, no job enqueued for approval runs before somebody
\* approves it, whatever threads, retries and reclaims do.
THEOREM ApprovalTheorem ==
  ASSUME "cancel" \notin Commands
  PROVE  Spec => []ApprovalGate
<1>1. Init => NoneCancelling /\ Gate
  <2> SUFFICES ASSUME Init PROVE NoneCancelling /\ Gate
    OBVIOUS
  <2>1. NoneCancelling
    BY DEF Init, NoneCancelling, Procs, Idle
  <2>2. Gate
    BY DEF Init, Gate, NewRow
  <2>3. QED
    BY <2>1, <2>2
<1>2. TypeOK /\ NoneCancelling /\ Gate /\ [Next]_vars => NoneCancelling' /\ Gate'
  BY NextOK, NoneCancellingKept, GateKept
<1>3. Gate => ApprovalGate
  BY DEF Gate, ApprovalGate
<1>4. QED
  BY TypeCorrect, <1>1, <1>2, <1>3, PTL DEF Spec

(***************************************************************************)
(* Refinement                                                              *)
(***************************************************************************)

\* The columns and the commands JobLifecycle sees.
Seen == <<[j \in Jobs |-> jobs[j].status], CancelUnderWay>>

\* A statement of anybody who does not cancel moves one row along an edge.
LEMMA MoveStep ==
  ASSUME TypeOK, StepOK,
         \A c \in Clis : procs[c].pc = "cancel_write" \/ procs'[c].pc = "cancel_write"
                           => procs'[c] = procs[c]
  PROVE  [Lifecycle!Next]_Seen
<1> DEFINE status == [j \in Jobs |-> jobs[j].status]
           after  == [j \in Jobs |-> jobs'[j].status]
<1>0. UNCHANGED CancelUnderWay
  BY DEF CancelUnderWay
<1>a. \A c \in Clis, j \in Jobs : ~Flagged(c, j) /\ ~Cancelled(c, j)
  BY DEF Flagged, Cancelled
<1>1. \A j \in Jobs : ~IllegalMove(j)
  BY <1>a, RowMoves
<1>2. CASE UNCHANGED jobs
  BY <1>0, <1>2 DEF Seen
<1>3. ASSUME NEW k \in Jobs, Written(k)
      PROVE  [Lifecycle!Next]_Seen
  <2>1. \A j \in Jobs \ {k} : jobs'[j].status = jobs[j].status
    BY <1>3 DEF Written
  <2>2. after = [status EXCEPT ![k] = jobs'[k].status]
    BY <2>1
  <2>3. CASE jobs'[k].status = jobs[k].status
    BY <1>0, <2>1, <2>3 DEF Seen
  <2>4. CASE jobs'[k].status # jobs[k].status
    <3>1. IsLegal(jobs[k].status, jobs'[k].status)
      BY <1>1, <2>4 DEF IllegalMove
    <3>2. jobs'[k].status \in Lifecycle!Statuses
      BY <1>3 DEF Written, JobRow, Lifecycle!Statuses, Statuses
    <3>3. \E to \in Lifecycle!Statuses :
            /\ Lifecycle!IsLegal(jobs[k].status, to)
            /\ after = [status EXCEPT ![k] = to]
      BY <2>2, <3>1, <3>2 DEF Lifecycle!IsLegal, Lifecycle!LegalTransitions, IsLegal,
                             LegalTransitions
    <3>4. Lifecycle!Next
      BY <1>0, <3>3 DEF Lifecycle!Next, Lifecycle!Move
    <3>5. QED
      BY <3>4
  <2>5. QED
    BY <2>3, <2>4
<1>4. QED
  BY <1>2, <1>3 DEF StepOK, RowEffect

LEMMA AskStep ==
  ASSUME TypeOK, NEW c \in Clis, NEW j \in Jobs, CancelRead(c, j)
  PROVE  [Lifecycle!Next]_Seen
<1>1. procs[c].pc = "idle" /\ UNCHANGED jobs
  BY DEF CancelRead, Fresh
<1>2. CASE jobs[j].status \in {"pending", "waiting_approval", "approved", "running"}
  <2>1. procs' = [procs EXCEPT ![c].pc = "cancel_write", ![c].job = j,
                               ![c].seen = jobs[j].status]
    BY <1>2 DEF CancelRead
  <2>2. /\ procs'[c].pc = "cancel_write" /\ procs'[c].job = j
        /\ procs'[c].seen = jobs[j].status
        /\ \A d \in Clis \ {c} : procs'[d] = procs[d]
    BY <2>1 DEF TypeOK, Procs, Proc
  <2>3. CancelUnderWay' = [CancelUnderWay EXCEPT ![c] = {<<j, jobs[j].status>>}]
    BY <2>2 DEF CancelUnderWay
  <2>4. CancelUnderWay[c] = {}
    BY <1>1 DEF CancelUnderWay
  <2>5. Lifecycle!Ask(c, j)
    BY <1>1, <1>2, <2>3, <2>4 DEF Lifecycle!Ask, Lifecycle!CancelTo
  <2>6. QED
    BY <2>5 DEF Lifecycle!Next
<1>3. CASE jobs[j].status \notin {"pending", "waiting_approval", "approved", "running"}
  <2>1. /\ procs'[c].pc = "exit"
        /\ \A d \in Clis \ {c} : procs'[d] = procs[d]
    BY <1>3, QueueAssumption DEF CancelRead, Leave, Idle, TypeOK, Procs
  <2>2. CancelUnderWay' = CancelUnderWay
    BY <1>1, <2>1 DEF CancelUnderWay
  <2>3. QED
    BY <1>1, <2>2 DEF Seen
<1>4. QED
  BY <1>2, <1>3

LEMMA CancelStep ==
  ASSUME TypeOK, NEW c \in Clis, CancelWrite(c)
  PROVE  [Lifecycle!Next]_Seen
<1> DEFINE j == procs[c].job
           s == procs[c].seen
           status == [k \in Jobs |-> jobs[k].status]
<1>1. j \in Jobs /\ s \in {"pending", "waiting_approval", "approved", "running"}
  BY DEF TypeOK, CancelWrite, WellFormed, Procs
<1>2. Written(j) /\ (Flagged(c, j) \/ Cancelled(c, j))
  BY CancelWrites
<1>3. /\ jobs'[j].status = Lifecycle!CancelTo[s]
      /\ \A k \in Jobs \ {j} : jobs'[k].status = jobs[k].status
  BY <1>1, <1>2 DEF Flagged, Cancelled, Written, Lifecycle!CancelTo
<1>4. [k \in Jobs |-> jobs'[k].status] = [status EXCEPT ![j] = Lifecycle!CancelTo[s]]
  BY <1>1, <1>3
<1>5. /\ procs[c].pc = "cancel_write" /\ procs'[c].pc = "exit"
      /\ \A d \in Clis \ {c} : procs'[d] = procs[d]
  BY QueueAssumption DEF CancelWrite, Leave, Idle, TypeOK, Procs
<1>6. CancelUnderWay' = [CancelUnderWay EXCEPT ![c] = {}]
  BY <1>5 DEF CancelUnderWay
<1>7. CancelUnderWay[c] = {<<j, s>>}
  BY <1>5 DEF CancelUnderWay
<1>8. \E a \in CancelUnderWay[c] :
        [k \in Jobs |-> jobs'[k].status] = [status EXCEPT ![a[1]] = Lifecycle!CancelTo[a[2]]]
  BY <1>4, <1>7
<1>9. Lifecycle!Cancel(c)
  BY <1>6, <1>8 DEF Lifecycle!Cancel
<1>10. QED
  BY <1>9 DEF Lifecycle!Next

\* Every other statement leaves the cancels under way alone.
LEMMA LifecycleStep ==
  ASSUME TypeOK, [Next]_vars
  PROVE  [Lifecycle!Next]_Seen
<1> DEFINE Untouched == \A c \in Clis :
                          procs[c].pc = "cancel_write" \/ procs'[c].pc = "cancel_write"
                            => procs'[c] = procs[c]
<1>0. StepOK
  BY NextOK
<1>1. ASSUME NEW r \in Runners, RunnerStep(r)
      PROVE  Untouched
  <2>1. \A c \in Clis : c # r /\ c \in Procs
    BY QueueAssumption DEF Procs
  <2>2. \A c \in Clis : procs'[c] = procs[c]
    BY <1>1, <2>1 DEF TypeOK, RunnerStep, Claim, Start, StartFails, Renew, ExecReturn, ExecRaise,
       RecordAttempt, ResultLost, FinishRead, FinishWrite, FinishEvent, PolicyRead, DeadRead,
       DeadWrite, DeadEvent, Goto, Leave, Checked, CrashPath, AfterFinish
  <2>3. QED
    BY <2>2
<1>2. ASSUME NEW p \in Procs, RequeueStep(p)
      PROVE  Untouched
  <2>1. /\ procs[p].pc # "cancel_write" /\ procs'[p].pc # "cancel_write"
        /\ \A c \in Procs \ {p} : procs'[c] = procs[c]
    BY <1>2 DEF TypeOK, RequeueStep, RequeueRead, RequeueWrite, RequeueEvent, Goto, Leave,
       Checked, Idle, Proc
  <2>2. QED
    BY <2>1 DEF Procs
<1>3. ASSUME NEW c \in Clis, NEW j \in Jobs, RetryRead(c, j) \/ Approve(c, j) \/ Reject(c, j)
      PROVE  Untouched
  <2>1. /\ procs[c].pc # "cancel_write" /\ procs'[c].pc # "cancel_write"
        /\ \A d \in Clis \ {c} : procs'[d] = procs[d]
    BY <1>3, QueueAssumption DEF TypeOK, RetryRead, Approve, Reject, Fresh, Leave, Idle, Proc, Procs
  <2>2. QED
    BY <2>1
<1>4. ASSUME NEW j \in Jobs, Time(j) \/ LeaseLate(j)
      PROVE  Untouched
  BY <1>4 DEF Time, LeaseRunsOut, LeaseLate, DelayOver, Expire
<1>5. ASSUME NEW w \in Workers, Crash(w)
      PROVE  Untouched
  BY <1>5, QueueAssumption DEF Crash, Procs
<1>6. CASE UNCHANGED vars
  BY <1>6 DEF vars, Seen, CancelUnderWay
<1>7. QED
  BY <1>0, <1>1, <1>2, <1>3, <1>4, <1>5, <1>6, MoveStep, AskStep, CancelStep DEF Next, CliStep

LEMMA LifecycleInit == Init => Lifecycle!Init
<1> SUFFICES ASSUME Init PROVE Lifecycle!Init
  OBVIOUS
<1>1. PICK s \in [Jobs -> Enqueued] : jobs = [j \in Jobs |-> NewRow(s[j])]
  BY DEF Init
<1>2. \A j \in Jobs : jobs[j].status = s[j]
  BY <1>1 DEF NewRow
<1>3. CancelUnderWay = [c \in Clis |-> {}]
  BY DEF Init, CancelUnderWay, Idle, Procs
<1>4. QED
  BY <1>2, <1>3 DEF Lifecycle!Init, Lifecycle!Enqueued, Enqueued

\* The statuses behave as JobLifecycle says: the read, check and UPDATE of each
\* method, spread over several statements that others interleave with, amount
\* to one legal move of one row, or to a cancel of what its caller saw.
THEOREM Refinement == Spec => ImplementsLifecycle
<1>1. TypeOK /\ [Next]_vars => [Lifecycle!Next]_Seen
  BY LifecycleStep
<1>2. QED
  BY TypeCorrect, LifecycleInit, <1>1, PTL DEF Spec, ImplementsLifecycle, Lifecycle!Spec, Seen

(***************************************************************************)
(* Who finishes a row                                                      *)
(***************************************************************************)

\* The last claimant of a running row works for the worker the row names.
OwnersKnown ==
  \A r \in Runners : \A j \in Jobs :
    /\ procs[r].job = j
    /\ procs[r].attempt = jobs[j].attempts
    /\ jobs[j].status = "running"
    => jobs[j].worker = WorkerOf[r]

LEMMA OwnersKnownKept ==
  ASSUME TypeOK, LogsNotShared, OwnersKnown, StepOK
  PROVE  OwnersKnown'
<1> SUFFICES ASSUME NEW r \in Runners, NEW j \in Jobs,
                    procs'[r].job = j, procs'[r].attempt = jobs'[j].attempts,
                    jobs'[j].status = "running"
             PROVE  jobs'[j].worker = WorkerOf[r]
  BY DEF OwnersKnown
<1>1. CASE Took(r)
  BY <1>1 DEF Took
<1>2. CASE SameRun(r)
  <2>1. procs[r].job = j /\ procs'[r].attempt = procs[r].attempt
    BY <1>2 DEF SameRun
  <2>2. procs[r].attempt \in 1..jobs[j].attempts /\ jobs[j].attempts \in Nat
    BY <2>1 DEF LogsNotShared, Active, TypeOK, JobRow
  <2>3. ~Claimed(j)
    BY <2>1, <2>2 DEF Claimed
  <2>4. \A s \in Runners : ~Finished(s, j)
    <3> SUFFICES ASSUME NEW s \in Runners, Finished(s, j) PROVE FALSE
      OBVIOUS
    <3>1. procs[s].outcome \in Outcomes
      BY DEF Finished, TypeOK, WellFormed, Procs, Proc
    <3>2. QED
      BY <3>1 DEF Finished, Final, Outcomes, Failures
  <2>5. \/ jobs'[j] = jobs[j]
        \/ Ticked(j)
    BY <2>3, <2>4 DEF StepOK, RowEffect, Written, Killed, Requeued, Decided, Flagged, Cancelled
  <2>6. jobs[j].status = "running" /\ jobs[j].attempts = jobs'[j].attempts
        /\ jobs'[j].worker = jobs[j].worker
    BY <2>5 DEF Ticked
  <2>7. QED
    BY <2>1, <2>6 DEF OwnersKnown
<1>3. QED
  BY <1>1, <1>2, RunKept

LEMMA OwnersKnownInit == Init => OwnersKnown
BY QueueAssumption DEF Init, OwnersKnown, Idle, Procs

\* r holds on to the row of j: it is the last claimant, nobody can claim the
\* row, and while it runs the lease is held in the name of r's worker.
Holds(r, j) ==
  /\ procs[r].attempt = jobs[j].attempts
  /\ jobs[j].status \notin {"pending", "approved", "waiting_approval"}
  /\ jobs[j].status = "running" =>
       jobs[j].worker = WorkerOf[r] /\ jobs[j].lease = "held"

\* While a thread holds a row nobody claims it, and unless the row is requeued
\* the thread goes on holding it.
LEMMA HoldsOn ==
  ASSUME TypeOK, LogsNotShared, StepOK, faults'["late"] = 0,
         NEW r \in Runners, NEW j \in Jobs, procs[r].job = j, SameRun(r), Holds(r, j)
  PROVE  Requeued(j) \/ Holds(r, j)'
<1>1. ~Claimed(j) /\ ~Decided(j)
  BY DEF Holds, Claimed, Decided
<1>2. ASSUME NEW s \in Runners, Finished(s, j)
      PROVE  Holds(r, j)'
  <2>1. procs[s].outcome \in Outcomes
    BY <1>2 DEF Finished, TypeOK, WellFormed, Procs, Proc
  <2>2. jobs'[j].status \in {"failed", "done", "cancelled"}
    BY <1>2, <2>1 DEF Finished, Final, Outcomes
  <2>3. QED
    BY <1>2, <2>2 DEF Finished, Holds, SameRun
<1>3. ASSUME NEW s \in Runners, Killed(s, j)
      PROVE  Holds(r, j)'
  BY <1>3 DEF Killed, Restated, Holds, SameRun
<1>4. ASSUME NEW c \in Clis, Flagged(c, j) \/ Cancelled(c, j)
      PROVE  Holds(r, j)'
  BY <1>4 DEF Flagged, Cancelled, Restated, Holds, SameRun
<1>5. CASE Ticked(j)
  <2>1. faults["late"] \in Nat
    BY DEF TypeOK, FaultKinds
  <2>2. jobs[j].status = "running" => ~MayExpire(j)
    BY <2>1 DEF MayExpire, Tends, Holds
  <2>3. jobs'[j].status = "running" => jobs'[j].lease = "held"
    BY <1>5, <2>2 DEF Ticked, Holds
  <2>4. QED
    BY <1>5, <2>3 DEF Ticked, Holds, SameRun
<1>6. CASE jobs'[j] = jobs[j]
  BY <1>6 DEF Holds, SameRun
<1>7. QED
  BY <1>1, <1>2, <1>3, <1>4, <1>5, <1>6 DEF StepOK, RowEffect, Written

\* The claimant holds the row from the start.
LEMMA TookHolds ==
  ASSUME NEW r \in Runners, Took(r)
  PROVE  Holds(r, procs[r].job)'
BY DEF Took, Claimed, Holds

\* Nobody cancels: every thread works on a running row that it holds.
Undisturbed ==
  \A r \in Runners :
    procs[r].pc \in Working =>
      Holds(r, procs[r].job) /\ jobs[procs[r].job].status = "running"

LEMMA UndisturbedKept ==
  ASSUME TypeOK, LogsNotShared, NoneCancelling, Undisturbed, StepOK,
         faults'["late"] = 0
  PROVE  Undisturbed'
<1> SUFFICES ASSUME NEW r \in Runners, procs'[r].pc \in Working
             PROVE  Holds(r, procs[r].job)' /\ jobs'[procs'[r].job].status = "running"
  BY DEF Undisturbed
<1>1. procs'[r].job \in Jobs
  BY DEF StepOK, TypeOK, WellFormed, Procs, Working
<1>2. CASE Took(r)
  BY <1>2, TookHolds DEF Took, Claimed
<1>3. CASE SameRun(r) /\ ~Took(r)
  <2>1. PICK j \in Jobs : procs[r].job = j /\ procs'[r].job = j
    BY <1>1, <1>3 DEF SameRun
  <2>2. procs'[r] = procs[r] \/ Advanced(r)
    BY <1>3, <2>1, QueueAssumption DEF StepOK, ProcEffect, Left, Procs
  <2>3. procs[r].pc \in Working
    BY <2>2 DEF Advanced
  <2>4. Holds(r, j) /\ jobs[j].status = "running"
    BY <2>1, <2>3 DEF Undisturbed
  <2>5. ~Requeued(j) /\ \A s \in Runners : ~Killed(s, j)
    BY <2>4 DEF Requeued, Killed
  <2>6. \A c \in Clis : ~Flagged(c, j) /\ ~Cancelled(c, j)
    BY DEF NoneCancelling, Flagged, Cancelled
  <2>7. ASSUME NEW s \in Runners, Finished(s, j)
        PROVE  FALSE
    <3>1. s # r
      BY <2>7 DEF Finished, Working
    <3>2. procs[s].job = j /\ procs[s].pc \in Working
      BY <2>7 DEF Finished, Working
    <3>3. procs[s].attempt = procs[r].attempt
      BY <2>1, <2>4, <3>2 DEF Undisturbed, Holds
    <3>4. QED
      BY <2>1, <3>1, <3>2, <3>3 DEF LogsNotShared, Active
  <2>8. ~Claimed(j) /\ ~Decided(j)
    BY <2>4 DEF Holds, Claimed, Decided
  <2>9. jobs'[j] = jobs[j] \/ Ticked(j)
    BY <2>5, <2>6, <2>7, <2>8 DEF StepOK, RowEffect, Written
  <2>10. jobs'[j].status = "running"
    BY <2>4, <2>9 DEF Ticked
  <2>11. QED
    BY <1>3, <2>1, <2>4, <2>5, <2>10, HoldsOn
<1>4. QED
  BY <1>1, <1>2, <1>3, RunKept

\* No command is about to requeue a job.
NoneRetrying == \A c \in Clis : procs[c].pc \notin Engaged

\* Nobody retries: the only thread that may still put a job back holds its row.
Unretried ==
  \A r \in Runners : procs[r].pc \in Engaged => Holds(r, procs[r].job)

LEMMA UnretriedKept ==
  ASSUME TypeOK, LogsNotShared, NoneRetrying, Unretried, StepOK, faults'["late"] = 0
  PROVE  Unretried'
<1> SUFFICES ASSUME NEW r \in Runners, procs'[r].pc \in Engaged
             PROVE  Holds(r, procs[r].job)'
  BY DEF Unretried
<1>1. procs'[r].job \in Jobs
  BY DEF StepOK, TypeOK, WellFormed, Procs, Working, Engaged, Requeuing
<1>2. CASE Took(r)
  BY <1>2, TookHolds
<1>3. CASE SameRun(r) /\ ~Took(r)
  <2>1. PICK j \in Jobs : procs[r].job = j /\ procs'[r].job = j
    BY <1>1, <1>3 DEF SameRun
  <2>2. procs'[r] = procs[r] \/ Advanced(r)
    BY <1>3, <2>1, QueueAssumption DEF StepOK, ProcEffect, Left, Procs
  <2>3. procs[r].pc \in Engaged
    BY <2>2 DEF Advanced
  <2>4. Holds(r, j)
    BY <2>1, <2>3 DEF Unretried
  <2>5. ASSUME Requeued(j)
        PROVE  FALSE
    <3>1. PICK p \in Procs : /\ procs[p].pc = "requeue_write" /\ procs[p].job = j
                             /\ procs'[p].pc = "requeue_event"
      BY <2>5 DEF Requeued
    <3>2. p \in Runners
      BY <3>1 DEF NoneRetrying, Procs, Engaged, Requeuing
    <3>3. p # r
      BY <3>1 DEF Engaged, Requeuing, Working
    <3>4. procs[p].attempt = procs[r].attempt
      BY <2>4, <3>1, <3>2 DEF Unretried, Engaged, Requeuing, Holds
    <3>5. QED
      BY <2>1, <3>1, <3>2, <3>3, <3>4 DEF LogsNotShared, Active
  <2>6. QED
    BY <1>3, <2>1, <2>4, <2>5, HoldsOn
<1>4. QED
  BY <1>1, <1>2, <1>3, RunKept

\* One command was given at most, so it cannot be both a cancel and a retry:
\* until it is known which, threads are undisturbed and rows are not requeued.
Regular ==
  /\ Commanded = {} => Undisturbed /\ Unretried
  /\ \/ NoneCancelling /\ Undisturbed
     \/ NoneRetrying /\ Unretried

Regularly == ~CanBeOvertaken => Regular

LEMMA RegularInit == Init => Regularly
<1> SUFFICES ASSUME Init PROVE Regular
  BY DEF Regularly
<1>1. NoneCancelling /\ Undisturbed /\ Unretried
  BY DEF Init, NoneCancelling, Undisturbed, Unretried, Idle, Procs, Working, Engaged, Requeuing
<1>2. QED
  BY <1>1 DEF Regular

LEMMA RegularKept ==
  ASSUME TypeOK, LogsNotShared, Regularly, StepOK
  PROVE  Regularly'
<1> SUFFICES ASSUME ~CanBeOvertaken' PROVE Regular'
  BY DEF Regularly
<1>1. faults'["late"] = 0 /\ faults["late"] = 0
  BY DEF CanBeOvertaken, StepOK, TypeOK, FaultKinds
<1>2. Commanded \subseteq Commanded'
  BY QueueAssumption DEF Commanded, StepOK, ProcEffect, Left, Advanced, Procs
<1>3. \A c, d \in Clis : procs'[c].pc # "idle" /\ procs'[d].pc # "idle" => c = d
  BY DEF CanBeOvertaken, Commanded
<1>4. Regular
  BY <1>1, <1>2, <1>3 DEF Regularly, CanBeOvertaken, Commanded
<1>5. NoneCancelling /\ Undisturbed => Undisturbed'
  BY <1>1, UndisturbedKept
<1>6. NoneRetrying /\ Unretried => Unretried'
  BY <1>1, UnretriedKept
<1>7. CASE Commanded = {}
  <2>1. NoneCancelling /\ NoneRetrying
    BY <1>7 DEF Commanded, NoneCancelling, NoneRetrying, Engaged, Working, Requeuing
  <2>2. Undisturbed' /\ Unretried'
    BY <1>4, <1>5, <1>6, <1>7, <2>1 DEF Regular
  <2>3. NoneCancelling' \/ NoneRetrying'
    BY <1>3 DEF NoneCancelling, NoneRetrying, Engaged, Working, Requeuing
  <2>4. QED
    BY <2>2, <2>3 DEF Regular
<1>8. CASE Commanded # {}
  <2>1. PICK c \in Clis : procs[c].pc # "idle" /\ \A d \in Clis \ {c} : procs'[d].pc = "idle"
    BY <1>2, <1>3, <1>8 DEF Commanded
  <2>2. c \notin Runners /\ ProcEffect(c)
    BY QueueAssumption DEF StepOK, Procs
  <2>3. NoneCancelling => NoneCancelling'
    BY <2>1, <2>2 DEF NoneCancelling, ProcEffect, Left, Advanced
  <2>4. NoneRetrying => NoneRetrying'
    BY <2>1, <2>2 DEF NoneRetrying, ProcEffect, Left, Advanced, Engaged, Working, Requeuing
  <2>5. QED
    BY <1>2, <1>4, <1>5, <1>6, <1>8, <2>3, <2>4 DEF Regular
<1>9. QED
  BY <1>7, <1>8

LEMMA HolderFinishes ==
  ASSUME Regularly
  PROVE  LastClaimant
<1> SUFFICES ASSUME NEW r \in Runners, procs[r].pc = "finish_write", ~CanBeOvertaken
             PROVE  procs[r].attempt = jobs[procs[r].job].attempts
  BY DEF LastClaimant
<1>1. Undisturbed \/ Unretried
  BY DEF Regularly, Regular
<1>2. QED
  BY <1>1 DEF Undisturbed, Unretried, Working, Engaged, Requeuing, Holds

\* A thread finishes a run that another thread has claimed since only after a
\* lease ran out on a live thread or after two commands, a cancel that
\* overwrites a row somebody just claimed and a retry of it: nothing else that
\* workers, crashes or faults do brings two threads to one row.
THEOREM OwnRunTheorem == Spec => OwnRunFinished
<1>1. Init => Regularly
  BY RegularInit
<1>2. IInv /\ Regularly /\ [Next]_vars => Regularly' /\ [LastClaimant]_vars
  BY NextOK, RegularKept, HolderFinishes DEF IInv
<1>3. QED
  BY Invariance, <1>1, <1>2, PTL DEF Spec, OwnRunFinished

(***************************************************************************)
(* Rows left cancelling                                                    *)
(***************************************************************************)

\* A row that is cancelling with no thread at work on it and no earlier cancel
\* under way is cancelling for good.
THEOREM OrphanTheorem == Spec => OrphansStay
<1> DEFINE Stays == \A j \in Jobs : Orphaned(j) => jobs'[j].status = "cancelling"
<1>1. ASSUME TypeOK, StepOK, NEW j \in Jobs, Orphaned(j)
      PROVE  jobs'[j].status = "cancelling"
  <2>1. \A r \in Runners : ~Finished(r, j) /\ ~Killed(r, j)
    BY <1>1 DEF Orphaned, Active, Finished, Killed, Working
  <2>2. \A c \in Clis : ~Cancelled(c, j)
    BY <1>1 DEF Orphaned, Cancelled
  <2>3. ~Claimed(j) /\ ~Requeued(j) /\ ~Decided(j)
    BY <1>1 DEF Orphaned, Claimed, Requeued, Decided
  <2>4. jobs'[j] = jobs[j] \/ Ticked(j) \/ \E c \in Clis : Flagged(c, j)
    BY <1>1, <2>1, <2>2, <2>3 DEF StepOK, RowEffect, Written
  <2>5. QED
    BY <1>1, <2>4 DEF Orphaned, Ticked, Flagged
<1>2. TypeOK /\ [Next]_vars => [Stays]_vars
  BY <1>1, NextOK
<1>3. QED
  BY TypeCorrect, <1>2, PTL DEF Spec, OrphansStay

(***************************************************************************)
(* The retries that are left                                               *)
(*                                                                         *)
(* A job is claimed once for being enqueued and once for every return to   *)
(* the queue, so its attempts are bounded by counting who may still return *)
(* it.  The count is kept by job: a row that can be claimed is one claim   *)
(* to come, a thread that may reach the retry policy is another, and so is *)
(* a process that is about to requeue.  Commands, crashes and faults pay   *)
(* for what they add to it.                                                *)
(***************************************************************************)

Awaiting == {"pending", "approved", "waiting_approval"}

\* The last claimant of the row is still at work.
Owned(j) ==
  \E r \in Runners :
    procs[r].job = j /\ procs[r].pc \in Working /\ procs[r].attempt = jobs[j].attempts

\* The row can be claimed, or will be once its lease runs out.
Loose(j) ==
  \/ jobs[j].status \in Awaiting
  \/ jobs[j].status = "running" /\ (jobs[j].lease = "expired" \/ ~Owned(j))

Token(j) == IF Loose(j) THEN 1 ELSE 0

LiveOn(j) == {p \in Procs : procs[p].job = j /\ procs[p].pc \in Engaged}

Requeuers(j) == {p \in Procs : procs[p].job = j /\ procs[p].pc \in Requeuing}

\* Nobody asks for retries when max_retries is 0, but the first claim is made.
Limit == IF MaxRetries = 0 THEN 1 ELSE MaxRetries

\* One claim is to come or under way, and one more for each disturbance; the
\* claims made and the returns decided stay within max_retries and those.
Balanced(j) ==
  /\ Token(j) + Cardinality(LiveOn(j)) <= 1 + Disturbances
  /\ jobs[j].attempts + Token(j) + Cardinality(Requeuers(j)) <= Limit + Disturbances

Balance == \A j \in Jobs : Balanced(j)

Finitely == IsFiniteSet(Procs) /\ IsFiniteSet(Workers)

LEMMA Counted ==
  ASSUME TypeOK, TypeOK', Finitely, NEW j \in Jobs
  PROVE  /\ IsFiniteSet(LiveOn(j)) /\ IsFiniteSet(Requeuers(j))
         /\ IsFiniteSet(LiveOn(j)') /\ IsFiniteSet(Requeuers(j)')
         /\ IsFiniteSet(Commanded) /\ IsFiniteSet(Commanded')
         /\ IsFiniteSet(crashed) /\ IsFiniteSet(crashed')
<1>1. /\ LiveOn(j) \in SUBSET Procs /\ Requeuers(j) \in SUBSET Procs
      /\ LiveOn(j)' \in SUBSET Procs /\ Requeuers(j)' \in SUBSET Procs
      /\ Commanded \in SUBSET Procs /\ Commanded' \in SUBSET Procs
  BY DEF LiveOn, Requeuers, Commanded, Procs
<1>2. crashed \in SUBSET Workers /\ crashed' \in SUBSET Workers
  BY DEF TypeOK
<1>3. QED
  BY <1>1, <1>2, FS_Subset DEF Finitely

LEMMA Numbers ==
  ASSUME TypeOK, TypeOK', Finitely, NEW j \in Jobs
  PROVE  /\ Cardinality(LiveOn(j)) \in Nat /\ Cardinality(LiveOn(j)') \in Nat
         /\ Cardinality(Requeuers(j)) \in Nat /\ Cardinality(Requeuers(j)') \in Nat
         /\ Disturbances \in Nat /\ Disturbances' \in Nat
         /\ Token(j) \in 0..1 /\ Token(j)' \in 0..1
         /\ jobs[j].attempts \in Nat /\ jobs'[j].attempts \in Nat
         /\ Limit \in Nat
<1>1. /\ Cardinality(LiveOn(j)) \in Nat /\ Cardinality(LiveOn(j)') \in Nat
      /\ Cardinality(Requeuers(j)) \in Nat /\ Cardinality(Requeuers(j)') \in Nat
  BY Counted, FS_CardinalityType
<1>2. /\ Cardinality(Commanded) \in Nat /\ Cardinality(Commanded') \in Nat
      /\ Cardinality(crashed) \in Nat /\ Cardinality(crashed') \in Nat
  BY Counted, FS_CardinalityType
<1>3. /\ faults["open"] \in Nat /\ faults["late"] \in Nat
      /\ faults'["open"] \in Nat /\ faults'["late"] \in Nat
  BY DEF TypeOK, FaultKinds
<1>4. /\ Disturbances = Cardinality(Commanded) + Cardinality(crashed)
                          + faults["open"] + faults["late"]
      /\ Disturbances' = Cardinality(Commanded') + Cardinality(crashed')
                          + faults'["open"] + faults'["late"]
  BY DEF Disturbances, Commanded
<1>5. Disturbances \in Nat /\ Disturbances' \in Nat
  BY <1>2, <1>3, <1>4
<1>6. jobs[j].attempts \in Nat /\ jobs'[j].attempts \in Nat
  BY DEF TypeOK, JobRow
<1>7. Limit \in Nat
  BY QueueAssumption DEF Limit
<1>8. Token(j) \in 0..1 /\ Token(j)' \in 0..1
  BY DEF Token
<1>9. QED
  BY <1>1, <1>5, <1>6, <1>7, <1>8

(***************************************************************************)
(* How a step changes the count of one job                                 *)
(***************************************************************************)

\* Nothing is added.
Calm(j) ==
  /\ LiveOn(j)' \subseteq LiveOn(j)
  /\ Requeuers(j)' \subseteq Requeuers(j)
  /\ Loose(j)' => Loose(j)
  /\ jobs'[j].attempts = jobs[j].attempts
  /\ Disturbances <= Disturbances'

\* A disturbance leaves the row without its owner.
Abandoned(j) ==
  /\ LiveOn(j)' \subseteq LiveOn(j)
  /\ Requeuers(j)' \subseteq Requeuers(j)
  /\ jobs'[j].attempts = jobs[j].attempts
  /\ Disturbances + 1 <= Disturbances'

\* A command sets out to requeue the job.
Asked(p, j) ==
  /\ LiveOn(j)' \subseteq LiveOn(j) \cup {p}
  /\ Requeuers(j)' \subseteq Requeuers(j) \cup {p}
  /\ Loose(j)' => Loose(j)
  /\ jobs'[j].attempts = jobs[j].attempts
  /\ Disturbances + 1 <= Disturbances'

\* The retry policy decides to.
Granted(p, j) ==
  /\ p \in LiveOn(j)
  /\ LiveOn(j)' \subseteq LiveOn(j)
  /\ Requeuers(j)' \subseteq LiveOn(j)
  /\ Requeuers(j)' \subseteq Requeuers(j) \cup {p}
  /\ Loose(j)' => Loose(j)
  /\ jobs'[j].attempts = jobs[j].attempts
  /\ jobs[j].attempts < MaxRetries
  /\ Disturbances <= Disturbances'

\* The row is pending again.
Returned(p, j) ==
  /\ p \in LiveOn(j) /\ p \in Requeuers(j)
  /\ LiveOn(j)' \subseteq LiveOn(j) \ {p}
  /\ Requeuers(j)' \subseteq Requeuers(j) \ {p}
  /\ jobs'[j].attempts = jobs[j].attempts
  /\ Disturbances <= Disturbances'

\* The row is claimed.
Taken(p, j) ==
  /\ Loose(j) /\ ~Loose(j)'
  /\ LiveOn(j)' \subseteq LiveOn(j) \cup {p}
  /\ Requeuers(j)' \subseteq Requeuers(j)
  /\ jobs'[j].attempts = jobs[j].attempts + 1
  /\ Disturbances <= Disturbances'

Accounted(j) ==
  \/ Calm(j)
  \/ Abandoned(j)
  \/ \E p \in Procs : Asked(p, j) \/ Granted(p, j) \/ Returned(p, j) \/ Taken(p, j)

LEMMA CardSubset ==
  ASSUME NEW S, IsFiniteSet(S), NEW T, T \subseteq S
  PROVE  Cardinality(T) <= Cardinality(S)
BY FS_Subset

LEMMA CardPlus ==
  ASSUME NEW S, IsFiniteSet(S), NEW x, NEW T, T \subseteq S \cup {x}
  PROVE  Cardinality(T) <= Cardinality(S) + 1
<1>0. Cardinality(S) \in Nat
  BY FS_CardinalityType
<1>1. IsFiniteSet(S \cup {x}) /\ Cardinality(S \cup {x}) <= Cardinality(S) + 1
  BY <1>0, FS_AddElement
<1>2. Cardinality(T) <= Cardinality(S \cup {x}) /\ IsFiniteSet(T)
  BY <1>1, FS_Subset
<1>3. Cardinality(T) \in Nat /\ Cardinality(S) \in Nat /\ Cardinality(S \cup {x}) \in Nat
  BY <1>1, <1>2, FS_CardinalityType
<1>4. QED
  BY <1>1, <1>2, <1>3

LEMMA CardMinus ==
  ASSUME NEW S, IsFiniteSet(S), NEW x \in S, NEW T, T \subseteq S \ {x}
  PROVE  Cardinality(T) + 1 <= Cardinality(S)
<1>1. IsFiniteSet(S \ {x}) /\ Cardinality(S \ {x}) = Cardinality(S) - 1
  BY FS_RemoveElement
<1>2. Cardinality(T) <= Cardinality(S \ {x}) /\ IsFiniteSet(T)
  BY <1>1, FS_Subset
<1>3. Cardinality(T) \in Nat /\ Cardinality(S) \in Nat
  BY <1>2, FS_CardinalityType
<1>4. QED
  BY <1>1, <1>2, <1>3

\* A decision of the policy: the thread is one of the live ones already, so
\* the other claims to come are covered by disturbances.
LEMMA GrantedSum ==
  ASSUME NEW a \in Nat, NEW d \in Nat, NEW e \in Nat, NEW m \in Nat, NEW l \in Nat,
         NEW s \in 0..1, NEW k \in Nat,
         s + l <= 1 + d, k <= l, a < m, d <= e
  PROVE  a + s + k <= m + e
OBVIOUS

LEMMA TakenSum ==
  ASSUME NEW d \in Nat, NEW e \in Nat, NEW l \in Nat, NEW m \in Nat,
         m <= l + 1, 1 + l <= 1 + d, d <= e
  PROVE  0 + m <= 1 + e
OBVIOUS

LEMMA Sums ==
  ASSUME TypeOK, TypeOK', Finitely, NEW j \in Jobs, Balanced(j), Accounted(j)
  PROVE  Balanced(j)'
<1> DEFINE l == Cardinality(LiveOn(j))
           m == Cardinality(LiveOn(j)')
           k == Cardinality(Requeuers(j))
           n == Cardinality(Requeuers(j)')
<1>1. l \in Nat /\ m \in Nat /\ k \in Nat /\ n \in Nat
  BY Numbers
<1>2. Disturbances \in Nat /\ Disturbances' \in Nat /\ Limit \in Nat
  BY Numbers
<1>3. Token(j) \in 0..1 /\ Token(j)' \in 0..1
  BY Numbers
<1>4. jobs[j].attempts \in Nat /\ jobs'[j].attempts \in Nat
  BY Numbers
<1>5. /\ Token(j) + l <= 1 + Disturbances
      /\ jobs[j].attempts + Token(j) + k <= Limit + Disturbances
  BY DEF Balanced
<1>6. IsFiniteSet(LiveOn(j)) /\ IsFiniteSet(Requeuers(j))
  BY Counted
<1>7. (Loose(j)' => Loose(j)) => Token(j)' <= Token(j)
  BY DEF Token
<1> SUFFICES /\ Token(j)' + m <= 1 + Disturbances'
             /\ jobs'[j].attempts + Token(j)' + n <= Limit + Disturbances'
  BY DEF Balanced, Limit
<1> HIDE DEF l, m, k, n
<1>8. CASE Calm(j)
  <2>1. m <= l /\ n <= k
    BY <1>6, <1>8, CardSubset DEF Calm, l, m, k, n
  <2>2. Token(j)' <= Token(j) /\ jobs'[j].attempts = jobs[j].attempts
        /\ Disturbances <= Disturbances'
    BY <1>7, <1>8 DEF Calm
  <2>3. QED
    BY <1>1, <1>2, <1>3, <1>4, <1>5, <2>1, <2>2
<1>9. CASE Abandoned(j)
  <2>1. m <= l /\ n <= k
    BY <1>6, <1>9, CardSubset DEF Abandoned, l, m, k, n
  <2>2. jobs'[j].attempts = jobs[j].attempts /\ Disturbances + 1 <= Disturbances'
    BY <1>9 DEF Abandoned
  <2>3. QED
    BY <1>1, <1>2, <1>3, <1>4, <1>5, <2>1, <2>2
<1>10. ASSUME NEW p \in Procs, Asked(p, j)
       PROVE  /\ Token(j)' + m <= 1 + Disturbances'
              /\ jobs'[j].attempts + Token(j)' + n <= Limit + Disturbances'
  <2>1. m <= l + 1 /\ n <= k + 1
    BY <1>6, <1>10, CardPlus DEF Asked, l, m, k, n
  <2>2. Token(j)' <= Token(j) /\ jobs'[j].attempts = jobs[j].attempts
        /\ Disturbances + 1 <= Disturbances'
    BY <1>7, <1>10 DEF Asked
  <2>3. QED
    BY <1>1, <1>2, <1>3, <1>4, <1>5, <2>1, <2>2
<1>11. ASSUME NEW p \in Procs, Granted(p, j)
       PROVE  /\ Token(j)' + m <= 1 + Disturbances'
              /\ jobs'[j].attempts + Token(j)' + n <= Limit + Disturbances'
  <2>1. m <= l /\ n <= l
    BY <1>6, <1>11, CardSubset DEF Granted, l, m, n
  <2>2. Token(j)' <= Token(j) /\ jobs'[j].attempts = jobs[j].attempts
        /\ Disturbances <= Disturbances'
    BY <1>7, <1>11 DEF Granted
  <2>3. jobs[j].attempts < Limit
    BY <1>4, <1>11, QueueAssumption DEF Granted, Limit
  <2>4. Token(j)' + l <= 1 + Disturbances
    BY <1>1, <1>2, <1>3, <1>5, <2>2
  <2>5. jobs'[j].attempts + Token(j)' + n <= Limit + Disturbances'
    BY <1>1, <1>2, <1>3, <1>4, <2>1, <2>2, <2>3, <2>4, GrantedSum
  <2>6. QED
    BY <1>1, <1>2, <1>3, <2>1, <2>2, <2>4, <2>5
<1>12. ASSUME NEW p \in Procs, Returned(p, j)
       PROVE  /\ Token(j)' + m <= 1 + Disturbances'
              /\ jobs'[j].attempts + Token(j)' + n <= Limit + Disturbances'
  <2>1. m + 1 <= l /\ n + 1 <= k
    BY <1>6, <1>12, CardMinus DEF Returned, l, m, k, n
  <2>2. jobs'[j].attempts = jobs[j].attempts /\ Disturbances <= Disturbances'
    BY <1>12 DEF Returned
  <2>3. QED
    BY <1>1, <1>2, <1>3, <1>4, <1>5, <2>1, <2>2
<1>13. ASSUME NEW p \in Procs, Taken(p, j)
       PROVE  /\ Token(j)' + m <= 1 + Disturbances'
              /\ jobs'[j].attempts + Token(j)' + n <= Limit + Disturbances'
  <2>1. m <= l + 1 /\ n <= k
    BY <1>6, <1>13, CardPlus, CardSubset DEF Taken, l, m, k, n
  <2>2. /\ Token(j) = 1 /\ Token(j)' = 0
        /\ jobs'[j].attempts = jobs[j].attempts + 1
        /\ Disturbances <= Disturbances'
    BY <1>13 DEF Taken, Token
  <2>3. 1 + l <= 1 + Disturbances /\ jobs[j].attempts + 1 + k <= Limit + Disturbances
    BY <1>5, <2>2
  <2>4. 0 + m <= 1 + Disturbances'
    BY <1>1, <1>2, <2>1, <2>2, <2>3, TakenSum
  <2>5. jobs[j].attempts + 1 + 0 + n <= Limit + Disturbances'
    BY <1>1, <1>2, <1>4, <2>1, <2>2, <2>3
  <2>6. QED
    BY <1>1, <2>2, <2>4, <2>5
<1>14. QED
  BY <1>8, <1>9, <1>10, <1>11, <1>12, <1>13 DEF Accounted

(***************************************************************************)
(* What disturbances cost                                                  *)
(***************************************************************************)

LEMMA CostSum ==
  ASSUME TypeOK, TypeOK', Finitely, NEW j \in Jobs
  PROVE  /\ Cardinality(Commanded) \in Nat /\ Cardinality(Commanded') \in Nat
         /\ Cardinality(crashed) \in Nat /\ Cardinality(crashed') \in Nat
         /\ faults["open"] \in Nat /\ faults["late"] \in Nat
         /\ faults'["open"] \in Nat /\ faults'["late"] \in Nat
         /\ Disturbances = Cardinality(Commanded) + Cardinality(crashed)
                             + faults["open"] + faults["late"]
         /\ Disturbances' = Cardinality(Commanded') + Cardinality(crashed')
                              + faults'["open"] + faults'["late"]
<1>1. /\ Cardinality(Commanded) \in Nat /\ Cardinality(Commanded') \in Nat
      /\ Cardinality(crashed) \in Nat /\ Cardinality(crashed') \in Nat
  BY Counted, FS_CardinalityType
<1>2. /\ faults["open"] \in Nat /\ faults["late"] \in Nat
      /\ faults'["open"] \in Nat /\ faults'["late"] \in Nat
  BY DEF TypeOK, FaultKinds
<1>3. QED
  BY <1>1, <1>2 DEF Disturbances, Commanded

LEMMA FourTerms ==
  ASSUME NEW a \in Nat, NEW b \in Nat, NEW c \in Nat, NEW d \in Nat,
         NEW e \in Nat, NEW f \in Nat, NEW g \in Nat, NEW h \in Nat,
         a <= e, b <= f, c <= g, d <= h
  PROVE  /\ a + b + c + d <= e + f + g + h
         /\ \/ a + 1 <= e \/ b + 1 <= f \/ c + 1 <= g \/ d + 1 <= h
            => a + b + c + d + 1 <= e + f + g + h
OBVIOUS

LEMMA CostGrows ==
  ASSUME TypeOK, TypeOK', Finitely, NEW j \in Jobs,
         Commanded \subseteq Commanded', crashed \subseteq crashed',
         faults["open"] <= faults'["open"], faults["late"] <= faults'["late"]
  PROVE  /\ Disturbances <= Disturbances'
         /\ \/ faults["open"] + 1 <= faults'["open"]
            \/ faults["late"] + 1 <= faults'["late"]
            \/ \E c \in Commanded' : Commanded \subseteq Commanded' \ {c}
            \/ \E w \in crashed' : crashed \subseteq crashed' \ {w}
            => Disturbances + 1 <= Disturbances'
<1>1. /\ Cardinality(Commanded) <= Cardinality(Commanded')
      /\ Cardinality(crashed) <= Cardinality(crashed')
  BY Counted, CardSubset
<1>2. (\E c \in Commanded' : Commanded \subseteq Commanded' \ {c})
        => Cardinality(Commanded) + 1 <= Cardinality(Commanded')
  BY Counted, CardMinus
<1>3. (\E w \in crashed' : crashed \subseteq crashed' \ {w})
        => Cardinality(crashed) + 1 <= Cardinality(crashed')
  BY Counted, CardMinus
<1>4. Disturbances <= Disturbances'
  BY <1>1, CostSum, FourTerms
<1>5. ASSUME \/ faults["open"] + 1 <= faults'["open"]
             \/ faults["late"] + 1 <= faults'["late"]
             \/ Cardinality(Commanded) + 1 <= Cardinality(Commanded')
             \/ Cardinality(crashed) + 1 <= Cardinality(crashed')
      PROVE  Disturbances + 1 <= Disturbances'
  BY <1>1, <1>5, CostSum, FourTerms
<1>6. QED
  BY <1>2, <1>3, <1>4, <1>5

LEMMA CostSame ==
  ASSUME TypeOK, TypeOK', Finitely, NEW j \in Jobs, UNCHANGED <<procs, crashed, faults>>
  PROVE  Disturbances <= Disturbances'
<1>1. Commanded \subseteq Commanded'
  BY DEF Commanded
<1>2. faults["open"] \in Nat /\ faults["late"] \in Nat
  BY DEF TypeOK, FaultKinds
<1>3. QED
  BY <1>1, <1>2, CostGrows

\* The step of one process takes none back.
LEMMA CostKept ==
  ASSUME TypeOK, TypeOK', Finitely, NEW j \in Jobs, NEW p \in Procs, Moved(p),
         p \in Clis => procs'[p].pc # "idle",
         UNCHANGED crashed, UNCHANGED faults \/ Fault("result")
  PROVE  Disturbances <= Disturbances'
<1>1. Commanded \subseteq Commanded'
  BY DEF Commanded, Moved, Procs
<1>2. faults'["open"] = faults["open"] /\ faults'["late"] = faults["late"]
  BY DEF Fault, TypeOK, FaultKinds
<1>3. faults["open"] \in Nat /\ faults["late"] \in Nat
  BY DEF TypeOK, FaultKinds
<1>4. QED
  BY <1>1, <1>2, <1>3, CostGrows

(***************************************************************************)
(* Steps that add nothing                                                  *)
(***************************************************************************)

\* p's step brings nobody to the job of j, and if p owns the row it goes on
\* with it or has ended its run.
GoesOn(p, j) ==
  /\ procs'[p].job = j /\ procs'[p].pc \in Engaged =>
       procs[p].job = j /\ procs[p].pc \in Engaged
  /\ procs'[p].job = j /\ procs'[p].pc \in Requeuing =>
       procs[p].job = j /\ procs[p].pc \in Requeuing
  /\ p \in Runners /\ procs[p].job = j /\ procs[p].pc \in Working =>
       \/ SameRun(p) /\ procs'[p].pc \in Working
       \/ jobs'[j].status # "running"

\* The row does not come back to the queue.
RowCalm(j) ==
  /\ jobs'[j].attempts = jobs[j].attempts
  /\ jobs'[j].status \in Awaiting => jobs[j].status \in Awaiting
  /\ jobs'[j].status = "running" =>
       /\ jobs[j].status = "running"
       /\ jobs'[j].lease = "expired" => jobs[j].lease = "expired"

LEMMA FewerOn ==
  ASSUME TypeOK, NEW p \in Procs, Moved(p), NEW j \in Jobs, GoesOn(p, j)
  PROVE  LiveOn(j)' \subseteq LiveOn(j) /\ Requeuers(j)' \subseteq Requeuers(j)
BY DEF LiveOn, Requeuers, Moved, GoesOn

LEMMA OwnerStays ==
  ASSUME NEW p \in Procs, Moved(p), NEW j \in Jobs, GoesOn(p, j), Owned(j),
         jobs'[j].attempts = jobs[j].attempts, jobs'[j].status = "running"
  PROVE  Owned(j)'
<1>1. PICK r \in Runners : /\ procs[r].job = j /\ procs[r].pc \in Working
                           /\ procs[r].attempt = jobs[j].attempts
  BY DEF Owned
<1>2. CASE r = p
  BY <1>1, <1>2 DEF Owned, GoesOn, SameRun
<1>3. CASE r # p
  BY <1>1, <1>3 DEF Owned, Moved, Procs
<1>4. QED
  BY <1>2, <1>3

LEMMA StaysTight ==
  ASSUME NEW j \in Jobs, RowCalm(j), Loose(j)',
         Owned(j) /\ jobs'[j].status = "running" => Owned(j)'
  PROVE  Loose(j)
<1>1. CASE jobs'[j].status \in Awaiting
  BY <1>1 DEF RowCalm, Loose
<1>2. CASE jobs'[j].status = "running" /\ jobs'[j].lease = "expired"
  BY <1>2 DEF RowCalm, Loose
<1>3. CASE jobs'[j].status = "running" /\ ~Owned(j)'
  BY <1>3 DEF RowCalm, Loose
<1>4. QED
  BY <1>1, <1>2, <1>3 DEF Loose

\* The step of one process.
LEMMA StepCalm ==
  ASSUME TypeOK, TypeOK', NEW p \in Procs, Moved(p), NEW j \in Jobs,
         GoesOn(p, j), RowCalm(j), Disturbances <= Disturbances'
  PROVE  Calm(j)
<1>1. Loose(j)' => Loose(j)
  BY OwnerStays, StaysTight DEF RowCalm
<1>2. QED
  BY <1>1, FewerOn DEF Calm, RowCalm

\* A step of no process.
LEMMA ClockCalm ==
  ASSUME UNCHANGED procs, NEW j \in Jobs, RowCalm(j), Disturbances <= Disturbances'
  PROVE  Calm(j)
<1>1. Owned(j) => Owned(j)'
  BY DEF Owned, RowCalm
<1>2. Loose(j)' => Loose(j)
  BY <1>1, StaysTight
<1>3. LiveOn(j)' = LiveOn(j) /\ Requeuers(j)' = Requeuers(j)
  BY DEF LiveOn, Requeuers
<1>4. QED
  BY <1>2, <1>3 DEF Calm, RowCalm

\* A process that has to do with another job only.
LEMMA Elsewhere ==
  ASSUME NEW p \in Procs, NEW j \in Jobs, procs[p].job # j, procs'[p].job # j
  PROVE  GoesOn(p, j)
BY DEF GoesOn

LEMMA UntouchedCalm ==
  ASSUME NEW j \in Jobs, jobs'[j] = jobs[j]
  PROVE  RowCalm(j)
BY DEF RowCalm

\* A step of a thread after which the row is not to be claimed.
LEMMA RunnerCalm ==
  ASSUME TypeOK, TypeOK', Finitely, NEW r \in Runners, Moved(r),
         UNCHANGED crashed, UNCHANGED faults \/ Fault("result"),
         \A j \in Jobs : GoesOn(r, j) /\ RowCalm(j)
  PROVE  \A j \in Jobs : Calm(j)
<1>1. r \in Procs /\ r \notin Clis
  BY QueueAssumption DEF Procs
<1>2. QED
  BY <1>1, CostKept, StepCalm

\* A thread leaves a row that does not run.
LEMMA LeftGoesOn ==
  ASSUME NEW p \in Procs, Left(p), NEW j \in Jobs,
         p \in Runners /\ procs[p].job = j /\ procs[p].pc \in Working =>
           jobs'[j].status # "running"
  PROVE  GoesOn(p, j)
BY QueueAssumption DEF Left, GoesOn

LEMMA FinalKnown ==
  ASSUME TypeOK, NEW r \in Runners,
         procs[r].pc \in {"finish", "finish_write", "finish_event"}
  PROVE  Final(r) \in {"failed", "done", "cancelled"} /\ procs[r].job \in Jobs
<1>1. procs[r].outcome \in Outcomes /\ procs[r].job \in Jobs
  BY DEF TypeOK, WellFormed, Procs, Proc
<1>2. QED
  BY <1>1 DEF Final, Outcomes

\* The steps of a thread between the claim and the retry policy.
LEMMA WorkCalm ==
  ASSUME TypeOK, TypeOK', Finitely, NEW r \in Runners,
         \/ Start(r)
         \/ \E outcome \in Outcomes \ {"internal"} : ExecReturn(r, outcome)
         \/ ExecRaise(r)
         \/ RecordAttempt(r)
         \/ ResultLost(r)
  PROVE  \A j \in Jobs : Calm(j)
<1>0. r \in Procs /\ ProcsOK /\ RowsOK
  BY DEF Procs, TypeOK, ProcsOK, RowsOK
<1>1. /\ procs[r].pc \in {"queued", "executing", "record", "finish"}
      /\ UNCHANGED <<jobs, crashed>> /\ (UNCHANGED faults \/ Fault("result"))
  BY DEF Start, ExecReturn, ExecRaise, RecordAttempt, ResultLost
<1>2. Moved(r) /\ SameRun(r) /\ procs'[r].pc \in Working
  <2>1. CASE Start(r)
    BY <1>0, <2>1, GotoMoves DEF Start, Steps, Working
  <2>2. ASSUME NEW outcome \in Outcomes \ {"internal"}, ExecReturn(r, outcome)
        PROVE  Moved(r) /\ SameRun(r) /\ procs'[r].pc \in Working
    <3>1. procs' = [procs EXCEPT ![r].pc = "record", ![r].outcome = outcome]
      BY <2>2 DEF ExecReturn
    <3>2. /\ \A q \in Procs \ {r} : procs'[q] = procs[q]
          /\ procs'[r].pc = "record" /\ SameRun(r)
      BY <1>0, <3>1 DEF ProcsOK, Proc, SameRun
    <3>3. procs' \in [Procs -> Proc] /\ WellFormed(procs'[r])
      BY <1>0 DEF TypeOK
    <3>4. QED
      BY <3>2, <3>3 DEF Moved, Working
  <2>3. CASE ExecRaise(r) \/ ResultLost(r)
    BY <1>0, <2>3, CrashPathMoves DEF ExecRaise, ResultLost, Working
  <2>4. CASE RecordAttempt(r)
    <3>1. procs[r].outcome # "none"
      BY <1>0, <2>4 DEF RecordAttempt, ProcsOK, WellFormed
    <3>2. QED
      BY <1>0, <2>4, <3>1, GotoMoves DEF RecordAttempt, Steps, Working
  <2>5. QED
    BY <2>1, <2>2, <2>3, <2>4
<1>3. \A j \in Jobs : GoesOn(r, j)
  BY <1>1, <1>2 DEF GoesOn, SameRun, Working, Engaged, Requeuing
<1>4. \A j \in Jobs : RowCalm(j)
  BY <1>1, UntouchedCalm
<1>5. QED
  BY <1>1, <1>2, <1>3, <1>4, RunnerCalm

\* finish_job: whoever gives up a row finds that it does not run any more.
LEMMA FinishCalm ==
  ASSUME TypeOK, TypeOK', Finitely, NEW r \in Runners,
         FinishRead(r) \/ FinishWrite(r) \/ FinishEvent(r)
  PROVE  \A j \in Jobs : Calm(j)
<1>0. r \in Procs /\ ProcsOK /\ RowsOK
  BY DEF Procs, TypeOK, ProcsOK, RowsOK
<1>1. /\ procs[r].pc \in {"finish", "finish_write", "finish_event"}
      /\ UNCHANGED <<crashed, faults>>
  BY DEF FinishRead, FinishWrite, FinishEvent
<1>2. Final(r) \in {"failed", "done", "cancelled"} /\ procs[r].job \in Jobs
  BY <1>1, FinalKnown
<1>3. CASE UNCHANGED jobs /\ AfterFinish(r)
           /\ (procs[r].pc = "finish_event" \/ jobs[procs[r].job].status # "running")
  <2>1. Moved(r) /\ (Left(r) \/ (SameRun(r) /\ procs'[r].pc = "policy"))
    <3>1. procs[r].pc \notin {"idle", "exit"} /\ AfterFinish(r)
      BY <1>1, <1>3
    <3>2. QED
      BY <1>0, <3>1, AfterFinishMoves
  <2>2. \A j \in Jobs : GoesOn(r, j)
    <3>1. CASE Left(r)
      BY <1>0, <1>3, <3>1, LeftGoesOn DEF Working
    <3>2. CASE SameRun(r) /\ procs'[r].pc = "policy"
      BY <1>1, <1>3, <3>2 DEF GoesOn, SameRun, Working, Engaged, Requeuing
    <3>3. QED
      BY <2>1, <3>1, <3>2
  <2>3. QED
    BY <1>1, <1>3, <2>1, <2>2, RunnerCalm, UntouchedCalm
<1>4. CASE UNCHANGED jobs /\ procs[r].pc = "finish" /\ Checked(r, "finish_write")
  <2>1. procs[r].outcome # "none"
    BY <1>0, <1>4 DEF ProcsOK, WellFormed
  <2>2. Moved(r) /\ SameRun(r) /\ procs'[r].pc = "finish_write"
    BY <1>0, <1>4, <2>1, CheckedMoves
  <2>3. \A j \in Jobs : GoesOn(r, j)
    BY <1>4, <2>2 DEF GoesOn, SameRun, Working, Engaged, Requeuing
  <2>4. QED
    BY <1>1, <1>4, <2>2, <2>3, RunnerCalm, UntouchedCalm
<1>5. CASE UNCHANGED jobs /\ procs[r].pc = "finish" /\ CrashPath(r)
  <2>1. Moved(r) /\ SameRun(r) /\ procs'[r].pc = "record"
    BY <1>0, <1>5, CrashPathMoves
  <2>2. \A j \in Jobs : GoesOn(r, j)
    BY <1>5, <2>1 DEF GoesOn, SameRun, Working, Engaged, Requeuing
  <2>3. QED
    BY <1>1, <1>5, <2>1, <2>2, RunnerCalm, UntouchedCalm
<1>6. CASE UNCHANGED jobs /\ Leave(r) /\ jobs[procs[r].job].status # "running"
  <2>1. Moved(r) /\ Left(r)
    BY <1>0, <1>6, LeaveMoves
  <2>2. \A j \in Jobs : GoesOn(r, j)
    BY <1>0, <1>6, <2>1, LeftGoesOn
  <2>3. QED
    BY <1>1, <1>6, <2>1, <2>2, RunnerCalm, UntouchedCalm
<1>7. CASE /\ procs[r].pc = "finish_write" /\ Goto(r, "finish_event")
           /\ Written(procs[r].job) /\ Finished(r, procs[r].job)
  <2>1. procs[r].outcome # "none" /\ procs[r].seen # "none"
    BY <1>0, <1>7 DEF ProcsOK, WellFormed
  <2>2. Moved(r) /\ SameRun(r) /\ procs'[r].pc = "finish_event"
    BY <1>0, <1>7, <2>1, GotoMoves DEF Steps
  <2>3. /\ jobs'[procs[r].job].status \in {"failed", "done", "cancelled"}
        /\ jobs'[procs[r].job].attempts = jobs[procs[r].job].attempts
    BY <1>2, <1>7 DEF Finished
  <2>4. \A j \in Jobs : GoesOn(r, j)
    BY <1>7, <2>2, <2>3 DEF GoesOn, SameRun, Working, Engaged, Requeuing
  <2>5. \A j \in Jobs : RowCalm(j)
    BY <1>7, <2>3, UntouchedCalm DEF RowCalm, Awaiting, Written
  <2>6. QED
    BY <1>1, <2>2, <2>4, <2>5, RunnerCalm
<1>8. CASE FinishRead(r)
  <2>1. /\ procs[r].pc = "finish" /\ UNCHANGED jobs
        /\ \/ jobs[procs[r].job].status = Final(r) /\ AfterFinish(r)
           \/ Checked(r, "finish_write")
           \/ ~IsLegal(jobs[procs[r].job].status, Final(r)) /\ (Leave(r) \/ CrashPath(r))
    BY <1>8 DEF FinishRead
  <2>2. jobs[procs[r].job].status = Final(r) => jobs[procs[r].job].status # "running"
    BY <1>2
  <2>3. ~IsLegal(jobs[procs[r].job].status, Final(r)) => jobs[procs[r].job].status # "running"
    BY <1>2 DEF IsLegal, LegalTransitions
  <2>4. QED
    BY <1>3, <1>4, <1>5, <1>6, <2>1, <2>2, <2>3
<1>9. CASE FinishWrite(r)
  <2>1. procs[r].pc = "finish_write"
    BY <1>9 DEF FinishWrite
  <2>2. CASE UNCHANGED jobs /\ AfterFinish(r) /\ jobs[procs[r].job].status \notin Finishable
    BY <1>3, <2>2 DEF Finishable
  <2>3. CASE jobs[procs[r].job].status \in Finishable
    <3>1. ~(UNCHANGED jobs)
      <4>1. /\ jobs[procs[r].job] \in JobRow
            /\ jobs' = [jobs EXCEPT ![procs[r].job].status = Final(r),
                                    ![procs[r].job].error = IF Final(r) = "failed"
                                                 THEN procs[r].outcome ELSE "none",
                                    ![procs[r].job].worker = None,
                                    ![procs[r].job].lease = "none"]
        BY <1>2, <1>9, <2>3 DEF FinishWrite, TypeOK
      <4>2. jobs'[procs[r].job].status = Final(r)
        BY <1>2, <4>1 DEF TypeOK, JobRow
      <4>3. QED
        BY <1>2, <2>3, <4>2 DEF Finishable
    <3>2. QED
      BY <1>7, <1>9, <2>1, <3>1, FinishWrites
  <2>4. QED
    BY <1>9, <2>2, <2>3 DEF FinishWrite
<1>10. CASE FinishEvent(r)
  BY <1>3, <1>10 DEF FinishEvent
<1>11. QED
  BY <1>8, <1>9, <1>10

\* The retry policy and mark_dead, except the decision to requeue.
LEMMA PolicyCalm ==
  ASSUME TypeOK, TypeOK', Finitely, NEW r \in Runners,
         \/ PolicyRead(r) /\ ~Goto(r, "requeue")
         \/ DeadRead(r) \/ DeadWrite(r) \/ DeadEvent(r)
  PROVE  \A j \in Jobs : Calm(j)
<1>0. r \in Procs /\ ProcsOK /\ RowsOK
  BY DEF Procs, TypeOK, ProcsOK, RowsOK
<1>1. /\ procs[r].pc \in {"policy", "dead", "dead_write", "dead_event"}
      /\ UNCHANGED <<crashed, faults>>
  BY DEF PolicyRead, DeadRead, DeadWrite, DeadEvent
<1>2. /\ Moved(r)
      /\ \/ Left(r)
         \/ SameRun(r) /\ procs'[r].pc \in {"dead", "dead_write", "dead_event"}
  <2>1. CASE Leave(r)
    BY <1>0, <2>1, LeaveMoves
  <2>2. CASE procs[r].pc = "policy" /\ Goto(r, "dead")
    BY <1>0, <2>2, GotoMoves DEF Steps
  <2>3. CASE procs[r].pc = "dead" /\ Checked(r, "dead_write")
    BY <1>0, <2>3, CheckedMoves
  <2>4. CASE procs[r].pc = "dead_write" /\ Goto(r, "dead_event")
    <3>1. procs[r].seen # "none"
      BY <1>0, <2>4 DEF ProcsOK, WellFormed
    <3>2. QED
      BY <1>0, <2>4, <3>1, GotoMoves DEF Steps
  <2>5. QED
    BY <2>1, <2>2, <2>3, <2>4 DEF PolicyRead, DeadRead, DeadWrite, DeadEvent
<1>3. \A j \in Jobs : GoesOn(r, j)
  <2>1. CASE Left(r)
    BY <1>0, <1>1, <2>1, LeftGoesOn DEF Working
  <2>2. CASE SameRun(r) /\ procs'[r].pc \in {"dead", "dead_write", "dead_event"}
    BY <1>1, <2>2 DEF GoesOn, SameRun, Working, Engaged, Requeuing
  <2>3. QED
    BY <1>2, <2>1, <2>2
<1>4. \A j \in Jobs : RowCalm(j)
  <2>1. CASE UNCHANGED jobs
    BY <2>1, UntouchedCalm
  <2>2. CASE Written(procs[r].job) /\ Killed(r, procs[r].job)
    BY <2>2, UntouchedCalm DEF RowCalm, Awaiting, Written, Killed, Restated
  <2>3. QED
    BY <2>1, <2>2, DeadWrites DEF PolicyRead, DeadRead, DeadEvent
<1>5. QED
  BY <1>1, <1>2, <1>3, <1>4, RunnerCalm

(***************************************************************************)
(* Steps that add to the count                                             *)
(***************************************************************************)

LEMMA ClaimAccounted ==
  ASSUME TypeOK, TypeOK', Finitely, NEW r \in Runners, Claim(r)
  PROVE  \A j \in Jobs : Accounted(j)
<1>0. r \in Procs /\ r \notin Clis /\ procs[r].pc = "idle" /\ UNCHANGED <<crashed, faults>>
  BY QueueAssumption DEF Claim, Procs
<1>1. PICK k \in Jobs :
        /\ Written(k) /\ Claimed(k)
        /\ procs' = [procs EXCEPT ![r] = [Idle EXCEPT !.pc = "queued",
                                                      !.job = k,
                                                      !.attempt = jobs[k].attempts + 1]]
  BY ClaimWrites
<1>2. /\ procs'[r].pc = "queued" /\ procs'[r].job = k
      /\ procs'[r].attempt = jobs[k].attempts + 1
      /\ \A q \in Procs \ {r} : procs'[q] = procs[q]
  BY <1>0, <1>1 DEF TypeOK, Idle
<1>3. Moved(r)
  BY <1>0, <1>2 DEF Moved, TypeOK
<1>4. \A j \in Jobs : Disturbances <= Disturbances'
  BY <1>0, <1>3, CostKept
<1>5. ASSUME NEW j \in Jobs, j # k
      PROVE  Calm(j)
  <2>1. GoesOn(r, j)
    BY <1>0, <1>2, <1>5 DEF GoesOn, Working
  <2>2. RowCalm(j)
    BY <1>1, <1>5, UntouchedCalm DEF Written
  <2>3. QED
    BY <1>0, <1>3, <1>4, <2>1, <2>2, StepCalm
<1>6. Taken(r, k)
  <2>1. Loose(k)
    BY <1>1 DEF Claimed, Loose, Awaiting
  <2>2. Owned(k)'
    BY <1>1, <1>2 DEF Owned, Claimed, Working
  <2>3. ~Loose(k)'
    BY <1>1, <2>2 DEF Claimed, Loose, Awaiting
  <2>4. LiveOn(k)' \subseteq LiveOn(k) \cup {r}
    BY <1>2 DEF LiveOn
  <2>5. Requeuers(k)' \subseteq Requeuers(k)
    BY <1>2 DEF Requeuers, Requeuing
  <2>6. QED
    BY <1>1, <1>4, <2>1, <2>3, <2>4, <2>5 DEF Taken, Claimed
<1>7. QED
  BY <1>0, <1>5, <1>6 DEF Accounted

LEMMA StartFailsAccounted ==
  ASSUME TypeOK, TypeOK', Finitely, NEW r \in Runners, StartFails(r)
  PROVE  \A j \in Jobs : Accounted(j)
<1>0. r \in Procs /\ r \notin Clis /\ ProcsOK
  BY QueueAssumption DEF Procs, TypeOK, ProcsOK
<1>1. Moved(r) /\ Left(r)
  BY <1>0, LeaveMoves DEF StartFails
<1>2. \A j \in Jobs : LiveOn(j)' \subseteq LiveOn(j) /\ Requeuers(j)' \subseteq Requeuers(j)
  BY <1>1, QueueAssumption DEF LiveOn, Requeuers, Moved, Left
<1>3. /\ faults["open"] \in Nat /\ faults["late"] \in Nat
      /\ faults'["open"] = faults["open"] + 1 /\ faults'["late"] = faults["late"]
  BY DEF StartFails, Fault, TypeOK, FaultKinds
<1>4. Commanded \subseteq Commanded' /\ crashed \subseteq crashed'
  BY <1>0, <1>1 DEF Commanded, Moved, Procs, StartFails
<1>5. \A j \in Jobs : Disturbances + 1 <= Disturbances'
  BY <1>3, <1>4, CostGrows
<1>6. QED
  BY <1>2, <1>5 DEF Accounted, Abandoned, StartFails

LEMMA RenewAccounted ==
  ASSUME TypeOK, TypeOK', Finitely, NEW r \in Runners, Renew(r)
  PROVE  \A j \in Jobs : Accounted(j)
<1>1. /\ procs[r].job \in Jobs
      /\ jobs[procs[r].job].lease = "expired"
      /\ jobs' = [jobs EXCEPT ![procs[r].job].lease = "held"]
      /\ UNCHANGED <<procs, crashed, faults>>
  BY DEF Renew, TypeOK, WellFormed, Procs
<1>2. Written(procs[r].job) /\ Ticked(procs[r].job)
  BY <1>1, LeaseWrites
<1>3. \A j \in Jobs : RowCalm(j)
  <2>1. jobs'[procs[r].job].lease = "held"
    BY <1>1 DEF TypeOK, JobRow
  <2>2. RowCalm(procs[r].job)
    BY <1>2, <2>1 DEF Ticked, RowCalm
  <2>3. QED
    BY <1>2, <2>2, UntouchedCalm DEF Written
<1>4. \A j \in Jobs : Disturbances <= Disturbances'
  BY <1>1, CostSame
<1>5. QED
  BY <1>1, <1>3, <1>4, ClockCalm DEF Accounted

LEMMA PolicyAccounted ==
  ASSUME TypeOK, TypeOK', Finitely, NEW r \in Runners, PolicyRead(r)
  PROVE  \A j \in Jobs : Accounted(j)
<1>0. r \in Procs /\ r \notin Clis /\ ProcsOK
  BY QueueAssumption DEF Procs, TypeOK, ProcsOK
<1>1. procs[r].pc = "policy" /\ UNCHANGED <<jobs, crashed, faults>>
  BY DEF PolicyRead
<1>2. CASE ~Goto(r, "requeue")
  BY <1>2, PolicyCalm DEF Accounted
<1>3. CASE Goto(r, "requeue")
  <2>1. Moved(r) /\ SameRun(r) /\ procs'[r].pc = "requeue"
    BY <1>0, <1>1, <1>3, GotoMoves DEF Steps
  <2>2. procs[r].job \in Jobs /\ jobs[procs[r].job].attempts < MaxRetries
    <3>1. procs[r].job \in Jobs
      BY <1>0, <1>1 DEF ProcsOK, WellFormed
    <3>2. ~Goto(r, "dead") /\ ~Leave(r)
      BY <1>0, <2>1, LeaveMoves DEF Goto, Left, ProcsOK, Proc
    <3>3. ~Exhausted(jobs[procs[r].job])
      BY <3>2 DEF PolicyRead
    <3>4. jobs[procs[r].job].attempts \in Nat
      BY <3>1 DEF TypeOK, JobRow
    <3>5. QED
      BY <3>1, <3>3, <3>4, QueueAssumption DEF Exhausted
  <2>3. \A j \in Jobs : Disturbances <= Disturbances'
    BY <1>0, <1>1, <2>1, CostKept
  <2>4. \A j \in Jobs : Loose(j)' => Loose(j)
    <3>1. \A j \in Jobs : RowCalm(j)
      BY <1>1, UntouchedCalm
    <3>2. \A j \in Jobs : Owned(j) => Owned(j)'
      BY <1>1, <2>1 DEF Owned, Moved, Procs, Working
    <3>3. QED
      BY <3>1, <3>2, StaysTight
  <2>5. ASSUME NEW j \in Jobs, j # procs[r].job
        PROVE  Calm(j)
    <3>1. LiveOn(j)' \subseteq LiveOn(j) /\ Requeuers(j)' \subseteq Requeuers(j)
      BY <2>1, <2>5 DEF LiveOn, Requeuers, Moved, SameRun
    <3>2. QED
      BY <1>1, <2>3, <2>4, <3>1 DEF Calm
  <2>6. ASSUME NEW j \in Jobs, j = procs[r].job
        PROVE  Granted(r, j)
    <3>1. r \in LiveOn(j)
      BY <1>0, <1>1, <2>6 DEF LiveOn, Engaged, Requeuing
    <3>2. LiveOn(j)' \subseteq LiveOn(j)
      BY <2>1, <3>1 DEF LiveOn, Moved
    <3>3. Requeuers(j)' \subseteq Requeuers(j) \cup {r}
      BY <2>1 DEF Requeuers, Moved
    <3>4. Requeuers(j)' \subseteq LiveOn(j)
      BY <2>1, <3>1 DEF Requeuers, LiveOn, Moved, Requeuing, Engaged
    <3>5. QED
      BY <1>1, <2>2, <2>3, <2>4, <2>6, <3>1, <3>2, <3>3, <3>4 DEF Granted
  <2>7. QED
    BY <1>0, <2>5, <2>6 DEF Accounted
<1>4. QED
  BY <1>2, <1>3

LEMMA RunnerAccounted ==
  ASSUME TypeOK, TypeOK', Finitely, NEW r \in Runners, RunnerStep(r)
  PROVE  \A j \in Jobs : Accounted(j)
<1>1. CASE \/ Start(r)
           \/ \E outcome \in Outcomes \ {"internal"} : ExecReturn(r, outcome)
           \/ ExecRaise(r)
           \/ RecordAttempt(r)
           \/ ResultLost(r)
  BY <1>1, WorkCalm DEF Accounted
<1>2. CASE FinishRead(r) \/ FinishWrite(r) \/ FinishEvent(r)
  BY <1>2, FinishCalm DEF Accounted
<1>3. CASE DeadRead(r) \/ DeadWrite(r) \/ DeadEvent(r)
  BY <1>3, PolicyCalm DEF Accounted
<1>4. QED
  BY <1>1, <1>2, <1>3, ClaimAccounted, StartFailsAccounted, RenewAccounted, PolicyAccounted
     DEF RunnerStep

LEMMA RequeueAccounted ==
  ASSUME TypeOK, TypeOK', Finitely, NEW p \in Procs, RequeueStep(p)
  PROVE  \A j \in Jobs : Accounted(j)
<1>0. ProcsOK /\ RowsOK
  BY DEF TypeOK, ProcsOK, RowsOK
<1>1. /\ procs[p].pc \in {"requeue", "requeue_write", "requeue_event"}
      /\ UNCHANGED <<crashed, faults>>
  BY DEF RequeueStep, RequeueRead, RequeueWrite, RequeueEvent
<1>2. CASE UNCHANGED jobs /\ Leave(p)
  <2>1. Moved(p) /\ Left(p)
    BY <1>0, <1>2, LeaveMoves
  <2>2. p \in Clis => procs'[p].pc # "idle"
    BY <1>2, QueueAssumption DEF Leave, Idle, TypeOK
  <2>3. \A j \in Jobs : Disturbances <= Disturbances'
    BY <1>1, <2>1, <2>2, CostKept
  <2>4. \A j \in Jobs : GoesOn(p, j)
    BY <1>1, <2>1, LeftGoesOn DEF Working
  <2>5. QED
    BY <1>2, <2>1, <2>3, <2>4, StepCalm, UntouchedCalm DEF Accounted
<1>3. CASE UNCHANGED jobs /\ procs[p].pc = "requeue" /\ Checked(p, "requeue_write")
  <2>1. Moved(p) /\ SameRun(p) /\ procs'[p].pc = "requeue_write"
    BY <1>0, <1>3, CheckedMoves
  <2>2. \A j \in Jobs : Disturbances <= Disturbances'
    BY <1>1, <2>1, CostKept
  <2>3. \A j \in Jobs : GoesOn(p, j)
    BY <1>3, <2>1 DEF GoesOn, SameRun, Working, Engaged, Requeuing
  <2>4. QED
    BY <1>3, <2>1, <2>2, <2>3, StepCalm, UntouchedCalm DEF Accounted
<1>4. CASE /\ procs[p].pc = "requeue_write" /\ Goto(p, "requeue_event")
           /\ Written(procs[p].job) /\ Requeued(procs[p].job)
  <2>1. procs[p].seen # "none" /\ procs[p].job \in Jobs
    BY <1>0, <1>4 DEF ProcsOK, WellFormed
  <2>2. Moved(p) /\ SameRun(p) /\ procs'[p].pc = "requeue_event"
    BY <1>0, <1>4, <2>1, GotoMoves DEF Steps
  <2>3. \A j \in Jobs : Disturbances <= Disturbances'
    BY <1>1, <2>2, CostKept
  <2>4. ASSUME NEW j \in Jobs, j # procs[p].job
        PROVE  Calm(j)
    <3>1. GoesOn(p, j)
      BY <2>2, <2>4, Elsewhere DEF SameRun
    <3>2. RowCalm(j)
      BY <1>4, <2>4, UntouchedCalm DEF Written
    <3>3. QED
      BY <2>2, <2>3, <2>4, <3>1, <3>2, StepCalm
  <2>5. ASSUME NEW j \in Jobs, j = procs[p].job
        PROVE  Returned(p, j)
    <3>1. p \in LiveOn(j) /\ p \in Requeuers(j)
      BY <1>4, <2>5 DEF LiveOn, Requeuers, Engaged, Requeuing
    <3>2. /\ LiveOn(j)' \subseteq LiveOn(j) \ {p}
          /\ Requeuers(j)' \subseteq Requeuers(j) \ {p}
      BY <2>2 DEF LiveOn, Requeuers, Moved, Engaged, Working, Requeuing
    <3>3. QED
      BY <1>4, <2>3, <2>5, <3>1, <3>2 DEF Returned, Requeued
  <2>6. QED
    BY <2>4, <2>5 DEF Accounted
<1>5. CASE RequeueRead(p)
  BY <1>2, <1>3, <1>5 DEF RequeueRead
<1>6. CASE RequeueWrite(p)
  BY <1>2, <1>4, <1>6, RequeueWrites DEF RequeueWrite
<1>7. CASE RequeueEvent(p)
  BY <1>2, <1>7 DEF RequeueEvent
<1>8. QED
  BY <1>5, <1>6, <1>7 DEF RequeueStep

LEMMA CliAccounted ==
  ASSUME TypeOK, TypeOK', Finitely, NEW c \in Clis, CliStep(c)
  PROVE  \A j \in Jobs : Accounted(j)
<1>0. c \in Procs /\ c \notin Runners /\ ProcsOK /\ RowsOK
  BY QueueAssumption DEF Procs, TypeOK, ProcsOK, RowsOK
<1>1. UNCHANGED <<crashed, faults>>
  BY DEF CliStep, CancelRead, RetryRead, Approve, Reject, CancelWrite
<1>2. CASE Leave(c) /\ \A j \in Jobs : RowCalm(j)
  <2>1. Moved(c) /\ Left(c)
    BY <1>0, <1>2, LeaveMoves
  <2>2. procs'[c].pc # "idle"
    BY <1>0, <1>2 DEF Leave, Idle, ProcsOK
  <2>3. \A j \in Jobs : Disturbances <= Disturbances'
    BY <1>0, <1>1, <2>1, <2>2, CostKept
  <2>4. \A j \in Jobs : GoesOn(c, j)
    BY <1>0, <2>1, LeftGoesOn
  <2>5. QED
    BY <1>0, <1>2, <2>1, <2>3, <2>4, StepCalm DEF Accounted
<1>3. ASSUME NEW k \in Jobs, CancelRead(c, k), ~Leave(c)
      PROVE  \A j \in Jobs : Accounted(j)
  <2>1. /\ procs' = [procs EXCEPT ![c].pc = "cancel_write", ![c].job = k,
                                  ![c].seen = jobs[k].status]
        /\ UNCHANGED jobs
    BY <1>3 DEF CancelRead
  <2>2. /\ procs'[c].pc = "cancel_write"
        /\ \A q \in Procs \ {c} : procs'[q] = procs[q]
    BY <1>0, <2>1 DEF ProcsOK, Proc
  <2>3. Moved(c)
    BY <1>0, <2>2 DEF Moved, TypeOK
  <2>4. \A j \in Jobs : Disturbances <= Disturbances'
    BY <1>0, <1>1, <2>2, <2>3, CostKept
  <2>5. \A j \in Jobs : GoesOn(c, j)
    BY <1>0, <2>2 DEF GoesOn, Engaged, Working, Requeuing
  <2>6. QED
    BY <1>0, <2>1, <2>3, <2>4, <2>5, StepCalm, UntouchedCalm DEF Accounted
<1>4. ASSUME NEW k \in Jobs, RetryRead(c, k), ~Leave(c)
      PROVE  \A j \in Jobs : Accounted(j)
  <2>1. /\ procs[c].pc = "idle"
        /\ procs' = [procs EXCEPT ![c].pc = "requeue", ![c].job = k]
        /\ UNCHANGED jobs
    BY <1>4 DEF RetryRead, Fresh
  <2>2. /\ procs'[c].pc = "requeue" /\ procs'[c].job = k
        /\ \A q \in Procs \ {c} : procs'[q] = procs[q]
    BY <1>0, <2>1 DEF ProcsOK, Proc
  <2>3. \A j \in Jobs : Disturbances + 1 <= Disturbances'
    <3>1. c \in Commanded' /\ Commanded \subseteq Commanded' \ {c}
      BY <1>0, <2>1, <2>2 DEF Commanded, Procs
    <3>2. faults["open"] \in Nat /\ faults["late"] \in Nat
      BY DEF TypeOK, FaultKinds
    <3>3. QED
      BY <1>1, <3>1, <3>2, CostGrows
  <2>4. \A j \in Jobs : Loose(j)' => Loose(j)
    <3>1. \A j \in Jobs : RowCalm(j)
      BY <2>1, UntouchedCalm
    <3>2. \A j \in Jobs : Owned(j) => Owned(j)'
      BY <1>0, <2>1, <2>2 DEF Owned, Procs
    <3>3. QED
      BY <3>1, <3>2, StaysTight
  <2>5. \A j \in Jobs : /\ LiveOn(j)' \subseteq LiveOn(j) \cup {c}
                        /\ Requeuers(j)' \subseteq Requeuers(j) \cup {c}
    BY <2>2 DEF LiveOn, Requeuers
  <2>6. QED
    BY <1>0, <2>1, <2>3, <2>4, <2>5 DEF Accounted, Asked
<1>5. ASSUME NEW k \in Jobs, Approve(c, k) \/ Reject(c, k)
      PROVE  \A j \in Jobs : RowCalm(j)
  <2>1. CASE UNCHANGED jobs
    BY <2>1, UntouchedCalm
  <2>2. ASSUME NEW s \in {"approved", "rejected"}, jobs[k].status = "waiting_approval",
               jobs' = [jobs EXCEPT ![k].status = s]
        PROVE  \A j \in Jobs : RowCalm(j)
    <3>1. Written(k) /\ jobs'[k].status = s /\ Restated(k)
      BY <2>2, StatusWrites DEF Statuses
    <3>2. RowCalm(k)
      BY <2>2, <3>1 DEF RowCalm, Restated, Awaiting
    <3>3. QED
      BY <3>1, <3>2, UntouchedCalm DEF Written
  <2>3. QED
    BY <1>5, <2>1, <2>2 DEF Approve, Reject
<1>6. ASSUME CancelWrite(c)
      PROVE  \A j \in Jobs : RowCalm(j)
  BY <1>6, CancelWrites, UntouchedCalm DEF RowCalm, Written, Flagged, Cancelled, Restated, Awaiting
<1>7. CASE Leave(c) /\ \E j \in Jobs : CancelRead(c, j) \/ RetryRead(c, j)
  BY <1>2, <1>7, UntouchedCalm DEF CancelRead, RetryRead
<1>8. CASE CancelWrite(c) \/ \E j \in Jobs : Approve(c, j) \/ Reject(c, j)
  BY <1>2, <1>5, <1>6, <1>8 DEF CancelWrite, Approve, Reject
<1>9. QED
  BY <1>3, <1>4, <1>7, <1>8 DEF CliStep

\* A lease runs out on a row that nobody tends: its owner, if it had one, has
\* been disturbed before.
LEMMA TimeAccounted ==
  ASSUME TypeOK, TypeOK', OwnersKnown, Finitely, NEW k \in Jobs, Time(k)
  PROVE  \A j \in Jobs : Accounted(j)
<1>1. UNCHANGED <<procs, crashed, faults>>
  BY DEF Time, LeaseRunsOut, Expire, DelayOver
<1>2. \A j \in Jobs : Disturbances <= Disturbances'
  BY <1>1, CostSame
<1>3. CASE DelayOver(k)
  <2>1. Written(k) /\ jobs'[k].status = jobs[k].status /\ jobs'[k].attempts = jobs[k].attempts
        /\ jobs'[k].lease = jobs[k].lease
    <3>1. Written(k)
      BY <1>3, DelayWrites DEF DelayOver
    <3>2. jobs' = [jobs EXCEPT ![k] = [jobs[k] EXCEPT !.deferred = FALSE]] /\ jobs[k] \in JobRow
      BY <1>3 DEF DelayOver, TypeOK
    <3>3. jobs'[k] = [jobs[k] EXCEPT !.deferred = FALSE]
      BY <3>2 DEF TypeOK
    <3>4. QED
      BY <3>1, <3>2, <3>3 DEF JobRow
  <2>2. \A j \in Jobs : RowCalm(j)
    BY <2>1, UntouchedCalm DEF RowCalm, Written
  <2>3. QED
    BY <1>1, <1>2, <2>2, ClockCalm DEF Accounted
<1>4. CASE LeaseRunsOut(k)
  <2>1. Written(k) /\ Ticked(k)
    BY <1>4, LeaseWrites DEF LeaseRunsOut, Expire, MayExpire
  <2>2. jobs[k].status = "running" => ~Owned(k)
    BY <1>4 DEF LeaseRunsOut, Tends, Owned, OwnersKnown
  <2>3. Loose(k)' => Loose(k)
    BY <2>1, <2>2 DEF Loose, Ticked
  <2>4. \A j \in Jobs : LiveOn(j)' = LiveOn(j) /\ Requeuers(j)' = Requeuers(j)
    BY <1>1 DEF LiveOn, Requeuers
  <2>5. Calm(k)
    BY <1>2, <2>1, <2>3, <2>4 DEF Calm, Ticked
  <2>6. \A j \in Jobs \ {k} : Calm(j)
    BY <1>1, <1>2, <2>1, UntouchedCalm, ClockCalm DEF Written
  <2>7. QED
    BY <2>5, <2>6 DEF Accounted
<1>5. QED
  BY <1>3, <1>4 DEF Time

LEMMA LateAccounted ==
  ASSUME TypeOK, TypeOK', Finitely, NEW k \in Jobs, LeaseLate(k)
  PROVE  \A j \in Jobs : Accounted(j)
<1>1. /\ UNCHANGED <<procs, crashed>>
      /\ faults["open"] \in Nat /\ faults["late"] \in Nat
      /\ faults'["late"] = faults["late"] + 1 /\ faults'["open"] = faults["open"]
  BY DEF LeaseLate, Expire, Fault, TypeOK, FaultKinds
<1>2. Commanded \subseteq Commanded'
  BY <1>1 DEF Commanded
<1>3. \A j \in Jobs : Disturbances + 1 <= Disturbances'
  BY <1>1, <1>2, CostGrows
<1>4. \A j \in Jobs : LiveOn(j)' = LiveOn(j) /\ Requeuers(j)' = Requeuers(j)
  BY <1>1 DEF LiveOn, Requeuers
<1>5. \A j \in Jobs : jobs'[j].attempts = jobs[j].attempts
  BY DEF LeaseLate, Expire, TypeOK, JobRow
<1>6. QED
  BY <1>3, <1>4, <1>5 DEF Accounted, Abandoned

LEMMA CrashAccounted ==
  ASSUME TypeOK, TypeOK', Finitely, NEW w \in Workers, Crash(w)
  PROVE  \A j \in Jobs : Accounted(j)
<1>1. /\ UNCHANGED <<jobs, faults>>
      /\ w \notin crashed /\ crashed' = crashed \cup {w}
      /\ \A p \in Procs : procs'[p] = Idle \/ procs'[p] = procs[p]
      /\ \A c \in Clis : procs'[c] = procs[c]
  BY QueueAssumption DEF Crash, Procs
<1>2. Idle.job \notin Jobs
  BY QueueAssumption DEF Idle
<1>3. \A j \in Jobs : LiveOn(j)' \subseteq LiveOn(j) /\ Requeuers(j)' \subseteq Requeuers(j)
  BY <1>1, <1>2 DEF LiveOn, Requeuers
<1>4. Commanded \subseteq Commanded' /\ w \in crashed' /\ crashed \subseteq crashed' \ {w}
  BY <1>1 DEF Commanded
<1>5. faults["open"] \in Nat /\ faults["late"] \in Nat
  BY DEF TypeOK, FaultKinds
<1>6. \A j \in Jobs : Disturbances + 1 <= Disturbances'
  BY <1>1, <1>4, <1>5, CostGrows
<1>7. QED
  BY <1>1, <1>3, <1>6 DEF Accounted, Abandoned

LEMMA StutterAccounted ==
  ASSUME TypeOK, TypeOK', Finitely, UNCHANGED vars
  PROVE  \A j \in Jobs : Accounted(j)
<1>1. UNCHANGED <<jobs, procs, crashed, faults>>
  BY DEF vars
<1>2. QED
  BY <1>1, CostSame, ClockCalm, UntouchedCalm DEF Accounted

LEMMA BalanceKept ==
  ASSUME TypeOK, TypeOK', OwnersKnown, Balance, Finitely, [Next]_vars
  PROVE  Balance'
<1>1. \A j \in Jobs : Accounted(j)
  BY RunnerAccounted, RequeueAccounted, CliAccounted, TimeAccounted, LateAccounted,
     CrashAccounted, StutterAccounted DEF Next
<1>2. QED
  BY <1>1, Sums DEF Balance

LEMMA BalanceInit ==
  ASSUME Finitely, Init
  PROVE  Balance
<1> SUFFICES ASSUME NEW j \in Jobs PROVE Balanced(j)
  BY DEF Balance
<1>1. \A p \in Procs : procs[p] = Idle
  BY DEF Init
<1>2. LiveOn(j) = {} /\ Requeuers(j) = {} /\ Commanded = {}
  BY <1>1 DEF LiveOn, Requeuers, Commanded, Engaged, Working, Requeuing, Idle, Procs
<1>3. /\ Cardinality(LiveOn(j)) = 0 /\ Cardinality(Requeuers(j)) = 0
      /\ Cardinality(Commanded) = 0 /\ Cardinality(crashed) = 0
  BY <1>2, FS_EmptySet DEF Init
<1>4. Disturbances = 0
  BY <1>3 DEF Disturbances, Commanded, Init, FaultKinds
<1>5. jobs[j].attempts = 0
  BY DEF Init, NewRow
<1>6. Token(j) \in 0..1 /\ Limit >= 1
  BY QueueAssumption DEF Token, Limit
<1>7. QED
  BY <1>3, <1>4, <1>5, <1>6, QueueAssumption DEF Balanced, Limit

\* The retry policy requeues only while max_retries allows a retry at all.
ThreadsGranted ==
  \A r \in Runners : procs[r].pc \in Requeuing => MaxRetries # 0

LEMMA ThreadsGrantedKept ==
  ASSUME TypeOK, ThreadsGranted, StepOK
  PROVE  ThreadsGranted'
<1> SUFFICES ASSUME NEW r \in Runners, procs'[r].pc \in Requeuing
             PROVE  MaxRetries # 0
  BY DEF ThreadsGranted
<1>1. r \in Procs /\ r \notin Clis
  BY QueueAssumption DEF Procs
<1>2. procs'[r] = procs[r] \/ Advanced(r)
  BY <1>1 DEF StepOK, ProcEffect, Left, Took, Requeuing
<1>3. QED
  BY <1>2 DEF ThreadsGranted, Advanced

LEMMA RequeueWithin ==
  ASSUME TypeOK, TypeOK', ThreadsGranted, Balance, Finitely
  PROVE  RetryLeft
<1> SUFFICES ASSUME NEW r \in Runners, procs[r].pc = "requeue_write"
             PROVE  jobs[procs[r].job].attempts < MaxRetries + Disturbances
  BY DEF RetryLeft
<1>1. PICK j \in Jobs : procs[r].job = j
  BY DEF TypeOK, WellFormed, Procs
<1>2. r \in Requeuers(j)
  BY <1>1 DEF Requeuers, Requeuing, Procs
<1>3. Cardinality(Requeuers(j)) # 0
  BY <1>2, Counted, FS_EmptySet
<1>4. MaxRetries # 0
  BY DEF ThreadsGranted, Requeuing
<1>5. jobs[j].attempts + Token(j) + Cardinality(Requeuers(j)) <= MaxRetries + Disturbances
  BY <1>4 DEF Balance, Balanced, Limit
<1>6. /\ jobs[j].attempts \in Nat /\ Token(j) \in 0..1 /\ Disturbances \in Nat
      /\ Cardinality(Requeuers(j)) \in Nat /\ MaxRetries \in Nat
  BY Numbers, QueueAssumption
<1>7. QED
  BY <1>1, <1>3, <1>5, <1>6

\* The count with what it rests on.
Counts == OwnersKnown /\ Balance /\ ThreadsGranted

LEMMA CountsHold ==
  ASSUME Finitely
  PROVE  /\ Init => Counts
         /\ IInv /\ Counts /\ [Next]_vars => Counts' /\ [RetryLeft]_vars
<1>1. ASSUME Init PROVE Counts
  <2>1. ThreadsGranted
    BY <1>1 DEF Init, ThreadsGranted, Requeuing, Idle, Procs
  <2>2. QED
    BY <1>1, <2>1, OwnersKnownInit, BalanceInit DEF Counts
<1>2. ASSUME IInv, Counts, [Next]_vars
      PROVE  Counts' /\ RetryLeft
  <2>1. TypeOK /\ LogsNotShared /\ StepOK /\ TypeOK'
    BY <1>2, NextOK DEF IInv, StepOK
  <2>2. QED
    BY <1>2, <2>1, OwnersKnownKept, BalanceKept, ThreadsGrantedKept, RequeueWithin DEF Counts
<1>3. QED
  BY <1>1, <1>2

\* The retry policy puts a job back only while its attempts are below max_retries,
\* give or take one for each command given, worker lost and claim abandoned or
\* overtaken, although others move the row on between its decision and its UPDATE.
THEOREM RetryTheorem ==
  ASSUME Finitely
  PROVE  Spec => RetriesLeft
BY Invariance, CountsHold, PTL DEF Spec, RetriesLeft

LEMMA ClaimsCounted ==
  ASSUME TypeOK, Finitely, Balance, NEW j \in Jobs
  PROVE  /\ jobs[j].attempts <= Limit + Disturbances
         /\ Cardinality(LiveOn(j)) <= 1 + Disturbances
<1>1. /\ LiveOn(j) \in SUBSET Procs /\ Requeuers(j) \in SUBSET Procs
      /\ Commanded \in SUBSET Procs /\ crashed \in SUBSET Workers
  BY DEF LiveOn, Requeuers, Commanded, Procs, TypeOK
<1>2. /\ Cardinality(LiveOn(j)) \in Nat /\ Cardinality(Requeuers(j)) \in Nat
      /\ Cardinality(Commanded) \in Nat /\ Cardinality(crashed) \in Nat
  BY <1>1, FS_Subset, FS_CardinalityType DEF Finitely
<1>3. faults["open"] \in Nat /\ faults["late"] \in Nat /\ jobs[j].attempts \in Nat
  BY DEF TypeOK, FaultKinds, JobRow
<1>4. Disturbances \in Nat /\ Limit \in Nat /\ Token(j) \in 0..1
  BY <1>2, <1>3, QueueAssumption DEF Disturbances, Commanded, Limit, Token
<1>5. QED
  BY <1>2, <1>3, <1>4 DEF Balance, Balanced

\* claim_job hands a job out at most max_retries times, or once if that is 0, and
\* at most one process at a time may finish its run or put it back; each command,
\* lost worker and claim abandoned or overtaken adds at most one to either.
THEOREM ClaimsTheorem ==
  ASSUME Finitely
  PROVE  Spec => [](\A j \in Jobs : /\ jobs[j].attempts <= Limit + Disturbances
                                    /\ Cardinality(LiveOn(j)) <= 1 + Disturbances)
<1>1. IInv /\ Counts => \A j \in Jobs : /\ jobs[j].attempts <= Limit + Disturbances
                                        /\ Cardinality(LiveOn(j)) <= 1 + Disturbances
  BY ClaimsCounted DEF IInv, Counts
<1>2. QED
  BY Invariance, CountsHold, <1>1, PTL DEF Spec
=============================================================================
