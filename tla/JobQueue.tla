------------------------------ MODULE JobQueue ------------------------------
(***************************************************************************)
(* The jobs table of herder and everybody who writes it: the threads that  *)
(* worker processes run claimed jobs on, and the `herder cancel', `retry', *)
(* `approve' and `reject' commands.  The connections are in autocommit     *)
(* mode (isolation_level=None), so one action is one SQL statement with    *)
(* the local computation that leads to it, and a method that reads, checks *)
(* and then updates takes several actions that others may interleave with. *)
(*                                                                         *)
(* A runner is one pool thread of a worker process working on one claimed  *)
(* row; a CLI process runs one command and exits.  A restarted worker has  *)
(* a new id (new_job_id), so it is another member of Workers.              *)
(*                                                                         *)
(* Abstracted: providers and routing, cost, paths and timestamps (a lease  *)
(* is held or expired, a retry delay is pending or over).  job_events is   *)
(* reduced to each job's newest row.                                       *)
(***************************************************************************)
EXTENDS Transitions, Naturals, FiniteSets

CONSTANTS
  Jobs,        \* ids of the rows already enqueued
  Workers,     \* worker processes
  Runners,     \* pool threads of all workers (bounds the threads per worker)
  WorkerOf,    \* the worker process a runner belongs to
  Clis,        \* command-line processes (bounds the commands given)
  Commands,    \* which commands they may be
  MaxRetries,  \* max_retries column
  Rank,        \* position of a job in ORDER BY priority DESC, created_at ASC
  Backoff,     \* TRUE iff retry_backoff_base_seconds > 0
  SelfCancels, \* TRUE iff the agents speak ACP and may stop unasked
  Mortal,      \* workers that may crash
  FaultBounds, \* the numbers of faults of each kind that may add up
  None         \* SQL NULL for ids

AllCommands == {"cancel", "retry", "approve", "reject"}

\* A lease that runs out on a live thread, a Store.open that raises in a pool
\* thread, a result.md that cannot be written.
FaultKinds == {"late", "open", "result"}

ASSUME QueueAssumption ==
  /\ WorkerOf \in [Runners -> Workers]
  /\ Rank \in [Jobs -> Nat]
  /\ Commands \subseteq AllCommands
  /\ Mortal \subseteq Workers
  /\ Runners \cap Clis = {}
  /\ None \notin Jobs \cup Workers
  /\ MaxRetries \in Nat
  /\ FaultBounds \subseteq [FaultKinds -> Nat]
  /\ {Backoff, SelfCancels} \subseteq BOOLEAN

VARIABLES
  jobs,       \* rows of the jobs table
  attempts,   \* rows of the attempts table, by job: <<attempt_no, outcome>>
  lastEvent,  \* newest job_events row of each job: <<from, to>>
  procs,      \* the runners and CLI processes
  crashed,    \* worker processes that are gone
  faults,     \* faults so far, by kind
  gated       \* history: jobs enqueued for approval and not approved yet

vars == <<jobs, attempts, lastEvent, procs, crashed, faults, gated>>

Procs == Runners \cup Clis

(***************************************************************************)
(* The statuses the WHERE clauses of the UPDATE statements name.           *)
(*                                                                         *)
(* Definitions commented with "Mutant" are plausible bugs in the one that  *)
(* follows them.  Nothing uses them: putting one in its place shows that a *)
(* property notices.                                                       *)
(***************************************************************************)

\* Mutant: a WHERE that forgot cancelling jobs.
FinishableRunning == {"running"}

\* finish_job and renew_lease.
Finishable == {"running", "cancelling"}

\* Mutant: requeue's WHERE by the id alone.
RequeueableAny == Statuses

\* requeue, and the check of cmd_retry.
Requeueable == {"failed", "dead", "cancelled"}

\* mark_dead.
Killable == {"failed"}

(***************************************************************************)
(* Types                                                                   *)
(***************************************************************************)

\* How one execution ended.  Failures are told apart by is_retryable; a
\* crash of execute_job is the non-retryable error "internal".
Failures == {"transient", "permanent", "internal"}
Outcomes == Failures \cup {"done", "cancelled"}

JobRow ==
  [status   : Statuses,
   worker   : Workers \cup {None},
   lease    : {"none", "held", "expired"},
   attempts : Nat,
   error    : Failures \cup {"none"},
   deferred : BOOLEAN]                     \* next_eligible_at in the future

Steps ==
  {"idle", "queued", "executing", "record", "finish", "finish_write",
   "finish_event", "policy", "requeue", "requeue_write", "requeue_event",
   "dead", "dead_write", "dead_event", "cancel_write", "exit"}

Proc ==
  [pc      : Steps,
   job     : Jobs \cup {None},
   attempt : Nat,                          \* attempts column of the claimed row
   outcome : Outcomes \cup {"none"},
   seen    : Statuses \cup {"none"}]       \* status read before the UPDATE

Idle == [pc |-> "idle", job |-> None, attempt |-> 0, outcome |-> "none", seen |-> "none"]

\* Which of a process's local variables are set depends on where it is.
WellFormed(q) ==
  /\ q.pc \notin {"idle", "exit"} => q.job \in Jobs
  /\ q.pc \in {"record", "finish", "finish_write", "finish_event"} => q.outcome # "none"
  /\ q.pc \in {"finish_write", "finish_event", "requeue_write", "requeue_event",
               "dead_write", "dead_event"} => q.seen # "none"
  /\ q.pc = "cancel_write" =>
       q.seen \in {"pending", "waiting_approval", "approved", "running"}

TypeOK ==
  /\ jobs \in [Jobs -> JobRow]
  /\ attempts \in [Jobs -> SUBSET (Nat \X Outcomes)]
  /\ lastEvent \in [Jobs -> {<<>>} \cup (Statuses \X Statuses)]
  /\ procs \in [Procs -> Proc]
  /\ \A p \in Procs : WellFormed(procs[p])
  /\ crashed \in SUBSET Workers
  /\ faults \in [FaultKinds -> Nat]
  /\ gated \in SUBSET Jobs

(***************************************************************************)
(* Process steps                                                           *)
(***************************************************************************)

Goto(p, step) == procs' = [procs EXCEPT ![p].pc = step]

\* A runner's thread returns to the pool; a command exits.
Leave(p) ==
  procs' = [procs EXCEPT ![p] = IF p \in Runners THEN Idle ELSE [Idle EXCEPT !.pc = "exit"]]

\* Mutant: what was read is forgotten.
CheckedForgets(p, step) == Goto(p, step)

\* The status was read and the transition checked; the UPDATE comes next.
Checked(p, step) ==
  procs' = [procs EXCEPT ![p].pc = step, ![p].seen = jobs[procs[p].job].status]

\* Uncaught in execute_job: _process_claimed's crash handler takes over.
CrashPath(r) == procs' = [procs EXCEPT ![r].pc = "record", ![r].outcome = "internal"]

\* Mutant: the policy passes over the failures it may retry.
AfterFinishPermanentOnly(r) ==
  IF procs[r].outcome = "permanent" THEN Goto(r, "policy") ELSE Leave(r)

\* _process_claimed after execute_job: the retry policy looks at "failed" only,
\* and the crash handler ends with its finish_job.
AfterFinish(r) ==
  IF procs[r].outcome \in {"transient", "permanent"} THEN Goto(r, "policy") ELSE Leave(r)

\* The status finish_job is called with.
Final(r) == IF procs[r].outcome \in Failures THEN "failed" ELSE procs[r].outcome

\* One more fault of that kind happens.
Fault(kind) ==
  /\ faults' = [faults EXCEPT ![kind] = @ + 1]
  /\ faults' \in FaultBounds

\* The runner's thread is alive and works for the row's worker_id.
Tends(r, j) ==
  /\ procs[r].job = j
  /\ jobs[j].worker = WorkerOf[r]

(***************************************************************************)
(* Claiming and executing                                                  *)
(***************************************************************************)

\* Mutant: waiting_approval is claimed as well.
ClaimableUnapproved(j) ==
  \/ jobs[j].status \in {"pending", "approved", "waiting_approval"} /\ ~jobs[j].deferred
  \/ jobs[j].status = "running" /\ jobs[j].lease = "expired"

\* Mutant: a running row is reclaimed while its lease is held.
ClaimableLeased(j) ==
  \/ jobs[j].status \in {"pending", "approved"} /\ ~jobs[j].deferred
  \/ jobs[j].status = "running"

\* Mutant: a running row is never reclaimed.
ClaimableNew(j) == jobs[j].status \in {"pending", "approved"} /\ ~jobs[j].deferred

\* Mutant: so is a cancelling one, as one might wish after a crash.
ClaimableCancelling(j) ==
  \/ jobs[j].status \in {"pending", "approved"} /\ ~jobs[j].deferred
  \/ jobs[j].status \in {"running", "cancelling"} /\ jobs[j].lease = "expired"

Claimable(j) ==
  \/ jobs[j].status \in {"pending", "approved"} /\ ~jobs[j].deferred
  \/ jobs[j].status = "running" /\ jobs[j].lease = "expired"

First(j) == \A k \in Jobs : Claimable(k) => Rank[j] <= Rank[k]

\* Mutant: attempts is not counted.
AttemptUncounted(j) == jobs[j].attempts

\* attempts=attempts+1 ... RETURNING *.
NextAttempt(j) == jobs[j].attempts + 1

\* Store.claim_job by the worker's main thread, which hands the row to a
\* pool thread.
Claim(r) ==
  /\ procs[r].pc = "idle"
  /\ WorkerOf[r] \notin crashed
  /\ \E j \in Jobs :
       /\ Claimable(j)
       /\ First(j)
       /\ jobs' = [jobs EXCEPT ![j].status = "running",
                               ![j].worker = WorkerOf[r],
                               ![j].lease = "held",
                               ![j].attempts = NextAttempt(j)]
       /\ procs' = [procs EXCEPT ![r] = [Idle EXCEPT !.pc = "queued",
                                                     !.job = j,
                                                     !.attempt = NextAttempt(j)]]
  /\ UNCHANGED <<attempts, lastEvent, crashed, faults, gated>>

\* The thread gets its group's permit and opens its own Store.
Start(r) ==
  /\ procs[r].pc = "queued"
  /\ Goto(r, "executing")
  /\ UNCHANGED <<jobs, attempts, lastEvent, crashed, faults, gated>>

\* Store.open raises outside _process_claimed: the future swallows it.
StartFails(r) ==
  /\ procs[r].pc = "queued"
  /\ Fault("open")
  /\ Leave(r)
  /\ UNCHANGED <<jobs, attempts, lastEvent, crashed, gated>>

\* Heartbeat while the provider runs: renew_lease.
Renew(r) ==
  /\ procs[r].pc = "executing"
  /\ LET j == procs[r].job IN
       /\ Tends(r, j)
       /\ jobs[j].status \in Finishable
       /\ jobs[j].lease = "expired"
       /\ jobs' = [jobs EXCEPT ![j].lease = "held"]
  /\ UNCHANGED <<attempts, lastEvent, procs, crashed, faults, gated>>

\* The provider returns.  A polled one reports "cancelled" only after it saw the
\* status "cancelling" (ProcRunner); an ACP agent may do so unasked (AcpRun).
ExecReturn(r, outcome) ==
  /\ procs[r].pc = "executing"
  /\ outcome = "cancelled" => SelfCancels \/ jobs[procs[r].job].status = "cancelling"
  /\ procs' = [procs EXCEPT ![r].pc = "record", ![r].outcome = outcome]
  /\ UNCHANGED <<jobs, attempts, lastEvent, crashed, faults, gated>>

\* execute_job raises: prompt unreadable, no sandbox, no worktree...
ExecRaise(r) ==
  /\ procs[r].pc = "executing"
  /\ CrashPath(r)
  /\ UNCHANGED <<jobs, attempts, lastEvent, crashed, faults, gated>>

\* Mutant: an attempt that ended well is not recorded.
RecordFailure(r) ==
  /\ procs[r].pc = "record"
  /\ attempts' = IF procs[r].outcome = "done" THEN attempts
                 ELSE [attempts EXCEPT ![procs[r].job] =
                         @ \cup {<<procs[r].attempt, procs[r].outcome>>}]
  /\ Goto(r, "finish")
  /\ UNCHANGED <<jobs, lastEvent, crashed, faults, gated>>

\* record_attempt, from execute_job or from the crash handler.
RecordAttempt(r) ==
  /\ procs[r].pc = "record"
  /\ attempts' = [attempts EXCEPT ![procs[r].job] =
                    @ \cup {<<procs[r].attempt, procs[r].outcome>>}]
  /\ Goto(r, "finish")
  /\ UNCHANGED <<jobs, lastEvent, crashed, faults, gated>>

\* write_result_md raises after the attempt was recorded.
ResultLost(r) ==
  /\ procs[r].pc = "finish"
  /\ procs[r].outcome = "done"
  /\ Fault("result")
  /\ CrashPath(r)
  /\ UNCHANGED <<jobs, attempts, lastEvent, crashed, gated>>

(***************************************************************************)
(* Store.finish_job: read and check, UPDATE, audit row                     *)
(***************************************************************************)

FinishRead(r) ==
  /\ procs[r].pc = "finish"
  /\ LET cur == jobs[procs[r].job].status IN
       \/ cur = Final(r) /\ AfterFinish(r)
       \/ cur # Final(r) /\ IsLegal(cur, Final(r)) /\ Checked(r, "finish_write")
       \/ /\ cur # Final(r) /\ ~IsLegal(cur, Final(r))
          /\ IF procs[r].outcome = "internal" THEN Leave(r) ELSE CrashPath(r)
  /\ UNCHANGED <<jobs, attempts, lastEvent, crashed, faults, gated>>

FinishWrite(r) ==
  /\ procs[r].pc = "finish_write"
  /\ LET j == procs[r].job IN
       \/ /\ jobs[j].status \in Finishable
          /\ jobs' = [jobs EXCEPT ![j].status = Final(r),
                                  ![j].error = IF Final(r) = "failed"
                                               THEN procs[r].outcome ELSE "none",
                                  ![j].worker = None,
                                  ![j].lease = "none"]
          /\ Goto(r, "finish_event")
       \/ /\ jobs[j].status \notin Finishable
          /\ AfterFinish(r)
          /\ UNCHANGED jobs
  /\ UNCHANGED <<attempts, lastEvent, crashed, faults, gated>>

FinishEvent(r) ==
  /\ procs[r].pc = "finish_event"
  /\ lastEvent' = [lastEvent EXCEPT ![procs[r].job] = <<procs[r].seen, Final(r)>>]
  /\ AfterFinish(r)
  /\ UNCHANGED <<jobs, attempts, crashed, faults, gated>>

(***************************************************************************)
(* The retry policy of _process_claimed, Store.requeue, Store.mark_dead    *)
(***************************************************************************)

\* Mutants: one retry too many; one too few.
ExhaustedLate(row) == row.attempts > MaxRetries
ExhaustedEarly(row) == row.attempts + 1 >= MaxRetries

Exhausted(row) == row.attempts >= MaxRetries

\* get_job after a "failed" outcome, and the decision taken on that row.
PolicyRead(r) ==
  /\ procs[r].pc = "policy"
  /\ LET fresh == jobs[procs[r].job] IN
       \/ fresh.error = "transient" /\ ~Exhausted(fresh) /\ Goto(r, "requeue")
       \/ Exhausted(fresh) /\ Goto(r, "dead")
       \/ fresh.error # "transient" /\ ~Exhausted(fresh) /\ Leave(r)
  /\ UNCHANGED <<jobs, attempts, lastEvent, crashed, faults, gated>>

RequeueRead(p) ==
  /\ procs[p].pc = "requeue"
  /\ IF IsLegal(jobs[procs[p].job].status, "pending")
       THEN Checked(p, "requeue_write")
       ELSE Leave(p)     \* already pending, or IllegalTransitionError logged or printed
  /\ UNCHANGED <<jobs, attempts, lastEvent, crashed, faults, gated>>

RequeueWrite(p) ==
  /\ procs[p].pc = "requeue_write"
  /\ LET j == procs[p].job IN
       \/ /\ jobs[j].status \in Requeueable
          /\ jobs' = [jobs EXCEPT ![j].status = "pending",
                                  ![j].error = "none",
                                  ![j].worker = None,
                                  ![j].lease = "none",
                                  ![j].deferred = Backoff /\ p \in Runners]
          /\ Goto(p, "requeue_event")
       \/ /\ jobs[j].status \notin Requeueable
          /\ Leave(p)
          /\ UNCHANGED jobs
  /\ UNCHANGED <<attempts, lastEvent, crashed, faults, gated>>

RequeueEvent(p) ==
  /\ procs[p].pc = "requeue_event"
  /\ lastEvent' = [lastEvent EXCEPT ![procs[p].job] = <<procs[p].seen, "pending">>]
  /\ Leave(p)
  /\ UNCHANGED <<jobs, attempts, crashed, faults, gated>>

DeadRead(r) ==
  /\ procs[r].pc = "dead"
  /\ IF IsLegal(jobs[procs[r].job].status, "dead")
       THEN Checked(r, "dead_write")
       ELSE Leave(r)     \* already dead, or IllegalTransitionError logged
  /\ UNCHANGED <<jobs, attempts, lastEvent, crashed, faults, gated>>

DeadWrite(r) ==
  /\ procs[r].pc = "dead_write"
  /\ LET j == procs[r].job IN
       \/ /\ jobs[j].status \in Killable
          /\ jobs' = [jobs EXCEPT ![j].status = "dead"]
          /\ Goto(r, "dead_event")
       \/ /\ jobs[j].status \notin Killable
          /\ Leave(r)
          /\ UNCHANGED jobs
  /\ UNCHANGED <<attempts, lastEvent, crashed, faults, gated>>

DeadEvent(r) ==
  /\ procs[r].pc = "dead_event"
  /\ lastEvent' = [lastEvent EXCEPT ![procs[r].job] = <<procs[r].seen, "dead">>]
  /\ Leave(r)
  /\ UNCHANGED <<jobs, attempts, crashed, faults, gated>>

(***************************************************************************)
(* Commands                                                                *)
(***************************************************************************)

Fresh(c, command) == procs[c].pc = "idle" /\ command \in Commands

\* Store.request_cancel: get_job; statuses it does not act on are reported.
CancelRead(c, j) ==
  /\ Fresh(c, "cancel")
  /\ IF jobs[j].status \in {"pending", "waiting_approval", "approved", "running"}
       THEN procs' = [procs EXCEPT ![c].pc = "cancel_write", ![c].job = j,
                                   ![c].seen = jobs[j].status]
       ELSE Leave(c)
  /\ UNCHANGED <<jobs, attempts, lastEvent, crashed, faults, gated>>

\* Its UPDATE selects the row by id alone.
CancelWrite(c) ==
  /\ procs[c].pc = "cancel_write"
  /\ LET j == procs[c].job IN
       jobs' = IF procs[c].seen = "running"
               THEN [jobs EXCEPT ![j].status = "cancelling"]
               ELSE [jobs EXCEPT ![j].status = "cancelled",
                                 ![j].worker = None, ![j].lease = "none"]
  /\ Leave(c)
  /\ UNCHANGED <<attempts, lastEvent, crashed, faults, gated>>

\* cmd_retry: get_job and the check before Store.requeue.
RetryRead(c, j) ==
  /\ Fresh(c, "retry")
  /\ IF jobs[j].status \in Requeueable
       THEN procs' = [procs EXCEPT ![c].pc = "requeue", ![c].job = j]
       ELSE Leave(c)
  /\ UNCHANGED <<jobs, attempts, lastEvent, crashed, faults, gated>>

\* Store.approve_job: one guarded UPDATE...RETURNING.
Approve(c, j) ==
  /\ Fresh(c, "approve")
  /\ IF jobs[j].status = "waiting_approval"
       THEN /\ jobs' = [jobs EXCEPT ![j].status = "approved"]
            /\ gated' = gated \ {j}
       ELSE UNCHANGED <<jobs, gated>>
  /\ Leave(c)
  /\ UNCHANGED <<attempts, lastEvent, crashed, faults>>

\* Store.reject_job: one guarded UPDATE...RETURNING.
Reject(c, j) ==
  /\ Fresh(c, "reject")
  /\ IF jobs[j].status = "waiting_approval"
       THEN jobs' = [jobs EXCEPT ![j].status = "rejected"]
       ELSE UNCHANGED jobs
  /\ Leave(c)
  /\ UNCHANGED <<attempts, lastEvent, crashed, faults, gated>>

(***************************************************************************)
(* Time and crashes                                                        *)
(***************************************************************************)

Expire(j) ==
  /\ jobs[j].lease = "held"
  /\ jobs' = [jobs EXCEPT ![j].lease = "expired"]
  /\ UNCHANGED <<attempts, lastEvent, procs, crashed, gated>>

\* Nobody renews the lease any more: it runs out.
LeaseRunsOut(j) ==
  /\ \A r \in Runners : ~Tends(r, j)
  /\ Expire(j)
  /\ UNCHANGED faults

\* It runs out on a live runner: a row parked in the pool is not renewed, nor
\* is one whose provider takes no heartbeat, nor any while the host sleeps.
LeaseLate(j) ==
  /\ \E r \in Runners : Tends(r, j)
  /\ Fault("late")
  /\ Expire(j)

DelayOver(j) ==
  /\ jobs[j].deferred
  /\ jobs' = [jobs EXCEPT ![j].deferred = FALSE]
  /\ UNCHANGED <<attempts, lastEvent, procs, crashed, faults, gated>>

Crash(w) ==
  /\ w \in Mortal \ crashed
  /\ crashed' = crashed \cup {w}
  /\ procs' = [p \in Procs |-> IF p \in Runners /\ WorkerOf[p] = w THEN Idle ELSE procs[p]]
  /\ UNCHANGED <<jobs, attempts, lastEvent, faults, gated>>

(***************************************************************************)
(* Specification                                                           *)
(***************************************************************************)

NewRow(s) == [status |-> s, worker |-> None, lease |-> "none", attempts |-> 0,
              error |-> "none", deferred |-> FALSE]

Init ==
  /\ \E s \in [Jobs -> Enqueued] :
       /\ jobs = [j \in Jobs |-> NewRow(s[j])]
       /\ gated = {j \in Jobs : s[j] = "waiting_approval"}
  /\ attempts = [j \in Jobs |-> {}]
  /\ lastEvent = [j \in Jobs |-> <<>>]
  /\ procs = [p \in Procs |-> Idle]
  /\ crashed = {}
  /\ faults = [kind \in FaultKinds |-> 0]

RunnerStep(r) ==
  \/ Claim(r)
  \/ Start(r)
  \/ StartFails(r)
  \/ Renew(r)
  \/ \E outcome \in Outcomes \ {"internal"} : ExecReturn(r, outcome)
  \/ ExecRaise(r)
  \/ RecordAttempt(r)
  \/ ResultLost(r)
  \/ FinishRead(r)
  \/ FinishWrite(r)
  \/ FinishEvent(r)
  \/ PolicyRead(r)
  \/ DeadRead(r)
  \/ DeadWrite(r)
  \/ DeadEvent(r)

RequeueStep(p) == RequeueRead(p) \/ RequeueWrite(p) \/ RequeueEvent(p)

CliStep(c) ==
  \/ \E j \in Jobs : CancelRead(c, j) \/ RetryRead(c, j) \/ Approve(c, j) \/ Reject(c, j)
  \/ CancelWrite(c)

Time(j) == LeaseRunsOut(j) \/ DelayOver(j)

Next ==
  \/ \E r \in Runners : RunnerStep(r)
  \/ \E p \in Procs : RequeueStep(p)
  \/ \E c \in Clis : CliStep(c)
  \/ \E j \in Jobs : Time(j) \/ LeaseLate(j)
  \/ \E w \in Workers : Crash(w)

Spec == Init /\ [][Next]_vars

\* Live threads keep running (a provider call ends by its timeout), workers
\* keep polling, clocks advance.  Commands may stall or be killed anywhere.
Fairness ==
  /\ \A r \in Runners : WF_vars(RunnerStep(r)) /\ WF_vars(RequeueStep(r))
  /\ \A j \in Jobs : WF_vars(LeaseRunsOut(j)) /\ WF_vars(DelayOver(j))

FairSpec == Spec /\ Fairness

(***************************************************************************)
(* Safety                                                                  *)
(***************************************************************************)

Active(r, j) == procs[r].job = j

\* Two threads working for the same job hold different attempt numbers, so
\* their stdout.N.log and stderr.N.log files and attempts rows are never the
\* same, however late a lease was when the row was reclaimed.
LogsNotShared ==
  \A j \in Jobs : \A r \in Runners :
    Active(r, j) =>
      /\ procs[r].attempt \in 1..jobs[j].attempts
      /\ \A s \in Runners \ {r} : Active(s, j) => procs[s].attempt # procs[r].attempt

\* A running row always has an owner and a lease that can expire, so that it
\* can be reclaimed; a row that has an owner is being run or cancelled.
RunningReclaimable ==
  \A j \in Jobs :
    /\ jobs[j].worker # None <=> jobs[j].lease # "none"
    /\ jobs[j].worker # None => jobs[j].status \in {"running", "cancelling"}
    /\ jobs[j].status = "running" => jobs[j].worker # None

\* A job is done only if some attempt row says so: record_attempt comes before
\* finish_job, whoever crashes between the two.
DoneAccounted ==
  \A j \in Jobs : jobs[j].status = "done" => \E n \in 1..jobs[j].attempts :
                                               <<n, "done">> \in attempts[j]

\* Only a job that used up its retries is dead, although mark_dead decides on
\* a row read two statements earlier; and a failed or dead job says why.
DeadExhausted ==
  \A j \in Jobs :
    /\ jobs[j].status = "dead" => jobs[j].attempts >= MaxRetries
    /\ jobs[j].status \in {"failed", "dead"} => jobs[j].error # "none"

\* No job enqueued for approval runs before it is approved.
ApprovalGate ==
  \A j \in gated : jobs[j].status \in {"waiting_approval", "rejected", "cancelled"}

\* No attempt has two rows in the attempts table.
AttemptOnce ==
  \A j \in Jobs : \A a, b \in attempts[j] : a[1] = b[1] => a = b

\* The commands given so far.
Commanded == {c \in Clis : procs[c].pc # "idle"}

\* The commands given, the workers lost, the claims abandoned or overtaken:
\* each may cost a job one claim more.
Disturbances ==
  Cardinality(Commanded) + Cardinality(crashed)
    + faults["open"] + faults["late"]

\* Once nobody is between an UPDATE and its audit row, the newest event of a
\* finished job tells the status the job is in.
AuditCurrent ==
  \A j \in Jobs :
    \/ jobs[j].status \notin {"done", "failed", "dead"}
    \/ \E p \in Procs :
         procs[p].job = j /\ procs[p].pc \in {"finish_event", "requeue_event", "dead_event"}
    \/ lastEvent[j] # <<>> /\ lastEvent[j][2] = jobs[j].status

(***************************************************************************)
(* Action properties                                                       *)
(***************************************************************************)

IllegalMove(j) ==
  jobs'[j].status # jobs[j].status /\ ~IsLegal(jobs[j].status, jobs'[j].status)

\* A command about to overwrite a status that changed since it read it.
StaleCancel(c, j) ==
  /\ procs[c].pc = "cancel_write"
  /\ procs[c].job = j
  /\ procs[c].seen # jobs[j].status

\* The unguarded UPDATE of request_cancel is the only way off the edges: the
\* other writers' reads may be stale as well, but their WHERE clauses hold.
OnlyStaleCancelIllegal ==
  [][\A j \in Jobs : IllegalMove(j) => \E c \in Clis : StaleCancel(c, j)]_vars

\* What can take a row from under a live thread: a lease that ran out on it,
\* or a cancel and a retry.
CanBeOvertaken == faults["late"] > 0 \/ \E c, d \in Commanded : c # d

LastClaimant ==
  \A r \in Runners :
    procs[r].pc = "finish_write" /\ procs'[r].pc = "finish_event" =>
      procs[r].attempt = jobs[procs[r].job].attempts \/ CanBeOvertaken

\* finish_job does not ask whose row it finishes, so a thread may finish the
\* run of another.  That takes a lease that ran out on a live thread or two
\* commands: crashes, failing opens, retry delays or one command never do it.
OwnRunFinished == [][LastClaimant]_vars

\* The steps of a thread that has not written the end of its claim yet.
Working == {"queued", "executing", "record", "finish", "finish_write"}

\* From the provider call to the UPDATE of finish_job.
AtWork(r, j) == Active(r, j) /\ procs[r].pc \in Working \ {"queued"}

Orphaned(j) ==
  /\ jobs[j].status = "cancelling"
  /\ \A r \in Runners : Active(r, j) => procs[r].pc \notin Working
  /\ \A c \in Clis : procs[c].pc = "cancel_write" => procs[c].job # j

\* Only such a thread, or a cancel that read the row earlier, takes a row out
\* of cancelling.  One that lost its thread, because the worker died, Store.open
\* raised or the thread had just finished when the cancel wrote, stays so
\* whoever claims, retries or cancels.
OrphansStay ==
  [][\A j \in Jobs : Orphaned(j) => jobs'[j].status = "cancelling"]_vars

RetryLeft ==
  \A r \in Runners :
    procs[r].pc = "requeue_write" /\ procs'[r].pc = "requeue_event" =>
      jobs[procs[r].job].attempts < MaxRetries + Disturbances

\* The retry policy puts a job back only while retries are left, although it
\* decides on a row that a command may have moved on meanwhile.
RetriesLeft == [][RetryLeft]_vars

(***************************************************************************)
(* Liveness                                                                *)
(***************************************************************************)

\* The queue drains: from some point on no job is pending, approved or
\* running, whatever crashes or is cancelled, as long as one worker survives.
QueueDrains ==
  <>[](\A j \in Jobs : jobs[j].status \in Terminal \cup {"waiting_approval", "cancelling"})

\* A transient failure is followed up, requeued or marked dead, unless a worker
\* dies between finish_job and the policy.
FailureFollowedUp ==
  \A j \in Jobs : jobs[j].status = "failed" /\ jobs[j].error = "transient"
                    ~> jobs[j].status # "failed" \/ crashed # {}

\* A row marked cancelling ends as long as a thread that got as far as the
\* provider works for it and its worker survives, also when the row was
\* reclaimed from a live thread just before.
CancellingEnds ==
  \A j \in Jobs, r \in Runners :
    jobs[j].status = "cancelling" /\ AtWork(r, j)
      ~> jobs[j].status # "cancelling" \/ WorkerOf[r] \in crashed

(***************************************************************************)
(* Refinement                                                              *)
(***************************************************************************)

CancelUnderWay ==
  [c \in Clis |-> IF procs[c].pc = "cancel_write" THEN {<<procs[c].job, procs[c].seen>>} ELSE {}]

Lifecycle == INSTANCE JobLifecycle WITH
  Callers <- Clis, status <- [j \in Jobs |-> jobs[j].status], asked <- CancelUnderWay

\* Seen through its status column, the table behaves as JobLifecycle says: the
\* read, check and UPDATE of each method, spread over statements that others
\* interleave with, amount to one legal move of one row or to one cancel.
ImplementsLifecycle == Lifecycle!Spec
=============================================================================
