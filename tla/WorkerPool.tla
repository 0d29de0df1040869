----------------------------- MODULE WorkerPool -----------------------------
(***************************************************************************)
(* run_pending_parallel, the pass of one worker over the queue: the main   *)
(* thread claims rows and hands them to a pool of threads, each of which   *)
(* first takes a permit of its provider's concurrency group; a failed job  *)
(* is put back, at another provider if its role has several.  JobQueue     *)
(* has the rows statement by statement, for a thread that is given one;    *)
(* here a job's row changes in few steps, and the subject is who runs when *)
(* and where.                                                              *)
(*                                                                         *)
(* A second of the backoff is a unit of wait.                              *)
(***************************************************************************)
EXTENDS Integers, Sequences, FiniteSets, FiniteSetsExt

CONSTANTS
  Jobs,            \* numbered in the order claim_job takes them
  Threads,         \* of the pool: worker.global_concurrency
  Providers,
  Known,           \* those of the configuration this worker has loaded
  Group,           \* _group_key: the concurrency group of a provider
  MaxConcurrency,  \* max_concurrency of a provider
  Role,            \* providers of the job's role; of a job without one, its own
  Ordered,         \* the same in the configuration of who enqueues the job
  MaxRetries,      \* max_retries of the job
  AllowedFails,    \* cooldown.allowed_fails
  Before,          \* what recent counts of jobs that ended before
  BaseSeconds,     \* retry_backoff_base_seconds
  MaxSeconds,      \* retry_backoff_max_seconds
  MaxFaults,       \* bound on the opens of the database that fail
  None

ASSUME PoolAssumption ==
  /\ Jobs \subseteq Nat /\ IsFiniteSet(Jobs)
  /\ Threads # {} /\ IsFiniteSet(Threads)
  /\ Known \subseteq Providers
  /\ MaxConcurrency \in [Known -> Nat \ {0}] /\ \A p \in Known : Group[p] # None
  /\ Role \in [Jobs -> Seq(Known) \ {<<>>}]
  /\ Ordered \in [Jobs -> Seq(Providers) \ {<<>>}]
  /\ AllowedFails \in Nat \ {0} /\ {BaseSeconds, MaxSeconds, MaxFaults} \subseteq Nat
  /\ MaxRetries \in [Jobs -> Nat]
  /\ Before \in [Providers -> 0..AllowedFails]
  /\ None \notin Jobs \cup Providers

VARIABLES
  jobs,       \* the rows
  main,       \* the main thread
  queue,      \* rows submitted to the pool and not yet taken
  threads,    \* the pool's
  permits,    \* the semaphores
  completed,  \* there is a completed future that wait has not returned
  recent,     \* failed attempts of a provider within the cooldown window, up to
              \* AllowedFails: more make no difference
  faults      \* opens that failed so far

vars == <<jobs, main, queue, threads, permits, completed, recent, faults>>

Groups == {Group[p] : p \in Known}
GroupOf(p) == IF p \in Known THEN Group[p] ELSE None

\* Mutant: the loosest limit of the group wins.
LimitLoose(g) == Max({MaxConcurrency[p] : p \in {q \in Known : Group[q] = g}})

\* _build_group_limits
Limit(g) == Min({MaxConcurrency[p] : p \in {q \in Known : Group[q] = g}})

\* "lapsed" is a running row whose lease ran out; "failed" is for the retry
\* policy to decide; "broken" has failed for good.
Status == {"absent", "pending", "running", "lapsed", "failed", "broken", "dead", "done"}
Ended == {"broken", "dead", "done"}

TypeOK ==
  /\ jobs \in [Jobs -> [status : Status, provider : Providers,
                        attempts : Nat, wait : Int]]
  /\ main \in {"claim", "wait", "over"}
  /\ queue \in Seq([job : Jobs, provider : Providers])
  /\ threads \in [Threads -> [pc : {"idle", "acquire", "run", "scan", "release"},
                              job : Jobs \cup {None}, provider : Providers \cup {None},
                              off : Nat]]
  /\ permits \in [Groups -> Nat]
  /\ completed \in BOOLEAN
  /\ recent \in [Providers -> 0..AllowedFails]
  /\ faults \in 0..MaxFaults

Idle == [pc |-> "idle", job |-> None, provider |-> None, off |-> 0]
Goto(t, pc) == threads' = [threads EXCEPT ![t].pc = pc]
Row(t) == jobs[threads[t].job]

(***************************************************************************)
(* select_provider                                                         *)
(***************************************************************************)
Cooling(p) == recent[p] >= AllowedFails

\* The first index of a provider; 0 for one that has left the list.
Place(providers, p) ==
  LET places == {i \in DOMAIN providers : providers[i] = p}
  IN IF places = {} THEN 0 ELSE Min(places)

\* Mutant: the scan starts at the failed provider.
CandidateAt(providers, failed, off) == providers[((Place(providers, failed) - 1 + off) % Len(providers)) + 1]

\* The candidate at an offset of the scan that starts after the failed provider.
Candidate(providers, failed, off) == providers[((Place(providers, failed) + off) % Len(providers)) + 1]

\* The provider of a new job: the first that is not cooling, or else the first.
FirstChoice(providers) ==
  LET warm == {i \in DOMAIN providers : ~Cooling(providers[i])}
  IN providers[IF Len(providers) = 1 \/ warm = {} THEN 1 ELSE Min(warm)]

(***************************************************************************)
(* The main thread                                                         *)
(***************************************************************************)
\* Mutant: rows whose lease ran out are not claimed.
EligibleNew(row) == row.status = "pending" /\ row.wait = 0

Eligible(row) == row.status = "lapsed" \/ (row.status = "pending" /\ row.wait = 0)

Claimable == {j \in Jobs : Eligible(jobs[j])}

\* The set of futures is not empty.
Futures == completed \/ queue # <<>> \/ \E t \in Threads : threads[t].pc # "idle"

\* claim_job, and the row goes to the pool.
Claim ==
  /\ main = "claim" /\ Claimable # {}
  /\ LET j == Min(Claimable) IN
       /\ jobs' = [jobs EXCEPT ![j].status = "running", ![j].attempts = @ + 1]
       /\ queue' = Append(queue, [job |-> j, provider |-> jobs[j].provider])
  /\ UNCHANGED <<main, threads, permits, completed, recent, faults>>

\* Mutant: the pass is over when nothing is left to be claimed.
NoClaimLeaves ==
  /\ main = "claim" /\ Claimable = {}
  /\ main' = "over"
  /\ UNCHANGED <<jobs, queue, threads, permits, completed, recent, faults>>

\* Nothing to claim: wait for a future, if there is one.
NoClaim ==
  /\ main = "claim" /\ Claimable = {}
  /\ main' = IF Futures THEN "wait" ELSE "over"
  /\ UNCHANGED <<jobs, queue, threads, permits, completed, recent, faults>>

\* Mutant: the completed futures stay in the set.
WakeKeeps ==
  /\ main = "wait" /\ completed
  /\ main' = "claim"
  /\ UNCHANGED <<jobs, queue, threads, permits, completed, recent, faults>>

\* wait(futures, FIRST_COMPLETED): the completed ones leave the set.
Wake ==
  /\ main = "wait" /\ completed
  /\ main' = "claim"
  /\ completed' = FALSE
  /\ UNCHANGED <<jobs, queue, threads, permits, recent, faults>>

\* The worker comes round again: a new pool, new semaphores.
Pass ==
  /\ main = "over"
  /\ main' = "claim"
  /\ permits' = [g \in Groups |-> Limit(g)]
  /\ UNCHANGED <<jobs, queue, threads, completed, recent, faults>>

(***************************************************************************)
(* A thread of the pool                                                    *)
(***************************************************************************)
Take(t) ==
  /\ threads[t].pc = "idle" /\ queue # <<>>
  /\ threads' = [threads EXCEPT ![t] = [Idle EXCEPT !.pc = "acquire", !.job = Head(queue).job,
                                                    !.provider = Head(queue).provider]]
  /\ queue' = Tail(queue)
  /\ UNCHANGED <<jobs, main, permits, completed, recent, faults>>

\* The semaphore of the group.  A provider this worker does not know has none.
Acquire(t) ==
  LET g == GroupOf(threads[t].provider) IN
  /\ threads[t].pc = "acquire"
  /\ IF g = None THEN UNCHANGED permits
     ELSE permits[g] > 0 /\ permits' = [permits EXCEPT ![g] = @ - 1]
  /\ Goto(t, "run")
  /\ UNCHANGED <<jobs, main, queue, completed, recent, faults>>

\* execute_job cannot run a provider it does not know: that is a crash in the
\* job and ends as an internal error, which is not retried.
RunUnknown(t) ==
  /\ threads[t].pc = "run" /\ threads[t].provider \notin Known
  /\ jobs' = [jobs EXCEPT ![threads[t].job].status = "broken"]
  /\ Goto(t, "release")
  /\ UNCHANGED <<main, queue, permits, completed, recent, faults>>

\* Store.open raises, into the future; the row stays as it was claimed.
OpenFails(t) ==
  /\ threads[t].pc = "run"
  /\ faults < MaxFaults /\ faults' = faults + 1
  /\ Goto(t, "release")
  /\ UNCHANGED <<jobs, main, queue, permits, completed, recent>>

Running(t) == threads[t].pc = "run" /\ threads[t].provider \in Known

RunDone(t) ==
  /\ Running(t)
  /\ jobs' = [jobs EXCEPT ![threads[t].job].status = "done"]
  /\ Goto(t, "release")
  /\ UNCHANGED <<main, queue, permits, completed, recent, faults>>

\* compute_backoff_seconds
Delay(attempts) ==
  IF BaseSeconds = 0 THEN 0
  ELSE Min({MaxSeconds, BaseSeconds * 2^Max({0, attempts - 1})})

\* Store.requeue
Requeue(t, p) ==
  /\ jobs' = [jobs EXCEPT ![threads[t].job].status = "pending",
                          ![threads[t].job].provider = p,
                          ![threads[t].job].wait = Delay(Row(t).attempts)]
  /\ Goto(t, "release")

\* The attempt is recorded for the provider, and the job has failed: for good,
\* dead, back to its only provider, or the scan for one begins.
RunFails(t) ==
  LET j == threads[t].job
      exhausted == jobs[j].attempts >= MaxRetries[j]
      Ends(status) == jobs' = [jobs EXCEPT ![j].status = status] /\ Goto(t, "release")
  IN
  /\ Running(t)
  /\ recent' = [recent EXCEPT ![threads[t].provider] = Min({AllowedFails, @ + 1})]
  /\ \/ exhausted /\ Ends("dead")
     \/ ~exhausted /\ Ends("broken")
     \/ ~exhausted /\ Len(Role[j]) = 1 /\ Requeue(t, jobs[j].provider)
     \/ /\ ~exhausted /\ Len(Role[j]) > 1
        /\ jobs' = [jobs EXCEPT ![j].status = "failed"]
        /\ Goto(t, "scan")
  /\ UNCHANGED <<main, queue, permits, completed, faults>>

\* One query of the scan: this candidate, the next, or the first as all cool.
Scan(t) ==
  LET providers == Role[threads[t].job]
      p == Candidate(providers, Row(t).provider, threads[t].off)
  IN
  /\ threads[t].pc = "scan"
  /\ CASE ~Cooling(p) -> Requeue(t, p)
       [] Cooling(p) /\ threads[t].off + 1 = Len(providers) -> Requeue(t, providers[1])
       [] OTHER -> threads' = [threads EXCEPT ![t].off = @ + 1] /\ UNCHANGED jobs
  /\ UNCHANGED <<main, queue, permits, completed, recent, faults>>

\* Whatever happened the permit goes back, and the future completes.
Release(t) ==
  LET g == GroupOf(threads[t].provider) IN
  /\ threads[t].pc = "release"
  /\ threads' = [threads EXCEPT ![t] = Idle]
  /\ permits' = IF g = None THEN permits ELSE [permits EXCEPT ![g] = @ + 1]
  /\ completed' = TRUE
  /\ UNCHANGED <<jobs, main, queue, recent, faults>>

(***************************************************************************)
(* The rest of the system, and time                                        *)
(***************************************************************************)

\* Another process enqueues a job.
Enqueue(j) ==
  /\ jobs[j].status = "absent"
  /\ jobs' = [jobs EXCEPT ![j].status = "pending", ![j].provider = FirstChoice(Ordered[j])]
  /\ UNCHANGED <<main, queue, threads, permits, completed, recent, faults>>

\* A second of every backoff.
Elapse ==
  /\ \E j \in Jobs : jobs[j].wait > 0
  /\ jobs' = [j \in Jobs |-> [jobs[j] EXCEPT !.wait = Max({0, @ - 1})]]
  /\ UNCHANGED <<main, queue, threads, permits, completed, recent, faults>>

\* The lease of a row that was left by its thread.  (That of a row which a
\* thread still holds may run out as well: see JobQueue.)
LeaseRunsOut(j) ==
  /\ jobs[j].status = "running"
  /\ \A t \in Threads : threads[t].job # j
  /\ \A i \in DOMAIN queue : queue[i].job # j
  /\ jobs' = [jobs EXCEPT ![j].status = "lapsed"]
  /\ UNCHANGED <<main, queue, threads, permits, completed, recent, faults>>

\* Failures leave the cooldown window; not within the moments a scan takes.
Age(p) ==
  /\ recent[p] > 0
  /\ \A t \in Threads : threads[t].pc # "scan"
  /\ recent' = [recent EXCEPT ![p] = @ - 1]
  /\ UNCHANGED <<jobs, main, queue, threads, permits, completed, faults>>

(***************************************************************************)
(* Specification                                                           *)
(***************************************************************************)
Init ==
  /\ jobs = [j \in Jobs |-> [status |-> "absent", provider |-> Head(Role[j]),
                             attempts |-> 0, wait |-> 0]]
  /\ main = "claim" /\ queue = <<>>
  /\ threads = [t \in Threads |-> Idle]
  /\ permits = [g \in Groups |-> Limit(g)]
  /\ completed = FALSE
  /\ recent = Before
  /\ faults = 0

Main == Claim \/ NoClaim \/ Wake \/ Pass
Worker(t) ==
  \/ Take(t) \/ Acquire(t) \/ RunUnknown(t) \/ RunDone(t) \/ RunFails(t)
  \/ Scan(t) \/ Release(t)

Next ==
  \/ Main
  \/ \E t \in Threads : Worker(t) \/ OpenFails(t)
  \/ \E j \in Jobs : Enqueue(j) \/ LeaseRunsOut(j)
  \/ Elapse
  \/ \E p \in Providers : Age(p)

Spec == Init /\ [][Next]_vars

\* The interpreter runs every thread, a provider ends by its time limit, and
\* time passes.
Fairness ==
  /\ WF_vars(Main)
  /\ \A t \in Threads : WF_vars(Worker(t))
  /\ \A j \in Jobs : WF_vars(LeaseRunsOut(j))
  /\ WF_vars(Elapse)

FairSpec == Spec /\ Fairness

(***************************************************************************)
(* Safety                                                                  *)
(***************************************************************************)

\* Between its acquire and its release.
Holds(t) == threads[t].pc \notin {"idle", "acquire"}

\* Neither a provider nor all those of its group together ever run more jobs
\* than it allows, through requeues to other providers and failed opens.
LimitHeld ==
  \A p \in Known :
    Cardinality({t \in Threads : Holds(t) /\ GroupOf(threads[t].provider) = Group[p]})
      <= MaxConcurrency[p]

\* "At least one thread always advances": a thread that cannot get its permit
\* waits for one that has it, and that is past all waiting.
SomeoneAdvances ==
  \A t \in Threads :
    LET g == GroupOf(threads[t].provider) IN
    threads[t].pc = "acquire" /\ g # None /\ permits[g] = 0 =>
      \E u \in Threads : Holds(u) /\ GroupOf(threads[u].provider) = g

\* A pass leaves nothing behind in its pool, and no row in running but those
\* of the threads that could not open the database.
PassSettles ==
  main = "over" =>
    /\ queue = <<>>
    /\ \A t \in Threads : threads[t].pc = "idle"
    /\ Cardinality({j \in Jobs : jobs[j].status \in {"running", "failed"}}) <= faults

Elsewhere ==
  \A t \in Threads :
    LET j == threads[t].job
        providers == Role[j]
        Better(i) == providers[i] # jobs[j].provider /\ ~Cooling(providers[i])
    IN threads[t].pc = "scan" /\ jobs'[j].status = "pending" =>
         /\ jobs'[j].provider = jobs[j].provider => ~\E i \in DOMAIN providers : Better(i)
         /\ Cooling(jobs'[j].provider) => \A i \in DOMAIN providers : Cooling(providers[i])

\* A retry goes to another provider of the role if there is one that is not
\* cooling, and to one that cools only if all do.
RetriedElsewhere == [][Elsewhere]_vars

(***************************************************************************)
(* Liveness                                                                *)
(***************************************************************************)

\* Every pass ends, however the permits are shared out.
PassEnds == []<>(main = "over")

\* A job that was enqueued ends: a retry is not lost, whether it comes up in a
\* pass or between two.
JobsEnd == \A j \in Jobs : jobs[j].status = "pending" ~> jobs[j].status \in Ended
=============================================================================
