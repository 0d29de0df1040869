------------------------------- MODULE Intake -------------------------------
(***************************************************************************)
(* How jobs and their run directories come and go: enqueue_job, called by  *)
(* `herder enqueue' and by the scheduler, the scheduler tick of every      *)
(* worker, and `herder gc'.  What happens to a row in between is JobQueue; *)
(* here a job is active or has ended, and a retry makes it active again.   *)
(*                                                                         *)
(* SQLite runs one write transaction at a time: lock is the process that   *)
(* is between BEGIN IMMEDIATE and its end.  Nobody sees what it has        *)
(* written before the COMMIT, so its inserts are part of the action that   *)
(* commits; the run directory is on the disk from the moment it is made.   *)
(*                                                                         *)
(* There is one schedule; schedules share nothing but the lock and caps.   *)
(* A minute of the clock is a unit of now.                                 *)
(***************************************************************************)
EXTENDS Integers, FiniteSets, FiniteSetsExt

CONSTANTS
  Workers,       \* processes that tick
  Callers,       \* other processes that call enqueue_job
  Collectors,    \* processes that run gc, each once
  Slots,         \* the minutes the cron expression matches
  Contents,      \* (role, project, kind, prompt hash) of a request
  Scheduled,     \* the content of the schedule's requests
  Keys,          \* idempotency keys of callers; the scheduler's is the slot
  MaxActive,     \* budget.max_active_jobs
  MaxPerDay,     \* budget.max_jobs_per_day
  Day,           \* 24 hours: MISSED_LOOKBACK and the window of the daily cap
  Horizon,       \* bound on the clock
  MaxTrouble,    \* bound on crashes, failing statements and retries
  MaxCalls,      \* bound on the calls of callers
  None           \* SQL NULL

ASSUME IntakeAssumption ==
  /\ Slots \subseteq 0..Horizon
  /\ Scheduled \in Contents
  /\ Keys \subseteq Int \ (0..Horizon)
  /\ {MaxActive, MaxPerDay, Day, Horizon, MaxTrouble, MaxCalls} \subseteq Nat
  /\ None \notin Workers \cup Callers \cup Collectors \cup Contents \cup Int
  /\ Workers \cap Callers = {} /\ Collectors \cap (Workers \cup Callers) = {}

VARIABLES
  now,
  jobs,      \* the jobs table, by id
  runs,      \* the schedule_runs table: status by slot
  lock,      \* who is in a write transaction
  dirs,      \* the ids that have a run directory
  next,      \* the next id
  procs,     \* the processes' local variables
  faults,    \* crashes and failed statements so far
  calls,     \* calls of enqueue_job by callers so far
  retried,   \* history: the jobs that were retried
  anchor     \* history: the newest slot recorded by a tick that saw none recorded

vars == <<now, jobs, runs, lock, dirs, next, procs, faults, calls, retried, anchor>>
tables == <<jobs, runs, anchor>>

Procs == Workers \cup Callers \cup Collectors

\* ULIDs in the code, which grow with time as these do.
Ids == Nat \ {0}

Job == [content : Contents, key : Keys \cup Slots \cup {None}, created : 0..Horizon,
        status : {"active", "ended"}]

Proc == [pc   : {"idle", "mark", "check", "insert", "remove", "exit"},
         at   : 0..Horizon,              \* local_now of the tick
         fresh : BOOLEAN,                \* it found no recorded slot
         todo : SUBSET (Slots \cup Ids), \* slots to mark, or jobs to remove
         content : Contents \cup {None},
         key  : Keys \cup Slots \cup {None},
         id   : Ids \cup {None}]

Idle == [pc |-> "idle", at |-> 0, fresh |-> FALSE, todo |-> {},
         content |-> None, key |-> None, id |-> None]

TypeOK ==
  /\ now \in 0..Horizon
  /\ DOMAIN jobs \subseteq Ids /\ \A j \in DOMAIN jobs : jobs[j] \in Job
  /\ DOMAIN runs \subseteq Slots /\ \A s \in DOMAIN runs : runs[s] \in {"missed", "enqueued"}
  /\ lock \in Workers \cup Callers \cup {None}
  /\ dirs \subseteq Ids /\ next \in Ids
  /\ procs \in [Procs -> Proc]
  /\ faults \in 0..MaxTrouble
  /\ calls \in 0..MaxCalls /\ retried \subseteq Ids
  /\ anchor \in Slots \cup {-1}

Active == {j \in DOMAIN jobs : jobs[j].status = "active"}

\* A function with one more pair.
With(f, x, v) == [y \in DOMAIN f \cup {x} |-> IF y = x THEN v ELSE f[y]]

\* Done: a worker returns to its loop, a gc ends.
Leave(p) == procs' = [procs EXCEPT ![p] = IF p \notin Collectors THEN Idle ELSE [Idle EXCEPT !.pc = "exit"]]

\* Room for one more crash, failure or retry.
Trouble == faults + Cardinality(retried) < MaxTrouble

Fault == Trouble /\ faults' = faults + 1

(***************************************************************************)
(* The scheduler's tick                                                    *)
(***************************************************************************)

\* The slots after the last recorded one, or of a day, and before this minute.
Missed(last, at) == {s \in Slots : last < s /\ at - Day < s /\ s < at}

\* A pass of the worker's loop: the time, and last_scheduled_for.  (Other
\* schedules come in between.  A last record that is newer than the time makes
\* the list shorter, no more.)
Tick(w) ==
  /\ procs[w].pc = "idle"
  /\ procs' = [procs EXCEPT ![w] =
                 [Idle EXCEPT !.pc = "mark", !.at = now, !.fresh = (DOMAIN runs = {}),
                              !.todo = IF DOMAIN runs = {} THEN {}
                                       ELSE Missed(Max(DOMAIN runs), now)]]
  /\ UNCHANGED <<now, tables, lock, dirs, next, faults, calls, retried>>

\* record_schedule_run(..., "missed"), in autocommit mode, from the oldest slot
\* on.  A slot that another worker recorded meanwhile keeps its row.
MarkMissed(w) ==
  /\ procs[w].pc = "mark" /\ procs[w].todo # {}
  /\ lock = None
  /\ LET s == Min(procs[w].todo) IN
       /\ procs' = [procs EXCEPT ![w].todo = @ \ {s}]
       /\ runs' = IF s \in DOMAIN runs THEN runs ELSE With(runs, s, "missed")
  /\ UNCHANGED <<now, jobs, anchor, lock, dirs, next, faults, calls, retried>>

\* Mutant: the slot is recorded before the transaction begins.
DueRecords(w) ==
  LET s == procs[w].at IN
  /\ procs[w].pc = "mark" /\ procs[w].todo = {}
  /\ s \in Slots => lock = None
  /\ IF s \in Slots \ DOMAIN runs
       THEN /\ lock' = w
            /\ procs' = [procs EXCEPT ![w].pc = "check", ![w].content = Scheduled, ![w].key = s]
            /\ runs' = With(runs, s, "enqueued")
       ELSE Leave(w) /\ UNCHANGED <<lock, runs>>
  /\ UNCHANGED <<now, jobs, anchor, dirs, next, faults, calls, retried>>

\* Mutant: the slot of this minute comes before the missed ones.
DueFirst(w) ==
  LET s == procs[w].at IN
  /\ procs[w].pc = "mark"
  /\ s \in Slots => lock = None
  /\ IF s \in Slots \ DOMAIN runs
       THEN /\ lock' = w
            /\ procs' = [procs EXCEPT ![w].pc = "check", ![w].content = Scheduled, ![w].key = s]
       ELSE Leave(w) /\ UNCHANGED lock
  /\ UNCHANGED <<now, tables, dirs, next, faults, calls, retried>>

\* Is this minute a slot?  BEGIN IMMEDIATE, and a slot that is recorded already
\* ends the transaction again: a duplicate tick, or one that came too late.
Due(w) ==
  LET s == procs[w].at IN
  /\ procs[w].pc = "mark" /\ procs[w].todo = {}
  /\ s \in Slots => lock = None
  /\ IF s \in Slots \ DOMAIN runs
       THEN /\ lock' = w
            /\ procs' = [procs EXCEPT ![w].pc = "check", ![w].content = Scheduled, ![w].key = s]
       ELSE Leave(w) /\ UNCHANGED lock
  /\ UNCHANGED <<now, tables, dirs, next, faults, calls, retried>>

(***************************************************************************)
(* enqueue_job                                                             *)
(***************************************************************************)

\* Mutant: a deferred transaction does not keep others from reading the same.
BeginDeferred(c) ==
  /\ procs[c].pc = "idle"
  /\ calls < MaxCalls /\ calls' = calls + 1
  /\ \E content \in Contents, key \in Keys \cup {None} :
       procs' = [procs EXCEPT ![c].pc = "check", ![c].content = content, ![c].key = key]
  /\ UNCHANGED <<now, tables, lock, dirs, next, faults, retried>>

\* Prompt, runtime, role and project have been checked, it is no dry run, and
\* the project is there: BEGIN IMMEDIATE, as the caller is in no transaction.
Begin(c) ==
  /\ procs[c].pc = "idle"
  /\ calls < MaxCalls /\ calls' = calls + 1
  /\ lock = None
  /\ lock' = c
  /\ \E content \in Contents, key \in Keys \cup {None} :
       procs' = [procs EXCEPT ![c].pc = "check", ![c].content = content, ![c].key = key]
  /\ UNCHANGED <<now, tables, dirs, next, faults, retried>>

\* The end of a transaction: by the caller, or for it by the scheduler.
End(p) == lock' = None /\ Leave(p)

Twins(p) == {j \in Active : jobs[j].content = procs[p].content}

OverCap == Cardinality(Active) >= MaxActive

\* Mutant: jobs of the last day that have ended do not count.
OverQuotaActive == Cardinality({j \in Active : jobs[j].created >= now - Day}) >= MaxPerDay

OverQuota == Cardinality({j \in DOMAIN jobs : jobs[j].created >= now - Day}) >= MaxPerDay

\* dedup_active: only a request without a key is collapsed.
Duplicate(p) == procs[p].key = None /\ Twins(p) # {}

\* Dedup, caps, and then the run directory with the prompt in it.  A BudgetError
\* rolls the transaction back, the scheduler's as well.
Check(p) ==
  /\ procs[p].pc = "check"
  /\ IF Duplicate(p) \/ OverCap \/ OverQuota
       THEN End(p) /\ UNCHANGED <<dirs, next>>
       ELSE /\ procs' = [procs EXCEPT ![p].pc = "insert", ![p].id = next]
            /\ dirs' = dirs \cup {next}
            /\ next' = next + 1
            /\ UNCHANGED lock
  /\ UNCHANGED <<now, tables, faults, calls, retried>>

SameKey(k) == {j \in DOMAIN jobs : k # None /\ jobs[j].key = k}

\* The row of the scheduler's slot becomes visible.
Recorded(w) ==
  LET s == procs[w].key IN
  /\ runs' = With(runs, s, "enqueued")
  /\ anchor' = IF procs[w].fresh /\ anchor < s THEN s ELSE anchor

\* Mutant: the directory of a request that was answered with an older job stays.
InsertLitters(p) ==
  LET k == procs[p].key IN
  /\ procs[p].pc = "insert"
  /\ IF SameKey(k) # {} THEN UNCHANGED jobs
     ELSE jobs' = With(jobs, procs[p].id,
                       [content |-> procs[p].content, key |-> k, created |-> now, status |-> "active"])
  /\ IF k \in Slots
       THEN Recorded(p)
       ELSE UNCHANGED <<runs, anchor>>
  /\ End(p)
  /\ UNCHANGED <<now, dirs, next, faults, calls, retried>>

\* INSERT and COMMIT.  If the key is taken the transaction is rolled back, the
\* directory removed, and the caller is given the job that has the key.  For the
\* scheduler the row of the slot comes with it.
Insert(p) ==
  LET k == procs[p].key IN
  /\ procs[p].pc = "insert"
  /\ IF SameKey(k) # {}
       THEN dirs' = dirs \ {procs[p].id} /\ UNCHANGED jobs
       ELSE /\ jobs' = With(jobs, procs[p].id,
                            [content |-> procs[p].content, key |-> k, created |-> now, status |-> "active"])
            /\ UNCHANGED dirs
  /\ IF k \in Slots
       THEN Recorded(p)
       ELSE UNCHANGED <<runs, anchor>>
  /\ End(p)
  /\ UNCHANGED <<now, next, faults, calls, retried>>

\* Any other exception, of a prompt file that is gone, of the disk or of the
\* database: rolled back, the directory is left behind.
Fails(p) ==
  /\ procs[p].pc \in {"check", "insert"}
  /\ Fault
  /\ End(p)
  /\ UNCHANGED <<now, tables, dirs, next, calls, retried>>

(***************************************************************************)
(* run_gc                                                                  *)
(***************************************************************************)

\* _DONE_LIKE and _FAIL_LIKE: all that have ended.
Removable == DOMAIN jobs \ Active

\* The list of all jobs is read once.  Which of them ended longer ago than the
\* retention of their status is not modelled: it may be any.
List(g) ==
  /\ procs[g].pc = "idle"
  /\ \E old \in (SUBSET Removable) \ {{}} :
       procs' = [procs EXCEPT ![g].pc = "remove", ![g].todo = old]
  /\ UNCHANGED <<now, tables, lock, dirs, next, faults, calls, retried>>

\* rmtree, of one job after the other.
Remove(g) ==
  /\ procs[g].pc = "remove"
  /\ LET j == Max(procs[g].todo)
         left == procs[g].todo \ {j}
     IN /\ dirs' = dirs \ {j}
        /\ IF left = {} THEN Leave(g) ELSE procs' = [procs EXCEPT ![g].todo = left]
  /\ UNCHANGED <<now, tables, lock, next, faults, calls, retried>>

(***************************************************************************)
(* The rest of the system, time, crashes                                   *)
(***************************************************************************)

\* A worker is through with the job, or the job was cancelled or rejected.
Finish(j) ==
  /\ j \in Active
  /\ lock = None
  /\ jobs' = [jobs EXCEPT ![j].status = "ended"]
  /\ UNCHANGED <<now, runs, anchor, lock, dirs, next, procs, faults, calls, retried>>

\* Store.requeue, of the retry policy or of `herder retry': no cap, no dedup.  A
\* job that is done is one that is not retried.
Requeue(j) ==
  /\ j \in DOMAIN jobs
  /\ jobs[j].status = "ended"
  /\ lock = None
  /\ Trouble
  /\ retried' = retried \cup {j}
  /\ jobs' = [jobs EXCEPT ![j].status = "active"]
  /\ UNCHANGED <<now, runs, anchor, lock, dirs, next, procs, faults, calls>>

\* A process is killed, or raises outside of any handler as a BEGIN that stays
\* locked out does.  A worker is started again, maybe in the same minute.  A gc
\* may as well stop anywhere.
Crash(p) ==
  /\ procs[p].pc \notin {"idle", "exit"}
  /\ Fault
  /\ Leave(p)
  /\ lock' = IF lock = p THEN None ELSE lock
  /\ UNCHANGED <<now, tables, dirs, next, calls, retried>>

Clock ==
  /\ now < Horizon
  /\ now' = now + 1
  /\ UNCHANGED <<tables, lock, dirs, next, procs, faults, calls, retried>>

(***************************************************************************)
(* Specification                                                           *)
(***************************************************************************)

Nothing == [x \in {} |-> None]

Init ==
  /\ now = 0
  /\ jobs = Nothing /\ runs = Nothing
  /\ lock = None
  /\ dirs = {} /\ next = 1
  /\ procs = [p \in Procs |-> Idle]
  /\ faults = 0
  /\ calls = 0 /\ retried = {}
  /\ anchor = -1

Schedule(w) == Tick(w) \/ MarkMissed(w) \/ Due(w)
Enqueue(p) == Check(p) \/ Insert(p)

Next ==
  \/ \E w \in Workers : Schedule(w)
  \/ \E c \in Callers : Begin(c)
  \/ \E p \in Workers \cup Callers : Enqueue(p) \/ Fails(p) \/ Crash(p)
  \/ \E g \in Collectors : List(g) \/ Remove(g)
  \/ \E j \in DOMAIN jobs : Finish(j) \/ Requeue(j)
  \/ Clock

Spec == Init /\ [][Next]_vars

(***************************************************************************)
(* Safety                                                                  *)
(***************************************************************************)

\* Whoever enqueues what at the same time, no more jobs than the daily cap are
\* created within any day, and no more than the other cap are active but for
\* those that were retried: requeue looks at neither.
CapsHeld ==
  /\ Cardinality(Active \ retried) <= MaxActive
  /\ Cardinality({j \in DOMAIN jobs : jobs[j].created >= now - Day}) <= MaxPerDay

\* A request without a key never makes a second active job of the same content;
\* retries may.
NoActiveTwins ==
  \A j, k \in Active \ retried :
    j < k /\ jobs[k].key = None => jobs[j].content # jobs[k].content

\* A slot is recorded as enqueued exactly if there is a job of that slot, and
\* no key has two jobs: whoever ticks, crashes or starts again within a minute.
SlotHonest ==
  /\ \A s \in Slots : (s \in DOMAIN runs /\ runs[s] = "enqueued") <=> SameKey(s) # {}
  /\ \A j, k \in DOMAIN jobs : j # k /\ jobs[j].key # None => jobs[j].key # jobs[k].key

\* No slot is passed over: if an earlier and a later one are recorded, it is,
\* unless all workers were away for a day, or the later one is due to a tick that
\* looked for the last record when there was none.
NoHoles ==
  \A s \in DOMAIN runs, t \in Slots \ DOMAIN runs :
    0 <= anchor /\ anchor < t /\ t < s => now >= t + Day

\* A job that was never retried has its run directory, and with it its prompt, as
\* long as it is active.  A retried one may be without: gc removed the directory
\* while the job had ended, or had listed it then and removes it now.  A directory
\* without a job is one of an enqueue under way, or was left by a crash or by an
\* exception.
DirsHonest ==
  /\ Active \ retried \subseteq dirs
  /\ Cardinality(dirs \ (DOMAIN jobs \cup {procs[p].id : p \in Procs})) <= faults

\* The tick of w, which found a last record, gets past the missed slots, alive.
Marked(w) ==
  /\ procs[w].pc = "mark" /\ procs'[w].pc # "mark"
  /\ ~procs[w].fresh
  /\ faults' = faults

\* A slot is enqueued, or it is recorded as missed and given up.
Enqueued(s) == SameKey(s) # {}
GivenUp(s) == s \in DOMAIN runs /\ runs[s] = "missed"

\* A tick that comes to its own minute leaves open none of the slots of the day
\* before it that are later than the first record: each is enqueued or given up,
\* be it that no worker ticked in its minute or that its enqueue failed.  (Before
\* the first record, and after a day away, nothing is looked for.)
Settled ==
  \A w \in Workers : Marked(w) =>
    \A t \in Slots : 0 <= anchor /\ anchor < t /\ t < procs[w].at /\ procs[w].at < t + Day
                      => Enqueued(t) \/ GivenUp(t)

\* What is recorded stays: no worker enqueues a slot that another gave up, or
\* gives up one that is enqueued, however far their ticks are apart.
RowsStay == \A s \in DOMAIN runs : s \in DOMAIN runs' /\ runs'[s] = runs[s]

\* Whatever other workers did meanwhile, every tick settles (and see NoHoles).
TickSettles == [][Settled /\ RowsStay]_vars
=============================================================================
