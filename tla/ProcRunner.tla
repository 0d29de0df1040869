----------------------------- MODULE ProcRunner -----------------------------
(***************************************************************************)
(* One attempt of one claimed job, from execute_job through the provider   *)
(* and the runtime to the result: the poll loop of run_with_terminate, the *)
(* teardowns of the three runtimes, the doctor's uncancellable probe and   *)
(* the HTTP provider.  Agents that speak ACP are in AcpRun.                *)
(*                                                                         *)
(* An attempt has a leader, the process that Popen started, and possibly a *)
(* helper: a descendant in its process group (local), the container that   *)
(* the docker client asks for, or the remote command of an ssh client.     *)
(* The thread's steps take no time; now counts the polls of 0.5 s.         *)
(*                                                                         *)
(* Abstracted: argv, environment and output, of which only the question is *)
(* kept whether a log file holds text that redact has not seen.            *)
(***************************************************************************)
EXTENDS Naturals

CONSTANTS
  Backends,       \* backends tried
  Timeout,        \* provider.timeout
  Grace,          \* grace_seconds
  BeatEvery,      \* HEARTBEAT_INTERVAL
  Lease,          \* worker.lease_seconds
  Sandbox,        \* is_supported: the platform has sandbox-exec
  RemoteSecrets,  \* allow_remote_secrets of the ssh runtime
  MaxErrors,      \* bound on database errors
  Horizon         \* bound on the clock

Polled == {"local", "docker", "ssh"}

ASSUME RunnerAssumption ==
  /\ Backends \subseteq Polled \cup {"probe", "ollama"}
  /\ {Timeout, Grace, Lease, MaxErrors, Horizon} \subseteq Nat /\ BeatEvery \in Nat \ {0}
  /\ {Sandbox, RemoteSecrets} \subseteq BOOLEAN

VARIABLES
  job,       \* what is known of the job and its processes beforehand
  pc,        \* where the thread is
  now,       \* the clock
  wake,      \* when the thread's sleep or wait ends
  deadline,  \* when the attempt times out
  beat,      \* last_beat
  lease,     \* lease_until of the row
  cancelAt,  \* when the row became "cancelling", or Never
  errors,    \* database errors so far
  leader, helper,
  code,      \* exit code of the leader: 0, 1, or Killed
  outcome,   \* the loop's local variable
  logs,      \* what stdout.N.log and stderr.N.log hold
  result,    \* what execute_job is given
  hit        \* history: the teardown reached the processes

clocks == <<now, wake, deadline, beat, lease>>
procs == <<leader, helper, code>>
vars == <<job, pc, clocks, cancelAt, errors, procs, outcome, logs, result, hit>>

Never == Horizon + 1
Killed == 9

\* What execute_job finds: permissions without network, secrets in the
\* environment, a child that does not read a prompt larger than the pipe, and
\* the processes that ignore SIGTERM and SIGHUP.
Job == [backend  : Backends,
        denied   : BOOLEAN,
        secrets  : BOOLEAN,
        deaf     : BOOLEAN,
        stubborn : SUBSET {"leader", "helper"}]

Loop == {"poll", "beat", "check"}
Steps == Loop \cup {"start", "stdin", "kill", "grace", "stopped", "redact",
                    "probe", "http", "over"}

TypeOK ==
  /\ job \in Job
  /\ pc \in Steps
  /\ {now, lease} \subseteq Nat /\ {wake, deadline, beat} \subseteq Nat
  /\ cancelAt \in 0..Never
  /\ errors \in 0..MaxErrors
  /\ leader \in {"none", "running", "exited"}
  /\ helper \in {"none", "running", "gone"}
  /\ code \in {0, 1, Killed}
  /\ outcome \in {"exit", "cancelled", "timeout"}
  /\ logs \in {"empty", "raw", "redacted"}
  /\ result \in {"none", "done", "failed", "timeout", "cancelled", "unavailable", "crash"}
  /\ hit \in BOOLEAN

\* Somebody holds the log files open.  What a container or a remote command
\* prints passes through the client, the leader; a descendant inherits them.
Writer ==
  \/ leader = "running" /\ job.backend \in Polled
  \/ helper = "running" /\ job.backend = "local"

\* The thread leaves the attempt with a result.
Finish(r) == pc' = "over" /\ result' = r

DbError == errors < MaxErrors /\ errors' = errors + 1

(***************************************************************************)
(* Before the child: execute_job, the dispatch by provider, the guards     *)
(***************************************************************************)

\* The job needs a sandbox the platform does not have.
Unconfinable == job.denied /\ ~Sandbox

\* The ssh runtime refuses a job it cannot confine, or that carries secrets.
RemoteRefused ==
  /\ job.backend = "ssh"
  /\ job.denied \/ (job.secrets /\ ~RemoteSecrets)

\* execute_job raises before anything runs; a prompt file that is gone, a
\* provider, runtime or worktree that cannot be had raise as well.
StartRaises ==
  /\ pc = "start"
  /\ Finish("crash")
  /\ UNCHANGED <<job, clocks, cancelAt, errors, procs, outcome, logs, hit>>

\* Popen: argv[0] may be missing.
Popen(next) ==
  \/ /\ Finish("unavailable")
     /\ UNCHANGED leader
  \/ /\ pc' = next
     /\ leader' = "running"
     /\ UNCHANGED result

\* LocalRuntime, DockerRuntime or SSHRuntime.run opens the logs and spawns.
Spawn ==
  /\ pc = "start"
  /\ job.backend \in Polled
  /\ ~Unconfinable /\ ~RemoteRefused
  /\ Popen("stdin")
  /\ UNCHANGED <<job, clocks, cancelAt, errors, helper, code, outcome, logs, hit>>

\* run_subprocess: the deadline covers the prompt, output goes to memory.
SpawnProbe ==
  /\ pc = "start"
  /\ job.backend = "probe"
  /\ Popen("probe")
  /\ deadline' = now + Timeout
  /\ UNCHANGED <<job, now, wake, beat, lease, cancelAt, errors, helper, code, outcome,
                 logs, hit>>

\* ollama_http.run: nobody polls, nobody renews the lease.
Request ==
  /\ pc = "start"
  /\ job.backend = "ollama"
  /\ ~Unconfinable
  /\ pc' = "http"
  /\ deadline' = now + Timeout
  /\ UNCHANGED <<job, now, wake, beat, lease, cancelAt, errors, procs, outcome, logs,
                 result, hit>>

(***************************************************************************)
(* run_with_terminate                                                      *)
(***************************************************************************)

\* The prompt is written, or the pipe breaks because the child is gone.  Only
\* now does the deadline start to count.
Prompt ==
  /\ pc = "stdin"
  /\ leader = "exited" \/ ~job.deaf
  /\ pc' = "poll"
  /\ deadline' = now + Timeout
  /\ beat' = now
  /\ wake' = now
  /\ UNCHANGED <<job, now, lease, cancelAt, errors, procs, outcome, logs, result, hit>>

\* proc.poll() after a sleep.
Poll ==
  /\ pc = "poll"
  /\ now >= wake
  /\ pc' = IF leader = "exited" THEN "redact" ELSE "beat"
  /\ UNCHANGED <<job, clocks, cancelAt, errors, procs, outcome, logs, result, hit>>

BeatDue == now - beat >= BeatEvery

\* Mutant: the clock of the heartbeats starts again at every poll.
BeatRestarts ==
  /\ pc = "beat"
  /\ pc' = "check"
  /\ \/ BeatDue /\ lease' = now + Lease /\ UNCHANGED errors
     \/ ~BeatDue /\ UNCHANGED <<lease, errors>>
  /\ beat' = now
  /\ UNCHANGED <<job, now, wake, deadline, cancelAt, procs, outcome, logs, result, hit>>

\* renew_lease when it is due; an exception is swallowed, and the next try
\* is a whole interval away all the same.
Beat ==
  /\ pc = "beat"
  /\ pc' = "check"
  /\ \/ BeatDue /\ beat' = now /\ lease' = now + Lease /\ UNCHANGED errors
     \/ BeatDue /\ beat' = now /\ DbError /\ UNCHANGED lease
     \/ ~BeatDue /\ UNCHANGED <<beat, lease, errors>>
  /\ UNCHANGED <<job, now, wake, deadline, cancelAt, procs, outcome, logs, result, hit>>

\* cancel_check raises: nothing catches it above the poll loop, so the child
\* is left to itself and the logs as they are.
CheckRaises ==
  /\ pc = "check"
  /\ DbError
  /\ Finish("crash")
  /\ UNCHANGED <<job, clocks, cancelAt, procs, outcome, logs, hit>>

Cancelled == cancelAt # Never

\* Mutant: the deadline is looked at first, and the cancel only when it is over.
CheckDeadlineOnly ==
  /\ pc = "check"
  /\ \/ Cancelled /\ now > deadline /\ outcome' = "cancelled" /\ pc' = "kill" /\ UNCHANGED wake
     \/ ~Cancelled /\ now > deadline /\ outcome' = "timeout" /\ pc' = "kill" /\ UNCHANGED wake
     \/ now <= deadline /\ pc' = "poll" /\ wake' = now + 1 /\ UNCHANGED outcome
  /\ UNCHANGED <<job, now, deadline, beat, lease, cancelAt, errors, procs, logs, result, hit>>

\* Mutant: a timeout of a job that is cancelled counts as cancelled, and so
\* does any other.
CheckConfused ==
  /\ pc = "check"
  /\ \/ (Cancelled \/ now > deadline) /\ outcome' = "cancelled" /\ pc' = "kill" /\ UNCHANGED wake
     \/ ~Cancelled /\ now <= deadline /\ pc' = "poll" /\ wake' = now + 1 /\ UNCHANGED outcome
  /\ UNCHANGED <<job, now, deadline, beat, lease, cancelAt, errors, procs, logs, result, hit>>

\* The rest of an iteration: cancelled, too late, or sleep.
Check ==
  /\ pc = "check"
  /\ \/ Cancelled /\ outcome' = "cancelled" /\ pc' = "kill" /\ UNCHANGED wake
     \/ ~Cancelled /\ now > deadline /\ outcome' = "timeout" /\ pc' = "kill" /\ UNCHANGED wake
     \/ ~Cancelled /\ now <= deadline /\ pc' = "poll" /\ wake' = now + 1 /\ UNCHANGED outcome
  /\ UNCHANGED <<job, now, deadline, beat, lease, cancelAt, errors, procs, logs, result, hit>>

(***************************************************************************)
(* Teardown                                                                *)
(***************************************************************************)

\* A process that is not running stays what it is.
End(p, end) == IF p = "running" THEN end ELSE p

\* What SIGTERM or SIGHUP does to the processes of a set that runs.
Signal(targets) ==
  LET dies(p) == p \in targets \ job.stubborn IN
  /\ leader' = IF dies("leader") THEN End(leader, "exited") ELSE leader
  /\ code' = IF leader' # leader THEN Killed ELSE code
  /\ helper' = IF dies("helper") THEN End(helper, "gone") ELSE helper

KillLeader ==
  /\ leader' = End(leader, "exited")
  /\ code' = IF leader' # leader THEN Killed ELSE code

\* Mutant: proc.terminate() instead of killpg.
TermLeader ==
  /\ pc = "kill"
  /\ job.backend = "local"
  /\ Signal({"leader"})
  /\ hit' = TRUE
  /\ pc' = "grace"
  /\ wake' = now + Grace
  /\ UNCHANGED <<job, now, deadline, beat, lease, cancelAt, errors, outcome, logs, result>>

\* _default_terminate: SIGTERM to the group.  The lookup of the group of a
\* leader that has just exited fails on some systems; then nobody is signalled.
TermGroup ==
  /\ pc = "kill"
  /\ job.backend = "local"
  /\ \/ Signal({"leader", "helper"}) /\ hit' = TRUE
     \/ leader = "exited" /\ UNCHANGED <<procs, hit>>
  /\ pc' = "grace"
  /\ wake' = now + Grace
  /\ UNCHANGED <<job, now, deadline, beat, lease, cancelAt, errors, outcome, logs, result>>

\* Mutant: no SIGKILL after the grace period.
GracePatient ==
  /\ pc = "grace"
  /\ leader = "exited"
  /\ pc' = "redact"
  /\ UNCHANGED <<job, clocks, cancelAt, errors, procs, outcome, logs, result, hit>>

\* proc.wait returns as soon as the leader has exited; after the grace period
\* the whole group is killed.
GraceOver ==
  /\ pc = "grace"
  /\ \/ leader = "exited" /\ UNCHANGED procs
     \/ leader = "running" /\ now >= wake /\ KillLeader /\ helper' = End(helper, "gone")
  /\ pc' = "redact"
  /\ UNCHANGED <<job, clocks, cancelAt, errors, outcome, logs, result, hit>>

\* `docker stop', which kills after its own grace, and `docker kill'.  Both
\* fail when there is no container, or not yet; nobody waits for the client.
DockerStep ==
  /\ pc \in {"kill", "stopped"}
  /\ job.backend = "docker"
  /\ helper' = End(helper, "gone")
  /\ hit' = (hit \/ helper = "running")
  /\ pc' = IF pc = "kill" THEN "stopped" ELSE "redact"
  /\ UNCHANGED <<job, clocks, cancelAt, errors, leader, code, outcome, logs, result>>

\* `ssh -O exit': the remote command gets SIGHUP if the session was up.
SshExit ==
  /\ pc = "kill"
  /\ job.backend = "ssh"
  /\ Signal({"helper"})
  /\ hit' = (helper = "running")
  /\ pc' = "stopped"
  /\ UNCHANGED <<job, clocks, cancelAt, errors, outcome, logs, result>>

\* proc.kill() of the client, which is not waited for.
SshKill ==
  /\ pc = "stopped"
  /\ job.backend = "ssh"
  /\ KillLeader
  /\ pc' = "redact"
  /\ UNCHANGED <<job, clocks, cancelAt, errors, helper, outcome, logs, result, hit>>

(***************************************************************************)
(* Results                                                                 *)
(***************************************************************************)

Verdict ==
  CASE outcome # "exit" -> outcome
    [] outcome = "exit" /\ code = 0 -> "done"
    [] outcome = "exit" /\ code # 0 -> "failed"

\* Mutant: the logs of a job that was stopped are left alone.
RedactFinished ==
  /\ pc = "redact"
  /\ logs' = IF logs = "raw" /\ outcome = "exit" THEN "redacted" ELSE logs
  /\ Finish(Verdict)
  /\ UNCHANGED <<job, clocks, cancelAt, errors, procs, outcome, hit>>

\* Both files are read, redacted and written back, and the result returned.
Redact ==
  /\ pc = "redact"
  /\ logs' = IF logs = "raw" THEN "redacted" ELSE logs
  /\ Finish(Verdict)
  /\ UNCHANGED <<job, clocks, cancelAt, errors, procs, outcome, hit>>

\* subprocess.run returns when the leader has exited and its pipes are closed
\* by everybody who inherited them, or kills the leader at the deadline.
ProbeReturns ==
  /\ pc = "probe"
  /\ \/ leader = "exited" /\ helper # "running" /\ Finish(Verdict) /\ UNCHANGED procs
     \/ /\ leader = "running" \/ helper = "running"
        /\ now >= deadline
        /\ KillLeader
        /\ Finish("timeout")
        /\ UNCHANGED helper
  /\ UNCHANGED <<job, clocks, cancelAt, errors, outcome, logs, hit>>

\* urlopen: the timeout is per socket operation, so an answer may be later.
HttpReturns ==
  /\ pc = "http"
  /\ \E r \in {"done", "failed", "timeout"} :
       /\ r = "timeout" => now >= deadline
       /\ Finish(r)
  /\ UNCHANGED <<job, clocks, cancelAt, errors, procs, outcome, logs, hit>>

(***************************************************************************)
(* The outside: processes, commands, time                                  *)
(***************************************************************************)

\* A docker client ends after its container.
LeaderExits ==
  /\ leader = "running"
  /\ job.backend = "docker" => helper # "running"
  /\ leader' = "exited"
  /\ code' \in {0, 1}
  /\ UNCHANGED <<job, pc, clocks, cancelAt, errors, helper, outcome, logs, result, hit>>

HelperStarts ==
  /\ leader = "running"
  /\ helper = "none"
  /\ helper' = "running"
  /\ UNCHANGED <<job, pc, clocks, cancelAt, errors, leader, code, outcome, logs, result, hit>>

HelperExits ==
  /\ helper = "running"
  /\ helper' = "gone"
  /\ UNCHANGED <<job, pc, clocks, cancelAt, errors, leader, code, outcome, logs, result, hit>>

Output ==
  /\ Writer
  /\ logs' = "raw"
  /\ UNCHANGED <<job, pc, clocks, cancelAt, errors, procs, outcome, result, hit>>

\* `herder cancel' flags the running row.
RequestCancel ==
  /\ pc # "over"
  /\ ~Cancelled
  /\ cancelAt' = now
  /\ UNCHANGED <<job, pc, clocks, errors, procs, outcome, logs, result, hit>>

\* The thread waits for something that is not there yet.
Waiting ==
  \/ pc = "stdin" /\ leader = "running" /\ job.deaf
  \/ pc = "poll" /\ now < wake
  \/ pc = "grace" /\ leader = "running" /\ now < wake
  \/ pc \in {"kill", "stopped"} /\ job.backend \in {"docker", "ssh"}
  \/ pc = "probe" /\ now < deadline /\ "running" \in {leader, helper}
  \/ pc = "http"

Tick ==
  /\ Waiting
  /\ now < Horizon
  /\ now' = now + 1
  /\ UNCHANGED <<job, pc, wake, deadline, beat, lease, cancelAt, errors, procs, outcome,
                 logs, result, hit>>

(***************************************************************************)
(* Specification                                                           *)
(***************************************************************************)

\* The row was claimed a moment ago.
Init ==
  /\ job \in Job
  /\ pc = "start"
  /\ now = 0 /\ wake = 0 /\ deadline = 0 /\ beat = 0 /\ lease = Lease
  /\ cancelAt = Never
  /\ errors = 0
  /\ leader = "none" /\ helper = "none" /\ code = 0
  /\ outcome = "exit"
  /\ logs = "empty"
  /\ result = "none"
  /\ hit = FALSE

Thread ==
  \/ StartRaises \/ Spawn \/ SpawnProbe \/ Request
  \/ Prompt \/ Poll \/ Beat \/ CheckRaises \/ Check
  \/ TermGroup \/ GraceOver \/ DockerStep \/ SshExit \/ SshKill
  \/ Redact \/ ProbeReturns \/ HttpReturns

Outside == LeaderExits \/ HelperStarts \/ HelperExits \/ Output \/ RequestCancel

Next == Thread \/ Outside \/ Tick

Spec == Init /\ [][Next]_vars

\* The thread is scheduled, commands and requests return, time passes.  No
\* process has to end, and no cancel has to come.
FairSpec == Spec /\ WF_vars(Thread) /\ WF_vars(Tick)

(***************************************************************************)
(* Safety                                                                  *)
(***************************************************************************)

\* A cancel that came a poll before the end is never lost to the child's exit,
\* and one that came before the deadline never to the timeout.  What is read
\* first decides only between events of the same poll.  While a child does
\* not read its prompt nobody polls.
CancelHeard ==
  job.backend \in Polled /\ Cancelled =>
    /\ result \in {"done", "failed"} => now <= cancelAt + 1 \/ now <= deadline - Timeout + 1
    /\ result = "timeout" => cancelAt > deadline

\* A job is done only if its leader ended by itself with exit code 0; a child
\* that exits 0 on SIGTERM is cancelled or timed out.  A timeout is reported
\* only after the deadline, and a cancel is heard.
OutcomeHonest ==
  /\ result = "done" /\ job.backend # "ollama" =>
       leader = "exited" /\ code = 0 /\ outcome = "exit" /\ ~hit
  /\ result = "timeout" => now >= deadline
  /\ CancelHeard

\* No later than a poll and g seconds after the cancel, if the row is flagged,
\* or g after the first poll.
HeardWithin(g) == Cancelled => now <= cancelAt + 1 + g \/ now <= deadline - Timeout + g

\* Every runtime stops polling within a poll of the deadline and of a cancel.
\* A local attempt past its prompt is over a grace period later, whatever its
\* processes do, and the probe at its deadline.  The commands that docker and
\* ssh stop a job with have no timeout.
EndsInTime ==
  /\ pc \in Loop => now <= deadline + 1 /\ HeardWithin(0)
  /\ job.backend = "local" /\ pc # "stdin" => now <= deadline + 1 + Grace /\ HeardWithin(Grace)
  /\ job.backend = "probe" => now <= deadline

\* Once the prompt is read, the heartbeats keep the row leased while the thread
\* polls, through as many failed renewals as the lease is long for.
LeaseHolds ==
  pc \in Loop /\ ~job.deaf /\ Lease > (errors + 1) * BeatEvery => now < lease

\* The result of a stopped local or ssh attempt comes after the leader is gone,
\* and a descendant outlives it only if something ignored SIGTERM or nobody
\* could be signalled.
KilledTree ==
  result \in {"cancelled", "timeout"} =>
    /\ job.backend \in {"local", "ssh", "probe"} => leader = "exited"
    /\ job.backend = "local" /\ hit /\ helper = "running" => job.stubborn # {}

\* The three ways text that redact has not seen stays on disk: an exception in
\* the poll loop, a docker client nobody waited for, and a descendant of the
\* leader that outlived the attempt with the log files open.
Unredactable ==
  \/ result = "crash" /\ errors > 0
  \/ job.backend = "docker" /\ outcome # "exit"
  \/ job.backend = "local" /\ helper # "none" /\ (hit => job.stubborn # {})

\* In any other case the logs of an attempt are redacted when it is over and
\* stay so.
RawOnlyFromStray == pc = "over" /\ logs = "raw" => Unredactable

(***************************************************************************)
(* Liveness and refinement                                                 *)
(***************************************************************************)

\* Every attempt ends, unless its child neither reads the prompt nor exits.
AttemptEnds == <>(pc = "over" \/ (pc = "stdin" /\ job.deaf))

Contract == INSTANCE Attempt WITH cancelling <- Cancelled, SelfCancels <- FALSE

\* Exactly one result, and "cancelled" only if the row was flagged before.
ImplementsAttempt == Contract!Spec
=============================================================================
