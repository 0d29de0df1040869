--------------------------- MODULE ProcRunnerProofs ---------------------------
(***************************************************************************)
(* Theorems about ProcRunner, for every backend and platform, any timeout, *)
(* grace, lease and number of database errors.                             *)
(***************************************************************************)
EXTENDS ProcRunner, TLAPS

(***************************************************************************)
(* Types, and which variables go with which step                           *)
(***************************************************************************)

TInv == TypeOK /\ now <= Horizon

Teardown == {"kill", "grace", "stopped"}

\* Where the thread can be, by backend, and what it has decided by then.
Shape ==
  /\ pc = "over" <=> result # "none"
  /\ pc = "start" => leader = "none" /\ helper = "none" /\ logs = "empty"
  /\ pc \in Loop \cup Teardown \cup {"stdin", "redact"} => job.backend \in Polled /\ leader # "none"
  /\ pc = "grace" => job.backend = "local"
  /\ pc = "stopped" => job.backend \in {"docker", "ssh"}
  /\ pc = "probe" => job.backend = "probe" /\ leader # "none"
  /\ pc = "http" => job.backend = "ollama"
  /\ job.backend \notin Polled => logs = "empty"
  /\ pc \in Teardown => outcome # "exit"
  /\ outcome # "exit" => pc \in Teardown \cup {"redact", "over"}

LEMMA TypeInit == Init => TInv
<1> SUFFICES ASSUME Init PROVE TInv
  OBVIOUS
<1>1. Lease \in Nat /\ MaxErrors \in Nat /\ Horizon \in Nat
  BY RunnerAssumption
<1>2. cancelAt \in 0..Never /\ now <= Horizon /\ errors \in 0..MaxErrors
  BY <1>1 DEF Init, Never
<1>3. {now, lease} \subseteq Nat /\ {wake, deadline, beat} \subseteq Nat
  BY <1>1 DEF Init
<1>4. QED
  BY <1>2, <1>3 DEF Init, TInv, TypeOK, Steps

LEMMA TypeNext == TInv /\ [Next]_vars => TInv'
<1> SUFFICES ASSUME TInv, [Next]_vars PROVE TInv'
  OBVIOUS
<1> USE DEF TInv, TypeOK, Steps, Loop, Finish, Never, vars, clocks, procs
<1>1. CASE StartRaises
  BY <1>1, RunnerAssumption DEF StartRaises
<1>2. CASE Spawn
  BY <1>2, RunnerAssumption DEF Spawn, Popen
<1>3. CASE SpawnProbe
  BY <1>3, RunnerAssumption DEF SpawnProbe, Popen
<1>4. CASE Request
  BY <1>4, RunnerAssumption DEF Request
<1>5. CASE Prompt
  BY <1>5, RunnerAssumption DEF Prompt
<1>6. CASE Poll
  BY <1>6, RunnerAssumption DEF Poll
<1>7. CASE Beat
  BY <1>7, RunnerAssumption DEF Beat, BeatDue, DbError
<1>8. CASE CheckRaises
  BY <1>8, RunnerAssumption DEF CheckRaises, DbError, Writer
<1>9. CASE Check
  BY <1>9, RunnerAssumption DEF Check, Cancelled, Never
<1>10. CASE TermGroup
  <2>1. leader' \in {"none", "running", "exited"} /\ helper' \in {"none", "running", "gone"} /\ code' \in {0, 1, Killed}
    BY <1>10 DEF TermGroup, Signal, End
  <2>2. hit' \in BOOLEAN
    BY <1>10 DEF TermGroup
  <2>3. wake' \in Nat
    BY <1>10, RunnerAssumption DEF TermGroup
  <2>4. QED
    BY <1>10, <2>1, <2>2, <2>3 DEF TermGroup
<1>11. CASE GraceOver
  BY <1>11, RunnerAssumption DEF GraceOver, KillLeader, End
<1>12. CASE DockerStep
  BY <1>12, RunnerAssumption DEF DockerStep, End
<1>13. CASE SshExit
  BY <1>13, RunnerAssumption DEF SshExit, Signal, End
<1>14. CASE SshKill
  BY <1>14, RunnerAssumption DEF SshKill, KillLeader, End
<1>15. CASE Redact
  BY <1>15, RunnerAssumption DEF Redact, Verdict, Writer
<1>16. CASE ProbeReturns
  BY <1>16, RunnerAssumption DEF ProbeReturns, Verdict, KillLeader, End
<1>17. CASE HttpReturns
  BY <1>17, RunnerAssumption DEF HttpReturns
<1>18. CASE LeaderExits
  BY <1>18, RunnerAssumption DEF LeaderExits
<1>19. CASE HelperStarts
  BY <1>19, RunnerAssumption DEF HelperStarts
<1>20. CASE HelperExits
  BY <1>20, RunnerAssumption DEF HelperExits
<1>21. CASE Output
  BY <1>21, RunnerAssumption DEF Output, Writer
<1>22. CASE RequestCancel
  BY <1>22, RunnerAssumption DEF RequestCancel, Cancelled
<1>23. CASE Tick
  BY <1>23, RunnerAssumption DEF Tick, Waiting
<1>24. CASE UNCHANGED vars
  BY <1>24
<1>25. QED
  BY <1>1, <1>2, <1>3, <1>4, <1>5, <1>6, <1>7, <1>8, <1>9, <1>10, <1>11, <1>12, <1>13,
     <1>14, <1>15, <1>16, <1>17, <1>18, <1>19, <1>20, <1>21, <1>22, <1>23, <1>24
     DEF Next, Thread, Outside

LEMMA ShapeInit == Init => Shape
BY DEF Init, Shape, Loop, Teardown

LEMMA ShapeNext == TInv /\ Shape /\ [Next]_vars => Shape'
<1> SUFFICES ASSUME TInv /\ Shape, [Next]_vars PROVE Shape'
  OBVIOUS
<1> USE DEF Shape, TypeOK, TInv, Polled, Loop, Teardown, Finish, vars, clocks, procs
<1>1. CASE StartRaises
  BY <1>1 DEF StartRaises
<1>2. CASE Spawn
  BY <1>2 DEF Spawn, Popen
<1>3. CASE SpawnProbe
  BY <1>3 DEF SpawnProbe, Popen
<1>4. CASE Request
  BY <1>4 DEF Request
<1>5. CASE Prompt
  BY <1>5 DEF Prompt
<1>6. CASE Poll
  BY <1>6 DEF Poll
<1>7. CASE Beat
  BY <1>7 DEF Beat, BeatDue, DbError
<1>8. CASE CheckRaises
  BY <1>8 DEF CheckRaises, DbError, Writer
<1>9. CASE Check
  BY <1>9 DEF Check, Cancelled, Never
<1>10. CASE TermGroup
  BY <1>10 DEF TermGroup, Signal, End
<1>11. CASE GraceOver
  BY <1>11 DEF GraceOver, KillLeader, End
<1>12. CASE DockerStep
  BY <1>12 DEF DockerStep, End
<1>13. CASE SshExit
  BY <1>13 DEF SshExit, Signal, End
<1>14. CASE SshKill
  BY <1>14 DEF SshKill, KillLeader, End
<1>15. CASE Redact
  BY <1>15 DEF Redact, Verdict, Writer
<1>16. CASE ProbeReturns
  BY <1>16 DEF ProbeReturns, Verdict, KillLeader, End
<1>17. CASE HttpReturns
  BY <1>17 DEF HttpReturns
<1>18. CASE LeaderExits
  BY <1>18 DEF LeaderExits
<1>19. CASE HelperStarts
  BY <1>19 DEF HelperStarts
<1>20. CASE HelperExits
  BY <1>20 DEF HelperExits
<1>21. CASE Output
  BY <1>21 DEF Output, Writer
<1>22. CASE RequestCancel
  BY <1>22 DEF RequestCancel, Cancelled
<1>23. CASE Tick
  BY <1>23 DEF Tick, Waiting
<1>24. CASE UNCHANGED vars
  BY <1>24
<1>25. QED
  BY <1>1, <1>2, <1>3, <1>4, <1>5, <1>6, <1>7, <1>8, <1>9, <1>10, <1>11, <1>12, <1>13,
     <1>14, <1>15, <1>16, <1>17, <1>18, <1>19, <1>20, <1>21, <1>22, <1>23, <1>24
     DEF Next, Thread, Outside

(***************************************************************************)
(* Outcomes                                                                *)
(***************************************************************************)

\* What outcome and result say is true when they are set, and stays true.
Verdicts ==
  /\ "cancelled" \in {outcome, result} => Cancelled
  /\ outcome = "timeout" => now > deadline /\ (Cancelled => cancelAt > deadline)
  /\ result = "timeout" => now >= deadline /\ (job.backend \in Polled /\ Cancelled => cancelAt > deadline)
  /\ outcome = "exit" => ~hit
  /\ pc = "redact" /\ outcome = "exit" => leader = "exited"
  /\ result = "done" /\ job.backend # "ollama" => leader = "exited" /\ code = 0 /\ outcome = "exit"

LEMMA VerdictsInit == Init => Verdicts
BY DEF Init, Verdicts, Cancelled

LEMMA VerdictsNext == TInv /\ Shape /\ Verdicts /\ [Next]_vars => Verdicts'
<1> SUFFICES ASSUME TInv /\ Shape /\ Verdicts, [Next]_vars PROVE Verdicts'
  OBVIOUS
<1> USE DEF Verdicts, Shape, TypeOK, TInv, Polled, Loop, Teardown, Finish, Cancelled, Never, vars, clocks, procs
<1>1. CASE StartRaises
  BY <1>1, RunnerAssumption DEF StartRaises
<1>2. CASE Spawn
  BY <1>2, RunnerAssumption DEF Spawn, Popen
<1>3. CASE SpawnProbe
  BY <1>3, RunnerAssumption DEF SpawnProbe, Popen
<1>4. CASE Request
  BY <1>4, RunnerAssumption DEF Request
<1>5. CASE Prompt
  BY <1>5, RunnerAssumption DEF Prompt
<1>6. CASE Poll
  BY <1>6, RunnerAssumption DEF Poll
<1>7. CASE Beat
  BY <1>7, RunnerAssumption DEF Beat, BeatDue, DbError
<1>8. CASE CheckRaises
  BY <1>8, RunnerAssumption DEF CheckRaises, DbError, Writer
<1>9. CASE Check
  BY <1>9, RunnerAssumption DEF Check, Cancelled, Never
<1>10. CASE TermGroup
  BY <1>10, RunnerAssumption DEF TermGroup, Signal, End
<1>11. CASE GraceOver
  BY <1>11, RunnerAssumption DEF GraceOver, KillLeader, End
<1>12. CASE DockerStep
  BY <1>12, RunnerAssumption DEF DockerStep, End
<1>13. CASE SshExit
  BY <1>13, RunnerAssumption DEF SshExit, Signal, End
<1>14. CASE SshKill
  BY <1>14, RunnerAssumption DEF SshKill, KillLeader, End
<1>15. CASE Redact
  BY <1>15, RunnerAssumption DEF Redact, Verdict, Writer
<1>16. CASE ProbeReturns
  BY <1>16, RunnerAssumption DEF ProbeReturns, Verdict, KillLeader, End
<1>17. CASE HttpReturns
  BY <1>17, RunnerAssumption DEF HttpReturns
<1>18. CASE LeaderExits
  BY <1>18, RunnerAssumption DEF LeaderExits
<1>19. CASE HelperStarts
  BY <1>19, RunnerAssumption DEF HelperStarts
<1>20. CASE HelperExits
  BY <1>20, RunnerAssumption DEF HelperExits
<1>21. CASE Output
  BY <1>21, RunnerAssumption DEF Output, Writer
<1>22. CASE RequestCancel
  BY <1>22, RunnerAssumption DEF RequestCancel, Cancelled
<1>23. CASE Tick
  BY <1>23, RunnerAssumption DEF Tick, Waiting
<1>24. CASE UNCHANGED vars
  BY <1>24
<1>25. QED
  BY <1>1, <1>2, <1>3, <1>4, <1>5, <1>6, <1>7, <1>8, <1>9, <1>10, <1>11, <1>12, <1>13,
     <1>14, <1>15, <1>16, <1>17, <1>18, <1>19, <1>20, <1>21, <1>22, <1>23, <1>24
     DEF Next, Thread, Outside

(***************************************************************************)
(* Time                                                                    *)
(***************************************************************************)

\* The poll that saw the leader gone came within a poll of the cancel, or was
\* the first one.
InTime == Cancelled => now <= cancelAt + 1 \/ now <= deadline - Timeout + 1

\* How late it can be where time passes, and where it cannot.
Punctual ==
  /\ pc = "poll" =>
       /\ now <= wake /\ wake <= now + 1 /\ wake <= deadline + 1
       /\ wake = deadline - Timeout \/ (Cancelled => wake <= cancelAt + 1)
  /\ pc \in {"beat", "check"} => now <= deadline + 1 /\ HeardWithin(0)
  /\ job.backend = "local" =>
       /\ pc = "kill" => now <= deadline + 1 /\ HeardWithin(0)
       /\ pc = "grace" =>
            /\ now <= wake /\ wake <= deadline + 1 + Grace /\ wake <= now + Grace
            /\ Cancelled => wake <= cancelAt + 1 + Grace \/ wake <= deadline - Timeout + Grace
       /\ pc \in {"redact", "over"} => now <= deadline + 1 + Grace /\ HeardWithin(Grace)
  /\ pc = "start" => now = 0
  /\ job.backend = "probe" => now <= deadline
  /\ pc = "redact" /\ outcome = "exit" => InTime
  /\ job.backend \in Polled /\ result \in {"done", "failed"} => InTime

LEMMA PunctualInit == Init => Punctual
BY DEF Init, Punctual

LEMMA PunctualNext == TInv /\ Shape /\ Verdicts /\ Punctual /\ [Next]_vars => Punctual'
<1> SUFFICES ASSUME TInv /\ Shape /\ Verdicts /\ Punctual, [Next]_vars PROVE Punctual'
  OBVIOUS
<1> USE DEF Punctual, InTime, HeardWithin, Shape, TypeOK, TInv, Polled, Loop, Teardown, Finish, Cancelled, Never, vars, clocks, procs
<1>1. CASE StartRaises
  BY <1>1, RunnerAssumption DEF StartRaises
<1>2. CASE Spawn
  BY <1>2, RunnerAssumption DEF Spawn, Popen
<1>3. CASE SpawnProbe
  BY <1>3, RunnerAssumption DEF SpawnProbe, Popen
<1>4. CASE Request
  BY <1>4, RunnerAssumption DEF Request
<1>5. CASE Prompt
  BY <1>5, RunnerAssumption DEF Prompt
<1>6. CASE Poll
  BY <1>6, RunnerAssumption DEF Poll
<1>7. CASE Beat
  BY <1>7, RunnerAssumption DEF Beat, BeatDue, DbError
<1>8. CASE CheckRaises
  BY <1>8, RunnerAssumption DEF CheckRaises, DbError, Writer
<1>9. CASE Check
  BY <1>9, RunnerAssumption DEF Check, Cancelled, Never
<1>10. CASE TermGroup
  BY <1>10, RunnerAssumption DEF TermGroup, Signal, End
<1>11. CASE GraceOver
  BY <1>11, RunnerAssumption DEF GraceOver, KillLeader, End
<1>12. CASE DockerStep
  BY <1>12, RunnerAssumption DEF DockerStep, End
<1>13. CASE SshExit
  BY <1>13, RunnerAssumption DEF SshExit, Signal, End
<1>14. CASE SshKill
  BY <1>14, RunnerAssumption DEF SshKill, KillLeader, End
<1>15. CASE Redact
  BY <1>15, RunnerAssumption DEF Redact, Verdict, Writer
<1>16. CASE ProbeReturns
  BY <1>16, RunnerAssumption DEF ProbeReturns, Verdict, KillLeader, End
<1>17. CASE HttpReturns
  BY <1>17, RunnerAssumption DEF HttpReturns
<1>18. CASE LeaderExits
  BY <1>18, RunnerAssumption DEF LeaderExits
<1>19. CASE HelperStarts
  BY <1>19, RunnerAssumption DEF HelperStarts
<1>20. CASE HelperExits
  BY <1>20, RunnerAssumption DEF HelperExits
<1>21. CASE Output
  BY <1>21, RunnerAssumption DEF Output, Writer
<1>22. CASE RequestCancel
  BY <1>22, RunnerAssumption DEF RequestCancel, Cancelled
<1>23. CASE Tick
  BY <1>23, RunnerAssumption DEF Tick, Waiting
<1>24. CASE UNCHANGED vars
  BY <1>24
<1>25. QED
  BY <1>1, <1>2, <1>3, <1>4, <1>5, <1>6, <1>7, <1>8, <1>9, <1>10, <1>11, <1>12, <1>13,
     <1>14, <1>15, <1>16, <1>17, <1>18, <1>19, <1>20, <1>21, <1>22, <1>23, <1>24
     DEF Next, Thread, Outside

\* A failed renewal costs one interval of the lease.
LEMMA OneIntervalMore == \A e \in Nat : (e + 1) * BeatEvery = e * BeatEvery + BeatEvery
BY RunnerAssumption

\* How far the heartbeats are behind.
Leased ==
  ~job.deaf =>
    /\ pc \in {"start", "stdin"} => now = 0 /\ lease = Lease /\ errors = 0
    /\ pc \in Loop => beat + Lease <= lease + errors * BeatEvery
    /\ pc = "poll" => now <= wake /\ wake <= beat + BeatEvery
    /\ pc = "beat" => now <= beat + BeatEvery
    /\ pc = "check" => now < beat + BeatEvery

LEMMA LeasedInit == Init => Leased
BY DEF Init, Leased, Loop

LEMMA LeasedNext == TInv /\ Shape /\ Leased /\ [Next]_vars => Leased'
<1> SUFFICES ASSUME TInv /\ Shape /\ Leased, [Next]_vars PROVE Leased'
  OBVIOUS
<1> USE DEF Leased, Shape, TypeOK, TInv, Polled, Loop, Teardown, Finish, vars, clocks, procs
<1>1. CASE StartRaises
  BY <1>1, RunnerAssumption DEF StartRaises
<1>2. CASE Spawn
  BY <1>2, RunnerAssumption DEF Spawn, Popen
<1>3. CASE SpawnProbe
  BY <1>3, RunnerAssumption DEF SpawnProbe, Popen
<1>4. CASE Request
  BY <1>4, RunnerAssumption DEF Request
<1>5. CASE Prompt
  BY <1>5, RunnerAssumption DEF Prompt
<1>6. CASE Poll
  BY <1>6, RunnerAssumption DEF Poll
<1>7. CASE Beat
  <2>1. errors * BeatEvery \in Nat /\ (errors + 1) * BeatEvery = errors * BeatEvery + BeatEvery
    BY OneIntervalMore, RunnerAssumption
  <2>2. pc = "beat" /\ pc' = "check" /\ UNCHANGED <<job, now>> /\ now \in Nat /\ beat \in Nat /\ lease \in Nat /\ BeatEvery \in Nat \ {0} /\ Lease \in Nat
    BY <1>7, RunnerAssumption DEF Beat
  <2>3. CASE BeatDue /\ beat' = now /\ lease' = now + Lease /\ UNCHANGED errors
    BY <2>1, <2>2, <2>3
  <2>4. CASE BeatDue /\ beat' = now /\ DbError /\ UNCHANGED lease
    BY <2>1, <2>2, <2>4 DEF DbError
  <2>5. CASE ~BeatDue /\ UNCHANGED <<beat, lease, errors>>
    BY <2>1, <2>2, <2>5 DEF BeatDue
  <2>6. QED
    BY <1>7, <2>3, <2>4, <2>5 DEF Beat
<1>8. CASE CheckRaises
  BY <1>8, RunnerAssumption DEF CheckRaises, DbError, Writer
<1>9. CASE Check
  BY <1>9, RunnerAssumption DEF Check, Cancelled, Never
<1>10. CASE TermGroup
  BY <1>10, RunnerAssumption DEF TermGroup, Signal, End
<1>11. CASE GraceOver
  BY <1>11, RunnerAssumption DEF GraceOver, KillLeader, End
<1>12. CASE DockerStep
  BY <1>12, RunnerAssumption DEF DockerStep, End
<1>13. CASE SshExit
  BY <1>13, RunnerAssumption DEF SshExit, Signal, End
<1>14. CASE SshKill
  BY <1>14, RunnerAssumption DEF SshKill, KillLeader, End
<1>15. CASE Redact
  BY <1>15, RunnerAssumption DEF Redact, Verdict, Writer
<1>16. CASE ProbeReturns
  BY <1>16, RunnerAssumption DEF ProbeReturns, Verdict, KillLeader, End
<1>17. CASE HttpReturns
  BY <1>17, RunnerAssumption DEF HttpReturns
<1>18. CASE LeaderExits
  BY <1>18, RunnerAssumption DEF LeaderExits
<1>19. CASE HelperStarts
  BY <1>19, RunnerAssumption DEF HelperStarts
<1>20. CASE HelperExits
  BY <1>20, RunnerAssumption DEF HelperExits
<1>21. CASE Output
  BY <1>21, RunnerAssumption DEF Output, Writer
<1>22. CASE RequestCancel
  BY <1>22, RunnerAssumption DEF RequestCancel, Cancelled
<1>23. CASE Tick
  BY <1>23, RunnerAssumption DEF Tick, Waiting
<1>24. CASE UNCHANGED vars
  BY <1>24
<1>25. QED
  BY <1>1, <1>2, <1>3, <1>4, <1>5, <1>6, <1>7, <1>8, <1>9, <1>10, <1>11, <1>12, <1>13,
     <1>14, <1>15, <1>16, <1>17, <1>18, <1>19, <1>20, <1>21, <1>22, <1>23, <1>24
     DEF Next, Thread, Outside

(***************************************************************************)
(* Processes and logs                                                      *)
(***************************************************************************)

\* Whom the teardown reached is gone, unless it ignores signals.
Reaped ==
  /\ pc = "redact" /\ outcome # "exit" /\ job.backend \in {"local", "ssh"} => leader = "exited"
  /\ result \in {"cancelled", "timeout"} /\ job.backend \in {"local", "ssh", "probe"} => leader = "exited"
  /\ job.backend = "local" /\ hit /\ job.stubborn = {} => leader = "exited" /\ helper # "running"

LEMMA ReapedInit == Init => Reaped
BY DEF Init, Reaped

LEMMA ReapedNext == TInv /\ Shape /\ Reaped /\ [Next]_vars => Reaped'
<1> SUFFICES ASSUME TInv /\ Shape /\ Reaped, [Next]_vars PROVE Reaped'
  OBVIOUS
<1> USE DEF Reaped, Shape, TypeOK, TInv, Polled, Loop, Teardown, Finish, vars, clocks, procs
<1>1. CASE StartRaises
  BY <1>1 DEF StartRaises
<1>2. CASE Spawn
  BY <1>2 DEF Spawn, Popen
<1>3. CASE SpawnProbe
  BY <1>3 DEF SpawnProbe, Popen
<1>4. CASE Request
  BY <1>4 DEF Request
<1>5. CASE Prompt
  BY <1>5 DEF Prompt
<1>6. CASE Poll
  BY <1>6 DEF Poll
<1>7. CASE Beat
  BY <1>7 DEF Beat, BeatDue, DbError
<1>8. CASE CheckRaises
  BY <1>8 DEF CheckRaises, DbError, Writer
<1>9. CASE Check
  BY <1>9 DEF Check, Cancelled, Never
<1>10. CASE TermGroup
  BY <1>10 DEF TermGroup, Signal, End
<1>11. CASE GraceOver
  BY <1>11 DEF GraceOver, KillLeader, End
<1>12. CASE DockerStep
  BY <1>12 DEF DockerStep, End
<1>13. CASE SshExit
  BY <1>13 DEF SshExit, Signal, End
<1>14. CASE SshKill
  BY <1>14 DEF SshKill, KillLeader, End
<1>15. CASE Redact
  BY <1>15 DEF Redact, Verdict, Writer
<1>16. CASE ProbeReturns
  BY <1>16 DEF ProbeReturns, Verdict, KillLeader, End
<1>17. CASE HttpReturns
  BY <1>17 DEF HttpReturns
<1>18. CASE LeaderExits
  BY <1>18 DEF LeaderExits
<1>19. CASE HelperStarts
  BY <1>19 DEF HelperStarts
<1>20. CASE HelperExits
  BY <1>20 DEF HelperExits
<1>21. CASE Output
  BY <1>21 DEF Output, Writer
<1>22. CASE RequestCancel
  BY <1>22 DEF RequestCancel, Cancelled
<1>23. CASE Tick
  BY <1>23 DEF Tick, Waiting
<1>24. CASE UNCHANGED vars
  BY <1>24
<1>25. QED
  BY <1>1, <1>2, <1>3, <1>4, <1>5, <1>6, <1>7, <1>8, <1>9, <1>10, <1>11, <1>12, <1>13,
     <1>14, <1>15, <1>16, <1>17, <1>18, <1>19, <1>20, <1>21, <1>22, <1>23, <1>24
     DEF Next, Thread, Outside

\* Who can still write once the attempt is over, and what is still raw.
Closed == pc = "over" /\ (logs = "raw" \/ Writer) => Unredactable

LEMMA ClosedInit == Init => Closed
BY DEF Init, Closed

LEMMA ClosedNext == TInv /\ Shape /\ Verdicts /\ Reaped /\ Closed /\ [Next]_vars => Closed'
<1> SUFFICES ASSUME TInv /\ Shape /\ Verdicts /\ Reaped /\ Closed, [Next]_vars PROVE Closed'
  OBVIOUS
<1> USE DEF Closed, Unredactable, Verdicts, Reaped, Writer, Shape, TypeOK, TInv, Polled, Loop, Teardown, Finish, vars, clocks, procs
<1>1. CASE StartRaises
  BY <1>1 DEF StartRaises
<1>2. CASE Spawn
  BY <1>2 DEF Spawn, Popen
<1>3. CASE SpawnProbe
  BY <1>3 DEF SpawnProbe, Popen
<1>4. CASE Request
  BY <1>4 DEF Request
<1>5. CASE Prompt
  BY <1>5 DEF Prompt
<1>6. CASE Poll
  BY <1>6 DEF Poll
<1>7. CASE Beat
  BY <1>7 DEF Beat, BeatDue, DbError
<1>8. CASE CheckRaises
  BY <1>8 DEF CheckRaises, DbError, Writer
<1>9. CASE Check
  BY <1>9 DEF Check, Cancelled, Never
<1>10. CASE TermGroup
  BY <1>10 DEF TermGroup, Signal, End
<1>11. CASE GraceOver
  BY <1>11 DEF GraceOver, KillLeader, End
<1>12. CASE DockerStep
  BY <1>12 DEF DockerStep, End
<1>13. CASE SshExit
  BY <1>13 DEF SshExit, Signal, End
<1>14. CASE SshKill
  BY <1>14 DEF SshKill, KillLeader, End
<1>15. CASE Redact
  BY <1>15 DEF Redact, Verdict, Writer
<1>16. CASE ProbeReturns
  BY <1>16 DEF ProbeReturns, Verdict, KillLeader, End
<1>17. CASE HttpReturns
  BY <1>17 DEF HttpReturns
<1>18. CASE LeaderExits
  BY <1>18 DEF LeaderExits
<1>19. CASE HelperStarts
  BY <1>19 DEF HelperStarts
<1>20. CASE HelperExits
  BY <1>20 DEF HelperExits
<1>21. CASE Output
  BY <1>21 DEF Output, Writer
<1>22. CASE RequestCancel
  BY <1>22 DEF RequestCancel, Cancelled
<1>23. CASE Tick
  BY <1>23 DEF Tick, Waiting
<1>24. CASE UNCHANGED vars
  BY <1>24
<1>25. QED
  BY <1>1, <1>2, <1>3, <1>4, <1>5, <1>6, <1>7, <1>8, <1>9, <1>10, <1>11, <1>12, <1>13,
     <1>14, <1>15, <1>16, <1>17, <1>18, <1>19, <1>20, <1>21, <1>22, <1>23, <1>24
     DEF Next, Thread, Outside

\* Nothing happens to a result.
LEMMA ReturnsOnce ==
  ASSUME [Next]_vars
  PROVE  result' = result \/ (pc # "over" /\ cancelAt' = cancelAt)
BY DEF Next, Thread, Outside, StartRaises, Spawn, SpawnProbe, Request, Prompt, Poll, Beat, CheckRaises, Check,
       TermGroup, GraceOver, DockerStep, SshExit, SshKill, Redact, ProbeReturns, HttpReturns,
       LeaderExits, HelperStarts, HelperExits, Output, RequestCancel, Tick, Finish, Popen, Loop, vars

(***************************************************************************)
(* Theorems                                                                *)
(***************************************************************************)

IInv == TInv /\ Shape /\ Verdicts /\ Punctual /\ Leased /\ Reaped /\ Closed

THEOREM Inductive == Spec => []IInv
<1>1. Init => IInv
  BY TypeInit, ShapeInit, VerdictsInit, PunctualInit, LeasedInit, ReapedInit, ClosedInit DEF IInv
<1>2. IInv /\ [Next]_vars => IInv'
  BY TypeNext, ShapeNext, VerdictsNext, PunctualNext, LeasedNext, ReapedNext, ClosedNext DEF IInv
<1>3. QED
  BY <1>1, <1>2, PTL DEF Spec

\* Variables keep their types.
THEOREM TypeCorrect == Spec => []TypeOK
<1>1. IInv => TypeOK
  BY DEF IInv, TInv
<1>2. QED
  BY <1>1, Inductive, PTL

\* Results say what happened, and a cancel or a deadline that came first counts.
THEOREM OutcomeTheorem == Spec => []OutcomeHonest
<1>1. IInv => OutcomeHonest
  <2> SUFFICES ASSUME IInv PROVE OutcomeHonest
    OBVIOUS
  <2>1. result = "done" /\ job.backend # "ollama" => leader = "exited" /\ code = 0 /\ outcome = "exit" /\ ~hit
    BY DEF IInv, Verdicts
  <2>2. result = "timeout" => now >= deadline
    BY DEF IInv, Verdicts
  <2>3. CancelHeard
    BY DEF IInv, Verdicts, Punctual, InTime, CancelHeard
  <2>4. QED
    BY <2>1, <2>2, <2>3 DEF OutcomeHonest
<1>2. QED
  BY <1>1, Inductive, PTL

\* The loop of every runtime notices the deadline and a cancel within a poll,
\* and the end of a local attempt comes within a grace period of that.
THEOREM TimeTheorem == Spec => []EndsInTime
<1>1. IInv => EndsInTime
  <2> SUFFICES ASSUME IInv PROVE EndsInTime
    OBVIOUS
  <2>1. /\ now \in Nat /\ wake \in Nat /\ deadline \in Nat /\ Grace \in Nat /\ Timeout \in Nat
        /\ cancelAt \in Nat /\ (pc = "start" => now = 0)
    BY RunnerAssumption DEF IInv, TInv, TypeOK, Punctual, Never
  <2>2. pc \in Loop => now <= deadline + 1 /\ HeardWithin(0)
    BY <2>1 DEF IInv, Punctual, Loop, HeardWithin
  <2>3. job.backend = "local" /\ pc # "stdin" => now <= deadline + 1 + Grace /\ HeardWithin(Grace)
    <3> SUFFICES ASSUME job.backend = "local", pc # "stdin"
                 PROVE  now <= deadline + 1 + Grace /\ HeardWithin(Grace)
      OBVIOUS
    <3>1. pc \in Loop \cup {"start", "kill", "grace", "redact", "over"}
      BY DEF IInv, TInv, TypeOK, Steps, Shape, Polled
    <3>2. CASE pc \in Loop
      BY <2>1, <2>2, <3>2 DEF HeardWithin
    <3>3. CASE pc = "start"
      BY <2>1, <3>3 DEF HeardWithin
    <3>4. CASE pc \in {"kill", "grace"}
      BY <2>1, <3>4 DEF IInv, Punctual, HeardWithin
    <3>5. CASE pc \in {"redact", "over"}
      BY <3>5 DEF IInv, Punctual
    <3>6. QED
      BY <3>1, <3>2, <3>3, <3>4, <3>5
  <2>4. job.backend = "probe" => now <= deadline
    BY DEF IInv, Punctual
  <2>5. QED
    BY <2>2, <2>3, <2>4 DEF EndsInTime
<1>2. QED
  BY <1>1, Inductive, PTL

\* The heartbeats of the poll loop keep the row leased.
THEOREM LeaseTheorem == Spec => []LeaseHolds
<1>1. IInv => LeaseHolds
  <2> SUFFICES ASSUME IInv, pc \in Loop, ~job.deaf, Lease > (errors + 1) * BeatEvery
               PROVE  now < lease
    BY DEF LeaseHolds
  <2>1. now \in Nat /\ wake \in Nat /\ beat \in Nat /\ lease \in Nat /\ Lease \in Nat /\ BeatEvery \in Nat
    BY RunnerAssumption DEF IInv, TInv, TypeOK
  <2>2. errors * BeatEvery \in Nat /\ (errors + 1) * BeatEvery = errors * BeatEvery + BeatEvery
    BY OneIntervalMore, RunnerAssumption DEF IInv, TInv, TypeOK
  <2>3. beat + Lease <= lease + errors * BeatEvery /\ now <= beat + BeatEvery
    BY <2>1 DEF IInv, Leased, Loop
  <2>4. QED
    BY <2>1, <2>2, <2>3
<1>2. QED
  BY <1>1, Inductive, PTL

\* A stopped attempt leaves no leader, and no descendant that honours SIGTERM.
THEOREM TreeTheorem == Spec => []KilledTree
<1>1. IInv => KilledTree
  BY DEF IInv, Reaped, KilledTree
<1>2. QED
  BY <1>1, Inductive, PTL

\* Logs are redacted when an attempt returned, but for stray writers.
THEOREM RedactTheorem == Spec => []RawOnlyFromStray
<1>1. IInv => RawOnlyFromStray
  BY DEF IInv, Closed, RawOnlyFromStray
<1>2. QED
  BY <1>1, Inductive, PTL

\* The runner keeps the contract of an attempt: one result, and cancelled only
\* if somebody asked.
THEOREM Refinement == Spec => ImplementsAttempt
<1> USE DEF Contract!Init, Contract!Next, Contract!RequestCancel, Contract!Return, Contract!Results
<1>1. Init => Contract!Init
  BY DEF Init, Cancelled
<1>2. IInv /\ IInv' /\ [Next]_vars => [Contract!Next]_<<result, Cancelled>>
  <2> SUFFICES ASSUME IInv, IInv', [Next]_vars
               PROVE  [Contract!Next]_<<result, Cancelled>>
    OBVIOUS
  <2>1. CASE RequestCancel
    BY <2>1 DEF RequestCancel, Cancelled, IInv, TInv, TypeOK, Never
  <2>2. CASE UNCHANGED <<result, cancelAt>>
    BY <2>2 DEF Cancelled
  <2>3. CASE result' # result /\ pc # "over" /\ cancelAt' = cancelAt
    <3>1. result = "none"
      BY <2>3 DEF IInv, Shape
    <3>2. QED
      BY <2>3, <3>1 DEF IInv, TInv, TypeOK, Verdicts, Cancelled
  <2>4. result' = result \/ (pc # "over" /\ cancelAt' = cancelAt)
    BY ReturnsOnce
  <2>5. RequestCancel \/ cancelAt' = cancelAt
    BY DEF Next, Thread, Outside, StartRaises, Spawn, SpawnProbe, Request, Prompt, Poll, Beat, CheckRaises, Check,
       TermGroup, GraceOver, DockerStep, SshExit, SshKill, Redact, ProbeReturns, HttpReturns,
       LeaderExits, HelperStarts, HelperExits, Output, RequestCancel, Tick, vars, clocks
  <2>6. QED
    BY <2>1, <2>2, <2>3, <2>4, <2>5
<1>3. QED
  BY <1>1, <1>2, Inductive, PTL DEF Spec, ImplementsAttempt, Contract!Spec
=============================================================================
