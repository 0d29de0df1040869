---------------------------- MODULE AcpRunProofs ----------------------------
(***************************************************************************)
(* Theorems about AcpRun, for any timeout, heartbeat interval, lease and   *)
(* number of messages and database errors.                                 *)
(***************************************************************************)
EXTENDS AcpRun, TLAPS

(***************************************************************************)
(* Texts under way                                                         *)
(***************************************************************************)

\* A message less and a message more.
LEMMA TakeType ==
  ASSUME NEW s \in Seq(Messages), s # <<>>
  PROVE  /\ Head(s) = s[1] /\ Head(s) \in Messages /\ Tail(s) \in Seq(Messages)
         /\ Len(s) \in Nat \ {0} /\ Len(Tail(s)) = Len(s) - 1
         /\ \A i \in 1..Len(Tail(s)) : Tail(s)[i] = s[i + 1]
OBVIOUS

LEMMA SayType ==
  ASSUME NEW s \in Seq(Messages), NEW m \in Messages
  PROVE  /\ Append(s, m) \in Seq(Messages) /\ Len(s) \in Nat /\ Len(Append(s, m)) = Len(s) + 1
         /\ Append(s, m)[Len(s) + 1] = m
         /\ \A i \in 1..Len(s) : Append(s, m)[i] = s[i]
OBVIOUS

LEMMA TextInit == Init => TextOK
BY AcpAssumption DEF Init, TextOK, NoHandlers, Numbers

LEMMA NumbersAreNat ==
  /\ Numbers \subseteq Nat \ {0}
  /\ TextOK => before \in Nat /\ chunks \in Nat /\ \A n \in 1..before : n \in Numbers
<1>1. MaxMessages \in Nat
  BY AcpAssumption
<1>2. QED
  BY <1>1 DEF TextOK, Numbers

LEMMA RoundType ==
  TextOK /\ Round => handlers' \in [Numbers -> 0..HandlerRounds] /\ got' \subseteq Numbers
<1> SUFFICES ASSUME TextOK, Round
             PROVE  handlers' \in [Numbers -> 0..HandlerRounds] /\ got' \subseteq Numbers
  OBVIOUS
<1>1. \A r \in 0..HandlerRounds : r # 0 => r - 1 \in 0..HandlerRounds
  BY AcpAssumption
<1>2. QED
  BY <1>1, AcpAssumption DEF Round, TextOK

\* What the agent says, and with which number.
LEMMA AgentSays ==
  ASSUME TextOK, Agent
  PROVE  /\ \E m \in Messages : Say(m.is, m.nr) /\ inbox' = Append(inbox, m)
         /\ chunks' \in {0} \cup Numbers /\ before' \in {0} \cup Numbers /\ before' <= chunks' /\ asks' \in Nat
         /\ UNCHANGED <<handlers, got, quiet, yields>>
<1>1. CASE AgentAnswers
  <2>1. PICK k \in Answers \cup {"ok"} : Say(k, 0)
    BY <1>1 DEF AgentAnswers, Answers
  <2>2. [is |-> k, nr |-> 0] \in Messages
    BY DEF Messages
  <2>3. QED
    BY <1>1, <2>1, <2>2 DEF AgentAnswers, Say, TextOK, text, drain
<1>2. CASE AgentStreams
  <2>1. chunks + 1 \in Numbers
    BY <1>2, AcpAssumption DEF AgentStreams, TextOK, Numbers
  <2>2. [is |-> "chunk", nr |-> chunks + 1] \in Messages
    BY <2>1 DEF Messages
  <2>3. before' \in {0} \cup Numbers /\ before' <= chunks'
    <3>1. before \in Nat /\ chunks \in Nat /\ before <= chunks /\ before \in {0} \cup Numbers
      BY NumbersAreNat DEF TextOK
    <3>2. before + 1 \in Numbers
      <4>1. MaxMessages \in Nat
        BY AcpAssumption
      <4>2. QED
        BY <2>1, <3>1, <4>1 DEF Numbers
    <3>3. QED
      BY <1>2, <3>1, <3>2 DEF AgentStreams
  <2>4. QED
    BY <1>2, <2>1, <2>2, <2>3 DEF AgentStreams, Say, TextOK, text, drain
<1>3. CASE AgentAsks
  <2>1. [is |-> "ask", nr |-> 0] \in Messages
    BY DEF Messages
  <2>2. QED
    BY <1>3, <2>1 DEF AgentAsks, Say, TextOK, text, drain
<1>4. QED
  BY <1>1, <1>2, <1>3 DEF Agent

LEMMA TextNext == TextOK /\ [Next]_vars => TextOK'
<1> SUFFICES ASSUME TextOK, [Next]_vars PROVE TextOK'
  OBVIOUS
<1>1. CASE Take /\ UNCHANGED <<handlers, got, before, chunks, asks, quiet, yields>>
  BY <1>1, TakeType DEF Take, TextOK
<1>2. CASE ReadChunk
  <2>1. inbox' \in Seq(Messages)
    BY <1>2, TakeType DEF ReadChunk, Take, TextOK
  <2>2. handlers' \in [Numbers -> 0..HandlerRounds]
    <3>1. PICK r \in 1..HandlerRounds : handlers' = [handlers EXCEPT ![Head(inbox).nr] = r]
      BY <1>2 DEF ReadChunk
    <3>2. r \in 0..HandlerRounds
      BY AcpAssumption
    <3>3. QED
      BY <3>1, <3>2 DEF TextOK
  <2>3. QED
    BY <1>2, <2>1, <2>2 DEF ReadChunk, TextOK, drain
<1>3. CASE HandlersRun
  BY <1>3, RoundType DEF HandlersRun, TextOK, agent, drain
<1>4. CASE Drain
  BY <1>4, RoundType DEF Drain, TextOK, agent
<1>5. CASE Agent
  <2>1. PICK m \in Messages : inbox' = Append(inbox, m)
    BY <1>5, AgentSays
  <2>2. inbox' \in Seq(Messages)
    BY <2>1, SayType DEF TextOK
  <2>3. QED
    BY <1>5, <2>2, AgentSays DEF TextOK
<1>6. CASE UNCHANGED <<inbox, handlers, got, before, chunks, asks, quiet, yields>>
  BY <1>6 DEF TextOK
<1>7. QED
  BY <1>1, <1>2, <1>3, <1>4, <1>5, <1>6
     DEF Next, Main, Client, Watchers, Refuse, Spawn, Initialized, Opened, Awaited, Cleanup, Leave,
         Expire, ReadAsk, ReadAnswer, WatcherChecks, WatcherWakes, Heartbeat, WatcherAborts,
         RequestCancel, Tick, vars, agent, text, drain

(***************************************************************************)
(* Types                                                                   *)
(***************************************************************************)

LEMMA TypeInit == Init => TypeOK
<1> SUFFICES ASSUME Init PROVE TypeOK
  OBVIOUS
<1>1. /\ now \in 0..Timeout /\ cancelAt \in 0..Never /\ errors \in 0..MaxErrors
      /\ opened \in Nat /\ wake \in Nat /\ beat \in Nat /\ lease \in Nat
  BY AcpAssumption DEF Init, Never
<1>2. QED
  BY <1>1, TextInit DEF Init, TypeOK

(***************************************************************************)
(* Phases                                                                  *)
(***************************************************************************)

\* What has been decided and who runs, by phase.
Shape ==
  /\ main = "over" <=> result # "none"
  /\ main \in {"start", "initialize", "session"} =>
       task = "none" /\ watcher = "none" /\ ~flag /\ ~stop /\ verdict = "open"
  /\ main \in {"prompt", "drain"} => verdict = "open" /\ task # "none" /\ watcher # "none"
  /\ main = "drain" => task \in StopReasons
  /\ main = "cleanup" =>
       /\ verdict # "done" /\ watcher # "none"
       /\ verdict = "open" => task \in StopReasons
  /\ main = "leave" => verdict # "open"
  /\ main \in {"leave", "over"} => watcher \in {"none", "ended"} /\ task # "waiting"

LEMMA ShapeInit == Init => Shape
BY DEF Init, Shape

LEMMA TypeNext == TypeOK /\ Shape /\ [Next]_vars => TypeOK'
<1> SUFFICES ASSUME TypeOK /\ Shape, [Next]_vars PROVE TypeOK'
  OBVIOUS
<1>0. TextOK'
  BY TextNext DEF TypeOK
<1> USE DEF TypeOK, Shape, Never, StopReasons, Answers, vars, agent, text, drain, clocks
<1>1. CASE Refuse
  BY <1>0, <1>1, AcpAssumption DEF Refuse
<1>2. CASE Spawn
  BY <1>0, <1>2, AcpAssumption DEF Spawn
<1>3. CASE Initialized
  BY <1>0, <1>3, AcpAssumption DEF Initialized
<1>4. CASE Opened
  BY <1>0, <1>4, AcpAssumption DEF Opened
<1>5. CASE Awaited
  BY <1>0, <1>5, AcpAssumption DEF Awaited, StopReasons
<1>6. CASE Drain
  BY <1>0, <1>6, AcpAssumption DEF Drain, Quiescent
<1>7. CASE Cleanup
  BY <1>0, <1>7, AcpAssumption DEF Cleanup, Returned
<1>8. CASE Leave
  BY <1>0, <1>8, AcpAssumption DEF Leave
<1>9. CASE Expire
  BY <1>0, <1>9, AcpAssumption DEF Expire, Late
<1>10. CASE ReadChunk
  BY <1>0, <1>10, AcpAssumption DEF ReadChunk
<1>11. CASE ReadAsk
  BY <1>0, <1>11, AcpAssumption DEF ReadAsk
<1>12. CASE ReadAnswer
  BY <1>0, <1>12, AcpAssumption DEF ReadAnswer, Listening
<1>13. CASE HandlersRun
  BY <1>0, <1>13, AcpAssumption DEF HandlersRun
<1>14. CASE WatcherChecks
  <2>1. wake' \in Nat
    BY <1>14 DEF WatcherChecks
  <2>2. errors' \in 0..MaxErrors
    BY <1>0, <1>14, AcpAssumption DEF WatcherChecks, DbError
  <2>3. QED
    BY <1>0, <1>14, <2>1, <2>2 DEF WatcherChecks
<1>15. CASE WatcherWakes
  BY <1>0, <1>15, AcpAssumption DEF WatcherWakes
<1>16. CASE Heartbeat
  BY <1>0, <1>16, AcpAssumption DEF Heartbeat, BeatDue, Listening, DbError
<1>17. CASE WatcherAborts
  BY <1>0, <1>17, AcpAssumption DEF WatcherAborts
<1>18. CASE AgentAnswers
  BY <1>0, <1>18, AcpAssumption DEF AgentAnswers
<1>19. CASE AgentStreams
  BY <1>0, <1>19, AcpAssumption DEF AgentStreams
<1>20. CASE AgentAsks
  BY <1>0, <1>20, AcpAssumption DEF AgentAsks
<1>21. CASE RequestCancel
  BY <1>0, <1>21, AcpAssumption DEF RequestCancel, Cancelled
<1>22. CASE Tick
  BY <1>0, <1>22, AcpAssumption DEF Tick, Idle, Late, BeatDue, Listening
<1>23. CASE UNCHANGED vars
  BY <1>0, <1>23
<1>24. QED
  BY <1>1, <1>2, <1>3, <1>4, <1>5, <1>6, <1>7, <1>8, <1>9, <1>10, <1>11, <1>12, <1>13,
     <1>14, <1>15, <1>16, <1>17, <1>18, <1>19, <1>20, <1>21, <1>22, <1>23
     DEF Next, Main, Client, Watchers, Agent

LEMMA ShapeNext == TypeOK /\ Shape /\ [Next]_vars => Shape'
<1> SUFFICES ASSUME TypeOK /\ Shape, [Next]_vars PROVE Shape'
  OBVIOUS
<1> USE DEF Shape, TypeOK, StopReasons, Answers, vars, agent, text, drain, clocks
<1>1. CASE Refuse
  BY <1>1 DEF Refuse
<1>2. CASE Spawn
  BY <1>2 DEF Spawn
<1>3. CASE Initialized
  BY <1>3 DEF Initialized
<1>4. CASE Opened
  BY <1>4 DEF Opened
<1>5. CASE Awaited
  BY <1>5 DEF Awaited, StopReasons
<1>6. CASE Drain
  BY <1>6 DEF Drain, Quiescent
<1>7. CASE Cleanup
  BY <1>7 DEF Cleanup, Returned
<1>8. CASE Leave
  BY <1>8 DEF Leave
<1>9. CASE Expire
  BY <1>9 DEF Expire, Late
<1>10. CASE ReadChunk
  BY <1>10 DEF ReadChunk
<1>11. CASE ReadAsk
  BY <1>11 DEF ReadAsk
<1>12. CASE ReadAnswer
  BY <1>12 DEF ReadAnswer, Listening
<1>13. CASE HandlersRun
  BY <1>13 DEF HandlersRun
<1>14. CASE WatcherChecks
  BY <1>14 DEF WatcherChecks, Cancelled, DbError
<1>15. CASE WatcherWakes
  BY <1>15 DEF WatcherWakes
<1>16. CASE Heartbeat
  BY <1>16 DEF Heartbeat, BeatDue, Listening, DbError
<1>17. CASE WatcherAborts
  BY <1>17 DEF WatcherAborts
<1>18. CASE AgentAnswers
  BY <1>18 DEF AgentAnswers
<1>19. CASE AgentStreams
  BY <1>19 DEF AgentStreams
<1>20. CASE AgentAsks
  BY <1>20 DEF AgentAsks
<1>21. CASE RequestCancel
  BY <1>21 DEF RequestCancel, Cancelled
<1>22. CASE Tick
  BY <1>22 DEF Tick, Idle, Late, BeatDue, Listening
<1>23. CASE UNCHANGED vars
  BY <1>23
<1>24. QED
  BY <1>1, <1>2, <1>3, <1>4, <1>5, <1>6, <1>7, <1>8, <1>9, <1>10, <1>11, <1>12, <1>13,
     <1>14, <1>15, <1>16, <1>17, <1>18, <1>19, <1>20, <1>21, <1>22, <1>23
     DEF Next, Main, Client, Watchers, Agent

(***************************************************************************)
(* Cancels                                                                 *)
(***************************************************************************)

\* Who has heard of the cancel, and what comes of it.
Heard ==
  /\ flag => stop
  /\ watcher = "notify" => flag
  /\ main = "prompt" /\ task = "aborted" => flag
  /\ main \in {"prompt", "drain", "cleanup"} /\ ~flag => watcher \in {"check", "asleep"} /\ ~stop
  /\ verdict = "timeout" => Late
  /\ main = "cleanup" /\ verdict = "failed" => task = "error"
  /\ main \in {"leave", "over"} /\ flag =>
       \/ verdict = "cancelled"
       \/ verdict = "failed" /\ task = "error"
       \/ verdict = "timeout"
  /\ result \in {"none", "crash", "unavailable"} \/ result = verdict
  /\ result \in {"crash", "unavailable"} => ~flag

LEMMA HeardInit == Init => Heard
BY DEF Init, Heard

LEMMA HeardNext == TypeOK /\ Shape /\ Heard /\ [Next]_vars => Heard'
<1> SUFFICES ASSUME TypeOK /\ Shape /\ Heard, [Next]_vars PROVE Heard'
  OBVIOUS
<1> USE DEF Heard, Shape, TypeOK, StopReasons, Answers, Late, vars, agent, text, drain, clocks
<1>1. CASE Refuse
  BY <1>1 DEF Refuse
<1>2. CASE Spawn
  BY <1>2 DEF Spawn
<1>3. CASE Initialized
  BY <1>3 DEF Initialized
<1>4. CASE Opened
  BY <1>4 DEF Opened
<1>5. CASE Awaited
  BY <1>5 DEF Awaited, StopReasons
<1>6. CASE Drain
  BY <1>6 DEF Drain, Quiescent
<1>7. CASE Cleanup
  BY <1>7 DEF Cleanup, Returned
<1>8. CASE Leave
  BY <1>8 DEF Leave
<1>9. CASE Expire
  BY <1>9 DEF Expire, Late
<1>10. CASE ReadChunk
  BY <1>10 DEF ReadChunk
<1>11. CASE ReadAsk
  BY <1>11 DEF ReadAsk
<1>12. CASE ReadAnswer
  BY <1>12 DEF ReadAnswer, Listening
<1>13. CASE HandlersRun
  BY <1>13 DEF HandlersRun
<1>14. CASE WatcherChecks
  BY <1>14 DEF WatcherChecks, Cancelled, DbError
<1>15. CASE WatcherWakes
  BY <1>15 DEF WatcherWakes
<1>16. CASE Heartbeat
  BY <1>16 DEF Heartbeat, BeatDue, Listening, DbError
<1>17. CASE WatcherAborts
  BY <1>17 DEF WatcherAborts
<1>18. CASE AgentAnswers
  BY <1>18 DEF AgentAnswers
<1>19. CASE AgentStreams
  BY <1>19 DEF AgentStreams
<1>20. CASE AgentAsks
  BY <1>20 DEF AgentAsks
<1>21. CASE RequestCancel
  BY <1>21 DEF RequestCancel, Cancelled
<1>22. CASE Tick
  BY <1>22 DEF Tick, Idle, Late, BeatDue, Listening
<1>23. CASE UNCHANGED vars
  BY <1>23
<1>24. QED
  BY <1>1, <1>2, <1>3, <1>4, <1>5, <1>6, <1>7, <1>8, <1>9, <1>10, <1>11, <1>12, <1>13,
     <1>14, <1>15, <1>16, <1>17, <1>18, <1>19, <1>20, <1>21, <1>22, <1>23
     DEF Next, Main, Client, Watchers, Agent

\* No later than a second after the cancel, but for the checks that failed, or
\* than the prompt, for a cancel during the handshake.
By(t) == t <= cancelAt + 1 + errors \/ t <= opened + errors

\* When the watcher looks next.
Timely ==
  main \in {"prompt", "drain", "cleanup"} /\ ~flag =>
    /\ watcher = "check" => (Cancelled => By(now))
    /\ watcher = "asleep" => now <= wake /\ wake <= now + 1 /\ (Cancelled => By(wake))

LEMMA TimelyInit == Init => Timely
BY DEF Init, Timely

LEMMA TimelyNext == TypeOK /\ Shape /\ Heard /\ Timely /\ [Next]_vars => Timely'
<1> SUFFICES ASSUME TypeOK /\ Shape /\ Heard /\ Timely, [Next]_vars PROVE Timely'
  OBVIOUS
<1> USE DEF Timely, By, Heard, Shape, TypeOK, StopReasons, Answers, Cancelled, Never, vars, agent, text, drain, clocks
<1>1. CASE Refuse
  BY <1>1, AcpAssumption DEF Refuse
<1>2. CASE Spawn
  BY <1>2, AcpAssumption DEF Spawn
<1>3. CASE Initialized
  BY <1>3, AcpAssumption DEF Initialized
<1>4. CASE Opened
  BY <1>4, AcpAssumption DEF Opened
<1>5. CASE Awaited
  BY <1>5, AcpAssumption DEF Awaited, StopReasons
<1>6. CASE Drain
  BY <1>6, AcpAssumption DEF Drain, Quiescent
<1>7. CASE Cleanup
  BY <1>7, AcpAssumption DEF Cleanup, Returned
<1>8. CASE Leave
  BY <1>8, AcpAssumption DEF Leave
<1>9. CASE Expire
  BY <1>9, AcpAssumption DEF Expire, Late
<1>10. CASE ReadChunk
  BY <1>10, AcpAssumption DEF ReadChunk
<1>11. CASE ReadAsk
  BY <1>11, AcpAssumption DEF ReadAsk
<1>12. CASE ReadAnswer
  BY <1>12, AcpAssumption DEF ReadAnswer, Listening
<1>13. CASE HandlersRun
  BY <1>13, AcpAssumption DEF HandlersRun
<1>14. CASE WatcherChecks
  BY <1>14, AcpAssumption DEF WatcherChecks, Cancelled, DbError
<1>15. CASE WatcherWakes
  BY <1>15, AcpAssumption DEF WatcherWakes
<1>16. CASE Heartbeat
  BY <1>16, AcpAssumption DEF Heartbeat, BeatDue, Listening, DbError
<1>17. CASE WatcherAborts
  BY <1>17, AcpAssumption DEF WatcherAborts
<1>18. CASE AgentAnswers
  BY <1>18, AcpAssumption DEF AgentAnswers
<1>19. CASE AgentStreams
  BY <1>19, AcpAssumption DEF AgentStreams
<1>20. CASE AgentAsks
  BY <1>20, AcpAssumption DEF AgentAsks
<1>21. CASE RequestCancel
  BY <1>21, AcpAssumption DEF RequestCancel, Cancelled
<1>22. CASE Tick
  BY <1>22, AcpAssumption DEF Tick, Idle, Late, BeatDue, Listening
<1>23. CASE UNCHANGED vars
  BY <1>23
<1>24. QED
  BY <1>1, <1>2, <1>3, <1>4, <1>5, <1>6, <1>7, <1>8, <1>9, <1>10, <1>11, <1>12, <1>13,
     <1>14, <1>15, <1>16, <1>17, <1>18, <1>19, <1>20, <1>21, <1>22, <1>23
     DEF Next, Main, Client, Watchers, Agent

(***************************************************************************)
(* Heartbeats                                                              *)
(***************************************************************************)

\* A failed renewal costs one interval of the lease.
LEMMA OneIntervalMore ==
  \A e \in Nat : e * BeatEvery \in Nat /\ (e + 1) * BeatEvery = e * BeatEvery + BeatEvery
BY AcpAssumption

\* How far the heartbeats are behind.
Leased ==
  /\ main \in {"start", "initialize", "session"} => lease = Lease
  /\ main \in {"prompt", "drain"} /\ ~stop =>
       /\ now <= beat + BeatEvery
       /\ beat + Lease <= lease + opened + errors * BeatEvery

LEMMA LeasedInit == Init => Leased
BY DEF Init, Leased

LEMMA LeasedNext == TypeOK /\ Shape /\ Leased /\ [Next]_vars => Leased'
<1> SUFFICES ASSUME TypeOK /\ Shape /\ Leased, [Next]_vars PROVE Leased'
  OBVIOUS
<1> USE DEF Leased, Shape, TypeOK, StopReasons, Answers, vars, agent, text, drain, clocks
<1>1. CASE Refuse
  BY <1>1, AcpAssumption DEF Refuse
<1>2. CASE Spawn
  BY <1>2, AcpAssumption DEF Spawn
<1>3. CASE Initialized
  BY <1>3, AcpAssumption DEF Initialized
<1>4. CASE Opened
  <2>1. /\ errors * BeatEvery \in Nat /\ (errors + 1) * BeatEvery = errors * BeatEvery + BeatEvery
        /\ BeatEvery \in Nat \ {0} /\ Lease \in Nat
    BY OneIntervalMore, AcpAssumption
  <2>2. QED
    BY <1>4, <2>1 DEF Opened
<1>5. CASE Awaited
  BY <1>5, AcpAssumption DEF Awaited, StopReasons
<1>6. CASE Drain
  BY <1>6, AcpAssumption DEF Drain, Quiescent
<1>7. CASE Cleanup
  BY <1>7, AcpAssumption DEF Cleanup, Returned
<1>8. CASE Leave
  BY <1>8, AcpAssumption DEF Leave
<1>9. CASE Expire
  BY <1>9, AcpAssumption DEF Expire, Late
<1>10. CASE ReadChunk
  BY <1>10, AcpAssumption DEF ReadChunk
<1>11. CASE ReadAsk
  BY <1>11, AcpAssumption DEF ReadAsk
<1>12. CASE ReadAnswer
  BY <1>12, AcpAssumption DEF ReadAnswer, Listening
<1>13. CASE HandlersRun
  BY <1>13, AcpAssumption DEF HandlersRun
<1>14. CASE WatcherChecks
  <2>1. /\ errors * BeatEvery \in Nat /\ (errors + 1) * BeatEvery = errors * BeatEvery + BeatEvery
        /\ BeatEvery \in Nat \ {0} /\ Lease \in Nat
    BY OneIntervalMore, AcpAssumption
  <2>2. UNCHANGED <<main, beat, lease, opened, now>> /\ (~stop' => ~stop)
    BY <1>14 DEF WatcherChecks
  <2>3. errors' = errors \/ errors' = errors + 1
    BY <1>14 DEF WatcherChecks, DbError
  <2>4. QED
    BY <2>1, <2>2, <2>3
<1>15. CASE WatcherWakes
  BY <1>15, AcpAssumption DEF WatcherWakes
<1>16. CASE Heartbeat
  <2>1. /\ errors * BeatEvery \in Nat /\ (errors + 1) * BeatEvery = errors * BeatEvery + BeatEvery
        /\ BeatEvery \in Nat \ {0} /\ Lease \in Nat
    BY OneIntervalMore, AcpAssumption
  <2>2. main' = main /\ stop' = stop /\ beat' = now /\ opened' = opened /\ now' = now /\ BeatDue
    BY <1>16 DEF Heartbeat
  <2>3. CASE lease' = now + Lease /\ UNCHANGED errors
    BY <2>1, <2>2, <2>3 DEF BeatDue, Listening
  <2>4. CASE DbError /\ UNCHANGED lease
    BY <2>1, <2>2, <2>4 DEF DbError, BeatDue, Listening
  <2>5. QED
    BY <1>16, <2>3, <2>4 DEF Heartbeat
<1>17. CASE WatcherAborts
  BY <1>17, AcpAssumption DEF WatcherAborts
<1>18. CASE AgentAnswers
  BY <1>18, AcpAssumption DEF AgentAnswers
<1>19. CASE AgentStreams
  BY <1>19, AcpAssumption DEF AgentStreams
<1>20. CASE AgentAsks
  BY <1>20, AcpAssumption DEF AgentAsks
<1>21. CASE RequestCancel
  BY <1>21, AcpAssumption DEF RequestCancel, Cancelled
<1>22. CASE Tick
  BY <1>22, AcpAssumption DEF Tick, Idle, Late, BeatDue, Listening
<1>23. CASE UNCHANGED vars
  BY <1>23
<1>24. QED
  BY <1>1, <1>2, <1>3, <1>4, <1>5, <1>6, <1>7, <1>8, <1>9, <1>10, <1>11, <1>12, <1>13,
     <1>14, <1>15, <1>16, <1>17, <1>18, <1>19, <1>20, <1>21, <1>22, <1>23
     DEF Next, Main, Client, Watchers, Agent

(***************************************************************************)
(* Outcomes                                                                *)
(***************************************************************************)

\* What a verdict rests on, until it is returned.
Outcome ==
  /\ flag => Cancelled
  /\ verdict = "done" => main \in {"leave", "over"} /\ task = "end_turn" /\ ~flag
  /\ verdict = "cancelled" => task = "cancelled" \/ flag
  /\ verdict = "failed" =>
       /\ task \in {"none", "error", "refusal"}
       /\ task \in {"none", "refusal"} => main \in {"leave", "over"}
  /\ main \in {"cleanup", "leave", "over"} /\ task = "end_turn" =>
       verdict \in {"open", "done", "timeout"} \/ (verdict = "cancelled" /\ flag)
  /\ result \in {"crash", "unavailable"} => task = "none"

LEMMA OutcomeInit == Init => Outcome
BY DEF Init, Outcome, Cancelled

LEMMA OutcomeNext == TypeOK /\ Shape /\ Heard /\ Outcome /\ [Next]_vars => Outcome'
<1> SUFFICES ASSUME TypeOK /\ Shape /\ Heard /\ Outcome, [Next]_vars PROVE Outcome'
  OBVIOUS
<1> USE DEF Outcome, Heard, Shape, TypeOK, StopReasons, Answers, Cancelled, Never, vars, agent, text, drain, clocks
<1>1. CASE Refuse
  BY <1>1 DEF Refuse
<1>2. CASE Spawn
  BY <1>2 DEF Spawn
<1>3. CASE Initialized
  BY <1>3 DEF Initialized
<1>4. CASE Opened
  BY <1>4 DEF Opened
<1>5. CASE Awaited
  BY <1>5 DEF Awaited, StopReasons
<1>6. CASE Drain
  BY <1>6 DEF Drain, Quiescent
<1>7. CASE Cleanup
  BY <1>7 DEF Cleanup, Returned
<1>8. CASE Leave
  BY <1>8 DEF Leave
<1>9. CASE Expire
  BY <1>9 DEF Expire, Late
<1>10. CASE ReadChunk
  BY <1>10 DEF ReadChunk
<1>11. CASE ReadAsk
  BY <1>11 DEF ReadAsk
<1>12. CASE ReadAnswer
  BY <1>12 DEF ReadAnswer, Listening
<1>13. CASE HandlersRun
  BY <1>13 DEF HandlersRun
<1>14. CASE WatcherChecks
  BY <1>14 DEF WatcherChecks, DbError
<1>15. CASE WatcherWakes
  BY <1>15 DEF WatcherWakes
<1>16. CASE Heartbeat
  BY <1>16 DEF Heartbeat, DbError
<1>17. CASE WatcherAborts
  BY <1>17 DEF WatcherAborts
<1>18. CASE AgentAnswers
  BY <1>18 DEF AgentAnswers
<1>19. CASE AgentStreams
  BY <1>19 DEF AgentStreams
<1>20. CASE AgentAsks
  BY <1>20 DEF AgentAsks
<1>21. CASE RequestCancel
  BY <1>21, AcpAssumption DEF RequestCancel
<1>22. CASE Tick
  BY <1>22 DEF Tick
<1>23. CASE UNCHANGED vars
  BY <1>23
<1>24. QED
  BY <1>1, <1>2, <1>3, <1>4, <1>5, <1>6, <1>7, <1>8, <1>9, <1>10, <1>11, <1>12, <1>13,
     <1>14, <1>15, <1>16, <1>17, <1>18, <1>19, <1>20, <1>21, <1>22, <1>23
     DEF Next, Main, Client, Watchers, Agent

(***************************************************************************)
(* The output                                                              *)
(***************************************************************************)

\* A chunk waits in the inbox, and no answer before it.
Sent(n) ==
  \E i \in 1..Len(inbox) :
    /\ inbox[i].is = "chunk" /\ inbox[i].nr = n
    /\ \A j \in 1..i : inbox[j].is \notin Answers

\* A chunk has been read.
Seen(n) == n \in got \/ handlers[n] > 0

\* Where the chunks before the answer are, by phase.
Texts ==
  /\ main \in {"start", "initialize", "session"} =>
       /\ chunks = 0 /\ request # "prompt" /\ Len(inbox) <= 1
       /\ main = "start" \/ request # "none" => inbox = <<>>
  /\ request = "prompt" => before = chunks /\ \A i \in 1..Len(inbox) : inbox[i].is \notin Answers
  /\ task \in {"none", "waiting"} => \A n \in 1..before : Seen(n) \/ Sent(n)
  /\ task \in Answers => request # "prompt" /\ \A n \in 1..before : Seen(n)
  /\ quiet <= yields
  /\ main = "cleanup" /\ verdict = "open" => yields >= 2

LEMMA TextsInit == Init => Texts
<1> SUFFICES ASSUME Init PROVE Texts
  OBVIOUS
<1>1. Len(inbox) = 0 /\ 1..before = {}
  BY DEF Init
<1>2. QED
  BY <1>1 DEF Init, Texts, Answers, StopReasons

\* The chunks before the answer have numbers.
LEMMA Numbered == TextOK => \A n \in 1..before : n \in Numbers
BY AcpAssumption DEF TextOK, Numbers

\* A round loses no chunk.
LEMMA RoundSees ==
  ASSUME TextOK, Round, NEW n \in Numbers, Seen(n)
  PROVE  Seen(n)'
<1>1. handlers[n] \in Nat
  BY AcpAssumption DEF TextOK
<1>2. handlers'[n] = IF handlers[n] = 0 THEN 0 ELSE handlers[n] - 1
  BY DEF Round
<1>3. handlers[n] = 1 => n \in got'
  BY DEF Round
<1>4. n \in got => n \in got'
  BY DEF Round
<1>5. QED
  BY <1>1, <1>2, <1>3, <1>4 DEF Seen

\* The client reads a message that is no chunk: what waits behind it waits on.
LEMMA TakeSent ==
  ASSUME TextOK, Take, Head(inbox).is # "chunk", NEW n, Sent(n)
  PROVE  Sent(n)' /\ Head(inbox).is \notin Answers
<1>1. /\ Head(inbox) = inbox[1] /\ Len(inbox) \in Nat \ {0} /\ Len(inbox') = Len(inbox) - 1
      /\ \A i \in 1..Len(inbox') : inbox'[i] = inbox[i + 1]
  BY TakeType DEF Take, TextOK
<1>2. PICK i \in 1..Len(inbox) : /\ inbox[i].is = "chunk" /\ inbox[i].nr = n
                                 /\ \A j \in 1..i : inbox[j].is \notin Answers
  BY DEF Sent
<1>3. i # 1 /\ 1 \in 1..i
  BY <1>1, <1>2
<1>4. i - 1 \in 1..Len(inbox') /\ (i - 1) + 1 = i
  BY <1>1, <1>3
<1>5. ASSUME NEW j \in 1..(i - 1) PROVE inbox'[j].is \notin Answers
  <2>1. j \in 1..Len(inbox') /\ j + 1 \in 1..i
    BY <1>1, <1>4
  <2>2. QED
    BY <1>1, <1>2, <2>1
<1>6. inbox'[i - 1] = inbox[i]
  BY <1>1, <1>4
<1>7. QED
  BY <1>1, <1>2, <1>3, <1>4, <1>5, <1>6 DEF Sent

\* The client reads a chunk: if it was not this one, it waits on.
LEMMA ChunkSent ==
  ASSUME TextOK, Take, NEW n, Head(inbox).nr # n, Sent(n)
  PROVE  Sent(n)'
<1>1. /\ Head(inbox) = inbox[1] /\ Len(inbox) \in Nat \ {0} /\ Len(inbox') = Len(inbox) - 1
      /\ \A i \in 1..Len(inbox') : inbox'[i] = inbox[i + 1]
  BY TakeType DEF Take, TextOK
<1>2. PICK i \in 1..Len(inbox) : /\ inbox[i].is = "chunk" /\ inbox[i].nr = n
                                 /\ \A j \in 1..i : inbox[j].is \notin Answers
  BY DEF Sent
<1>3. i - 1 \in 1..Len(inbox') /\ (i - 1) + 1 = i
  BY <1>1, <1>2
<1>4. ASSUME NEW j \in 1..(i - 1) PROVE inbox'[j].is \notin Answers
  <2>1. j \in 1..Len(inbox') /\ j + 1 \in 1..i
    BY <1>1, <1>3
  <2>2. QED
    BY <1>1, <1>2, <2>1
<1>5. inbox'[i - 1] = inbox[i]
  BY <1>1, <1>3
<1>6. QED
  BY <1>2, <1>3, <1>4, <1>5 DEF Sent

\* The agent says something more.
LEMMA SaySent ==
  ASSUME TextOK, NEW m \in Messages, inbox' = Append(inbox, m), NEW n, Sent(n)
  PROVE  Sent(n)'
<1>1. /\ Len(inbox) \in Nat /\ Len(inbox') = Len(inbox) + 1
      /\ \A i \in 1..Len(inbox) : inbox'[i] = inbox[i]
  BY SayType DEF TextOK
<1>2. PICK i \in 1..Len(inbox) : /\ inbox[i].is = "chunk" /\ inbox[i].nr = n
                                 /\ \A j \in 1..i : inbox[j].is \notin Answers
  BY DEF Sent
<1>3. i \in 1..Len(inbox') /\ \A j \in 1..i : j \in 1..Len(inbox)
  BY <1>1
<1>4. QED
  BY <1>1, <1>2, <1>3 DEF Sent

LEMMA TextsNext == TypeOK /\ Shape /\ Texts /\ [Next]_vars => Texts'
<1> SUFFICES ASSUME TypeOK, Shape, Texts, [Next]_vars PROVE Texts'
  OBVIOUS
<1>0. /\ TextOK /\ inbox \in Seq(Messages) /\ Len(inbox) \in Nat /\ TextOK'
      /\ before \in Nat /\ chunks \in Nat /\ quiet \in Nat /\ yields \in Nat
  BY NumbersAreNat, TextNext DEF TypeOK, TextOK
<1>n. /\ \A n \in 1..before : n \in Numbers
      /\ \A n \in 1..before' : n \in Numbers
  <2>1. MaxMessages \in Nat
    BY AcpAssumption
  <2>2. before' \in {0} \cup Numbers /\ before \in {0} \cup Numbers
    BY <1>0 DEF TextOK
  <2>3. QED
    BY <2>1, <2>2 DEF Numbers
<1>b. Take => /\ Head(inbox) = inbox[1] /\ Head(inbox) \in Messages
              /\ Len(inbox) \in Nat \ {0} /\ Len(inbox') = Len(inbox) - 1
              /\ \A i \in 1..Len(inbox') : inbox'[i] = inbox[i + 1] /\ i + 1 \in 1..Len(inbox)
              /\ Len(inbox) <= 1 => inbox' = <<>> /\ Len(inbox') = 0 /\ 1..Len(inbox') = {}
  <2>1. Take => /\ Head(inbox) = inbox[1] /\ Head(inbox) \in Messages
                /\ Len(inbox) \in Nat \ {0} /\ Len(inbox') = Len(inbox) - 1 /\ inbox' \in Seq(Messages)
                /\ \A i \in 1..Len(inbox') : inbox'[i] = inbox[i + 1]
    BY <1>0, TakeType DEF Take
  <2>2. Take => \A i \in 1..Len(inbox') : i + 1 \in 1..Len(inbox)
    BY <2>1
  <2>3. Take /\ Len(inbox) <= 1 => inbox' = <<>> /\ Len(inbox') = 0 /\ 1..Len(inbox') = {}
    BY <2>1
  <2>4. QED
    BY <2>1, <2>2, <2>3
<1>s. UNCHANGED <<inbox, text>> => \A n : (Seen(n) => Seen(n)') /\ (Sent(n) => Sent(n)')
  BY DEF Seen, Sent, text
<1>a. ASSUME UNCHANGED <<agent, text, drain>>,
             main' \in {"start", "initialize", "session"} => main' = main,
             task' = task \/ task' = "aborted",
             main' = "cleanup" /\ verdict' = "open" => main = "cleanup" /\ verdict = "open"
      PROVE  Texts'
  BY <1>a, <1>s DEF Texts, Answers, StopReasons, agent, text, drain
<1>1. CASE Refuse
  BY <1>1, <1>a DEF Refuse
<1>2. CASE Spawn
  BY <1>2, <1>s DEF Spawn, Texts, text, drain
<1>3. CASE Initialized
  <2>1. task = "none" /\ task' = task /\ before = 0 /\ before' = 0 /\ 1..0 = {} /\ chunks' = 0
    BY <1>0, <1>3 DEF Initialized, Shape, Texts, TextOK
  <2>2. QED
    BY <1>3, <1>b, <2>1 DEF Initialized, Texts, Answers, StopReasons, text, drain
<1>4. CASE Opened
  <2>1. before = 0 /\ before' = 0 /\ 1..0 = {} /\ chunks' = 0 /\ chunks = 0
    BY <1>0, <1>4 DEF Opened, Texts, TextOK
  <2>2. task' \notin Answers
    BY <1>4 DEF Opened, Shape, Answers, StopReasons
  <2>3. QED
    BY <1>4, <1>b, <2>1, <2>2 DEF Opened, Texts, text, drain
<1>5. CASE Awaited
  <2>1. verdict' # "open" \/ main' = "drain"
    BY <1>5 DEF Awaited, Shape, TypeOK, Answers
  <2>2. QED
    BY <1>5, <1>a, <2>1 DEF Awaited
<1>6. CASE Drain
  <2>1. Round /\ UNCHANGED <<task, verdict, request, inbox, before, chunks>> /\ main = "drain"
    BY <1>6 DEF Drain, agent
  <2>2. \A n \in 1..before : Seen(n) => Seen(n)'
    BY <1>0, <1>n, <2>1, RoundSees
  <2>3. yields' = yields + 1 /\ quiet' \in {quiet + 1, 0} /\ main' \in {"drain", "cleanup"}
    BY <1>6 DEF Drain
  <2>4. quiet' <= yields'
    BY <1>0, <2>3 DEF Texts
  <2>5. main' = "cleanup" => yields' >= 2
    <3>1. main' = "cleanup" => quiet' >= 2 \/ yields' >= DrainCap
      BY <1>6 DEF Drain, Quiescent
    <3>2. quiet' \in Nat /\ yields' \in Nat /\ DrainCap \in Nat \ {0, 1}
      BY <1>0, <2>3, AcpAssumption
    <3>3. QED
      BY <2>4, <3>1, <3>2
  <2>6. task \in StopReasons
    BY <2>1 DEF Shape
  <2>7. QED
    BY <2>1, <2>2, <2>3, <2>4, <2>5, <2>6 DEF Texts, Answers, StopReasons
<1>7. CASE Cleanup
  BY <1>7, <1>a DEF Cleanup
<1>8. CASE Leave
  BY <1>8, <1>a DEF Leave
<1>9. CASE Expire
  BY <1>9, <1>a DEF Expire
<1>c. ASSUME Take, UNCHANGED <<main, verdict, request, before, chunks, quiet, yields>>, main \in {"prompt", "drain"}
      PROVE  /\ request' = "prompt" => before' = chunks' /\ \A i \in 1..Len(inbox') : inbox'[i].is \notin Answers
             /\ quiet' <= yields'
             /\ main' \notin {"start", "initialize", "session", "cleanup"}
  BY <1>b, <1>c DEF Texts
<1>10. CASE ReadChunk
  <2>1. PICK r \in 1..HandlerRounds : handlers' = [handlers EXCEPT ![Head(inbox).nr] = r]
    BY <1>10 DEF ReadChunk
  <2>2. Take /\ UNCHANGED <<main, verdict, task, request, before, chunks, quiet, yields, got>> /\ main \in {"prompt", "drain"}
    BY <1>10 DEF ReadChunk, Listening, drain
  <2>3. ASSUME NEW n \in Numbers, Seen(n) \/ n = Head(inbox).nr PROVE Seen(n)'
    <3>1. handlers'[n] = IF n = Head(inbox).nr THEN r ELSE handlers[n]
      BY <1>0, <2>1 DEF TextOK
    <3>2. r > 0
      BY AcpAssumption
    <3>3. QED
      BY <2>2, <2>3, <3>1, <3>2 DEF Seen
  <2>4. ASSUME NEW n \in 1..before, Seen(n) \/ Sent(n) PROVE Seen(n)' \/ Sent(n)'
    <3>1. CASE Seen(n) \/ n = Head(inbox).nr
      BY <1>n, <2>3, <3>1
    <3>2. CASE Sent(n) /\ Head(inbox).nr # n
      BY <1>0, <2>2, <3>2, ChunkSent
    <3>3. QED
      BY <2>4, <3>1, <3>2
  <2>5. QED
    BY <1>c, <1>n, <2>2, <2>3, <2>4 DEF Texts
<1>11. CASE ReadAsk
  <2>1. Take /\ UNCHANGED <<main, verdict, task, request, before, chunks, quiet, yields, got, handlers>> /\ main \in {"prompt", "drain"}
        /\ Head(inbox).is # "chunk"
    BY <1>11 DEF ReadAsk, Listening, text, drain
  <2>2. \A n : (Seen(n) => Seen(n)') /\ (Sent(n) => Sent(n)')
    BY <1>0, <2>1, TakeSent DEF Seen
  <2>3. QED
    BY <1>c, <2>1, <2>2 DEF Texts
<1>12. CASE ReadAnswer
  <2>1. /\ Take /\ UNCHANGED <<main, verdict, request, before, chunks, quiet, yields, got, handlers>> /\ main \in {"prompt", "drain"}
        /\ Head(inbox).is \in Answers /\ Head(inbox).is # "chunk"
        /\ task' = IF task = "waiting" THEN Head(inbox).is ELSE task
    BY <1>12 DEF ReadAnswer, Listening, text, drain, Answers, StopReasons
  <2>2. \A n : (Seen(n) => Seen(n)') /\ ~Sent(n)
    BY <1>0, <2>1, TakeSent DEF Seen
  <2>3. request # "prompt"
    <3>1. 1 \in 1..Len(inbox) /\ inbox[1].is \in Answers
      BY <1>b, <2>1
    <3>2. QED
      BY <3>1 DEF Texts
  <2>4. task # "none" /\ task' # "waiting" /\ task' # "none"
    BY <2>1 DEF Shape, Answers, StopReasons
  <2>5. task' \in Answers => \A n \in 1..before : Seen(n)
    BY <2>1, <2>2 DEF Texts
  <2>6. QED
    BY <1>c, <2>1, <2>2, <2>3, <2>4, <2>5 DEF Texts
<1>13. CASE HandlersRun
  <2>1. /\ Round /\ UNCHANGED <<main, task, verdict, request, inbox, before, chunks, quiet, yields>>
    BY <1>13 DEF HandlersRun, agent, drain
  <2>2. \A n \in 1..before : Seen(n) => Seen(n)'
    BY <1>0, <1>n, <2>1, RoundSees
  <2>3. \A n : Sent(n) => Sent(n)'
    BY <2>1 DEF Sent
  <2>4. QED
    BY <2>1, <2>2, <2>3 DEF Texts
<1>14. CASE WatcherChecks
  BY <1>14, <1>a DEF WatcherChecks
<1>15. CASE WatcherWakes
  BY <1>15, <1>a DEF WatcherWakes
<1>16. CASE Heartbeat
  BY <1>16, <1>a DEF Heartbeat
<1>17. CASE WatcherAborts
  BY <1>17, <1>a DEF WatcherAborts
<1>d. ASSUME NEW m \in Messages, inbox' = Append(inbox, m),
             UNCHANGED <<main, task, verdict, quiet, yields, got, handlers>>
      PROVE  /\ \A n : (Seen(n) => Seen(n)') /\ (Sent(n) => Sent(n)')
             /\ Len(inbox') = Len(inbox) + 1 /\ inbox'[Len(inbox) + 1] = m
             /\ \A i \in 1..Len(inbox) : inbox'[i] = inbox[i]
             /\ \A i \in 1..Len(inbox') : i \in 1..Len(inbox) \/ i = Len(inbox) + 1
  <2>1. /\ Len(inbox') = Len(inbox) + 1 /\ inbox'[Len(inbox) + 1] = m
        /\ \A i \in 1..Len(inbox) : inbox'[i] = inbox[i]
    BY <1>0, <1>d, SayType
  <2>2. \A i \in 1..Len(inbox') : i \in 1..Len(inbox) \/ i = Len(inbox) + 1
    BY <1>0, <2>1
  <2>3. \A n : (Seen(n) => Seen(n)') /\ (Sent(n) => Sent(n)')
    BY <1>0, <1>d, SaySent DEF Seen
  <2>4. QED
    BY <2>1, <2>2, <2>3
<1>18. CASE AgentAnswers
  <2>1. PICK k \in Answers \cup {"ok"} : Say(k, 0)
    BY <1>18 DEF AgentAnswers, Answers
  <2>2. [is |-> k, nr |-> 0] \in Messages
    BY DEF Messages
  <2>3. /\ main # "start" /\ request # "none" /\ request' = "none" /\ before' = before /\ chunks' = chunks
        /\ UNCHANGED <<main, task, verdict, quiet, yields, got, handlers>>
    BY <1>18 DEF AgentAnswers, Alive, text, drain
  <2>4. main \in {"initialize", "session"} => Len(inbox') <= 1
    <3>1. main \in {"initialize", "session"} => Len(inbox) = 0
      BY <2>3 DEF Texts
    <3>2. QED
      BY <1>d, <2>1, <2>2, <2>3, <3>1 DEF Say
  <2>5. QED
    BY <1>d, <2>1, <2>2, <2>3, <2>4 DEF Texts, Say
<1>19. CASE AgentStreams
  <2>1. chunks + 1 \in Numbers
    BY <1>0, <1>19, AcpAssumption DEF AgentStreams, TextOK, Numbers
  <2>2. PICK m \in Messages : m = [is |-> "chunk", nr |-> chunks + 1] /\ inbox' = Append(inbox, m)
    BY <1>19, <2>1 DEF AgentStreams, Messages, Say
  <2>3. /\ main \in {"prompt", "drain"} /\ chunks' = chunks + 1 /\ request' = request
        /\ before' = IF request = "prompt" THEN before + 1 ELSE before
        /\ UNCHANGED <<main, task, verdict, quiet, yields, got, handlers>>
    BY <1>19 DEF AgentStreams, Listening, text, drain
  <2>4. m.is \notin Answers /\ m.is = "chunk" /\ m.nr = chunks + 1
    BY <2>2 DEF Answers, StopReasons
  <2>5. request = "prompt" => \A i \in 1..Len(inbox') : inbox'[i].is \notin Answers
    BY <1>d, <2>2, <2>3, <2>4 DEF Texts
  <2>6. ASSUME request = "prompt", NEW n, n = before + 1 PROVE Sent(n)'
    <3>1. before = chunks
      BY <2>6 DEF Texts
    <3>2. Len(inbox) + 1 \in 1..Len(inbox') /\ \A j \in 1..(Len(inbox) + 1) : j \in 1..Len(inbox')
      BY <1>0, <1>d, <2>2, <2>3
    <3>3. QED
      BY <1>d, <2>2, <2>3, <2>4, <2>5, <2>6, <3>1, <3>2 DEF Sent
  <2>7. task \in {"none", "waiting"} => \A n \in 1..before' : Seen(n)' \/ Sent(n)'
    <3>1. \A n \in 1..before' : n \in 1..before \/ (request = "prompt" /\ n = before + 1)
      BY <1>0, <2>3
    <3>2. \A n : (Seen(n) => Seen(n)') /\ (Sent(n) => Sent(n)')
      BY <1>d, <2>2, <2>3
    <3>3. task \in {"none", "waiting"} => \A n \in 1..before : Seen(n) \/ Sent(n)
      BY DEF Texts
    <3>4. QED
      BY <2>6, <3>1, <3>2, <3>3
  <2>8. request = "prompt" => before' = chunks'
    BY <2>3 DEF Texts
  <2>9. QED
    BY <1>d, <2>2, <2>3, <2>5, <2>7, <2>8 DEF Texts
<1>20. CASE AgentAsks
  <2>1. PICK m \in Messages : m = [is |-> "ask", nr |-> 0] /\ inbox' = Append(inbox, m)
    BY <1>20 DEF AgentAsks, Messages, Say
  <2>2. /\ request = "prompt" /\ UNCHANGED <<main, task, verdict, request, before, chunks, quiet, yields, got, handlers>>
    BY <1>20 DEF AgentAsks, text, drain
  <2>3. m.is \notin Answers
    BY <2>1 DEF Answers, StopReasons
  <2>4. QED
    BY <1>d, <2>1, <2>2, <2>3 DEF Texts
<1>21. CASE RequestCancel
  BY <1>21, <1>a DEF RequestCancel
<1>22. CASE Tick
  BY <1>22, <1>a DEF Tick
<1>23. CASE UNCHANGED vars
  BY <1>23, <1>a DEF vars
<1>24. QED
  BY <1>1, <1>2, <1>3, <1>4, <1>5, <1>6, <1>7, <1>8, <1>9, <1>10, <1>11, <1>12, <1>13,
     <1>14, <1>15, <1>16, <1>17, <1>18, <1>19, <1>20, <1>21, <1>22, <1>23
     DEF Next, Main, Client, Watchers, Agent

(***************************************************************************)
(* Theorems                                                                *)
(***************************************************************************)

IInv == TypeOK /\ Shape /\ Heard /\ Timely /\ Leased /\ Outcome

THEOREM Inductive == Spec => []IInv
<1>1. Init => IInv
  BY TypeInit, ShapeInit, HeardInit, TimelyInit, LeasedInit, OutcomeInit DEF IInv
<1>2. IInv /\ [Next]_vars => IInv'
  BY TypeNext, ShapeNext, HeardNext, TimelyNext, LeasedNext, OutcomeNext DEF IInv
<1>3. QED
  BY <1>1, <1>2, PTL DEF Spec

\* Variables keep their types.
THEOREM TypeCorrect == Spec => []TypeOK
<1>1. IInv => TypeOK
  BY DEF IInv
<1>2. QED
  BY <1>1, Inductive, PTL

\* A cancel wins over an answer that comes more than a second after it, but for
\* failed checks; and a cancel that was seen decides the result.
THEOREM CancelTheorem == Spec => []CancelHeard
<1>1. IInv => CancelHeard
  <2> SUFFICES ASSUME IInv PROVE CancelHeard
    OBVIOUS
  <2>1. FlagHonoured
    BY DEF IInv, Shape, Heard, FlagHonoured
  <2>2. ASSUME main = "cleanup", Cancelled, ~flag
        PROVE  now <= cancelAt + 1 + errors \/ now <= opened + errors
    <3>1. watcher \in {"check", "asleep"}
      BY <2>2 DEF IInv, Heard
    <3>2. CASE watcher = "check"
      BY <2>2, <3>2 DEF IInv, Timely, By
    <3>3. CASE watcher = "asleep"
      <4>1. now <= wake /\ By(wake)
        BY <2>2, <3>3 DEF IInv, Timely
      <4>2. {now, wake, cancelAt, errors, opened} \subseteq Int
        BY AcpAssumption DEF IInv, TypeOK, Never
      <4>3. QED
        BY <4>1, <4>2 DEF By
    <3>4. QED
      BY <3>1, <3>2, <3>3
  <2>3. QED
    BY <2>1, <2>2 DEF CancelHeard
<1>2. QED
  BY <1>1, Inductive, PTL

\* Whatever the order of answer, cancel, timeout and errors, the result is what
\* became of the turn.
THEOREM OutcomeTheorem == Spec => []OutcomeHonest
<1>1. IInv => OutcomeHonest
  BY DEF IInv, TypeOK, Shape, Heard, Outcome, OutcomeHonest
<1>2. QED
  BY <1>1, Inductive, PTL

\* While the agent works and nobody cancels, the row stays leased, if the lease is
\* longer than the handshake, an interval and the intervals of failed renewals.
THEOREM LeaseTheorem == Spec => []LeaseHolds
<1>1. IInv => LeaseHolds
  <2> SUFFICES ASSUME IInv, main \in {"initialize", "session", "prompt", "drain"}, ~stop, Lease > Unrenewed
               PROVE  now < lease
    BY DEF LeaseHolds
  <2>1. /\ now \in Nat /\ beat \in Nat /\ lease \in Nat /\ opened \in Nat /\ errors \in Nat
        /\ Lease \in Nat /\ BeatEvery \in Nat
    BY AcpAssumption DEF IInv, TypeOK
  <2>2. CASE main \in {"initialize", "session"}
    BY <2>2 DEF IInv, Leased, Unrenewed
  <2>3. CASE main \in {"prompt", "drain"}
    <3>1. errors * BeatEvery \in Nat /\ (errors + 1) * BeatEvery = errors * BeatEvery + BeatEvery
      BY <2>1, OneIntervalMore
    <3>2. beat + Lease <= lease + opened + errors * BeatEvery /\ now <= beat + BeatEvery
      BY <2>3 DEF IInv, Leased
    <3>3. Lease > opened + (errors + 1) * BeatEvery
      BY <2>3 DEF Unrenewed
    <3>4. QED
      BY <2>1, <3>1, <3>2, <3>3
  <2>4. QED
    BY <2>2, <2>3
<1>2. QED
  BY <1>1, Inductive, PTL

\* Nothing happens to a result, and what it is when it is returned.
LEMMA ReturnsOnce ==
  ASSUME IInv, [Next]_vars
  PROVE  \/ UNCHANGED <<result, cancelAt>> \/ RequestCancel
         \/ result = "none" /\ result' \in Contract!Results /\ cancelAt' = cancelAt
BY DEF Refuse, Spawn, Initialized, Opened, Awaited, Drain, Cleanup, Leave, Expire,
       ReadChunk, ReadAsk, ReadAnswer, HandlersRun, WatcherChecks, WatcherWakes, Heartbeat, WatcherAborts,
       AgentAnswers, AgentStreams, AgentAsks, RequestCancel, Tick, Next, Main, Client, Watchers, Agent, vars, agent, text, drain, clocks,
       IInv, TypeOK, Shape, Contract!Results

\* An attempt over the protocol keeps the contract of an attempt: one result.
THEOREM Refinement == Spec => ImplementsAttempt
<1> USE DEF Contract!Init, Contract!Next, Contract!RequestCancel, Contract!Return
<1>1. Init => Contract!Init
  BY DEF Init, Cancelled
<1>2. IInv /\ [Next]_vars => [Contract!Next]_<<result, Cancelled>>
  <2> SUFFICES ASSUME IInv, [Next]_vars PROVE [Contract!Next]_<<result, Cancelled>>
    OBVIOUS
  <2>1. CASE RequestCancel
    BY <2>1, AcpAssumption DEF RequestCancel, Cancelled, IInv, TypeOK, Never
  <2>2. CASE UNCHANGED <<result, cancelAt>>
    BY <2>2 DEF Cancelled, Never
  <2>3. CASE result = "none" /\ result' \in Contract!Results /\ cancelAt' = cancelAt
    BY <2>3 DEF Cancelled, Never
  <2>4. QED
    BY <2>1, <2>2, <2>3, ReturnsOnce
<1>3. QED
  BY <1>1, <1>2, Inductive, PTL DEF Spec, ImplementsAttempt, Contract!Spec

\* No chunk before the answer is lost, and none is missing whose handler needed no
\* more than the two rounds that the drain loop waits for at least.
THEOREM OutputTheorem == Spec => []OutputComplete
<1>1. Init => Texts
  BY TextsInit
<1>2. IInv /\ Texts /\ [Next]_vars => Texts'
  BY TextsNext DEF IInv
<1>3. IInv /\ Texts => OutputComplete
  BY DEF IInv, Shape, Texts, Seen, OutputComplete, Answers
<1>4. QED
  BY <1>1, <1>2, <1>3, Inductive, PTL DEF Spec
=============================================================================
