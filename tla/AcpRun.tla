------------------------------- MODULE AcpRun -------------------------------
(***************************************************************************)
(* One attempt of a job on a provider that speaks the Agent Client         *)
(* Protocol: acp_client.run.  The worker's thread runs an event loop of    *)
(* its own with the main coroutine, the prompt task, the cancel watcher,   *)
(* the heartbeat watcher and the handlers of the agent's notifications.    *)
(* An action is what a coroutine does from one await to the next.          *)
(*                                                                         *)
(* The agent and the SDK that reads its pipe are not part of herder: the   *)
(* agent says what it likes, in any order that answers what was asked, and *)
(* may be silent or die; messages come in the order they were sent, and    *)
(* the handler of a notification is a task that needs some rounds of the   *)
(* event loop before it has run.                                           *)
(***************************************************************************)
EXTENDS Integers, Sequences

CONSTANTS
  Timeout,        \* provider.timeout
  BeatEvery,      \* heartbeat_interval
  Lease,          \* worker.lease_seconds
  HandlerRounds,  \* rounds of the loop a notification's handler may need
  DrainCap,       \* _drain_cap
  MaxMessages,    \* bound on the agent's text chunks and permission requests
  MaxErrors       \* bound on database errors

ASSUME AcpAssumption ==
  /\ {Timeout, Lease, MaxMessages, MaxErrors} \subseteq Nat
  /\ {BeatEvery, HandlerRounds} \subseteq Nat \ {0}
  /\ DrainCap \in Nat \ {0, 1}

VARIABLES
  main,      \* where _run_with_timeout is
  verdict,   \* the result it is about to return or raise, or "open"
  task,      \* the prompt task: its answer when it has one
  watcher,   \* the cancel watcher
  flag,      \* cancelled_flag
  stop,      \* stop_event
  request,   \* what the agent was asked and has not answered
  inbox,     \* what it sent and the client has not read
  handlers,  \* the rounds each chunk's session_update still needs; 0: none runs
  got,       \* chunks accumulated by the client
  before,    \* history: how many chunks were sent before the prompt's answer
  chunks,    \* chunks sent at all; they are numbered
  asking,    \* the agent waits for a permission
  asks,      \* permissions asked for
  quiet, yields,         \* the drain loop's counters
  now, opened, wake, beat, lease,
  cancelAt,  \* when the row became "cancelling", or Never
  errors,    \* database errors so far
  result

agent == <<request, inbox, before, chunks, asking, asks>>
text == <<handlers, got>>
drain == <<quiet, yields>>
clocks == <<now, opened, wake, beat, lease>>
vars == <<main, verdict, task, watcher, flag, stop, agent, text, drain, clocks,
          cancelAt, errors, result>>

Never == Timeout + 1
Cancelled == cancelAt # Never

\* What a prompt is answered with: a stop reason, or a JSON-RPC error.
StopReasons == {"end_turn", "cancelled", "refusal"}
Answers == StopReasons \cup {"error"}

Numbers == 1..MaxMessages
Messages == [is : {"ok", "chunk", "ask"} \cup Answers, nr : {0} \cup Numbers]

\* The texts on their way.
TextOK ==
  /\ inbox \in Seq(Messages)
  /\ handlers \in [Numbers -> 0..HandlerRounds]
  /\ got \subseteq Numbers
  /\ {before, chunks} \subseteq {0} \cup Numbers /\ before <= chunks /\ asks \in Nat
  /\ quiet \in Nat /\ yields \in Nat

TypeOK ==
  /\ TextOK
  /\ main \in {"start", "initialize", "session", "prompt", "drain", "cleanup", "leave", "over"}
  /\ verdict \in {"open", "done", "failed", "timeout", "cancelled"}
  /\ task \in {"none", "waiting", "aborted"} \cup Answers
  /\ watcher \in {"none", "check", "asleep", "notify", "ended"}
  /\ flag \in BOOLEAN /\ stop \in BOOLEAN
  /\ now \in 0..Timeout
  /\ opened \in Nat /\ wake \in Nat /\ beat \in Nat /\ lease \in Nat
  /\ cancelAt \in 0..Never
  /\ errors \in 0..MaxErrors
  /\ result \in {"none", "done", "failed", "timeout", "cancelled", "unavailable", "crash"}

DbError == errors < MaxErrors /\ errors' = errors + 1

(***************************************************************************)
(* Start and handshake                                                     *)
(***************************************************************************)

\* run raises: the acp package is missing, or the job is to be sandboxed.
Refuse ==
  /\ main = "start"
  /\ main' = "over" /\ result' = "crash"
  /\ UNCHANGED <<verdict, task, watcher, flag, stop, agent, text, drain, clocks,
                 cancelAt, errors>>

\* spawn_agent_process: the executable is there or not.
Spawn ==
  /\ main = "start"
  /\ \/ main' = "over" /\ result' = "unavailable" /\ UNCHANGED request
     \/ main' = "initialize" /\ request' = "initialize" /\ UNCHANGED result
  /\ UNCHANGED <<verdict, task, watcher, flag, stop, inbox, before, chunks, asking, asks, text,
                 drain, clocks, cancelAt, errors>>

Take == inbox # <<>> /\ inbox' = Tail(inbox)

\* conn.initialize returned: conn.new_session.
Initialized ==
  /\ main = "initialize"
  /\ Take
  /\ IF Head(inbox).is = "ok"
       THEN main' = "session" /\ request' = "session" /\ UNCHANGED verdict
       ELSE main' = "leave" /\ verdict' = "failed" /\ UNCHANGED request
  /\ UNCHANGED <<task, watcher, flag, stop, before, chunks, asking, asks, text, drain,
                 clocks, cancelAt, errors, result>>

\* conn.new_session returned: the watchers and the prompt task are created
\* with no await between, so the watcher cannot run before there is a task.
Opened ==
  /\ main = "session"
  /\ Take
  /\ IF Head(inbox).is = "ok"
       THEN /\ main' = "prompt" /\ request' = "prompt" /\ task' = "waiting"
            /\ watcher' = "check" /\ beat' = now /\ opened' = now
            /\ UNCHANGED verdict
       ELSE /\ main' = "leave" /\ verdict' = "failed"
            /\ UNCHANGED <<request, task, watcher, beat, opened>>
  /\ UNCHANGED <<flag, stop, before, chunks, asking, asks, text, drain, now, wake, lease,
                 cancelAt, errors, result>>

(***************************************************************************)
(* The client's handlers                                                   *)
(***************************************************************************)

Listening == main \in {"prompt", "drain"}

\* session_update: a task of its own.
ReadChunk ==
  /\ Listening
  /\ Take /\ Head(inbox).is = "chunk"
  /\ \E r \in 1..HandlerRounds : handlers' = [handlers EXCEPT ![Head(inbox).nr] = r]
  /\ UNCHANGED <<main, verdict, task, watcher, flag, stop, request, before, chunks, asking, asks, got,
                 drain, clocks, cancelAt, errors, result>>

\* request_permission: granted or denied, the agent gets an answer.
ReadAsk ==
  /\ Listening
  /\ Take /\ Head(inbox).is = "ask"
  /\ asking' = FALSE
  /\ UNCHANGED <<main, verdict, task, watcher, flag, stop, request, before, chunks, asks, text,
                 drain, clocks, cancelAt, errors, result>>

\* The answer to the prompt resolves the task, if it was not aborted before.
ReadAnswer ==
  /\ Listening
  /\ Take /\ Head(inbox).is \in Answers
  /\ task' = IF task = "waiting" THEN Head(inbox).is ELSE task
  /\ UNCHANGED <<main, verdict, watcher, flag, stop, request, before, chunks, asking, asks, text,
                 drain, clocks, cancelAt, errors, result>>

\* A round of the event loop: the handlers that are through append their chunk.
Round ==
  /\ got' = got \cup {n \in Numbers : handlers[n] = 1}
  /\ handlers' = [n \in Numbers |-> IF handlers[n] = 0 THEN 0 ELSE handlers[n] - 1]

NoHandlers == [n \in Numbers |-> 0]

HandlersRun ==
  /\ handlers # NoHandlers
  /\ main \notin {"drain", "over"}
  /\ Round
  /\ UNCHANGED <<main, verdict, task, watcher, flag, stop, agent, drain, clocks,
                 cancelAt, errors, result>>

(***************************************************************************)
(* The prompt                                                              *)
(***************************************************************************)

\* await prompt_task: an answer, an error, or the watcher's abort.
Awaited ==
  /\ main = "prompt"
  /\ task # "waiting"
  /\ main' = IF task \in StopReasons THEN "drain" ELSE "cleanup"
  /\ verdict' = CASE task \in StopReasons -> verdict
                  [] task = "error" -> "failed"
                  [] task = "aborted" -> "cancelled"
  /\ UNCHANGED <<task, watcher, flag, stop, agent, text, drain, clocks, cancelAt,
                 errors, result>>

\* Mutant: one yield without a chunk is quiet enough.
QuiescentSoon == quiet' >= 1

Quiescent == quiet' >= 2

\* One await asyncio.sleep(0) of the drain loop.
Drain ==
  /\ main = "drain"
  /\ Round
  /\ yields' = yields + 1
  /\ quiet' = IF got' = got THEN quiet + 1 ELSE 0
  /\ main' = IF Quiescent \/ yields' >= DrainCap THEN "cleanup" ELSE "drain"
  /\ UNCHANGED <<verdict, task, watcher, flag, stop, agent, clocks, cancelAt,
                 errors, result>>

\* What is returned when nothing was raised.
Returned ==
  CASE flag \/ task = "cancelled" -> "cancelled"
    [] ~flag /\ task = "end_turn" -> "done"
    [] ~flag /\ task = "refusal" -> "failed"

\* The finally block: the prompt task and the watchers are cancelled.  They do
\* not run on, so the block is one step; a timeout in it is swallowed.
Cleanup ==
  /\ main = "cleanup"
  /\ main' = "leave"
  /\ verdict' = IF verdict = "open" THEN Returned ELSE verdict
  /\ stop' = TRUE
  /\ task' = IF task = "waiting" THEN "aborted" ELSE task
  /\ watcher' = "ended"
  /\ UNCHANGED <<flag, agent, text, drain, clocks, cancelAt, errors, result>>

\* Mutant: the result is returned before the agent has been ended.
LeaveEarly ==
  /\ main = "leave"
  /\ main' = IF result = "none" THEN "leave" ELSE "over"
  /\ result' = verdict
  /\ UNCHANGED <<verdict, task, watcher, flag, stop, agent, text, drain, clocks,
                 cancelAt, errors>>

\* The context of spawn_agent_process ends the agent.
Leave ==
  /\ main = "leave"
  /\ main' = "over"
  /\ result' = verdict
  /\ UNCHANGED <<verdict, task, watcher, flag, stop, agent, text, drain, clocks,
                 cancelAt, errors>>

Late == now >= Timeout

\* Mutant: every CancelledError is taken for the watcher's.
ExpireAsCancelled ==
  /\ Late
  /\ \/ /\ main \in {"initialize", "session"}
        /\ verdict' = "timeout" /\ main' = "leave"
        /\ UNCHANGED task
     \/ /\ main \in {"prompt", "drain"}
        /\ verdict' = "cancelled"
        /\ main' = "cleanup"
        /\ task' = IF task = "waiting" THEN "aborted" ELSE task
     \/ /\ main = "leave"
        /\ verdict' = "timeout"
        /\ UNCHANGED <<main, task>>
  /\ UNCHANGED <<watcher, flag, stop, agent, text, drain, clocks, cancelAt, errors,
                 result>>

\* Mutant: only the prompt is under the timeout.
ExpirePrompt ==
  /\ Late
  /\ main \in {"prompt", "drain"}
  /\ verdict' = IF flag THEN "cancelled" ELSE "timeout"
  /\ main' = "cleanup"
  /\ task' = IF task = "waiting" THEN "aborted" ELSE task
  /\ UNCHANGED <<watcher, flag, stop, agent, text, drain, clocks, cancelAt, errors,
                 result>>

\* The outer wait_for cancels the coroutine at the await it is in.  During the
\* prompt and the drain the CancelledError counts as the watcher's if the flag
\* is set; while the agent is being ended it replaces the result.
Expire ==
  /\ Late
  /\ \/ /\ main \in {"initialize", "session"}
        /\ verdict' = "timeout" /\ main' = "leave"
        /\ UNCHANGED task
     \/ /\ main \in {"prompt", "drain"}
        /\ verdict' = IF flag THEN "cancelled" ELSE "timeout"
        /\ main' = "cleanup"
        /\ task' = IF task = "waiting" THEN "aborted" ELSE task
     \/ /\ main = "leave"
        /\ verdict' = "timeout"
        /\ UNCHANGED <<main, task>>
  /\ UNCHANGED <<watcher, flag, stop, agent, text, drain, clocks, cancelAt, errors,
                 result>>

(***************************************************************************)
(* The watchers                                                            *)
(***************************************************************************)

\* Mutant: an exception of cancel_check ends the watcher.
WatcherDies ==
  /\ watcher = "check"
  /\ \/ /\ ~stop /\ Cancelled
        /\ flag' = TRUE /\ stop' = TRUE /\ watcher' = "notify"
        /\ UNCHANGED <<wake, errors>>
     \/ /\ ~stop
        /\ \/ ~Cancelled /\ watcher' = "asleep" /\ wake' = now + 1 /\ UNCHANGED errors
           \/ DbError /\ watcher' = "ended" /\ UNCHANGED wake
        /\ UNCHANGED <<flag, stop>>
     \/ /\ stop
        /\ watcher' = "ended"
        /\ UNCHANGED <<flag, stop, wake, errors>>
  /\ UNCHANGED <<main, verdict, task, agent, text, drain, now, opened, beat, lease,
                 cancelAt, result>>

\* cancel_check in the loop's thread; an exception counts as "no".
WatcherChecks ==
  /\ watcher = "check"
  /\ \/ /\ ~stop /\ Cancelled
        /\ flag' = TRUE /\ stop' = TRUE /\ watcher' = "notify"
        /\ UNCHANGED <<wake, errors>>
     \/ /\ ~stop
        /\ (~Cancelled /\ UNCHANGED errors) \/ DbError
        /\ watcher' = "asleep" /\ wake' = now + 1
        /\ UNCHANGED <<flag, stop>>
     \/ /\ stop
        /\ watcher' = "ended"
        /\ UNCHANGED <<flag, stop, wake, errors>>
  /\ UNCHANGED <<main, verdict, task, agent, text, drain, now, opened, beat, lease,
                 cancelAt, result>>

WatcherWakes ==
  /\ watcher = "asleep"
  /\ stop \/ now >= wake
  /\ watcher' = "check"
  /\ UNCHANGED <<main, verdict, task, flag, stop, agent, text, drain, clocks,
                 cancelAt, errors, result>>

\* conn.cancel has been written, or failed: the prompt task is aborted.  The
\* write may wait for an agent that does not read its pipe.
WatcherAborts ==
  /\ watcher = "notify"
  /\ watcher' = "ended"
  /\ task' = IF task = "waiting" THEN "aborted" ELSE task
  /\ UNCHANGED <<main, verdict, flag, stop, agent, text, drain, clocks, cancelAt,
                 errors, result>>

BeatDue == Listening /\ ~stop /\ now - beat >= BeatEvery

\* The heartbeat watcher: renew_lease, whose exceptions are logged.
Heartbeat ==
  /\ BeatDue
  /\ beat' = now
  /\ \/ lease' = now + Lease /\ UNCHANGED errors
     \/ DbError /\ UNCHANGED lease
  /\ UNCHANGED <<main, verdict, task, watcher, flag, stop, agent, text, drain, now,
                 opened, wake, cancelAt, result>>

(***************************************************************************)
(* The agent, commands, time                                               *)
(***************************************************************************)

Alive == main \notin {"start", "over"}
Say(m, n) == inbox' = Append(inbox, [is |-> m, nr |-> n])

\* It answers what it was asked; a death of the agent fails the request too.
AgentAnswers ==
  /\ Alive
  /\ request # "none" /\ ~asking
  /\ \E m \in IF request = "prompt" THEN Answers ELSE {"ok", "error"} : Say(m, 0)
  /\ request' = "none"
  /\ UNCHANGED <<main, verdict, task, watcher, flag, stop, before, chunks, asking, asks, text,
                 drain, clocks, cancelAt, errors, result>>

\* It streams text, also after its answer.
AgentStreams ==
  /\ Listening
  /\ chunks + asks < MaxMessages
  /\ Say("chunk", chunks + 1)
  /\ chunks' = chunks + 1
  /\ before' = IF request = "prompt" THEN before + 1 ELSE before
  /\ UNCHANGED <<main, verdict, task, watcher, flag, stop, request, asking, asks, text,
                 drain, clocks, cancelAt, errors, result>>

\* It asks for a permission, and waits for the answer before it asks again.
AgentAsks ==
  /\ Alive
  /\ request = "prompt" /\ ~asking
  /\ chunks + asks < MaxMessages
  /\ Say("ask", 0)
  /\ asking' = TRUE
  /\ asks' = asks + 1
  /\ UNCHANGED <<main, verdict, task, watcher, flag, stop, request, before, chunks, text,
                 drain, clocks, cancelAt, errors, result>>

RequestCancel ==
  /\ Alive
  /\ ~Cancelled
  /\ cancelAt' = now
  /\ UNCHANGED <<main, verdict, task, watcher, flag, stop, agent, text, drain, clocks,
                 errors, result>>

\* Nothing in the event loop is ready to run.
Idle ==
  /\ inbox = <<>> /\ handlers = NoHandlers
  /\ main \in {"initialize", "session", "leave"} \/ (main = "prompt" /\ task = "waiting")
  /\ watcher # "check"
  /\ watcher = "asleep" => ~stop /\ now < wake
  /\ ~BeatDue

Tick ==
  /\ Idle /\ ~Late
  /\ now' = now + 1
  /\ UNCHANGED <<main, verdict, task, watcher, flag, stop, agent, text, drain, opened,
                 wake, beat, lease, cancelAt, errors, result>>

(***************************************************************************)
(* Specification                                                           *)
(***************************************************************************)

Init ==
  /\ main = "start" /\ verdict = "open" /\ task = "none" /\ watcher = "none"
  /\ flag = FALSE /\ stop = FALSE
  /\ request = "none" /\ inbox = <<>> /\ before = 0 /\ chunks = 0 /\ asking = FALSE
  /\ handlers = NoHandlers /\ got = {} /\ asks = 0
  /\ quiet = 0 /\ yields = 0
  /\ now = 0 /\ opened = 0 /\ wake = 0 /\ beat = 0 /\ lease = Lease
  /\ cancelAt = Never
  /\ errors = 0
  /\ result = "none"

Main == Refuse \/ Spawn \/ Initialized \/ Opened \/ Awaited \/ Drain \/ Cleanup \/ Leave \/ Expire
Client == ReadChunk \/ ReadAsk \/ ReadAnswer \/ HandlersRun
Watchers == WatcherChecks \/ WatcherWakes \/ Heartbeat
Agent == AgentAnswers \/ AgentStreams \/ AgentAsks

Next == Main \/ Client \/ Watchers \/ WatcherAborts \/ Agent \/ RequestCancel \/ Tick

Spec == Init /\ [][Next]_vars

\* The event loop runs what is ready and time passes.  The agent need not say
\* anything, nor read the cancel notification.
FairSpec ==
  Spec /\ WF_vars(Main) /\ WF_vars(Client) /\ WF_vars(Watchers) /\ WF_vars(Tick)

(***************************************************************************)
(* Safety                                                                  *)
(***************************************************************************)

\* When the output of an answered turn is taken, the handlers of the last chunks
\* may still be on their way.  No chunk sent before the answer is lost, and one is
\* missing only if its handler takes more rounds than the drain loop waits for:
\* it waits for two at least, whatever the agent streams meanwhile.
OutputComplete ==
  main = "cleanup" /\ verdict = "open" =>
    \A n \in 1..before : n \in got \/ (handlers[n] > 0 /\ yields >= 2)

\* Once the watcher saw the cancel the result is "cancelled", unless the agent
\* failed the prompt first or the time ran out while the agent was ended.
FlagHonoured ==
  flag /\ result # "none" =>
    \/ result = "cancelled"
    \/ result = "failed" /\ task = "error"
    \/ result = "timeout" /\ Late

\* An answer wins over a cancel only in the second before the next check, but
\* for checks that the database failed; in the handshake, and once the turn is
\* over, nobody checks.  And once the watcher has seen it, it counts.
CancelHeard ==
  /\ main = "cleanup" /\ task \in StopReasons /\ Cancelled /\ ~flag =>
       now <= cancelAt + 1 + errors \/ now <= opened + errors
  /\ FlagHonoured

\* The result is justified by what became of the turn, in whatever order answer,
\* cancel, timeout and errors came: "done" for the answer "end_turn" that no
\* cancel was seen before, "cancelled" for a cancel of the agent's own or one the
\* watcher saw, "timeout" only when the time is over, and "failed" never for a
\* turn that was answered in full.  A session that was never opened is neither
\* done nor cancelled.
OutcomeHonest ==
  /\ result = "done" => task = "end_turn" /\ ~flag
  /\ result = "cancelled" => task = "cancelled" \/ (flag /\ Cancelled)
  /\ result = "timeout" => Late
  /\ result = "failed" => task \in {"none", "error", "refusal"}
  /\ result # "none" /\ task = "end_turn" =>
       result = "done" \/ (result = "cancelled" /\ flag) \/ result = "timeout"

\* What the lease has to last for without a renewal that counts: all of the
\* handshake, since the heartbeat starts with the session, and later the
\* handshake, one interval and one for each renewal that failed.
Unrenewed ==
  IF main \in {"initialize", "session"} THEN now ELSE opened + (errors + 1) * BeatEvery

\* From the start of the agent to the end of its turn, as long as nobody cancels,
\* the row stays leased if the lease is longer than that.
LeaseHolds ==
  main \in {"initialize", "session", "prompt", "drain"} /\ ~stop /\ Lease > Unrenewed =>
    now < lease

(***************************************************************************)
(* Liveness and refinement                                                 *)
(***************************************************************************)

\* Every attempt ends, however silent the agent is.
AttemptEnds == <>(main = "over")

Contract == INSTANCE Attempt WITH cancelling <- Cancelled, SelfCancels <- TRUE

\* Exactly one result.
ImplementsAttempt == Contract!Spec
=============================================================================
