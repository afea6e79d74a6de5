----------------------------- MODULE SweepStep -----------------------------
(***************************************************************************)
(* One level of the rate sweep (tools/benchmarker/load_gen): run_step      *)
(* starts sessions on a schedule, each session sends its turns, and at the *)
(* drain deadline what is still running is cancelled.                      *)
(*                                                                         *)
(* Everything runs in one asyncio loop, so that a step of this             *)
(* specification is what a task does between two awaits.  Time is not      *)
(* modelled: arrivals, answers and the deadline come in any order that the *)
(* awaits allow.                                                           *)
(***************************************************************************)
EXTENDS Naturals, Sequences, FiniteSets

CONSTANTS
  Sequential, OpenLoop,  \* pool sessions, by the session mode of their class
  NTurns,                \* turns of each session
  ZeroThink,             \* turns whose think time is sampled as zero
  Arrivals               \* session starts on the schedule

Sessions == Sequential \cup OpenLoop
Turns    == 1 .. NTurns

ASSUME ModesAssumption  == Sequential \cap OpenLoop = {} /\ IsFiniteSet(Sessions)
ASSUME BoundsAssumption == /\ NTurns \in Nat \ {0}
                           /\ Arrivals \in Nat
                           /\ ZeroThink \subseteq Turns

VARIABLES
  phase,       \* run_step: arrivals, drain, cancelled, returned, raised
  started,     \* result.sessions_started
  pool,        \* sessions left in the prompt pool
  session,     \* the task of each session
  turn,        \* run_turn of each session's turns
  messages,    \* the exchanges a turn carries before its own prompt
  transcript,  \* each session's transcript
  rows,        \* result.requests
  truncated    \* the sessions counted in result.sessions_truncated

vars == <<phase, started, pool, session, turn, messages, transcript, rows, truncated>>

Init ==
  /\ phase = "arrivals" /\ started = 0 /\ pool = Sessions
  /\ session = [s \in Sessions |-> "pooled"]
  /\ turn = [s \in Sessions |-> [t \in Turns |-> "none"]]
  /\ messages = [s \in Sessions |-> [t \in Turns |-> <<>>]]
  /\ transcript = [s \in Sessions |-> <<>>]
  /\ rows = {} /\ truncated = {}

(***************************************************************************)
(* The schedule.                                                           *)
(***************************************************************************)

StartRecycling(s) ==                                            \* mutant
  /\ phase = "arrivals" /\ started < Arrivals
  /\ s \in pool
  /\ started' = started + 1
  /\ session' = [session EXCEPT ![s] = "running"]
  /\ turn' = [turn EXCEPT ![s] = [t \in Turns |->
                IF s \in OpenLoop \/ t = 1 THEN "waiting" ELSE "none"]]
  /\ UNCHANGED <<phase, pool, messages, transcript, rows, truncated>>
\* An arrival draws a class and takes its next pool session.  The task of a
\* sequential session begins with its first turn, that of an open-loop one
\* creates a task for every turn.
StartSession(s) ==
  /\ phase = "arrivals" /\ started < Arrivals
  /\ s \in pool
  /\ pool' = pool \ {s}
  /\ started' = started + 1
  /\ session' = [session EXCEPT ![s] = "running"]
  /\ turn' = [turn EXCEPT ![s] = [t \in Turns |->
                IF s \in OpenLoop \/ t = 1 THEN "waiting" ELSE "none"]]
  /\ UNCHANGED <<phase, messages, transcript, rows, truncated>>

\* The class drawn has no session left: the error leaves run_step, its rows
\* with it, and nobody waits for the sessions.
PoolExhausted ==
  /\ phase = "arrivals" /\ started < Arrivals
  /\ \E class \in {Sequential, OpenLoop} : class # {} /\ class \cap pool = {}
  /\ phase' = "raised"
  /\ UNCHANGED <<started, pool, session, turn, messages, transcript, rows, truncated>>

\* The schedule has ended: run_step waits for the sessions.
Drain ==
  /\ phase = "arrivals" /\ started = Arrivals
  /\ phase' = "drain"
  /\ UNCHANGED <<started, pool, session, turn, messages, transcript, rows, truncated>>

(***************************************************************************)
(* A session's turns (_SessionRunner.run).                                 *)
(***************************************************************************)

Finished == {"ok", "failed", "raised", "dropped"}

\* How execute_request ends: a complete stream is a success; an HTTP or
\* connection error, a malformed or cut stream, no first token in time and a
\* cancellation are failures.  Whichever of these it is, a delta whose content
\* was null makes the join of the chunks raise a TypeError instead.
Outcomes == {"ok", "failed", "raised"}

DueAtOnce(s, t) == TRUE                                         \* mutant
\* The tasks of an open-loop session's turns begin in order and sleep until
\* the predecessor's send time plus the think time; the first turn, and one
\* without think time, do not sleep.
Due(s, t) ==
  s \in OpenLoop =>
    \A u \in 1 .. t - 1 : \/ turn[s][u] # "waiting"
                          \/ t \in ZeroThink /\ u \notin ZeroThink \cup {1}

\* The request goes out with the transcript as it is now.
Send(s, t) ==
  /\ phase \notin {"raised", "returned"}
  /\ turn[s][t] = "waiting" /\ Due(s, t)
  /\ turn' = [turn EXCEPT ![s][t] = "inflight"]
  /\ messages' = [messages EXCEPT ![s][t] = transcript[s]]
  /\ UNCHANGED <<phase, started, pool, session, transcript, rows, truncated>>

Row(s, t, success) ==
  [session |-> s, turn |-> t, success |-> success, final |-> t = NTurns /\ success]

\* A session's turns after its turn t ended as given: a sequential one goes on
\* to the next turn, unless the error of this one has ended its task.
AfterTurn(s, t, end) ==
  [u \in Turns |-> IF u = t THEN end
                   ELSE IF s \in Sequential /\ u = t + 1 /\ end # "raised" THEN "waiting"
                   ELSE turn[s][u]]
SessionOverIfAnswered(turns) ==                                 \* mutant
  \A u \in Turns : turns[u] \in {"ok", "dropped"}
SessionOver(turns) == \A u \in Turns : turns[u] \in Finished

\* A session's task, given its turns: the error of one turn ends it with that
\* error, and gather leaves the other turns of an open-loop one running.
TaskAfter(turns) ==
  IF \E u \in Turns : turns[u] = "raised" THEN "died"
  ELSE IF SessionOver(turns) THEN "done" ELSE "running"

AnswerForgetting(s, t, outcome) ==                              \* mutant
  /\ phase \notin {"raised", "returned"}
  /\ turn[s][t] = "inflight"
  /\ turn' = [turn EXCEPT ![s] = AfterTurn(s, t, outcome)]
  /\ session' = [session EXCEPT ![s] = TaskAfter(turn'[s])]
  /\ rows' = rows \cup (IF outcome = "raised" THEN {} ELSE {Row(s, t, outcome = "ok")})
  /\ transcript' = [transcript EXCEPT ![s] = IF outcome = "ok" THEN <<t>> ELSE @]
  /\ UNCHANGED <<phase, started, pool, messages, truncated>>
AnswerAlways(s, t, outcome) ==                                  \* mutant
  /\ phase \notin {"raised", "returned"}
  /\ turn[s][t] = "inflight"
  /\ turn' = [turn EXCEPT ![s] = AfterTurn(s, t, outcome)]
  /\ session' = [session EXCEPT ![s] = TaskAfter(turn'[s])]
  /\ rows' = rows \cup (IF outcome = "raised" THEN {} ELSE {Row(s, t, outcome = "ok")})
  /\ transcript' = [transcript EXCEPT ![s] =
                      IF outcome = "raised" THEN @ ELSE Append(messages[s][t], t)]
  /\ UNCHANGED <<phase, started, pool, messages, truncated>>
\* execute_request ends: what it returns is kept as a row, and a success becomes
\* the transcript, which is the messages of this very request and its answer.
\* An error leaves neither.
Answer(s, t, outcome) ==
  /\ phase \notin {"raised", "returned"}
  /\ turn[s][t] = "inflight"
  /\ turn' = [turn EXCEPT ![s] = AfterTurn(s, t, outcome)]
  /\ session' = [session EXCEPT ![s] = TaskAfter(turn'[s])]
  /\ rows' = rows \cup (IF outcome = "raised" THEN {} ELSE {Row(s, t, outcome = "ok")})
  /\ transcript' = [transcript EXCEPT ![s] =
                      IF outcome = "ok" THEN Append(messages[s][t], t) ELSE @]
  /\ UNCHANGED <<phase, started, pool, messages, truncated>>

(***************************************************************************)
(* The end of the step.                                                    *)
(***************************************************************************)

Running == {s \in Sessions : session[s] = "running"}
InFlight(s) == {t \in Turns : turn[s][t] = "inflight"}

\* The requests of pending sessions that are in flight.
Cut == {q \in Running \X Turns : turn[q[1]][q[2]] = "inflight"}
CutEnd(s, t, raising) == IF <<s, t>> \in raising THEN "raised" ELSE "failed"

\* A cancelled session: the request in flight ends as a failure and swallows
\* the cancellation, so that a sequential session goes on with its next turn,
\* unless it raises; a turn that sleeps is dropped with its session.
Cancelled(s, raising) ==
  IF s \in Sequential /\ InFlight(s) # {}
  THEN LET t == CHOOSE t \in InFlight(s) : TRUE
       IN  AfterTurn(s, t, CutEnd(s, t, raising))
  ELSE [t \in Turns |-> CASE turn[s][t] = "inflight" -> CutEnd(s, t, raising)
                          [] turn[s][t] \in {"waiting", "none"} -> "dropped"
                          [] OTHER -> turn[s][t]]

DeadlineDropping ==                                             \* mutant
  /\ phase = "drain" /\ Running # {}
  /\ phase' = "cancelled"
  /\ truncated' = Running
  /\ \E raising \in SUBSET Cut :
       /\ turn' = [s \in Sessions |->
                     IF s \in Running THEN Cancelled(s, raising) ELSE turn[s]]
       /\ session' = [s \in Sessions |->
                        IF s \in Running THEN TaskAfter(turn'[s]) ELSE session[s]]
  /\ UNCHANGED <<started, pool, messages, transcript, rows>>
DeadlineCountingAfter ==                                        \* mutant
  /\ phase = "drain" /\ Running # {}
  /\ phase' = "cancelled"
  /\ \E raising \in SUBSET Cut :
       /\ turn' = [s \in Sessions |->
                     IF s \in Running THEN Cancelled(s, raising) ELSE turn[s]]
       /\ session' = [s \in Sessions |->
                        IF s \in Running THEN TaskAfter(turn'[s]) ELSE session[s]]
       /\ rows' = rows \cup {Row(q[1], q[2], FALSE) : q \in Cut \ raising}
  /\ truncated' = {s \in Running : session'[s] = "running"}
  /\ UNCHANGED <<started, pool, messages, transcript>>
\* drain_timeout_s has passed: count and cancel the pending sessions.  A session
\* that died is not pending, whatever its other turns still do.
Deadline ==
  /\ phase = "drain" /\ Running # {}
  /\ phase' = "cancelled"
  /\ truncated' = Running
  /\ \E raising \in SUBSET Cut :
       /\ turn' = [s \in Sessions |->
                     IF s \in Running THEN Cancelled(s, raising) ELSE turn[s]]
       /\ session' = [s \in Sessions |->
                        IF s \in Running THEN TaskAfter(turn'[s]) ELSE session[s]]
       /\ rows' = rows \cup {Row(q[1], q[2], FALSE) : q \in Cut \ raising}
  /\ UNCHANGED <<started, pool, messages, transcript>>

\* Every session task has ended, by itself, with an error or after its
\* cancellation; the errors are read by nobody.
Return ==
  /\ phase \in {"drain", "cancelled"} /\ Running = {}
  /\ phase' = "returned"
  /\ UNCHANGED <<started, pool, session, turn, messages, transcript, rows, truncated>>

Turning ==
  \E s \in Sessions, t \in Turns :
    Send(s, t) \/ \E outcome \in Outcomes : Answer(s, t, outcome)

Next ==
  \/ (\E s \in Sessions : StartSession(s)) \/ PoolExhausted \/ Drain
  \/ Turning \/ Deadline \/ Return

Spec == Init /\ [][Next]_vars

\* The loop resumes every task, and execute_request always ends: the
\* client bounds the wait for the first token, aiohttp the whole request.
FairSpec == Spec /\ WF_vars(Next)

(***************************************************************************)
(* Properties.                                                             *)
(***************************************************************************)

\* TypeOK: every variable keeps to the values its code can give it, and a
\* session of the pool is started at most once: prompts are never recycled.
TypeOK ==
  /\ phase \in {"arrivals", "drain", "cancelled", "returned", "raised"}
  /\ started \in 0 .. Arrivals /\ started = Cardinality(Sessions \ pool)
  /\ pool = {s \in Sessions : session[s] = "pooled"}
  /\ session \in [Sessions -> {"pooled", "running", "done", "died"}]
  /\ turn \in [Sessions -> [Turns -> {"none", "waiting", "inflight"} \cup Finished]]
  /\ messages \in [Sessions -> [Turns -> Seq(Turns)]]
  /\ transcript \in [Sessions -> Seq(Turns)]
  /\ rows \subseteq [session : Sessions, turn : Turns, success : BOOLEAN, final : BOOLEAN]
  /\ truncated \subseteq Sessions

Sent(s)     == {t \in Turns : turn[s][t] \in {"inflight", "ok", "failed", "raised"}}
RowsOf(s, t) == {r \in rows : r.session = s /\ r.turn = t}
Completed(s) == {t \in Turns : turn[s][t] = "ok"}
Carried(s, t) == {messages[s][t][i] : i \in DOMAIN messages[s][t]}

\* The requests that a TypeError out of execute_request leaves without a row:
\* the one that raised and, in an open-loop session, those still in flight.
Broken(s) == \E t \in Turns : turn[s][t] = "raised"
Lost(s) == {t \in Turns : \/ turn[s][t] = "raised"
                          \/ turn[s][t] = "inflight" /\ s \in OpenLoop /\ Broken(s)}

\* IssuedRecorded: when run_step returns, every request that went out has
\* exactly one row, also the ones the deadline cancelled, and a row has its
\* outcome.  The only requests without a row are the one that raised and, in an
\* open-loop session that died of it, those it leaves in flight: no other
\* request outlives its step.
IssuedRecorded ==
  phase = "returned" =>
    \A s \in Sessions : \A t \in Turns :
      /\ Cardinality(RowsOf(s, t)) = IF t \in Sent(s) \ Lost(s) THEN 1 ELSE 0
      /\ \A r \in RowsOf(s, t) : r.success = (turn[s][t] = "ok")

\* FinalMeansWhole: a session with a final_turn row has a row for every one
\* of its turns once the step has returned, but for those that a TypeError took
\* from an open-loop session: reports take the session's end from that row,
\* whatever the order in which the answers came.
FinalMeansWhole ==
  phase = "returned" =>
    \A r \in rows : r.final =>
      /\ r.session \in Sequential => Lost(r.session) = {}
      /\ \A t \in Turns \ Lost(r.session) : RowsOf(r.session, t) # {}

\* UntruncatedIsWhole: a session that sessions_truncated does not count has
\* sent all its turns, unless one of them raised; a sequential one has then sent
\* its turns up to that one.
UntruncatedIsWhole ==
  phase = "returned" =>
    \A s \in Sessions \ (pool \cup truncated) :
      \/ Sent(s) = Turns
      \/ \E t \in Turns : turn[s][t] = "raised" /\ (s \in Sequential => Sent(s) = 1 .. t)

\* TranscriptSound: the exchanges a request carries were answered before it
\* was sent, and successfully: a failed turn never enters a later prompt.
TranscriptSound ==
  \A s \in Sessions : \A t \in Sent(s) : Carried(s, t) \subseteq Completed(s) \ {t}

InOrder(turns) == \A i, j \in DOMAIN turns : i < j => turns[i] < turns[j]

\* SequentialTranscript: a turn of a sequential session carries exactly the
\* successful turns before it, each once and in turn order (append_delta), also
\* after the deadline has cancelled one.
SequentialTranscript ==
  \A s \in Sequential : \A t \in Sent(s) :
    Carried(s, t) = Completed(s) \cap 1 .. t - 1 /\ InOrder(messages[s][t])

\* StepReturns: run_step ends, with its result or with PoolExhaustedError.
StepReturns == <>(phase \in {"returned", "raised"})

(***************************************************************************)
(* What the documentation says and the code does not keep.                 *)
(***************************************************************************)

\* TruncatedHasNoFinal: "the session is left without its final_turn row
\* (truncated)" (scheduler.py:12-13).
TruncatedHasNoFinal ==
  phase = "returned" =>
    \A r \in rows : r.session \in truncated => ~r.final

\* TranscriptComplete: "Open-loop follow-ups carry whatever exchanges have
\* completed by send time" (scheduler.py:8), which is what a request sent now
\* would carry.
TranscriptComplete ==
  \A s \in Sessions : {transcript[s][i] : i \in DOMAIN transcript[s]} = Completed(s)

=============================================================================
