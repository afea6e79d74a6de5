-------------------------- MODULE SweepStepProofs --------------------------
(***************************************************************************)
(* Theorems of one sweep step, for any sessions, number of turns, think    *)
(* times and length of the schedule.                                       *)
(*                                                                         *)
(* Each of the properties follows from what the turns of a session look    *)
(* like while it is pooled, running, done and died of an error (Shape): a  *)
(* sequential session has one turn that is due, those before it answered   *)
(* and those after it not begun, and dies with that turn; an open-loop one *)
(* has begun all of its turns, and dies with them going on.  Recorded ties *)
(* the rows to the turns, Ends the drops to the deadline, and Sound the    *)
(* transcripts and messages to the answers; Lined says that a sequential   *)
(* session's transcript is what it has completed, in order.                *)
(***************************************************************************)
EXTENDS SweepStep, FiniteSetTheorems, TLAPS

Answered == {"ok", "failed"}
Ended    == Answered \cup {"raised"}
Began    == {"inflight"} \cup Ended

\* The turn that a sequential session is at, given how far that turn is.
At(f, t, places) ==
  /\ f[t] \in places
  /\ \A u \in 1 .. t - 1 : f[u] \in Answered
  /\ \A u \in t + 1 .. NTurns : f[u] = "none"
DueAt(f, t)  == At(f, t, {"waiting", "inflight"})
DiedAt(f, t) == At(f, t, {"raised"})

Lively(f) == \A t \in Turns : f[t] \in {"waiting"} \cup Began

ShapeOf(s, st, f) ==
  /\ st = "pooled" => \A t \in Turns : f[t] = "none"
  /\ st = "done" => SessionOver(f) /\ \A t \in Turns : f[t] # "raised"
  /\ st = "running" => /\ \A t \in Turns : f[t] # "raised"
                       /\ s \in Sequential => \E t \in Turns : DueAt(f, t)
                       /\ s \in OpenLoop => Lively(f)
  /\ st = "died" => /\ \E t \in Turns : f[t] = "raised"
                    /\ s \in Sequential => \E t \in Turns : DiedAt(f, t)
                    /\ s \in OpenLoop => Lively(f) \/ SessionOver(f)

Shape == \A s \in Sessions : ShapeOf(s, session[s], turn[s])

Ends ==
  /\ phase = "returned" => Running = {}
  /\ truncated # {} => phase \in {"cancelled", "returned"}
  /\ \A s \in Sessions, t \in Turns : turn[s][t] = "dropped" => s \in truncated

Recorded ==
  \A s \in Sessions, t \in Turns :
    RowsOf(s, t) = IF turn[s][t] \in Answered THEN {Row(s, t, turn[s][t] = "ok")} ELSE {}

Exchanges(s) == {transcript[s][i] : i \in DOMAIN transcript[s]}
Sound == TranscriptSound /\ \A s \in Sessions : Exchanges(s) \subseteq Completed(s)

\* Whoever sends the last turn has sent the others.
LastIsLast ==
  \A s \in Sessions :
    turn[s][NTurns] \in Began => \A t \in Turns : turn[s][t] \in Began

Inv == TypeOK /\ Shape /\ Ends /\ Recorded /\ Sound

USE ModesAssumption, BoundsAssumption

(***************************************************************************)
(* What an answer and a cancellation do to the turns of a session.         *)
(***************************************************************************)

LEMMA InitInv == Init => Inv /\ LastIsLast
<1> SUFFICES ASSUME Init PROVE Inv /\ LastIsLast
  OBVIOUS
<1> USE DEF Init
<1>1. TypeOK
  <2>1. Sessions \ pool = {} /\ pool = {s \in Sessions : session[s] = "pooled"}
    OBVIOUS
  <2>2. started = Cardinality(Sessions \ pool)
    BY <2>1, FS_EmptySet
  <2>3. messages \in [Sessions -> [Turns -> Seq(Turns)]] /\ transcript \in [Sessions -> Seq(Turns)]
    OBVIOUS
  <2> QED
    BY <2>1, <2>2, <2>3 DEF TypeOK, Finished
<1>2. Shape /\ LastIsLast
  BY DEF Shape, ShapeOf, LastIsLast, Began, Ended, Answered, Turns
<1>3. Ends /\ Recorded
  BY DEF Ends, Running, Recorded, RowsOf, Answered
<1>4. Sound
  BY DEF Sound, TranscriptSound, Sent, Exchanges
<1> QED
  BY <1>1, <1>2, <1>3, <1>4 DEF Inv

\* Only a running session, or an open-loop one that died, has a turn that waits or
\* is in flight.
LEMMA BusyRuns ==
  ASSUME TypeOK, Shape, NEW s \in Sessions, NEW t \in Turns,
         turn[s][t] \in {"waiting", "inflight"}
  PROVE  /\ session[s] = "running" \/ (session[s] = "died" /\ s \in OpenLoop)
         /\ s \in OpenLoop => Lively(turn[s])
<1>1. ShapeOf(s, session[s], turn[s]) /\ session[s] \in {"pooled", "running", "done", "died"}
  BY DEF TypeOK, Shape
<1>2. ~SessionOver(turn[s]) /\ session[s] # "pooled"
  BY <1>1 DEF ShapeOf, SessionOver, Finished
<1>3. session[s] = "died" => s \notin Sequential
  BY <1>1 DEF ShapeOf, DiedAt, At, Answered, Turns
<1> QED
  BY <1>1, <1>2, <1>3 DEF ShapeOf, Sessions

\* A sequential session that answers its last turn is over; any other answer makes
\* the next turn due, and an error ends it at its turn.
LEMMA NextDue ==
  ASSUME TypeOK, NEW s \in Sequential, NEW t \in Turns, NEW end \in Ended,
         DueAt(turn[s], t)
  PROVE  CASE end = "raised" -> DiedAt(AfterTurn(s, t, end), t)
           [] end # "raised" /\ t = NTurns -> SessionOver(AfterTurn(s, t, end))
           [] OTHER -> t + 1 \in Turns /\ DueAt(AfterTurn(s, t, end), t + 1)
<1> DEFINE after == AfterTurn(s, t, end)
<1>1. \A u \in Turns : after[u] = IF u = t THEN end
                                  ELSE IF u = t + 1 /\ end # "raised" THEN "waiting"
                                  ELSE turn[s][u]
  BY DEF AfterTurn
<1>2. \A u \in 1 .. t - 1 : u \in Turns /\ after[u] \in Answered
  BY <1>1 DEF Turns, DueAt, At
<1>0. CASE end = "raised"
  BY <1>0, <1>1, <1>2 DEF DueAt, DiedAt, At, Turns
<1>3. CASE end # "raised" /\ t = NTurns
  BY <1>1, <1>2, <1>3 DEF SessionOver, Finished, Answered, Ended, Turns
<1>4. CASE end # "raised" /\ t # NTurns
  <2>1. t + 1 \in Turns
    BY <1>4 DEF Turns
  <2>2. \A u \in t + 2 .. NTurns : after[u] = "none"
    BY <1>1 DEF Turns, DueAt, At
  <2>3. after[t + 1] = "waiting" /\ after[t] \in Answered
    BY <1>1, <1>4, <2>1 DEF Turns, Ended
  <2> QED
    BY <1>2, <1>4, <2>1, <2>2, <2>3 DEF DueAt, At, Turns
<1> QED
  BY <1>0, <1>3, <1>4

\* The other turns keep their outcome.
LEMMA AnswerKeeps ==
  ASSUME TypeOK, Shape, NEW s \in Sessions, NEW t \in Turns, NEW end \in Ended,
         turn[s][t] = "inflight"
  PROVE  /\ AfterTurn(s, t, end)[t] = end
         /\ \A u \in Turns \ {t} :
              \/ AfterTurn(s, t, end)[u] = turn[s][u]
              \/ turn[s][u] = "none" /\ AfterTurn(s, t, end)[u] = "waiting"
         /\ s \in OpenLoop => \A u \in Turns \ {t} : AfterTurn(s, t, end)[u] = turn[s][u]
         /\ s \in Sequential => DueAt(turn[s], t)
<1>1. s \in Sequential => session[s] = "running"
  BY BusyRuns
<1>2. ASSUME s \in Sequential PROVE DueAt(turn[s], t)
  <2>1. PICK v \in Turns : DueAt(turn[s], v)
    BY <1>1, <1>2 DEF Shape, ShapeOf
  <2>2. v = t
    BY <2>1 DEF DueAt, At, Turns, Answered
  <2> QED
    BY <2>1, <2>2
<1>3. s \in OpenLoop => s \notin Sequential
  OBVIOUS
<1> QED
  BY <1>2, <1>3 DEF AfterTurn, DueAt, At, Turns

LEMMA AnswerShape ==
  ASSUME TypeOK, Shape, NEW s \in Sessions, NEW t \in Turns, NEW end \in Ended,
         turn[s][t] = "inflight"
  PROVE  ShapeOf(s, TaskAfter(AfterTurn(s, t, end)), AfterTurn(s, t, end))
<1> DEFINE after == AfterTurn(s, t, end)
<1>1. CASE s \in Sequential
  <2>1. DueAt(turn[s], t) /\ s \notin OpenLoop
    BY <1>1, AnswerKeeps
  <2>2. \A u \in Turns \ {t} : after[u] # "raised"
    BY <2>1, AnswerKeeps DEF DueAt, At, Turns, Answered
  <2>3. after[t] = end
    BY AnswerKeeps
  <2>4. CASE end = "raised"
    <3>1. DiedAt(after, t)
      BY <1>1, <2>1, <2>4, NextDue
    <3> QED
      BY <2>1, <2>3, <2>4, <3>1 DEF ShapeOf, TaskAfter
  <2>5. CASE end # "raised"
    <3>1. SessionOver(after) \/ \E u \in Turns : DueAt(after, u)
      BY <1>1, <2>1, <2>5, NextDue
    <3>2. \A u \in Turns : after[u] # "raised"
      BY <2>2, <2>3, <2>5
    <3> QED
      BY <2>1, <3>1, <3>2 DEF ShapeOf, TaskAfter
  <2> QED
    BY <2>4, <2>5
<1>2. CASE s \in OpenLoop
  <2>1. Lively(turn[s]) /\ s \notin Sequential
    BY <1>2, BusyRuns
  <2>2. Lively(after)
    BY <1>2, <2>1, AnswerKeeps DEF Lively, Began
  <2> QED
    BY <2>1, <2>2 DEF ShapeOf, TaskAfter
<1> QED
  BY <1>1, <1>2 DEF Sessions

LEMMA CutEnds == \A s, t, raising : CutEnd(s, t, raising) \in {"failed", "raised"}
BY DEF CutEnd

\* Cancelling ends what is in flight without an answer, keeps what was answered, and
\* puts nothing new in flight.
LEMMA CancelKeeps ==
  ASSUME TypeOK, Shape, NEW s \in Running, NEW t \in Turns, NEW raising
  PROVE  /\ turn[s][t] \in Answered => Cancelled(s, raising)[t] = turn[s][t]
         /\ turn[s][t] = "inflight" => Cancelled(s, raising)[t] = CutEnd(s, t, raising)
         /\ turn[s][t] \in {"none", "waiting", "dropped"} =>
              Cancelled(s, raising)[t] \in {"none", "waiting", "dropped"}
         /\ turn[s][t] # "raised"
         /\ Cancelled(s, raising) \in [Turns -> {"none", "waiting", "inflight"} \cup Finished]
<1>1. s \in Sessions /\ session[s] = "running"
  BY DEF Running
<1>2. turn[s] \in [Turns -> {"none", "waiting", "inflight"} \cup Finished]
  BY <1>1 DEF TypeOK
<1>r. turn[s][t] # "raised"
  BY <1>1 DEF Shape, ShapeOf
<1>3. CASE s \in Sequential /\ InFlight(s) # {}
  <2> DEFINE v   == CHOOSE v \in InFlight(s) : TRUE
             end == CutEnd(s, v, raising)
  <2>1. v \in Turns /\ turn[s][v] = "inflight"
    BY <1>3 DEF InFlight
  <2>0. end = CutEnd(s, v, raising)
    OBVIOUS
  <2>1a. Cancelled(s, raising) = AfterTurn(s, v, CutEnd(s, v, raising))
    BY <1>3 DEF Cancelled
  <2> HIDE DEF v, end
  <2>1b. end \in Ended
    BY <2>0, CutEnds DEF Ended, Answered
  <2>2. Cancelled(s, raising) = AfterTurn(s, v, end) /\ end \in Ended
    BY <2>0, <2>1a, <2>1b
  <2>3. DueAt(turn[s], v)
    BY <1>1, <1>3, <2>1, <2>2, AnswerKeeps
  <2>4. turn[s][t] = "inflight" => t = v
    BY <2>1, <2>3 DEF DueAt, At, Turns, Answered
  <2>5. Cancelled(s, raising) \in [Turns -> {"none", "waiting", "inflight"} \cup Finished]
    BY <1>2, <2>2 DEF AfterTurn, Finished, Ended, Answered
  <2> QED
    BY <1>1, <1>r, <2>0, <2>1, <2>2, <2>4, <2>5, AnswerKeeps DEF Answered
<1>4. CASE ~(s \in Sequential /\ InFlight(s) # {})
  <2>1. Cancelled(s, raising) =
          [u \in Turns |-> CASE turn[s][u] = "inflight" -> CutEnd(s, u, raising)
                          [] turn[s][u] \in {"waiting", "none"} -> "dropped"
                          [] OTHER -> turn[s][u]]
    BY <1>4 DEF Cancelled
  <2> QED
    BY <1>2, <1>r, <2>1, CutEnds DEF Finished, Answered
<1> QED
  BY <1>3, <1>4

LEMMA CancelShape ==
  ASSUME TypeOK, Shape, NEW s \in Running, NEW raising
  PROVE  ShapeOf(s, TaskAfter(Cancelled(s, raising)), Cancelled(s, raising))
<1>1. s \in Sessions /\ session[s] = "running"
  BY DEF Running
<1>2. turn[s] \in [Turns -> {"none", "waiting", "inflight"} \cup Finished]
  BY <1>1 DEF TypeOK
<1>3. CASE s \in Sequential /\ InFlight(s) # {}
  <2> DEFINE v   == CHOOSE v \in InFlight(s) : TRUE
             end == CutEnd(s, v, raising)
  <2>1. v \in Turns /\ turn[s][v] = "inflight"
    BY <1>3 DEF InFlight
  <2>0. end = CutEnd(s, v, raising)
    OBVIOUS
  <2>1a. Cancelled(s, raising) = AfterTurn(s, v, CutEnd(s, v, raising))
    BY <1>3 DEF Cancelled
  <2> HIDE DEF v, end
  <2>1b. end \in Ended
    BY <2>0, CutEnds DEF Ended, Answered
  <2>2. Cancelled(s, raising) = AfterTurn(s, v, end) /\ end \in Ended
    BY <2>0, <2>1a, <2>1b
  <2> QED
    BY <1>1, <2>1, <2>2, AnswerShape
<1>4. CASE ~(s \in Sequential /\ InFlight(s) # {})
  <2>1. Cancelled(s, raising) =
          [u \in Turns |-> CASE turn[s][u] = "inflight" -> CutEnd(s, u, raising)
                          [] turn[s][u] \in {"waiting", "none"} -> "dropped"
                          [] OTHER -> turn[s][u]]
    BY <1>4 DEF Cancelled
  <2>2. SessionOver(Cancelled(s, raising))
    BY <1>2, <2>1, CutEnds DEF SessionOver, Finished
  <2>3. s \in Sequential => \A t \in Turns : Cancelled(s, raising)[t] # "raised"
    <3>1. \A t \in Turns : turn[s][t] # "raised"
      BY <1>1 DEF Shape, ShapeOf
    <3>2. s \in Sequential => \A t \in Turns : turn[s][t] # "inflight"
      BY <1>4 DEF InFlight
    <3> QED
      BY <2>1, <3>1, <3>2
  <2> QED
    BY <2>2, <2>3 DEF ShapeOf, TaskAfter
<1> QED
  BY <1>3, <1>4

(***************************************************************************)
(* The steps, one lemma per action.                                        *)
(***************************************************************************)

LEMMA StartInv ==
  ASSUME Inv, NEW s \in Sessions, StartSession(s)
  PROVE  Inv' /\ (LastIsLast => LastIsLast')
<1> USE DEF Inv, StartSession
<1>1. /\ session[s] = "pooled" /\ \A t \in Turns : turn[s][t] = "none"
      /\ \A t \in Turns : turn'[s][t] \in {"waiting", "none"}
      /\ \A q \in Sessions \ {s} : turn'[q] = turn[q] /\ session'[q] = session[q]
      /\ turn'[s] = [t \in Turns |-> IF s \in OpenLoop \/ t = 1 THEN "waiting" ELSE "none"]
      /\ session'[s] = "running"
  BY DEF TypeOK, Shape, ShapeOf
<1>2. TypeOK'
  <2>1. started' = Cardinality(Sessions \ pool')
    <3>1. Sessions \ pool' = (Sessions \ pool) \cup {s}
      BY DEF TypeOK
    <3>2. IsFiniteSet(Sessions \ pool) /\ s \notin Sessions \ pool
      BY FS_Subset
    <3>3. Cardinality((Sessions \ pool) \cup {s}) = Cardinality(Sessions \ pool) + 1
      BY <3>2, FS_AddElement
    <3> QED
      BY <3>1, <3>3 DEF TypeOK
  <2>2. pool' = {q \in Sessions : session'[q] = "pooled"}
    BY <1>1 DEF TypeOK
  <2>3. turn' \in [Sessions -> [Turns -> {"none", "waiting", "inflight"} \cup Finished]]
    BY <1>1 DEF TypeOK
  <2> QED
    BY <2>1, <2>2, <2>3 DEF TypeOK
<1>3. Shape'
  <2>1. ShapeOf(s, "running", turn'[s])
    <3>1. CASE s \in OpenLoop
      BY <1>1, <3>1 DEF ShapeOf, Lively
    <3>2. CASE s \in Sequential
      <4>1. 1 \in Turns /\ s \notin OpenLoop
        BY <3>2 DEF Turns
      <4>2. DueAt(turn'[s], 1)
        BY <1>1, <4>1 DEF DueAt, At, Turns
      <4> QED
        BY <1>1, <4>1, <4>2 DEF ShapeOf
    <3> QED
      BY <3>1, <3>2 DEF Sessions
  <2> QED
    BY <1>1, <2>1 DEF Shape
<1>4. Ends'
  <2>1. truncated' = {} /\ phase' = "arrivals"
    BY DEF Ends
  <2> QED
    BY <1>1, <2>1 DEF Ends
<1>5. Recorded'
  BY <1>1 DEF Recorded, RowsOf, Row, Answered
<1>6. Sound'
  BY <1>1 DEF Sound, TranscriptSound, Sent, Carried, Completed, Exchanges
<1>7. LastIsLast => LastIsLast'
  BY <1>1 DEF LastIsLast, Began, Ended, Answered, Turns
<1> QED
  BY <1>2, <1>3, <1>4, <1>5, <1>6, <1>7

\* Only the phase changes.
LEMMA PhaseInv ==
  ASSUME Inv, PoolExhausted \/ Drain \/ Return \/ UNCHANGED vars
  PROVE  Inv' /\ (LastIsLast => LastIsLast')
<1> USE DEF Inv, PoolExhausted, Drain, Return, vars
<1>1. UNCHANGED <<started, pool, session, turn, messages, transcript, rows, truncated>>
  OBVIOUS
<1>2. TypeOK'
  BY <1>1 DEF TypeOK
<1>3. (Shape /\ Recorded /\ Sound)' /\ (LastIsLast => LastIsLast')
  BY <1>1 DEF Shape, Recorded, RowsOf, Sound, TranscriptSound, Sent, Carried, Completed,
              Exchanges, LastIsLast
<1>4. Ends'
  BY <1>1 DEF Ends, Running
<1> QED
  BY <1>2, <1>3, <1>4

LEMMA SendInv ==
  ASSUME Inv, NEW s \in Sessions, NEW t \in Turns, Send(s, t)
  PROVE  Inv' /\ (NTurns \notin ZeroThink /\ LastIsLast => LastIsLast')
<1> USE DEF Inv, Send
<1>1. /\ turn[s][t] = "waiting" /\ turn'[s][t] = "inflight"
      /\ \A q \in Sessions, u \in Turns : q # s \/ u # t => turn'[q][u] = turn[q][u]
      /\ turn' \in [Sessions -> [Turns -> {"none", "waiting", "inflight"} \cup Finished]]
  BY DEF TypeOK
<1>2. /\ messages'[s][t] = transcript[s]
      /\ \A q \in Sessions, u \in Turns : q # s \/ u # t => messages'[q][u] = messages[q][u]
      /\ messages' \in [Sessions -> [Turns -> Seq(Turns)]]
  BY DEF TypeOK
<1>3. TypeOK'
  BY <1>1, <1>2 DEF TypeOK
<1>4. Shape'
  <2>1. ASSUME NEW q \in Sessions \ {s} PROVE ShapeOf(q, session'[q], turn'[q])
    <3>1. turn'[q] = turn[q]
      BY <2>1 DEF TypeOK
    <3> QED
      BY <2>1, <3>1 DEF Shape
  <2>2. ShapeOf(s, session'[s], turn'[s])
    <3>1. CASE s \in OpenLoop
      <4>1. session[s] \in {"running", "died"} /\ Lively(turn[s]) /\ s \notin Sequential
        BY <1>1, <3>1, BusyRuns
      <4>2. Lively(turn'[s])
        BY <1>1, <4>1 DEF Lively, Began
      <4>3. \A u \in Turns : turn'[s][u] = "raised" <=> turn[s][u] = "raised"
        BY <1>1
      <4> QED
        BY <4>1, <4>2, <4>3 DEF Shape, ShapeOf
    <3>2. CASE s \in Sequential
      <4>0. session[s] = "running" /\ s \notin OpenLoop
        BY <1>1, <3>2, BusyRuns
      <4>1. PICK v \in Turns : DueAt(turn[s], v)
        BY <3>2, <4>0 DEF Shape, ShapeOf
      <4>2. v = t
        BY <1>1, <4>1 DEF DueAt, At, Turns, Answered
      <4>3. DueAt(turn'[s], t)
        BY <1>1, <4>1, <4>2 DEF DueAt, At, Turns
      <4>4. \A u \in Turns : turn'[s][u] # "raised"
        BY <4>3 DEF DueAt, At, Turns, Answered
      <4> QED
        BY <4>0, <4>3, <4>4 DEF ShapeOf
    <3> QED
      BY <3>1, <3>2 DEF Sessions
  <2> QED
    BY <2>1, <2>2 DEF Shape
<1>5. Ends'
  BY <1>1 DEF Ends, Running
<1>6. Recorded'
  BY <1>1 DEF Recorded, RowsOf, Row, Answered
<1>7. Sound'
  <2>1. \A q \in Sessions : Completed(q)' = Completed(q) /\ Exchanges(q)' = Exchanges(q)
    BY <1>1 DEF Completed, Exchanges
  <2>2. Carried(s, t)' \subseteq Completed(s)' \ {t}
    <3>1. Carried(s, t)' = Exchanges(s) /\ t \notin Completed(s)
      BY <1>1, <1>2 DEF Carried, Exchanges, Completed
    <3> QED
      BY <2>1, <3>1 DEF Sound
  <2>3. ASSUME NEW q \in Sessions, NEW u \in Sent(q)', q # s \/ u # t
        PROVE  Carried(q, u)' \subseteq Completed(q)' \ {u}
    <3>1. u \in Sent(q) /\ Carried(q, u)' = Carried(q, u)
      BY <1>1, <1>2, <2>3 DEF Sent, Carried
    <3> QED
      BY <2>1, <3>1 DEF Sound, TranscriptSound
  <2>4. TranscriptSound'
    BY <2>2, <2>3 DEF TranscriptSound
  <2> QED
    BY <2>1, <2>4 DEF Sound
<1>8. ASSUME NTurns \notin ZeroThink, LastIsLast PROVE LastIsLast'
  <2> SUFFICES ASSUME NEW q \in Sessions, turn'[q][NTurns] \in Began, NEW u \in Turns
               PROVE  turn'[q][u] \in Began
    BY DEF LastIsLast
  <2>1. NTurns \in Turns
    BY DEF Turns
  <2>2. CASE q # s \/ t # NTurns
    BY <1>1, <1>8, <2>1, <2>2 DEF LastIsLast, Began
  <2>3. CASE q = s /\ t = NTurns /\ u = t
    BY <1>1, <2>3 DEF Began
  <2>4. CASE q = s /\ t = NTurns /\ u # t
    <3>1. u \in 1 .. t - 1
      BY <2>4 DEF Turns
    <3>2. turn[s][u] \in Began
      <4>1. CASE s \in OpenLoop
        <5>1. Lively(turn[s])
          BY <1>1, <4>1, BusyRuns
        <5> QED
          BY <1>8, <2>4, <3>1, <4>1, <5>1 DEF Due, Lively
      <4>2. CASE s \in Sequential
        <5>0. session[s] = "running"
          BY <1>1, <4>2, BusyRuns
        <5>1. PICK v \in Turns : DueAt(turn[s], v)
          BY <4>2, <5>0 DEF Shape, ShapeOf
        <5>2. v = t
          BY <1>1, <5>1 DEF DueAt, At, Turns, Answered
        <5> QED
          BY <3>1, <5>1, <5>2 DEF DueAt, At, Began, Ended
      <4> QED
        BY <4>1, <4>2 DEF Sessions
    <3> QED
      BY <1>1, <2>4, <3>2
  <2> QED
    BY <2>2, <2>3, <2>4
<1> QED
  BY <1>3, <1>4, <1>5, <1>6, <1>7, <1>8

\* The transcript of an answered turn is what it carried and the turn itself.
LEMMA AnswerExchanges ==
  ASSUME Inv, NEW s \in Sessions, NEW t \in Turns, NEW outcome \in Outcomes,
         Answer(s, t, outcome)
  PROVE  /\ transcript' \in [Sessions -> Seq(Turns)]
         /\ \A q \in Sessions \ {s} : Exchanges(q)' = Exchanges(q)
         /\ outcome # "ok" => Exchanges(s)' = Exchanges(s)
         /\ outcome = "ok" => Exchanges(s)' = Carried(s, t) \cup {t}
<1> USE DEF Inv, Answer
<1>1. messages[s][t] \in Seq(Turns) /\ transcript \in [Sessions -> Seq(Turns)]
  BY DEF TypeOK
<1>2. ASSUME NEW q \in Sessions, q # s \/ outcome # "ok" PROVE transcript'[q] = transcript[q]
  BY <1>1, <1>2
<1>3. ASSUME outcome = "ok" PROVE transcript'[s] = Append(messages[s][t], t)
  BY <1>1, <1>3
<1>4. ASSUME NEW m \in Seq(Turns)
      PROVE  {Append(m, t)[i] : i \in DOMAIN Append(m, t)} = {m[i] : i \in DOMAIN m} \cup {t}
  <2>1. DOMAIN Append(m, t) = DOMAIN m \cup {Len(m) + 1} /\ Append(m, t)[Len(m) + 1] = t
    OBVIOUS
  <2>2. \A i \in DOMAIN m : Append(m, t)[i] = m[i]
    OBVIOUS
  <2> QED
    BY <2>1, <2>2
<1>5. ASSUME outcome = "ok" PROVE Exchanges(s)' = Carried(s, t) \cup {t}
  BY <1>1, <1>3, <1>4, <1>5 DEF Exchanges, Carried
<1>6. transcript' \in [Sessions -> Seq(Turns)]
  BY <1>1
<1> QED
  BY <1>2, <1>5, <1>6 DEF Exchanges

LEMMA AnswerInv ==
  ASSUME Inv, NEW s \in Sessions, NEW t \in Turns, NEW outcome \in Outcomes,
         Answer(s, t, outcome)
  PROVE  Inv' /\ (LastIsLast => LastIsLast')
<1> DEFINE after == AfterTurn(s, t, outcome)
           kept  == IF outcome = "raised" THEN {} ELSE {Row(s, t, outcome = "ok")}
<1> USE DEF Inv, Answer
<1>1. outcome \in Ended
  BY DEF Outcomes, Ended, Answered
<1>2. turn[s][t] = "inflight" /\ phase # "returned"
      /\ session[s] \in {"running", "died"}
  BY BusyRuns
<1>3. after[t] = outcome /\ \A u \in Turns \ {t} :
        after[u] = turn[s][u] \/ (turn[s][u] = "none" /\ after[u] = "waiting")
  BY <1>1, <1>2, AnswerKeeps
<1>4. ShapeOf(s, TaskAfter(after), after)
  BY <1>1, <1>2, AnswerShape
<1>5. after \in [Turns -> {"none", "waiting", "inflight"} \cup Finished]
  <2>1. turn[s] \in [Turns -> {"none", "waiting", "inflight"} \cup Finished]
    BY DEF TypeOK
  <2> QED
    BY <1>1, <2>1 DEF AfterTurn, Finished, Ended, Answered
<1>6. /\ turn'[s] = after
      /\ session'[s] = TaskAfter(after)
      /\ \A q \in Sessions \ {s} : turn'[q] = turn[q] /\ session'[q] = session[q]
      /\ turn' \in [Sessions -> [Turns -> {"none", "waiting", "inflight"} \cup Finished]]
      /\ session' \in [Sessions -> {"pooled", "running", "done", "died"}]
  <2>1. turn' = [turn EXCEPT ![s] = after] /\ turn \in [Sessions -> [Turns ->
          {"none", "waiting", "inflight"} \cup Finished]]
    BY DEF TypeOK
  <2> HIDE DEF after
  <2>2. turn'[s] = after /\ \A q \in Sessions \ {s} : turn'[q] = turn[q]
    BY <2>1
  <2>3. session' = [session EXCEPT ![s] = TaskAfter(after)]
    BY <2>2
  <2>4. TaskAfter(after) \in {"running", "done", "died"}
    BY DEF TaskAfter
  <2> QED
    BY <1>5, <2>1, <2>2, <2>3, <2>4 DEF TypeOK
<1>r. rows' = rows \cup kept
  OBVIOUS
<1> HIDE DEF after, kept
<1>7. TypeOK'
  <2>1. pool = {q \in Sessions : session'[q] = "pooled"}
    BY <1>2, <1>6 DEF TypeOK, TaskAfter
  <2>2. kept \subseteq [session : Sessions, turn : Turns, success : BOOLEAN, final : BOOLEAN]
    <3>1. Row(s, t, outcome = "ok") \in
            [session : Sessions, turn : Turns, success : BOOLEAN, final : BOOLEAN]
      BY DEF Row
    <3>2. kept \subseteq {Row(s, t, outcome = "ok")}
      BY DEF kept
    <3> QED
      BY <3>1, <3>2
  <2>3. transcript' \in [Sessions -> Seq(Turns)]
    BY AnswerExchanges
  <2>4. rows' \subseteq [session : Sessions, turn : Turns, success : BOOLEAN, final : BOOLEAN]
    BY <1>r, <2>2 DEF TypeOK
  <2> QED
    BY <1>6, <2>1, <2>3, <2>4 DEF TypeOK
<1>8. Shape'
  BY <1>4, <1>6 DEF Shape
<1>9. Ends'
  <2>1. \A q \in Sessions, u \in Turns : turn'[q][u] = "dropped" => turn[q][u] = "dropped"
    BY <1>1, <1>3, <1>6 DEF Ended, Answered
  <2> QED
    BY <1>2, <2>1 DEF Ends
<1>10. Recorded'
  <2> SUFFICES ASSUME NEW q \in Sessions, NEW u \in Turns
               PROVE  RowsOf(q, u)' = IF turn'[q][u] \in Answered
                                      THEN {Row(q, u, turn'[q][u] = "ok")} ELSE {}
    BY DEF Recorded, Row
  <2>1. RowsOf(q, u) = IF turn[q][u] \in Answered THEN {Row(q, u, turn[q][u] = "ok")} ELSE {}
    BY DEF Recorded
  <2>2. CASE q = s /\ u = t
    <3>1. RowsOf(s, t) = {}
      BY <1>2, <2>1, <2>2 DEF Answered
    <3>2. RowsOf(s, t)' = kept
      BY <1>r, <3>1 DEF RowsOf, Row, kept
    <3>3. turn'[s][t] = outcome
      BY <1>3, <1>6
    <3> QED
      BY <1>1, <2>2, <3>2, <3>3 DEF kept, Ended, Answered
  <2>3. CASE q # s \/ u # t
    <3>1. RowsOf(q, u)' = RowsOf(q, u)
      BY <1>r, <2>3 DEF RowsOf, Row, kept
    <3>2. \/ turn'[q][u] = turn[q][u]
          \/ turn'[q][u] \notin Answered /\ turn[q][u] \notin Answered
      BY <1>3, <1>6, <2>3 DEF Answered
    <3> QED
      BY <2>1, <3>1, <3>2
  <2> QED
    BY <2>2, <2>3
<1>11. Sound'
  <2>1. \A q \in Sessions \ {s} : Completed(q)' = Completed(q) /\ Sent(q)' = Sent(q)
    BY <1>6 DEF Completed, Sent
  <2>2. /\ Completed(s)' = IF outcome = "ok" THEN Completed(s) \cup {t} ELSE Completed(s)
        /\ Sent(s)' = Sent(s) /\ t \in Sent(s)
    BY <1>1, <1>2, <1>3, <1>6 DEF Completed, Sent, Ended, Answered
  <2>3. \A q \in Sessions : \A u \in Turns : Carried(q, u)' = Carried(q, u)
    BY DEF Carried
  <2>4. Carried(s, t) \subseteq Completed(s)
    BY <2>2 DEF Sound, TranscriptSound
  <2>5. \A q \in Sessions : Exchanges(q)' \subseteq Completed(q)'
    <3>1. /\ \A q \in Sessions \ {s} : Exchanges(q)' = Exchanges(q)
          /\ outcome # "ok" => Exchanges(s)' = Exchanges(s)
          /\ outcome = "ok" => Exchanges(s)' = Carried(s, t) \cup {t}
      BY AnswerExchanges, Zenon
    <3>2. \A q \in Sessions : Exchanges(q) \subseteq Completed(q)
      BY DEF Sound
    <3>3. ASSUME NEW q \in Sessions \ {s} PROVE Exchanges(q)' \subseteq Completed(q)'
      BY <2>1, <3>1, <3>2
    <3>4. Exchanges(s)' \subseteq Completed(s)'
      <4> HIDE DEF Answer
      <4>1. CASE outcome = "ok"
        BY <2>2, <2>4, <3>1, <4>1
      <4>2. CASE outcome # "ok"
        BY <2>2, <3>1, <3>2, <4>2
      <4> QED
        BY <4>1, <4>2
    <3> QED
      BY <3>3, <3>4
  <2>6. TranscriptSound'
    <3>1. \A q \in Sessions : Sent(q)' \subseteq Turns /\ Completed(q) \subseteq Completed(q)'
      BY <2>1, <2>2 DEF Sent
    <3> QED
      BY <2>1, <2>2, <2>3, <3>1 DEF Sound, TranscriptSound
  <2> QED
    BY <2>5, <2>6 DEF Sound
<1>12. LastIsLast => LastIsLast'
  <2>1. NTurns \in Turns
    BY DEF Turns
  <2>2. \A q \in Sessions, u \in Turns : turn'[q][u] \in Began <=> turn[q][u] \in Began
    BY <1>1, <1>2, <1>3, <1>6 DEF Began, Ended, Answered
  <2> QED
    BY <2>1, <2>2 DEF LastIsLast
<1> QED
  BY <1>7, <1>8, <1>9, <1>10, <1>11, <1>12

LEMMA CutPairs ==
  ASSUME NEW s, NEW t
  PROVE  <<s, t>> \in Cut <=> s \in Running /\ t \in Turns /\ turn[s][t] = "inflight"
BY DEF Cut

LEMMA DeadlineInv ==
  ASSUME Inv, Deadline
  PROVE  Inv' /\ (LastIsLast => LastIsLast')
<1> USE DEF Inv
<1>0. PICK raising \in SUBSET Cut :
        /\ turn' = [s \in Sessions |->
                      IF s \in Running THEN Cancelled(s, raising) ELSE turn[s]]
        /\ session' = [s \in Sessions |->
                         IF s \in Running THEN TaskAfter(turn'[s]) ELSE session[s]]
        /\ rows' = rows \cup {Row(q[1], q[2], FALSE) : q \in Cut \ raising}
  BY Zenon DEF Deadline
<1>d. /\ phase = "drain" /\ phase' = "cancelled" /\ truncated' = Running
      /\ UNCHANGED <<started, pool, messages, transcript>>
  BY DEF Deadline
<1>1. \A s \in Running : s \in Sessions /\ session[s] = "running"
  BY DEF Running
<1>3. /\ \A s \in Running : turn'[s] = Cancelled(s, raising)
      /\ \A s \in Sessions \ Running : turn'[s] = turn[s] /\ session'[s] = session[s]
      /\ \A s \in Running : session'[s] = TaskAfter(Cancelled(s, raising))
  BY <1>0, <1>1
<1>4. /\ turn' \in [Sessions -> [Turns -> {"none", "waiting", "inflight"} \cup Finished]]
      /\ session' \in [Sessions -> {"pooled", "running", "done", "died"}]
  <2>1. \A s \in Running :
          Cancelled(s, raising) \in [Turns -> {"none", "waiting", "inflight"} \cup Finished]
    <3>1. 1 \in Turns
      BY DEF Turns
    <3> QED
      BY <3>1, CancelKeeps
  <2>2. turn' \in [Sessions -> [Turns -> {"none", "waiting", "inflight"} \cup Finished]]
    BY <1>0, <2>1 DEF TypeOK
  <2>3. \A f : TaskAfter(f) \in {"running", "done", "died"}
    BY DEF TaskAfter
  <2>4. session' \in [Sessions -> {"pooled", "running", "done", "died"}]
    BY <1>0, <2>3 DEF TypeOK
  <2> QED
    BY <2>2, <2>4
<1>5. ASSUME NEW s \in Sessions, NEW t \in Turns
      PROVE  /\ turn'[s][t] = "ok" <=> turn[s][t] = "ok"
             /\ turn'[s][t] = "failed" <=>
                  turn[s][t] = "failed" \/ <<s, t>> \in Cut \ raising
             /\ turn'[s][t] \in Began <=> turn[s][t] \in Began
             /\ turn'[s][t] = "dropped" => s \in Running \/ turn[s][t] = "dropped"
  <2>1. CASE s \in Running
    <3>1. turn[s][t] \in {"none", "waiting", "inflight"} \cup Finished
      BY DEF TypeOK
    <3>2. turn'[s][t] = Cancelled(s, raising)[t]
      BY <1>3, <2>1
    <3>3. <<s, t>> \in Cut <=> turn[s][t] = "inflight"
      BY <2>1, CutPairs
    <3>4. CutEnd(s, t, raising) = IF <<s, t>> \in raising THEN "raised" ELSE "failed"
      BY DEF CutEnd
    <3> QED
      BY <2>1, <3>1, <3>2, <3>3, <3>4, CancelKeeps DEF Began, Ended, Answered, Finished
  <2>2. CASE s \notin Running
    <3>1. turn'[s] = turn[s] /\ <<s, t>> \notin Cut
      BY <1>3, <2>2, CutPairs
    <3> QED
      BY <3>1
  <2> QED
    BY <2>1, <2>2
<1>6. \A r : r \in rows' <=>
        \/ r \in rows
        \/ \E s \in Running, t \in Turns : <<s, t>> \in Cut \ raising /\ r = Row(s, t, FALSE)
  <2>1. \A q \in Cut : q = <<q[1], q[2]>> /\ q[1] \in Running /\ q[2] \in Turns
    BY DEF Cut
  <2>2. \A s, t : <<s, t>>[1] = s /\ <<s, t>>[2] = t
    OBVIOUS
  <2>3. \A r : r \in rows' <=> r \in rows \/ \E q \in Cut \ raising : r = Row(q[1], q[2], FALSE)
    BY <1>0, Zenon
  <2>4. ASSUME NEW r, NEW q \in Cut \ raising, r = Row(q[1], q[2], FALSE)
        PROVE  \E s \in Running, t \in Turns :
                 <<s, t>> \in Cut \ raising /\ r = Row(s, t, FALSE)
    <3> DEFINE s == q[1]
               t == q[2]
    <3>1. s \in Running /\ t \in Turns /\ <<s, t>> = q
      BY <2>1
    <3> HIDE DEF s, t
    <3>2. r = Row(s, t, FALSE)
      BY <2>4 DEF s, t
    <3> QED
      BY <3>1, <3>2
  <2>5. ASSUME NEW r, NEW s \in Running, NEW t \in Turns,
               <<s, t>> \in Cut \ raising, r = Row(s, t, FALSE)
        PROVE  \E q \in Cut \ raising : r = Row(q[1], q[2], FALSE)
    BY <2>2, <2>5, Zenon
  <2> QED
    BY <2>3, <2>4, <2>5, Zenon
<1>6a. \A r \in rows' \ rows : <<r.session, r.turn>> \in Cut \ raising /\ r = Row(r.session, r.turn, FALSE)
  <2> SUFFICES ASSUME NEW r \in rows', r \notin rows
               PROVE  <<r.session, r.turn>> \in Cut \ raising /\ r = Row(r.session, r.turn, FALSE)
    OBVIOUS
  <2>1. PICK s \in Running, t \in Turns : <<s, t>> \in Cut \ raising /\ r = Row(s, t, FALSE)
    BY <1>6, Zenon
  <2>2. r.session = s /\ r.turn = t
    BY <2>1 DEF Row
  <2> QED
    BY <2>1, <2>2
<1>7. TypeOK'
  <2>1. pool' = {s \in Sessions : session'[s] = "pooled"}
    BY <1>1, <1>3, <1>d DEF TypeOK, TaskAfter
  <2>2. \A s \in Running : \A t \in Turns : Row(s, t, FALSE) \in
          [session : Sessions, turn : Turns, success : BOOLEAN, final : BOOLEAN]
    BY <1>1 DEF Row
  <2>3. rows' \subseteq [session : Sessions, turn : Turns, success : BOOLEAN, final : BOOLEAN]
    <3> SUFFICES ASSUME NEW r \in rows'
                 PROVE  r \in [session : Sessions, turn : Turns, success : BOOLEAN,
                               final : BOOLEAN]
      OBVIOUS
    <3>1. CASE r \in rows
      BY <3>1 DEF TypeOK
    <3>2. CASE r \notin rows
      <4>1. PICK s \in Running, t \in Turns : r = Row(s, t, FALSE)
        BY <1>6, <3>2, Zenon
      <4> QED
        BY <2>2, <4>1, Zenon
    <3> QED
      BY <3>1, <3>2
  <2>4. truncated' \subseteq Sessions
    BY <1>1, <1>d
  <2> QED
    BY <1>4, <1>d, <2>1, <2>3, <2>4 DEF TypeOK
<1>8. Shape'
  <2>1. \A s \in Running : ShapeOf(s, session'[s], turn'[s])
    BY <1>3, CancelShape
  <2>2. \A s \in Sessions \ Running : ShapeOf(s, session'[s], turn'[s])
    BY <1>3 DEF Shape
  <2> QED
    BY <2>1, <2>2 DEF Shape
<1>9. Ends'
  <2>1. truncated = {}
    BY <1>d DEF Ends
  <2>2. \A s \in Sessions, t \in Turns : turn[s][t] # "dropped"
    BY <2>1 DEF Ends
  <2> QED
    BY <1>5, <1>d, <2>2 DEF Ends
<1>10. Recorded'
  <2> SUFFICES ASSUME NEW s \in Sessions, NEW t \in Turns
               PROVE  RowsOf(s, t)' = IF turn'[s][t] \in Answered
                                      THEN {Row(s, t, turn'[s][t] = "ok")} ELSE {}
    BY DEF Recorded, Row
  <2>1. RowsOf(s, t) = IF turn[s][t] \in Answered THEN {Row(s, t, turn[s][t] = "ok")} ELSE {}
    BY DEF Recorded
  <2>2. CASE <<s, t>> \in Cut \ raising
    <3>1. s \in Running /\ turn[s][t] = "inflight"
      BY <2>2, CutPairs
    <3>2. Row(s, t, FALSE) \in RowsOf(s, t)'
      BY <1>6, <2>2, <3>1 DEF RowsOf, Row
    <3>3. RowsOf(s, t) = {}
      BY <2>1, <3>1 DEF Answered
    <3>4. \A r \in RowsOf(s, t)' : r = Row(s, t, FALSE)
      BY <1>6a, <3>3 DEF RowsOf
    <3>5. turn'[s][t] = "failed"
      BY <1>5, <2>2
    <3> QED
      BY <3>2, <3>4, <3>5 DEF Answered
  <2>3. CASE <<s, t>> \notin Cut \ raising
    <3>1. RowsOf(s, t)' = RowsOf(s, t)
      BY <1>6, <1>6a, <2>3 DEF RowsOf
    <3>2. /\ turn'[s][t] \in Answered <=> turn[s][t] \in Answered
          /\ (turn'[s][t] = "ok") = (turn[s][t] = "ok")
      BY <1>5, <2>3 DEF Answered
    <3> QED
      BY <2>1, <3>1, <3>2
  <2> QED
    BY <2>2, <2>3
<1>11. Sound'
  <2>1. \A s \in Sessions : /\ Completed(s)' = Completed(s) /\ Sent(s)' = Sent(s)
                            /\ Exchanges(s)' = Exchanges(s)
    <3>1. ASSUME NEW s \in Sessions PROVE Completed(s)' = Completed(s)
      BY <1>5 DEF Completed
    <3>2. ASSUME NEW s \in Sessions PROVE Sent(s)' = Sent(s)
      BY <1>5 DEF Sent, Began, Ended, Answered
    <3>3. ASSUME NEW s \in Sessions PROVE Exchanges(s)' = Exchanges(s)
      BY <1>d DEF Exchanges
    <3> QED
      BY <3>1, <3>2, <3>3
  <2>2. \A s \in Sessions : \A t \in Turns : Carried(s, t)' = Carried(s, t)
    BY <1>d DEF Carried
  <2>3. \A s \in Sessions : Sent(s) \subseteq Turns
    BY DEF Sent
  <2> QED
    BY <2>1, <2>2, <2>3 DEF Sound, TranscriptSound
<1>12. LastIsLast => LastIsLast'
  <2>1. NTurns \in Turns
    BY DEF Turns
  <2>2. \A s \in Sessions, t \in Turns : turn'[s][t] \in Began <=> turn[s][t] \in Began
    BY <1>5
  <2> QED
    BY <2>1, <2>2 DEF LastIsLast
<1> QED
  BY <1>7, <1>8, <1>9, <1>10, <1>11, <1>12

LEMMA StepInv ==
  ASSUME Inv, [Next]_vars
  PROVE  Inv' /\ (NTurns \notin ZeroThink /\ LastIsLast => LastIsLast')
<1>1. ASSUME NEW s \in Sessions, NEW t \in Turns, NEW outcome \in Outcomes,
             Answer(s, t, outcome)
      PROVE  Inv' /\ (LastIsLast => LastIsLast')
  BY <1>1, AnswerInv
<1> QED
  BY <1>1, StartInv, PhaseInv, SendInv, DeadlineInv DEF Next, Turning

LEMMA Invariant == Spec => []Inv
<1> QED
  BY InitInv, StepInv, PTL DEF Spec

(***************************************************************************)
(* The transcript of a sequential session lists its completed turns in     *)
(* order, so that the turn that is due carries just those.                 *)
(***************************************************************************)

Lined ==
  /\ SequentialTranscript
  /\ \A s \in Sequential : Exchanges(s) = Completed(s) /\ InOrder(transcript[s])

\* A step that sends or answers nothing in a session, and changes none of its
\* completed turns, leaves it in line.
LEMMA LinedFrame ==
  ASSUME Lined, NEW s \in Sequential,
         messages'[s] = messages[s], transcript'[s] = transcript[s],
         Completed(s)' = Completed(s), Sent(s)' \subseteq Sent(s)
  PROVE  /\ Exchanges(s)' = Completed(s)' /\ InOrder(transcript'[s])
         /\ \A t \in Sent(s)' : /\ Carried(s, t)' = Completed(s)' \cap 1 .. t - 1
                               /\ InOrder(messages'[s][t])
<1>1. Exchanges(s)' = Exchanges(s)
  BY DEF Exchanges
<1>2. \A t \in Turns : Carried(s, t)' = Carried(s, t)
  BY DEF Carried
<1>3. Sent(s) \subseteq Turns
  BY DEF Sent
<1> QED
  BY <1>1, <1>2, <1>3 DEF Lined, SequentialTranscript

\* The completed turns of a sequential session precede the one that is due.
LEMMA DueBounds ==
  ASSUME TypeOK, Shape, NEW s \in Sequential, NEW t \in Turns,
         turn[s][t] \in {"waiting", "inflight"}
  PROVE  /\ DueAt(turn[s], t)
         /\ Completed(s) \subseteq 1 .. t - 1
         /\ \A u \in Sent(s) \ {t} : u < t
<1>1. s \in Sessions /\ s \notin OpenLoop
  BY DEF Sessions
<1>0. session[s] = "running"
  BY <1>1, BusyRuns
<1>2. PICK v \in Turns : DueAt(turn[s], v)
  BY <1>0, <1>1 DEF Shape, ShapeOf
<1>3. v = t
  BY <1>2 DEF DueAt, At, Turns, Answered
<1> QED
  BY <1>2, <1>3 DEF DueAt, At, Turns, Completed, Sent, Answered

LEMMA SendLined ==
  ASSUME Inv, Lined, NEW s \in Sessions, NEW t \in Turns, Send(s, t)
  PROVE  Lined'
<1> USE DEF Inv, Send
<1>1. /\ turn[s][t] = "waiting" /\ turn'[s][t] = "inflight"
      /\ \A q \in Sessions, u \in Turns : q # s \/ u # t => turn'[q][u] = turn[q][u]
      /\ \A q \in Sessions : q # s => messages'[q] = messages[q]
      /\ messages'[s][t] = transcript[s]
      /\ \A u \in Turns : u # t => messages'[s][u] = messages[s][u]
      /\ transcript' = transcript
  BY DEF TypeOK
<1>2. \A q \in Sessions : Completed(q)' = Completed(q) /\ (q # s => Sent(q)' = Sent(q))
  BY <1>1 DEF Completed, Sent
<1> SUFFICES ASSUME NEW q \in Sequential
             PROVE  /\ Exchanges(q)' = Completed(q)' /\ InOrder(transcript'[q])
                    /\ \A u \in Sent(q)' : /\ Carried(q, u)' = Completed(q)' \cap 1 .. u - 1
                                          /\ InOrder(messages'[q][u])
  BY DEF Lined, SequentialTranscript
<1>3. CASE q # s
  <2>1. q \in Sessions
    BY DEF Sessions
  <2>2. /\ Completed(q)' = Completed(q) /\ Sent(q)' \subseteq Sent(q)
        /\ messages'[q] = messages[q] /\ transcript'[q] = transcript[q]
    BY <1>1, <1>2, <1>3, <2>1
  <2> QED
    BY <2>2, LinedFrame
<1>4. CASE q = s
  <2>1. Exchanges(s)' = Completed(s)' /\ InOrder(transcript'[s])
    BY <1>1, <1>2, <1>4 DEF Exchanges, Lined
  <2>2. Carried(s, t)' = Completed(s)' \cap 1 .. t - 1 /\ InOrder(messages'[s][t])
    <3>1. Completed(s) \subseteq 1 .. t - 1
      BY <1>1, <1>4, DueBounds
    <3>2. Carried(s, t)' = Exchanges(s)
      BY <1>1 DEF Carried, Exchanges
    <3> QED
      BY <1>1, <1>2, <1>4, <3>1, <3>2 DEF Lined
  <2>3. ASSUME NEW u \in Sent(s)', u # t
        PROVE  Carried(s, u)' = Completed(s)' \cap 1 .. u - 1 /\ InOrder(messages'[s][u])
    <3>1. u \in Sent(s) /\ Carried(s, u)' = Carried(s, u)
      BY <1>1, <2>3 DEF Sent, Carried
    <3> QED
      BY <1>1, <1>2, <1>4, <2>3, <3>1 DEF Lined, SequentialTranscript, Sent
  <2> QED
    BY <1>4, <2>1, <2>2, <2>3
<1> QED
  BY <1>3, <1>4

\* A success appends its turn to what it carried.
LEMMA AnswerLinedUp ==
  ASSUME NEW m \in Seq(Turns), NEW t \in Turns, InOrder(m),
         \A i \in DOMAIN m : m[i] < t
  PROVE  InOrder(Append(m, t))
BY DEF InOrder, Turns

LEMMA AnswerLined ==
  ASSUME Inv, Lined, NEW s \in Sessions, NEW t \in Turns, NEW outcome \in Outcomes,
         Answer(s, t, outcome)
  PROVE  Lined'
<1> USE DEF Inv
<1>1. /\ turn[s][t] = "inflight" /\ messages' = messages
      /\ transcript' = [transcript EXCEPT ![s] =
                          IF outcome = "ok" THEN Append(messages[s][t], t) ELSE @]
      /\ turn' = [turn EXCEPT ![s] = AfterTurn(s, t, outcome)]
  BY DEF Answer
<1>2. outcome \in Ended
  BY DEF Outcomes, Ended, Answered
<1>3. /\ turn'[s][t] = outcome
      /\ \A u \in Turns \ {t} :
           turn'[s][u] = turn[s][u] \/ (turn[s][u] = "none" /\ turn'[s][u] = "waiting")
      /\ \A q \in Sessions \ {s} : turn'[q] = turn[q]
  <2>1. /\ turn'[s] = AfterTurn(s, t, outcome)
        /\ \A q \in Sessions \ {s} : turn'[q] = turn[q]
    BY <1>1 DEF TypeOK
  <2>2. /\ AfterTurn(s, t, outcome)[t] = outcome
        /\ \A u \in Turns \ {t} :
             \/ AfterTurn(s, t, outcome)[u] = turn[s][u]
             \/ turn[s][u] = "none" /\ AfterTurn(s, t, outcome)[u] = "waiting"
    BY <1>1, <1>2, AnswerKeeps
  <2> QED
    BY <2>1, <2>2
<1> SUFFICES ASSUME NEW q \in Sequential
             PROVE  /\ Exchanges(q)' = Completed(q)' /\ InOrder(transcript'[q])
                    /\ \A u \in Sent(q)' : /\ Carried(q, u)' = Completed(q)' \cap 1 .. u - 1
                                          /\ InOrder(messages'[q][u])
  BY DEF Lined, SequentialTranscript
<1>4. CASE q # s
  <2>1. /\ Completed(q)' = Completed(q) /\ Sent(q)' = Sent(q)
        /\ messages'[q] = messages[q] /\ transcript'[q] = transcript[q]
    BY <1>1, <1>3, <1>4 DEF Completed, Sent, TypeOK
  <2> QED
    BY <2>1, LinedFrame
<1>5. CASE q = s /\ outcome # "ok"
  <2>1. Completed(s)' = Completed(s) /\ Sent(s)' = Sent(s)
    BY <1>1, <1>2, <1>3, <1>5 DEF Completed, Sent, Ended, Answered
  <2>2. messages'[s] = messages[s] /\ transcript'[s] = transcript[s]
    BY <1>1, <1>5 DEF TypeOK
  <2> QED
    BY <1>5, <2>1, <2>2, LinedFrame
<1>6. CASE q = s /\ outcome = "ok"
  <2>1. DueAt(turn[s], t) /\ Completed(s) \subseteq 1 .. t - 1 /\ \A u \in Sent(s) \ {t} : u < t
    BY <1>1, <1>6, DueBounds
  <2>2. Completed(s)' = Completed(s) \cup {t} /\ Sent(s)' = Sent(s) /\ t \in Sent(s)
    BY <1>1, <1>2, <1>3, <1>6 DEF Completed, Sent, Ended, Answered
  <2>3. Carried(s, t) = Completed(s) /\ InOrder(messages[s][t])
    <3>1. Carried(s, t) = Completed(s) \cap 1 .. t - 1 /\ InOrder(messages[s][t])
      BY <1>6, <2>2 DEF Lined, SequentialTranscript
    <3> QED
      BY <2>1, <3>1
  <2>4. messages[s][t] \in Seq(Turns) /\ transcript'[s] = Append(messages[s][t], t)
    <3>1. messages[s][t] \in Seq(Turns) /\ transcript \in [Sessions -> Seq(Turns)]
      BY DEF TypeOK
    <3> QED
      BY <1>1, <1>6, <3>1
  <2>5. InOrder(transcript'[s])
    <3>1. ASSUME NEW i \in DOMAIN messages[s][t] PROVE messages[s][t][i] < t
      <4>1. messages[s][t][i] \in Carried(s, t)
        BY DEF Carried
      <4>2. messages[s][t][i] \in 1 .. t - 1
        BY <2>1, <2>3, <4>1
      <4> QED
        BY <4>2 DEF Turns
    <3> QED
      BY <2>3, <2>4, <3>1, AnswerLinedUp
  <2>6. Exchanges(s)' = Completed(s)'
    <3>1. Exchanges(s)' = Carried(s, t) \cup {t}
      BY <1>6, AnswerExchanges
    <3> QED
      BY <2>2, <2>3, <3>1
  <2>7. ASSUME NEW u \in Sent(s)'
        PROVE  Carried(s, u)' = Completed(s)' \cap 1 .. u - 1 /\ InOrder(messages'[s][u])
    <3>1. u \in Sent(s) /\ u \in Turns /\ Carried(s, u)' = Carried(s, u)
      BY <1>1, <2>2, <2>7 DEF Sent, Carried
    <3>2. t \notin 1 .. u - 1
      BY <2>1, <3>1 DEF Turns
    <3> QED
      BY <1>1, <1>6, <2>2, <3>1, <3>2 DEF Lined, SequentialTranscript
  <2> QED
    BY <1>6, <2>5, <2>6, <2>7
<1> QED
  BY <1>4, <1>5, <1>6

LEMMA DeadlineLined ==
  ASSUME Inv, Lined, Deadline
  PROVE  Lined'
<1> USE DEF Inv
<1>0. PICK raising \in SUBSET Cut :
        turn' = [s \in Sessions |-> IF s \in Running THEN Cancelled(s, raising) ELSE turn[s]]
  BY Zenon DEF Deadline
<1>1. ASSUME NEW s \in Sequential
      PROVE  Completed(s)' = Completed(s) /\ Sent(s)' \subseteq Sent(s)
  <2>1. ASSUME NEW t \in Turns
        PROVE  /\ turn'[s][t] = "ok" <=> turn[s][t] = "ok"
               /\ turn'[s][t] \in Began => turn[s][t] \in Began
    <3>1. turn[s][t] \in {"none", "waiting", "inflight"} \cup Finished /\ s \in Sessions
      BY DEF TypeOK, Sessions
    <3>2. CASE s \in Running
      <4>1. turn'[s][t] = Cancelled(s, raising)[t]
        BY <1>0, <3>1, <3>2
      <4> QED
        BY <3>1, <3>2, <4>1, CancelKeeps, CutEnds DEF Answered, Ended, Began, Finished
    <3>3. CASE s \notin Running
      BY <1>0, <3>1, <3>3
    <3> QED
      BY <3>2, <3>3
  <2> QED
    BY <2>1 DEF Completed, Sent, Began, Ended, Answered
<1>2. messages' = messages /\ transcript' = transcript
  BY DEF Deadline
<1> QED
  BY <1>1, <1>2, LinedFrame DEF Lined, SequentialTranscript

LEMMA OtherLined ==
  ASSUME Inv, Lined,
         \/ \E s \in Sessions : StartSession(s)
         \/ PoolExhausted \/ Drain \/ Return \/ UNCHANGED vars
  PROVE  Lined'
<1> USE DEF Inv
<1>1. messages' = messages /\ transcript' = transcript
  BY DEF StartSession, PoolExhausted, Drain, Return, vars
<1>2. ASSUME NEW s \in Sequential
      PROVE  Completed(s)' = Completed(s) /\ Sent(s)' \subseteq Sent(s)
  <2>1. CASE turn'[s] = turn[s]
    BY <2>1 DEF Completed, Sent
  <2>2. CASE StartSession(s)
    <3>1. \A t \in Turns : turn[s][t] = "none" /\ turn'[s][t] \in {"waiting", "none"}
      BY <2>2 DEF StartSession, TypeOK, Shape, ShapeOf, Sessions
    <3> QED
      BY <3>1 DEF Completed, Sent
  <2>3. ASSUME NEW q \in Sessions, StartSession(q), q # s PROVE turn'[s] = turn[s]
    BY <2>3 DEF StartSession, TypeOK, Sessions
  <2>4. ASSUME PoolExhausted \/ Drain \/ Return \/ UNCHANGED vars PROVE turn'[s] = turn[s]
    BY <2>4 DEF PoolExhausted, Drain, Return, vars
  <2> QED
    BY <2>1, <2>2, <2>3, <2>4
<1> QED
  BY <1>1, <1>2, LinedFrame DEF Lined, SequentialTranscript

LEMMA LinedStep ==
  ASSUME Inv, Lined, [Next]_vars
  PROVE  Lined'
<1>1. ASSUME NEW s \in Sessions, NEW t \in Turns, NEW outcome \in Outcomes,
             Answer(s, t, outcome)
      PROVE  Lined'
  BY <1>1, AnswerLined
<1> QED
  BY <1>1, SendLined, DeadlineLined, OtherLined DEF Next, Turning

(***************************************************************************)
(* Theorems.                                                               *)
(***************************************************************************)

\* TypeCorrect: the variables of a step keep their types, and no session of the pool
\* is started twice.
THEOREM TypeCorrect == Spec => []TypeOK
<1>1. Inv => TypeOK
  BY DEF Inv
<1> QED
  BY <1>1, Invariant, PTL

\* TranscriptsSound: no request ever carries an exchange that failed or was not
\* answered before it went out, in any session mode.
THEOREM TranscriptsSound == Spec => []TranscriptSound
<1>1. Inv => TranscriptSound
  BY DEF Inv, Sound
<1> QED
  BY <1>1, Invariant, PTL

\* TranscriptsInOrder: every request of a sequential session carries the completed
\* turns before it, all of them and in turn order.
THEOREM TranscriptsInOrder == Spec => []SequentialTranscript
<1>1. Init => Lined
  BY DEF Init, Lined, SequentialTranscript, Sent, Exchanges, Completed, InOrder, Sessions
<1>2. Inv /\ Lined /\ [Next]_vars => Lined'
  BY LinedStep
<1>3. Lined => SequentialTranscript
  BY DEF Lined
<1> QED
  BY <1>1, <1>2, <1>3, Invariant, PTL DEF Spec

\* What has no row when the step returns: a request that raised, and in an open-loop
\* session that died of one a request still in flight.
LEMMA UnrecordedIsLost ==
  ASSUME Inv, phase = "returned", NEW s \in Sessions, NEW t \in Turns
  PROVE  t \in Sent(s) \ Lost(s) <=> turn[s][t] \in Answered
<1>1. turn[s][t] = "inflight" => s \in OpenLoop /\ Broken(s)
  <2>1. session[s] # "running"
    BY DEF Inv, Ends, Running
  <2>2. session[s] = "died" => Broken(s)
    BY DEF Inv, Shape, ShapeOf, Broken
  <2> QED
    BY <2>1, <2>2, BusyRuns DEF Inv
<1> QED
  BY <1>1 DEF Sent, Lost, Answered

\* RequestsRecorded: a step that has returned has one row, with its outcome, for each
\* request that it sent, but for one that raised and those that an open-loop session
\* which died of it leaves in flight; and none for any other.
THEOREM RequestsRecorded == Spec => []IssuedRecorded
<1>1. Inv => IssuedRecorded
  <2> SUFFICES ASSUME Inv, phase = "returned", NEW s \in Sessions, NEW t \in Turns
               PROVE  /\ Cardinality(RowsOf(s, t)) = IF t \in Sent(s) \ Lost(s) THEN 1 ELSE 0
                      /\ \A r \in RowsOf(s, t) : r.success = (turn[s][t] = "ok")
    BY DEF IssuedRecorded
  <2>1. t \in Sent(s) \ Lost(s) <=> turn[s][t] \in Answered
    BY UnrecordedIsLost
  <2>2. RowsOf(s, t) = IF turn[s][t] \in Answered THEN {Row(s, t, turn[s][t] = "ok")} ELSE {}
    BY DEF Inv, Recorded
  <2>3. Cardinality({Row(s, t, turn[s][t] = "ok")}) = 1 /\ Cardinality({}) = 0
    BY FS_Singleton, FS_EmptySet
  <2>4. \A r \in RowsOf(s, t) : r.success = (turn[s][t] = "ok")
    BY <2>2 DEF Row
  <2> QED
    BY <2>1, <2>2, <2>3, <2>4
<1> QED
  BY <1>1, Invariant, PTL

\* UntruncatedSentAll: whatever session the step does not count as truncated has sent
\* all its turns, unless one of them raised; a sequential one then sent just those up
\* to that one.
THEOREM UntruncatedSentAll == Spec => []UntruncatedIsWhole
<1>1. Inv => UntruncatedIsWhole
  <2> SUFFICES ASSUME Inv, phase = "returned", NEW s \in Sessions \ (pool \cup truncated)
               PROVE  \/ Sent(s) = Turns
                      \/ \E t \in Turns : /\ turn[s][t] = "raised"
                                          /\ s \in Sequential => Sent(s) = 1 .. t
    BY DEF UntruncatedIsWhole
  <2>1. session[s] \in {"done", "died"} /\ ShapeOf(s, session[s], turn[s])
    BY DEF Inv, TypeOK, Ends, Running, Shape
  <2>2. CASE session[s] = "done"
    <3>1. ASSUME NEW t \in Turns PROVE t \in Sent(s)
      <4>1. turn[s][t] \in Finished /\ turn[s][t] # "dropped"
        BY <2>1, <2>2 DEF Inv, ShapeOf, SessionOver, Ends
      <4> QED
        BY <4>1 DEF Sent, Finished
    <3> QED
      BY <3>1 DEF Sent
  <2>3. CASE session[s] = "died"
    <3>1. CASE s \in Sequential
      <4>1. PICK t \in Turns : DiedAt(turn[s], t)
        BY <2>1, <2>3, <3>1 DEF ShapeOf
      <4>2. Sent(s) = 1 .. t
        BY <4>1 DEF DiedAt, At, Answered, Sent, Turns
      <4> QED
        BY <4>1, <4>2 DEF DiedAt, At
    <3>2. CASE s \notin Sequential
      BY <2>1, <2>3, <3>2 DEF ShapeOf
    <3> QED
      BY <3>1, <3>2
  <2> QED
    BY <2>1, <2>2, <2>3
<1> QED
  BY <1>1, Invariant, PTL

LEMMA LastRow ==
  ASSUME NEW s, NEW u, NEW b \in BOOLEAN, Row(s, u, b).final
  PROVE  u = NTurns
BY DEF Row

\* FinalRowMeansWhole: when the last turn of a session has think time, its final_turn
\* row says that every other turn has its row, but for those that a TypeError took from
\* an open-loop session.  Without think time it may overtake a turn that still sleeps
\* and is then dropped at the deadline.
THEOREM FinalRowMeansWhole ==
  ASSUME NTurns \notin ZeroThink
  PROVE  Spec => []FinalMeansWhole
<1>1. Inv /\ LastIsLast => FinalMeansWhole
  <2> SUFFICES ASSUME Inv, LastIsLast, phase = "returned", NEW r \in rows, r.final
               PROVE  /\ r.session \in Sequential => Lost(r.session) = {}
                      /\ \A t \in Turns \ Lost(r.session) : RowsOf(r.session, t) # {}
    BY DEF FinalMeansWhole
  <2>1. PICK s \in Sessions, u \in Turns : s = r.session /\ u = r.turn
    BY DEF Inv, TypeOK
  <2>2. r \in RowsOf(s, u)
    BY <2>1 DEF RowsOf
  <2>3. turn[s][u] \in Answered /\ r = Row(s, u, turn[s][u] = "ok")
    BY <2>2 DEF Inv, Recorded
  <2>4. u = NTurns
    <3>1. Row(s, u, turn[s][u] = "ok").final
      BY <2>3, Zenon
    <3>2. (turn[s][u] = "ok") \in BOOLEAN
      OBVIOUS
    <3> QED
      BY <3>1, <3>2, LastRow, Zenon
  <2>5. ASSUME NEW t \in Turns \ Lost(s) PROVE RowsOf(s, t) # {}
    <3>1. turn[s][t] \in Began
      BY <2>3, <2>4 DEF LastIsLast, Began, Ended
    <3>2. turn[s][t] \in Answered
      BY <2>5, <3>1, UnrecordedIsLost DEF Began, Ended, Answered, Sent
    <3> QED
      BY <3>2 DEF Inv, Recorded
  <2>6. ASSUME s \in Sequential PROVE Lost(s) = {}
    <3>1. ~Broken(s)
      <4> SUFFICES ASSUME NEW t \in Turns, turn[s][t] = "raised" PROVE FALSE
        BY DEF Broken
      <4>1. session[s] = "died"
        BY DEF Inv, TypeOK, Shape, ShapeOf
      <4>2. PICK v \in Turns : DiedAt(turn[s], v)
        BY <2>6, <4>1 DEF Inv, Shape, ShapeOf
      <4>3. v = NTurns \/ NTurns \in v + 1 .. NTurns
        BY DEF Turns
      <4> QED
        BY <2>3, <2>4, <4>2, <4>3 DEF DiedAt, At, Answered
    <3> QED
      BY <3>1 DEF Lost, Broken
  <2> QED
    BY <2>1, <2>5, <2>6
<1>2. Inv /\ LastIsLast /\ [Next]_vars => (Inv /\ LastIsLast)'
  BY StepInv
<1> QED
  BY <1>1, <1>2, InitInv, PTL DEF Spec

=============================================================================
