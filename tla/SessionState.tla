------------------------------ MODULE SessionState ------------------------------
(***************************************************************************)
(* SessionStateActor (intelligence/actors.py) and the consumers of its     *)
(* calendar state.  The actor evaluates its calendars on a timer, at each  *)
(* boundary and for each snapshot request, and publishes a transition with *)
(* the next revision when a state differs from the one before.             *)
(*                                                                         *)
(* The actors share one thread and a synchronous bus: publishing runs the  *)
(* handlers of every subscriber before it returns, and they may publish in *)
(* turn.  calls is that stack, the innermost call first.  Time and the     *)
(* calendars go on between any two calls.                                  *)
(***************************************************************************)
EXTENDS SessionStateDelivery, Sequences

CONSTANTS
    Consumers,    \* allowed_current_state_requesters
    Faulty,       \* calendars whose evaluation may raise: no boundary yet, or any error
    MaxBoundary   \* bound: the last boundary of a calendar

ASSUME SessionAssumption ==
    /\ Faulty \subseteq Calendars
    /\ MaxBoundary \in Nat \ {0}

VARIABLES
    producer,   \* _active and _ready: "starting", "ready" or "stopped"
    wall,       \* the state of each calendar by the clock, its boundaries counted
    published,  \* of each calendar, the states published as revisions 1, 2, ...
    cycles,     \* _snapshot_cycles, by requester
    consumer,   \* the delivery state and the alert of each consumer
    calls

vars == <<producer, wall, published, cycles, consumer, calls>>

NoCycle == [generation |-> 0, attempt |-> 0, terminal |-> FALSE,
            expires |-> Past, budget |-> Past]

Cycle == [generation : Nat, attempt : 0..MaximumAttempts, terminal : BOOLEAN,
          expires : Past..ResponseTimeout, budget : Past..MaximumElapsed]

SessionInit ==
    /\ producer = "starting"
    /\ wall = [c \in Calendars |-> 1]
    /\ published = [c \in Calendars |-> <<>>]
    /\ cycles = [n \in Consumers |-> NoCycle]
    /\ consumer = [n \in Consumers |-> IdleDelivery]
    /\ calls = <<>>

-----------------------------------------------------------------------------
(* The calls.                                                              *)

Cuts == [Calendars -> 1..MaxBoundary]
Revisions == [Calendars -> Nat]
Requests == [op : {"request"}, from : Consumers, generation : Nat,
             attempt : 1..MaximumAttempts, left : Past..ResponseTimeout]

Evaluations == [op : {"evaluate"}, cut : Cuts, todo : SUBSET Calendars]
SnapshotCuts == [op : {"cut"}, request : Requests, cut : Cuts, todo : SUBSET Calendars,
                 failed : SUBSET Calendars, revision : Revisions]
Transitions == [op : {"transition"}, calendar : Calendars, revision : Nat \ {0},
                to : SUBSET Consumers]
Responses == [op : {"response"}, from : Consumers, generation : Nat,
              attempt : 1..MaximumAttempts, failed : SUBSET Calendars, code : Codes,
              revision : Revisions]

Frames == Requests \cup Evaluations \cup SnapshotCuts \cup Transitions \cup Responses

Subscribers == {n \in Consumers : consumer[n].phase \notin {"IDLE", "STOPPED"}}

Transition(c, r) ==
    [op |-> "transition", calendar |-> c, revision |-> r, to |-> Subscribers]

Evaluation(cut) == [op |-> "evaluate", cut |-> cut, todo |-> Calendars]

Request(n, s) ==
    [op |-> "request", from |-> n, generation |-> s.generation,
     attempt |-> s.attempt, left |-> ResponseTimeout]

(* _evaluate_snapshot_request: the request, the cut, what is done of it.   *)
Cut(q) ==
    [op |-> "cut", request |-> q, cut |-> wall, todo |-> Calendars,
     failed |-> {}, revision |-> NoRevision]

(* Responses reach every consumer; to all but the requester they are stale *)
(* and leave it the alert it has.                                          *)
Response(q, failed, code, revision) ==
    [op |-> "response", from |-> q.from, generation |-> q.generation,
     attempt |-> q.attempt, failed |-> failed, code |-> code, revision |-> revision]

Refusal(q, code) == Response(q, Calendars, code, NoRevision)

Handles(op) == calls # <<>> /\ Head(calls).op = op
Return(more) == calls' = more \o Tail(calls)
Idle == calls = <<>>

-----------------------------------------------------------------------------
(* The producer: evaluation.                                               *)

Latest(c) == IF published[c] = <<>> THEN 0 ELSE published[c][Len(published[c])]

Differs(c, state) == Latest(c) # state

(* _update_calendar_state: state and revision are stored, then published;  *)
(* rest is what the caller goes on with.                                   *)
UpdateCalendarState(c, state, rest) ==
    IF Differs(c, state)
    THEN /\ published' = [published EXCEPT ![c] = Append(@, state)]
         /\ Return(<<Transition(c, Len(published[c]) + 1), rest>>)
    ELSE Return(<<rest>>) /\ UNCHANGED published

RevisionAfter(c, state) ==
    Len(published[c]) + (IF Differs(c, state) THEN 1 ELSE 0)

(* _evaluate goes on with the cut it began with, whatever handlers did.    *)
OnEvaluate ==
    /\ Handles("evaluate")
    /\ LET frame == Head(calls)
           after(c) == [frame EXCEPT !.todo = @ \ {c}]
       IN  \/ /\ frame.todo = {}
              /\ Return(<<>>) /\ UNCHANGED published
           \/ \E c \in frame.todo :
                 \/ c \in Faulty /\ Return(<<after(c)>>) /\ UNCHANGED published
                 \/ UpdateCalendarState(c, frame.cut[c], after(c))
    /\ UNCHANGED <<producer, wall, cycles, consumer>>

(* on_signal: persistence is ready.                                        *)
ProducerReady ==
    /\ Idle /\ producer = "starting"
    /\ producer' = "ready"
    /\ calls' = <<Evaluation(wall)>>
    /\ UNCHANGED <<wall, published, cycles, consumer>>

(* The evaluation timer and the boundary alert, when there is something to *)
(* publish: otherwise _evaluate changes nothing.                           *)
ProducerEvaluates ==
    /\ Idle /\ producer = "ready"
    /\ \E c \in Calendars : Differs(c, wall[c])
    /\ calls' = <<Evaluation(wall)>>
    /\ UNCHANGED <<producer, wall, published, cycles, consumer>>

ProducerStops ==
    /\ Idle /\ producer # "stopped"
    /\ producer' = "stopped"
    /\ cycles' = [n \in Consumers |-> NoCycle]
    /\ UNCHANGED <<wall, published, consumer, calls>>

-----------------------------------------------------------------------------
(* The producer: snapshot requests.                                        *)

(* The cycle of the requester, unless it has expired.                      *)
Held(q) == IF cycles[q.from].expires = Past THEN NoCycle ELSE cycles[q.from]

StartsCycle(q) ==
    Held(q) = NoCycle \/ (Held(q).generation # q.generation /\ Held(q).terminal)

Continues(q) ==
    LET cycle == Held(q)
    IN  /\ cycle # NoCycle /\ cycle.generation = q.generation
        /\ ~cycle.terminal
        /\ q.attempt = cycle.attempt + 1
        /\ q.left <= cycle.budget

(* _admit_snapshot_request.  Requesters, sources and policies agree in the *)
(* composed system and no request comes twice, so a cached response is     *)
(* never replayed.                                                         *)
Admitted(q) == StartsCycle(q) \/ Continues(q)

AdmittedCycle(q) ==
    IF StartsCycle(q)
    THEN [generation |-> q.generation, attempt |-> 0, terminal |-> FALSE,
          expires |-> q.left, budget |-> MaximumElapsed - (ResponseTimeout - q.left)]
    ELSE IF Continues(q)
    THEN [Held(q) EXCEPT !.expires = IF q.left > @ THEN q.left ELSE @]
    ELSE Held(q)

(* _cache_snapshot_response: the attempt is answered.                      *)
Answered(cycle, q) ==
    IF cycle.generation = q.generation
    THEN [cycle EXCEPT !.attempt = q.attempt, !.terminal = q.attempt >= MaximumAttempts]
    ELSE cycle

(* _publish_current_state.  A refused request is cached only as the first  *)
(* of its cycle.                                                           *)
OnRequest ==
    /\ Handles("request")
    /\ LET q == Head(calls)
           cycle == AdmittedCycle(q)
           reply(code) == /\ cycles' = [cycles EXCEPT ![q.from] = Answered(cycle, q)]
                          /\ Return(<<Refusal(q, code)>>)
       IN  \/ /\ producer = "stopped"
              /\ Return(<<>>) /\ UNCHANGED cycles
           \/ /\ producer # "stopped" /\ ~Admitted(q)
              /\ cycles' = [cycles EXCEPT ![q.from] =
                               IF cycle.attempt = 0 THEN Answered(cycle, q) ELSE cycle]
              /\ Return(<<Refusal(q, "request_identity_conflict")>>)
           \/ /\ producer # "stopped" /\ Admitted(q) /\ q.left = Past
              /\ reply("request_deadline_expired")
           \/ /\ producer = "starting" /\ Admitted(q) /\ q.left # Past
              /\ reply(IF RetryBackoff > q.left
                       THEN "request_deadline_expired" ELSE "source_not_ready")
           \/ /\ producer = "ready" /\ Admitted(q) /\ q.left # Past
              /\ cycles' = [cycles EXCEPT ![q.from] = cycle]
              /\ Return(<<Cut(q)>>)
    /\ UNCHANGED <<producer, wall, published, consumer>>

(* _evaluate_snapshot_request, _snapshot_response: the revision reported   *)
(* for a calendar is the one found or published for it here, though a      *)
(* handler may have led to later ones.                                     *)
OnCut ==
    /\ Handles("cut")
    /\ LET frame == Head(calls)
           q == frame.request
       IN  \/ \E c \in frame.todo :
                 LET rest == [frame EXCEPT !.todo = @ \ {c}]
                     state == frame.cut[c]
                 IN  \/ /\ c \in Faulty
                        /\ Return(<<[rest EXCEPT !.failed = @ \cup {c}]>>)
                        /\ UNCHANGED published
                     \/ UpdateCalendarState(c, state,
                           [rest EXCEPT !.revision[c] = RevisionAfter(c, state)])
              /\ UNCHANGED cycles
           \/ /\ frame.todo = {}
              /\ cycles' = [cycles EXCEPT ![q.from] = Answered(@, q)]
              /\ Return(<<IF q.left = Past THEN Refusal(q, "request_deadline_expired")
                          ELSE Response(q, frame.failed, "current_state_evaluation_failed",
                                        frame.revision)>>)
              /\ UNCHANGED published
    /\ UNCHANGED <<producer, wall, consumer>>

-----------------------------------------------------------------------------
(* The consumers.                                                          *)

(* _set_session_state_boundary_alert: not before the deadline of the       *)
(* accepted response has passed.                                           *)
WithBoundaryAlert(s) == [s EXCEPT !.alert = s.answered + 1]

(* _publish_session_state_request, if a cycle or an attempt was begun.     *)
Becomes(n, s, rest) ==
    /\ consumer' = [consumer EXCEPT ![n] = s]
    /\ calls' = (IF /\ s.phase = "WAITING"
                    /\ \/ s.generation # consumer[n].generation
                       \/ s.attempt # consumer[n].attempt
                 THEN <<Request(n, s)>> ELSE <<>>) \o rest

ConsumerStarts(n) ==
    /\ Idle /\ consumer[n].phase = "IDLE"
    /\ Becomes(n, StartCycle(consumer[n]), <<>>)
    /\ UNCHANGED <<producer, wall, published, cycles>>

(* _observe_session_transition.                                            *)
OnTransition ==
    /\ Handles("transition")
    /\ LET frame == Head(calls)
       IN  \/ /\ frame.to = {}
              /\ Return(<<>>) /\ UNCHANGED consumer
           \/ \E n \in frame.to :
                 LET s == ObserveTransition(consumer[n], frame.calendar, frame.revision)
                     applied == s.phase = "LIVE" /\ s.mark # consumer[n].mark
                 IN  Becomes(n,
                             IF applied THEN WithBoundaryAlert(s) ELSE Resynchronize(s),
                             <<[frame EXCEPT !.to = @ \ {n}]>> \o Tail(calls))
    /\ UNCHANGED <<producer, wall, published, cycles>>

(* _observe_session_snapshot.                                              *)
OnResponse ==
    /\ Handles("response")
    /\ LET response == Head(calls)
           n == response.from
           retryable == response.failed = {} \/ response.code = "source_not_ready"
           s == ObserveSnapshot(consumer[n], response)
       IN  \/ /\ ~Answers(consumer[n], response)
              /\ Return(<<>>) /\ UNCHANGED consumer
           \/ /\ Answers(consumer[n], response)
              /\ Becomes(n, IF s.phase = "LIVE" THEN WithBoundaryAlert(s)
                            ELSE ScheduleRetry(s, s.code, retryable), Tail(calls))
    /\ UNCHANGED <<producer, wall, published, cycles>>

(* next_transition_ns of some watermark has passed.  The grace after it is *)
(* left out: the alert may come before the producer's own.                 *)
BoundaryPassed(s) == \E c \in Calendars : published[c][s.mark[c]] # wall[c]

(* _on_session_state_alert.                                                *)
Alert(n) ==
    LET s == consumer[n]
    IN  /\ Idle
        /\ s.alert \in {Past, 0}
        /\ \/ s.phase = "LIVE" /\ BoundaryPassed(s) /\ Becomes(n, StartCycle(s), <<>>)
           \/ /\ s.phase = "WAITING"
              /\ Becomes(n, ScheduleRetry(s, "response_timeout", TRUE), <<>>)
           \/ s.phase = "BACKOFF" /\ Becomes(n, BeginRetry(s), <<>>)
        /\ UNCHANGED <<producer, wall, published, cycles>>

ConsumerStops(n) ==
    /\ Idle /\ n \in Subscribers
    /\ consumer' = [consumer EXCEPT ![n] = StopDelivery(@)]
    /\ UNCHANGED <<producer, wall, published, cycles, calls>>

-----------------------------------------------------------------------------
(* Time.                                                                   *)

AgedCall(frame) ==
    CASE frame.op = "request" -> [frame EXCEPT !.left = Later(@)]
      [] frame.op = "cut"     -> [frame EXCEPT !.request.left = Later(@)]
      [] OTHER                -> frame

Tick ==
    /\ consumer' = [n \in Consumers |-> Aged(consumer[n])]
    /\ cycles' = [n \in Consumers |->
                     [cycles[n] EXCEPT !.expires = Later(@), !.budget = Later(@)]]
    /\ calls' = [i \in DOMAIN calls |-> AgedCall(calls[i])]
    /\ UNCHANGED <<producer, wall, published>>

Boundary(c) ==
    /\ wall[c] < MaxBoundary
    /\ wall' = [wall EXCEPT ![c] = @ + 1]
    /\ UNCHANGED <<producer, published, cycles, consumer, calls>>

Handler == OnEvaluate \/ OnRequest \/ OnCut \/ OnTransition \/ OnResponse

SessionNext ==
    \/ Handler
    \/ ProducerReady \/ ProducerEvaluates \/ ProducerStops
    \/ \E n \in Consumers : ConsumerStarts(n) \/ Alert(n) \/ ConsumerStops(n)
    \/ Tick
    \/ \E c \in Calendars : Boundary(c)

(* A call returns, time goes on, the event loop serves every timer that    *)
(* stays due.  No calendar need pass a boundary and nobody need stop.      *)
SessionSpec ==
    /\ SessionInit /\ [][SessionNext]_vars
    /\ WF_vars(Handler) /\ WF_vars(Tick) /\ WF_vars(ProducerEvaluates)
    /\ \A n \in Consumers : SF_vars(Alert(n))

-----------------------------------------------------------------------------
(* Type invariant: attempts, deadlines, alerts and budgets stay inside the *)
(* delivery policy on both sides, and so does every call in progress.      *)
SessionTypeOK ==
    /\ producer \in {"starting", "ready", "stopped"}
    /\ wall \in Cuts
    /\ published \in [Calendars -> Seq(1..MaxBoundary)]
    /\ cycles \in [Consumers -> Cycle]
    /\ consumer \in [Consumers -> Delivery]
    /\ calls \in Seq(Frames)

(* Outside any cascade of calls, a live consumer holds the last published  *)
(* revision of every calendar (observe_session_transition applies only     *)
(* what is contiguous and restarts the cycle otherwise).  True of one      *)
(* consumer of one calendar.  NothingEvicted is what becomes of it with    *)
(* two consumers; with two calendars, a transition of the second makes a   *)
(* consumer live again that a refused cycle left behind on the first.      *)
LiveIsCurrent ==
    Idle => \A n \in Consumers : consumer[n].phase = "LIVE" =>
        \A c \in Calendars : consumer[n].mark[c] = Len(published[c])

(* What SessionStateDeliveryState says of itself: buffered transitions are *)
(* never silently evicted.  Whatever was published to a live consumer is   *)
(* below its watermark or still in its buffer.                             *)
NothingEvicted ==
    Idle => \A n \in Consumers : consumer[n].phase = "LIVE" =>
        \A c \in Calendars : \A r \in 1..Len(published[c]) :
            r <= consumer[n].mark[c] \/ <<c, r>> \in consumer[n].buffer

(* A watermark never goes back, whatever order snapshots and transitions   *)
(* of nested evaluations arrive in (_publish_current_state handled inside  *)
(* another consumer's transition).                                         *)
MarksAdvance ==
    \A n \in Consumers : consumer'[n].phase # "STOPPED" =>
        \A c \in Calendars : consumer'[n].mark[c] >= consumer[n].mark[c]

MarksOnlyAdvance == [][MarksAdvance]_vars

(* A request is answered, or given up within its attempts and its budget   *)
(* (schedule_session_state_retry): no consumer synchronises forever.       *)
SyncSettles ==
    \A n \in Consumers :
        consumer[n].phase \in {"WAITING", "BACKOFF"} ~>
            consumer[n].phase \in {"LIVE", "DEGRADED", "STOPPED"}

(* When boundaries cease, live consumers come to hold the state the clock  *)
(* gives: lost revisions and evaluations with an old cut are repaired by   *)
(* the boundary alert and the evaluation timer.                            *)
LiveSeesTheWall ==
    <>[](producer = "ready" =>
            \A n \in Consumers : consumer[n].phase = "LIVE" => ~BoundaryPassed(consumer[n]))

-----------------------------------------------------------------------------
(* The inductive invariant of MarksOnlyAdvance: no revision in a buffer, a *)
(* watermark or a call is ahead of what was published, and what is on its  *)
(* way to a waiting consumer is not behind its watermark.                  *)

(* A call of an attempt the consumer has begun.                            *)
NotAhead(q) ==
    LET s == consumer[q.from]
    IN  q.generation < s.generation \/ (q.generation = s.generation /\ q.attempt <= s.attempt)

Awaited(q) ==
    LET s == consumer[q.from]
    IN  s.phase = "WAITING" /\ q.generation = s.generation /\ q.attempt = s.attempt

Installable(q, revision, S) ==
    \A c \in S : /\ revision[c] <= Len(published[c])
                 /\ Awaited(q) => revision[c] >= consumer[q.from].mark[c]

GoodFrame(frame) ==
    CASE frame.op = "evaluate"   -> TRUE
      [] frame.op = "transition" -> frame.revision <= Len(published[frame.calendar])
      [] frame.op = "request"    -> NotAhead(frame)
      [] frame.op = "cut" ->
            /\ NotAhead(frame.request)
            /\ Installable(frame.request, frame.revision,
                           Calendars \ (frame.todo \cup frame.failed))
      [] frame.op = "response" ->
            /\ NotAhead(frame)
            /\ frame.failed = {} => Installable(frame, frame.revision, Calendars)

GoodFrames == {frame \in Frames : GoodFrame(frame)}

Lengths == [c \in Calendars |-> Len(published[c])]

MarksInv ==
    /\ SessionTypeOK
    /\ \A n \in Consumers : Sound(consumer[n], Lengths)
    /\ calls \in Seq(GoodFrames)

-----------------------------------------------------------------------------
(* The inductive invariant of LiveIsCurrent, for one consumer of one       *)
(* calendar: the transition being delivered and the response awaited are   *)
(* of the last revision, so a live consumer lags behind only the           *)
(* transition that is on its way to it.                                    *)

AwaitedCut(frame) == frame.op = "cut" /\ Awaited(frame.request)
AwaitedResponse(frame) == frame.op = "response" /\ Awaited(frame)
Delivers(frame) == frame.op = "transition" /\ frame.to # {}

(* What is reported without a failure is the last revision.                *)
Reports(frame, S) ==
    frame.failed = {} =>
        \A c \in S : frame.revision[c] = Len(published[c]) /\ frame.revision[c] # 0

CurrentTop(frame) ==
    /\ Delivers(frame) => frame.revision = Len(published[frame.calendar])
    /\ AwaitedCut(frame) => Reports(frame, Calendars \ frame.todo)
    /\ AwaitedResponse(frame) => Reports(frame, Calendars)

(* What waits for another call has delivered its transition, and a cut is  *)
(* awaited no longer once anything but its own transition is above it.     *)
Waits(frame) ==
    /\ frame.op \in {"evaluate", "cut", "transition"}
    /\ ~Delivers(frame)

CurrentBelow(top, rest) ==
    \A i \in 1..Len(rest) :
        /\ Waits(rest[i])
        /\ AwaitedCut(rest[i]) => /\ i = 1 /\ top.op = "transition"
                                  /\ Reports(rest[i], Calendars \ rest[i].todo)

CurrentCalls ==
    calls # <<>> => CurrentTop(Head(calls)) /\ CurrentBelow(Head(calls), Tail(calls))

LiveOrTold ==
    \A n \in Consumers : consumer[n].phase = "LIVE" =>
        /\ consumer[n].buffer = {}
        /\ \A c \in Calendars :
              /\ consumer[n].mark[c] # 0
              /\ \/ consumer[n].mark[c] = Len(published[c])
                 \/ calls # <<>> /\ Delivers(Head(calls))

CurrentInv == CurrentCalls /\ LiveOrTold

=============================================================================
