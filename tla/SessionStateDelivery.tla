-------------------------- MODULE SessionStateDelivery --------------------------
(***************************************************************************)
(* The consumer of calendar state: session_state_delivery.py, a pure       *)
(* reducer from a state and one input to the next state.  Two actors keep  *)
(* such a state, EvidenceHealthActor and HistoricalEvidencePlannerActor,   *)
(* and set one alert from it (intelligence/actors.py,                      *)
(* system/historical_planner.py, the same code twice).                     *)
(*                                                                         *)
(* A transition is its calendar and its revision: the bus alters nothing,  *)
(* so equal revisions have equal contents and the checks of source, epoch, *)
(* definition and event identity pass.  Times are what is left of them, in *)
(* ticks: 0 is now, Past is over.  The alert of a waiting consumer is the  *)
(* deadline of its request.                                                *)
(***************************************************************************)
EXTENDS Integers, FiniteSets

CONSTANTS
    Calendars,          \* calendar_expectations, and the producer's calendars
    ResponseTimeout,    \* SessionStateDeliveryPolicy, in ticks
    RetryBackoff,
    MaximumElapsed,
    MaximumAttempts,
    BufferPerCalendar,
    BufferTotal

ASSUME DeliveryAssumption ==
    /\ IsFiniteSet(Calendars) /\ Calendars # {}
    /\ {ResponseTimeout, RetryBackoff, MaximumElapsed, MaximumAttempts,
        BufferPerCalendar, BufferTotal} \subseteq Nat \ {0}
    /\ MaximumElapsed >= ResponseTimeout
    /\ BufferTotal >= BufferPerCalendar

Phases == {"IDLE", "WAITING", "BACKOFF", "LIVE", "DEGRADED", "STOPPED"}

Codes == {"none", "revision_gap", "buffer_overflow", "response_timeout",
          "attempts_exhausted", "elapsed_budget_exhausted", "source_not_ready",
          "request_deadline_expired", "request_identity_conflict",
          "current_state_evaluation_failed"}

Past == -1
NoAlert == -2
NoRevision == [c \in Calendars |-> 0]

Delivery ==
    [phase : Phases,
     generation : Nat,
     attempt : 0..MaximumAttempts,
     budget : Past..MaximumElapsed,                    \* of the cycle
     alert : NoAlert..(ResponseTimeout + RetryBackoff),
     answered : Past..ResponseTimeout,  \* the deadline of the accepted response
     mark : [Calendars -> Nat],                        \* watermarks; 0: none
     buffer : SUBSET (Calendars \X (Nat \ {0})),
     affected : SUBSET Calendars,
     code : Codes]

IdleDelivery ==
    [phase |-> "IDLE", generation |-> 0, attempt |-> 0, budget |-> Past,
     alert |-> NoAlert, answered |-> Past, mark |-> NoRevision, buffer |-> {},
     affected |-> {}, code |-> "none"]

-----------------------------------------------------------------------------
(* Cycles, attempts and retries.                                           *)

StartCycle(s) ==
    IF s.phase \in {"IDLE", "LIVE"}
    THEN [s EXCEPT !.phase = "WAITING", !.generation = @ + 1, !.attempt = 1,
                   !.budget = MaximumElapsed, !.alert = ResponseTimeout,
                   !.answered = Past, !.buffer = {}, !.affected = {}, !.code = "none"]
    ELSE s

(* A gap or an overflow restarts the cycle whatever is left of the old one. *)
Resynchronize(s) ==
    IF s.phase = "DEGRADED" /\ s.code \in {"revision_gap", "buffer_overflow"}
    THEN StartCycle([s EXCEPT !.phase = "LIVE"])
    ELSE s

(* Fault: one attempt too many.                                            *)
ExhaustedLate(s) == s.attempt > MaximumAttempts

Exhausted(s) == s.attempt >= MaximumAttempts

(* The same policy holds for both sides, so a producer's retry_at is never *)
(* after the consumer's own backoff.                                       *)
ScheduleRetry(s, code, retryable) ==
    LET exhausted(why) ==
            [s EXCEPT !.phase = "DEGRADED", !.alert = NoAlert, !.code = why]
    IN  CASE s.phase \notin {"WAITING", "DEGRADED"} \/ ~retryable -> s
          [] code = "response_timeout" /\ s.alert > 0 -> s
          [] OTHER ->
                IF Exhausted(s) THEN exhausted("attempts_exhausted")
                ELSE IF RetryBackoff + ResponseTimeout > s.budget
                THEN exhausted("elapsed_budget_exhausted")
                ELSE [s EXCEPT !.phase = "BACKOFF", !.alert = RetryBackoff, !.code = code]

(* Fault: the attempts of a cycle and its budget are not counted.                         *)
BeginRetryUncounted(s) ==
    IF s.phase = "BACKOFF" /\ s.alert \in {Past, 0}
    THEN [s EXCEPT !.phase = "WAITING", !.budget = MaximumElapsed,
                   !.alert = ResponseTimeout, !.answered = Past, !.code = "none"]
    ELSE s

BeginRetry(s) ==
    IF s.phase = "BACKOFF" /\ s.alert \in {Past, 0}
    THEN [s EXCEPT !.phase = "WAITING", !.attempt = @ + 1,
                   !.alert = ResponseTimeout, !.answered = Past, !.code = "none"]
    ELSE s

StopDelivery(s) ==
    [s EXCEPT !.phase = "STOPPED", !.alert = NoAlert, !.answered = Past,
              !.mark = NoRevision, !.buffer = {}, !.affected = {}]

(* One tick of the clock.  An alert that is due waits until it is handled. *)
Later(left) == IF left > Past THEN left - 1 ELSE left

(* Fault: an alert is set and its timer is not.                            *)
AgedWithoutTimer(s) == [s EXCEPT !.budget = Later(@), !.answered = Later(@)]

Aged(s) ==
    [s EXCEPT !.budget = Later(@), !.alert = Later(@), !.answered = Later(@)]

-----------------------------------------------------------------------------
(* Transitions and snapshots.                                              *)

(* What follows the watermark of a calendar without a gap.                 *)
Contiguous(s, c) ==
    {e \in s.buffer : /\ e[1] = c /\ e[2] > s.mark[c]
                      /\ \A q \in s.mark[c] + 1 .. e[2] : <<c, q>> \in s.buffer}

Reached(s, c) ==
    IF s.mark[c] = 0 THEN 0 ELSE s.mark[c] + Cardinality(Contiguous(s, c))

(* Fault: a consumer stays live over a gap.                                *)
ReconciledOverGaps(s) ==
    LET mark == [c \in Calendars |-> Reached(s, c)]
    IN  [s EXCEPT !.phase = "LIVE", !.affected = {}, !.code = "none", !.mark = mark,
                  !.buffer = {e \in s.buffer : e[2] > mark[e[1]]}]

(* _reconcile_buffer: what is contiguous is applied, the rest is a gap. A  *)
(* calendar without a watermark keeps its transitions and is no gap.       *)
Reconciled(s) ==
    LET mark == [c \in Calendars |-> Reached(s, c)]
        retained == {e \in s.buffer : e[2] > mark[e[1]]}
        affected == {c \in Calendars : mark[c] # 0 /\ \E e \in retained : e[1] = c}
    IN  [s EXCEPT !.phase = IF affected = {} THEN "LIVE" ELSE "DEGRADED",
                  !.mark = mark, !.buffer = retained, !.affected = affected,
                  !.code = IF affected = {} THEN "none" ELSE "revision_gap"]

HasRoom(s, c) ==
    /\ Cardinality({e \in s.buffer : e[1] = c}) < BufferPerCalendar
    /\ Cardinality(s.buffer) < BufferTotal

Buffers(s, c) == s.mark[c] = 0 \/ s.phase \in {"WAITING", "BACKOFF"}

(* Fault: a transition is applied while a snapshot is awaited.             *)
AppliedAtOnce(s, c, r) ==
    IF s.mark[c] # 0 /\ r = s.mark[c] + 1 THEN [s EXCEPT !.mark[c] = r]
    ELSE [s EXCEPT !.buffer = @ \cup {<<c, r>>}]

Buffered(s, c, r) == [s EXCEPT !.buffer = @ \cup {<<c, r>>}]

ObserveTransition(s, c, r) ==
    LET buffered == Buffered(s, c, r)
    IN  CASE s.phase = "STOPPED" \/ r <= s.mark[c] \/ <<c, r>> \in s.buffer -> s
          [] OTHER ->
                IF ~HasRoom(s, c)
                THEN [s EXCEPT !.phase = "DEGRADED", !.code = "buffer_overflow",
                               !.affected = @ \cup {c}]
                ELSE IF Buffers(s, c) THEN buffered ELSE Reconciled(buffered)

(* A response names the attempt it answers, the calendars that failed and  *)
(* why, and the revisions of the others.                                   *)
Answers(s, response) ==
    /\ s.phase = "WAITING"
    /\ response.generation = s.generation
    /\ response.attempt = s.attempt
    /\ s.alert # Past

ObserveSnapshot(s, response) ==
    LET accepted == [s EXCEPT !.answered = s.alert, !.alert = NoAlert]
    IN  IF ~Answers(s, response) THEN s
        ELSE IF response.failed # {}
        THEN [accepted EXCEPT !.phase = "DEGRADED", !.affected = response.failed,
                              !.code = response.code]
        ELSE Reconciled([accepted EXCEPT !.mark = response.revision])

-----------------------------------------------------------------------------
(* What holds of a consumer that has seen no revision above a limit: its   *)
(* watermarks and its buffer are below it, its alert is the deadline while *)
(* it waits, and a retry has an attempt left.                              *)
Sound(s, limit) ==
    /\ s \in Delivery
    /\ IsFiniteSet(s.buffer)
    /\ \A c \in Calendars : s.mark[c] <= limit[c]
    /\ \A e \in s.buffer : e[2] <= limit[e[1]]
    /\ s.phase = "WAITING" => s.alert \in Past..ResponseTimeout /\ s.attempt # 0
    /\ s.phase = "BACKOFF" => s.attempt < MaximumAttempts

(* What no input may do to it: begin an attempt anew, or move a watermark  *)
(* while an attempt is awaited.                                            *)
Advances(s, t) ==
    /\ \/ s.generation < t.generation
       \/ s.generation = t.generation /\ s.attempt <= t.attempt
    /\ t.phase = "WAITING" /\ t.generation = s.generation /\ t.attempt = s.attempt
          => s.phase = "WAITING" /\ t.mark = s.mark

=============================================================================
