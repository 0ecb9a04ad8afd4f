---------------------------- MODULE CalendarDelivery ----------------------------
(***************************************************************************)
(* intelligence/calendar_delivery.py: one consumer's request cycle for     *)
(* calendar projections, as pure functions of its state.  A cycle asks for *)
(* a set of calendars over one range of time, in attempts that a timeout   *)
(* or the producer's retry time separates, within a number of attempts and *)
(* a budget of time.                                                       *)
(***************************************************************************)
EXTENDS Integers

CONSTANTS
    Calendars,
    ResponseTimeout, RetryBackoff, MaximumAttempts, MaximumElapsed  \* ProjectionRetryPolicy

ASSUME PolicyAssumption ==
    /\ ResponseTimeout \in Nat \ {0}
    /\ RetryBackoff \in Nat \ {0}
    /\ MaximumAttempts \in Nat \ {0}
    /\ MaximumElapsed \in Nat \ {0}
    /\ MaximumElapsed >= ResponseTimeout

Never == -1      \* no alert, no start
NoRequest == [generation |-> 0, attempt |-> 0]

Phases == {"IDLE", "WAITING", "BACKOFF", "READY", "FAILED", "REJECTED", "STOPPED"}
Terminal == {"FAILED", "REJECTED", "STOPPED"}

RequestIds == [generation : Nat, attempt : Nat]

States == [phase : Phases, generation : Nat, pending : SUBSET Calendars, start : Int,
           end : Int, request : RequestIds, attempt : Nat, started : Int, alert : Int]

IdleProjection ==
    [phase |-> "IDLE", generation |-> 0, pending |-> {}, start |-> 0, end |-> 0,
     request |-> NoRequest, attempt |-> 0, started |-> Never, alert |-> Never]

(* Fault: a completed cycle is never followed by another.               *)
StartCycleOnce(s, ids, start, end, now) ==
    IF s.phase # "IDLE" THEN s
    ELSE [phase |-> "WAITING", generation |-> s.generation + 1, pending |-> ids,
          start |-> start, end |-> end,
          request |-> [generation |-> s.generation + 1, attempt |-> 1],
          attempt |-> 1, started |-> now, alert |-> now + ResponseTimeout]

(* Only an idle or completed cycle is followed by another.                 *)
StartCycle(s, ids, start, end, now) ==
    IF s.phase \notin {"IDLE", "READY"} THEN s
    ELSE [phase |-> "WAITING", generation |-> s.generation + 1, pending |-> ids,
          start |-> start, end |-> end,
          request |-> [generation |-> s.generation + 1, attempt |-> 1],
          attempt |-> 1, started |-> now, alert |-> now + ResponseTimeout]

Classify(s, response) ==
    IF s.phase \in Terminal \cup {"READY"} THEN "DUPLICATE"
    ELSE IF s.phase # "WAITING" \/ response.request # s.request THEN "STALE"
    ELSE IF response.requested # s.pending THEN "CONFLICT"
    ELSE "ACCEPT"

RetainPending(s, ids) == [s EXCEPT !.pending = ids]

Ended(s, phase) == [s EXCEPT !.phase = phase, !.request = NoRequest, !.alert = Never]

ReadyProjection(s) == [Ended(s, "READY") EXCEPT !.pending = {}]

(* Fault: the last attempt is counted too late.                         *)
ScheduleRetryOnceMore(s, now, notBefore) ==
    LET alert == IF now + RetryBackoff >= notBefore THEN now + RetryBackoff ELSE notBefore
    IN  IF s.phase = "WAITING" /\ s.attempt <= MaximumAttempts
        THEN [s EXCEPT !.phase = "BACKOFF", !.request = NoRequest, !.alert = alert]
        ELSE Ended(s, "FAILED")

(* Fault: a backoff without an alert.                                   *)
ScheduleRetryUnalarmed(s, now, notBefore) ==
    IF s.attempt >= MaximumAttempts THEN Ended(s, "FAILED")
    ELSE [s EXCEPT !.phase = "BACKOFF", !.request = NoRequest, !.alert = Never]

(* schedule_projection_retry; notBefore is the producer's retry time.      *)
ScheduleRetry(s, now, notBefore) ==
    LET alert == IF now + RetryBackoff >= notBefore THEN now + RetryBackoff ELSE notBefore
    IN  CASE s.phase # "WAITING" -> s
          [] s.phase = "WAITING" /\ \/ s.attempt >= MaximumAttempts
                                    \/ alert + ResponseTimeout > s.started + MaximumElapsed
                -> Ended(s, "FAILED")
          [] OTHER -> [s EXCEPT !.phase = "BACKOFF", !.request = NoRequest, !.alert = alert]

BeginRetry(s, now) ==
    IF s.phase # "BACKOFF" \/ now < s.alert THEN s
    ELSE [s EXCEPT !.phase = "WAITING", !.attempt = @ + 1,
                   !.request = [generation |-> s.generation, attempt |-> s.attempt + 1],
                   !.alert = now + ResponseTimeout]
=============================================================================
