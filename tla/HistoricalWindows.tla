--------------------------- MODULE HistoricalWindows ---------------------------
(***************************************************************************)
(* acquisition/historical_windows.py: the exact range of a symbolic        *)
(* historical window, at an instant, in a calendar projection.             *)
(*                                                                         *)
(* A policy is a function from the names of the parameters supplied to     *)
(* their values.  A range is from..to, its end exclusive as inside the     *)
(* resolver; the code gives out to - 1.  A result is a range, the first    *)
(* instant at which to try again, or a failure.                            *)
(***************************************************************************)
EXTENDS TradingCalendar

CONSTANTS Minute, Second   \* in ticks

ASSUME UnitAssumption == Minute \in Nat \ {0} /\ Second \in Nat \ {0}

NoCalendar == [start |-> None]   \* no projection is held

Failure == [kind |-> "failed"]
Unavailable(t) == [kind |-> "unavailable", retry |-> t]
Found(from, to) == [kind |-> "resolved", from |-> from, to |-> to]

Whole == {"CURRENT_OVERNIGHT", "CURRENT_RTH", "CURRENT_GTH", "CURB", "PREMARKET",
          "OVERNIGHT", "SESSION_TO_DATE"}
Previous == {"PREVIOUS_RTH", "PREVIOUS_GTH_OVERNIGHT"}
Fixed == {"ANCHORED_INTERVAL", "SYNCHRONIZED_INTERVAL"}

Windows == Whole \cup Previous \cup Fixed \cup
           {"RECENT_COMPLETED", "OPENING_RANGE", "POWER_HOUR", "NAMED_PHASE_SLICE",
            "PREVIOUS_SESSIONS"}

(* HistoricalWindowParameters refuses any other value.                     *)
SuppliedValid(policy) ==
    /\ \A name \in DOMAIN policy \cap {"minutes", "endMinutes", "sessions", "observations",
                                       "seconds"} : policy[name] \in Nat \ {0}
    /\ \A name \in DOMAIN policy \cap {"startMinutes", "start", "end"} : policy[name] \in Nat
    /\ "offset" \in DOMAIN policy => policy.offset \in Int

Relative == {"phase", "anchor", "offset", "seconds"}

(* _validate_policy: a window takes exactly these parameters.              *)
Expected(window, policy) ==
    LET has(name) == name \in DOMAIN policy
    IN  CASE window = "RECENT_COMPLETED" ->
                IF has("observations") THEN {"observations"} ELSE {"minutes"}
          [] window \in Whole \cup Previous -> {"phase"}
          [] window = "OPENING_RANGE" ->
                IF has("seconds") THEN Relative ELSE {"phase", "minutes"}
          [] window = "POWER_HOUR" ->
                IF ~ has("seconds") THEN {"phase", "minutes"}
                ELSE Relative \cup ({"fallback"} \cap DOMAIN policy)
          [] window = "NAMED_PHASE_SLICE" -> {"phase", "startMinutes", "endMinutes"}
          [] window = "PREVIOUS_SESSIONS" -> {"phase", "sessions"}
          [] window \in Fixed -> {"start", "end"}

ValidPolicy(window, policy) == DOMAIN policy = Expected(window, policy)

CompletedBoundary(t, interval) == t - (t % interval)

(* Fault: the boundary at or before the start.                          *)
LastBoundary(start, interval) == (start \div interval) * interval

FirstCompletedBoundary(start, interval) == (start \div interval + 1) * interval

(* Fault: data that is not complete yet.                                *)
BoundsUnclipped(from, to, completed) ==
    IF from < 0 \/ to <= from THEN Failure ELSE Found(from, to)

(* _bounds: nothing after the last completed interval.                     *)
Bounds(from, to, completed) ==
    LET clipped == MinOf(to, completed)
    IN  IF from < 0 \/ clipped <= from THEN Failure ELSE Found(from, clipped)

(* _window_shape: the part of a session that the window means.             *)
Shape(window, session, policy) ==
    IF "seconds" \in DOMAIN policy
    THEN LET anchor == IF policy.anchor = "start" THEN session.from ELSE session.to
             start == anchor + policy.offset * Second
         IN  [from |-> MaxOf(session.from, start),
              to |-> MinOf(session.to, start + policy.seconds * Second)]
    ELSE CASE window \in Whole -> [from |-> session.from, to |-> session.to]
           [] window = "OPENING_RANGE" ->
                [from |-> session.from,
                 to |-> MinOf(session.from + policy.minutes * Minute, session.to)]
           [] window = "POWER_HOUR" ->
                [from |-> MaxOf(session.from, session.to - policy.minutes * Minute),
                 to |-> session.to]
           [] window = "NAMED_PHASE_SLICE" ->
                [from |-> session.from + policy.startMinutes * Minute,
                 to |-> session.from + policy.endMinutes * Minute]

(* _calendar_windows and the filter on the phase: a month on either side.  *)
PhaseWindowsNear(p, t, phase) ==
    {w \in p.windows : /\ w.phase = phase
                       /\ w.date \in TradeDate(p, t) - 31 .. TradeDate(p, t) + 1}

FirstOf(S) == CHOOSE w \in S : \A v \in S : w.to <= v.to
LastOf(S) ==
    CHOOSE w \in S : \A v \in S : v.to < w.to \/ (v.to = w.to /\ v.from <= w.from)
LatestStarted(S) ==
    CHOOSE w \in S : \A v \in S : v.from < w.from \/ (v.from = w.from /\ v.to <= w.to)

Completed(S, completed) == {w \in S : w.to <= completed}

(* The last n completed sessions, by their ends.                           *)
LastSessions(S, n) == {w \in S : Cardinality({v \in S : v.to > w.to}) < n}

(* The sessions a window may mean, none when the code raises.              *)
Selected(window, near, p, t, completed, policy) ==
    LET done == Completed(near, completed)
        shapes == {Shape(window, w, policy) : w \in near}
        started == {s \in shapes : s.from < completed}
        today == {w \in near : w.date = TradeDate(p, t)}
    IN  CASE window \in Previous -> IF done = {} THEN {} ELSE {LastOf(done)}
          [] window = "PREVIOUS_SESSIONS" ->
                IF Cardinality(done) < policy.sessions THEN {}
                ELSE LET last == LastSessions(done, policy.sessions)
                     IN  {[from |-> FirstOf(last).from, to |-> LastOf(last).to]}
          [] window = "POWER_HOUR" /\ "fallback" \in DOMAIN policy /\ policy.fallback ->
                IF started = {} THEN {} ELSE {LatestStarted(started)}
          [] OTHER -> IF today = {} THEN {}
                      ELSE {Shape(window, LatestStarted(today), policy)}

(* resolve.  calendar is a projection, or NoCalendar.                      *)
Resolve(window, policy, calendar, interval, t) ==
    LET completed == CompletedBoundary(t, interval)
        recent == IF "observations" \in DOMAIN policy THEN policy.observations * interval
                  ELSE policy.minutes * Minute
        near == PhaseWindowsNear(calendar, t, policy.phase)
        selected == Selected(window, near, calendar, t, completed, policy)
        shape == CHOOSE s \in selected : TRUE
    IN  IF ~ ValidPolicy(window, policy) \/ completed <= 0 THEN Failure
        ELSE IF window = "RECENT_COMPLETED"
        THEN Bounds(completed - recent, completed, completed)
        ELSE IF calendar = NoCalendar THEN Failure
        ELSE IF window \in Fixed THEN Bounds(policy.start, policy.end, completed)
        ELSE IF ~ Answers(calendar, t) \/ TradeDate(calendar, t) = None THEN Failure
        ELSE IF selected = {} \/ shape.to <= shape.from THEN Failure
        ELSE IF shape.from >= completed
        THEN Unavailable(FirstCompletedBoundary(shape.from, interval))
        ELSE Bounds(shape.from, shape.to, completed)
=============================================================================
