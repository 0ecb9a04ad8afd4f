--------------------------- MODULE MCHistoricalPlanner ---------------------------
(* Two calendars of days of three ticks, and two demands.                   *)
EXTENDS HistoricalPlanner

CONSTANTS c1, c2, d1, d2

Local(days, value) == [kind |-> "local_time", value |-> value, days |-> days, zone |-> 0]
Column(value) == [kind |-> "schedule_boundary", value |-> value, days |-> 0, zone |-> 0]

RTH == [name |-> "RTH", start |-> Local(0, 1), end |-> Local(0, 3), constraint |-> "clip"]
GTH == [name |-> "GTH", start |-> Local(-1, 2), end |-> Column("market_open"),
        constraint |-> "none"]

Row(date, open, close) == [open |-> date * 3 + open, close |-> date * 3 + close, break |-> <<>>]
WithBreak(row, start, end) == [row EXCEPT !.break = <<start, end>>]

(* Date 2 of the first calendar has no session, and its date 1 a break of   *)
(* no length.  A correction removes the break of date 2 of the second       *)
(* calendar; without it that row is in conflict.                            *)
MCDefinition ==
    c1 :> [rows |-> 0 :> Row(0, 1, 3) @@ 1 :> WithBreak(Row(1, 1, 3), 6, 6) @@ 3 :> Row(3, 1, 3),
           phases |-> {RTH}, corrections |-> <<>>, zone |-> 0, effective |-> 0]
    @@
    c2 :> [rows |-> 0 :> Row(0, 1, 3) @@ 1 :> Row(1, 1, 3) @@ 2 :> WithBreak(Row(2, 1, 3), 7, 8)
                    @@ 3 :> Row(3, 1, 3),
           phases |-> {RTH, GTH},
           corrections |-> <<[from |-> 1, start |-> 1, end |-> 2, zone |-> 0]>>,
           zone |-> 0, effective |-> 0]

MCAsked ==
    d1 :> [calendar |-> c1, window |-> "CURRENT_RTH", policy |-> [phase |-> "RTH"],
           interval |-> 1, maximum |-> 1]
    @@
    d2 :> [calendar |-> c2, window |-> "PREVIOUS_RTH", policy |-> [phase |-> "RTH"],
           interval |-> 2, maximum |-> 1]

-----------------------------------------------------------------------------
(* The windows that no demand of the run asks for, over the whole          *)
(* calendars.                                                              *)
Named(window, policy) == [window |-> window, policy |-> policy]

OfToday ==
    {Named("CURRENT_RTH", [phase |-> p]) : p \in {"RTH", "GTH"}}
    \cup {Named("OPENING_RANGE", [phase |-> "RTH", minutes |-> 1]),
          Named("OPENING_RANGE",
                [phase |-> "RTH", anchor |-> "start", offset |-> 1, seconds |-> 1]),
          Named("POWER_HOUR", [phase |-> "RTH", minutes |-> 1]),
          Named("POWER_HOUR", [phase |-> "RTH", anchor |-> "end", offset |-> -1, seconds |-> 1]),
          Named("NAMED_PHASE_SLICE", [phase |-> "RTH", startMinutes |-> 0, endMinutes |-> 1])}

OfBefore ==
    {Named("PREVIOUS_RTH", [phase |-> p]) : p \in {"RTH", "GTH"}}
    \cup {Named("PREVIOUS_SESSIONS", [phase |-> "RTH", sessions |-> n]) : n \in {1, 2}}

OfRecent == {Named("RECENT_COMPLETED", [observations |-> 2]),
             Named("RECENT_COMPLETED", [minutes |-> 1])}

Lookup(c, w, interval, t) == Resolve(w.window, w.policy, WholeCalendar[c], interval, t)
DateAt(c, t) == TradeDate(WholeCalendar[c], t)

(* A resolved range is not empty and lies in completed time.  Within a     *)
(* trade date a window of its session keeps its start and only grows, and  *)
(* one that has not begun stays unavailable until the retry it names and   *)
(* is resolved then.  Windows of completed sessions never go back.         *)
WindowsConsistent ==
    \A c \in Calendars, interval \in 1..3, t \in Instants, later \in Instants :
        t <= later =>
        /\ \A w \in OfToday \cup OfBefore \cup OfRecent :
              LET found == Lookup(c, w, interval, t)
              IN  found.kind = "resolved" => found.from < found.to /\ found.to <= t
        /\ \A w \in OfToday :
              LET found == Lookup(c, w, interval, t)
                  next == Lookup(c, w, interval, later)
              IN  DateAt(c, t) = DateAt(c, later) =>
                      /\ found.kind = "resolved" =>
                            next.kind = "resolved" /\ next.from = found.from /\ next.to >= found.to
                      /\ found.kind = "unavailable" =>
                            /\ found.retry > t
                            /\ later < found.retry => next = found
                            /\ later = found.retry => next.kind = "resolved"
        /\ \A w \in OfBefore :
              LET found == Lookup(c, w, interval, t)
                  next == Lookup(c, w, interval, later)
              IN  found.kind = "resolved" /\ next.kind = "resolved"
                      => next.from >= found.from /\ next.to >= found.to

(* Every plan is the one the whole calendar gives, and the windows that no *)
(* demand here asks for behave as windows do.                              *)
PlansAreExact == PlansMatchCalendar /\ WindowsConsistent
=============================================================================
