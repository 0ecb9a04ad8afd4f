---------------------------- MODULE TradingCalendar ----------------------------
(***************************************************************************)
(* The canonical calendar of intelligence/session.py: what a definition    *)
(* makes of the schedule of its provider, and the state it gives an        *)
(* instant.  A date is a number, a civil day is Day ticks long, a time     *)
(* zone is a constant shift, and a tick is many nanoseconds.               *)
(*                                                                         *)
(* A definition is a record of rows (trade date -> schedule row), phases,  *)
(* corrections, zone (of the exchange) and effective (when it became the   *)
(* definition in force).                                                   *)
(***************************************************************************)
EXTENDS Integers, FiniteSets, SequencesExt

CONSTANT Day   \* ticks of a civil day

ASSUME DayAssumption == Day \in Nat \ {0}

(* The numbers of a definition: of its rows and of the boundaries of its   *)
(* phases, a column of the schedule or a local time.                       *)
BoundaryTyped(b) ==
    /\ b.days \in Int
    /\ b.kind # "schedule_boundary" => b.value \in Int /\ b.zone \in Int

DefinitionTyped(d) ==
    /\ DOMAIN d.rows \subseteq Int
    /\ \A date \in DOMAIN d.rows : d.rows[date].open \in Int /\ d.rows[date].close \in Int
    /\ IsFiniteSet(d.phases)
    /\ \A phase \in d.phases : BoundaryTyped(phase.start) /\ BoundaryTyped(phase.end)

None == -1000   \* None, of an optional date or instant

MaxOf(a, b) == IF a >= b THEN a ELSE b
MinOf(a, b) == IF a <= b THEN a ELSE b

-----------------------------------------------------------------------------
(* The schedule.                                                           *)

NoBreak == <<>>
Conflict == <<"CONFLICT">>

DateOf(d, t) == (t + d.zone) \div Day

(* The status of one correction for the break that earlier ones left.      *)
CorrectionStatus(c, date, row, break) ==
    LET start == date * Day + c.start - c.zone
        end == date * Day + c.end - c.zone
    IN  IF date < c.from \/ row.close <= start \/ row.open >= end THEN "NOT_APPLICABLE"
        ELSE CASE break = NoBreak -> "BASE_ALREADY_CONFORMS"
               [] break = <<start, end>> -> "APPLIED"
               [] OTHER -> "CONFLICT"

(* _apply_corrections: a correction removes the break that it describes.   *)
Corrected(d, date) ==
    LET row == d.rows[date]
        after(break, c) ==
            IF break = Conflict THEN break
            ELSE LET status == CorrectionStatus(c, date, row, break)
                 IN  CASE status = "APPLIED" -> NoBreak
                       [] status = "CONFLICT" -> Conflict
                       [] OTHER -> break
    IN  FoldLeft(after, row.break, d.corrections)

(* _normalize_break: a break of no length at the close is no break, any    *)
(* other must lie inside the session.                                      *)
Normalized(row, break) ==
    IF row.close <= row.open THEN Conflict
    ELSE IF break = <<row.close, row.close>> THEN NoBreak
    ELSE IF /\ break \notin {NoBreak, Conflict}
            /\ ~ (row.open < break[1] /\ break[1] < break[2] /\ break[2] < row.close)
    THEN Conflict
    ELSE break

BreakOf(d, date) == Normalized(d.rows[date], Corrected(d, date))

Segments(d, date) ==
    LET row == d.rows[date]
        break == BreakOf(d, date)
        segment(state, from, to) == [date |-> date, state |-> state, from |-> from, to |-> to]
    IN  IF break = NoBreak THEN {segment("OPEN", row.open, row.close)}
        ELSE {segment("OPEN", row.open, break[1]), segment("BREAK", break[1], break[2]),
              segment("OPEN", break[2], row.close)}

(* _phase_boundary: a column of the row, or a local time.                  *)
Boundary(b, date, row) ==
    IF b.kind = "schedule_boundary"
    THEN (IF b.value = "market_open" THEN row.open ELSE row.close) + b.days * Day
    ELSE (date + b.days) * Day + b.value - b.zone

(* _phase_window: the windows of one phase on one date, one or none.       *)
PhaseWindows(phase, date, row) ==
    LET start == Boundary(phase.start, date, row)
        end == Boundary(phase.end, date, row)
        clip == phase.constraint = "clip"
        from == IF clip THEN MaxOf(start, row.open) ELSE start
        to == IF clip THEN MinOf(end, row.close) ELSE end
        omitted == phase.constraint = "omit" /\ row.close < start
    IN  IF omitted \/ to <= from THEN {}
        ELSE {[date |-> date, phase |-> phase.name, from |-> from, to |-> to]}

Constructible(d, first, last) ==
    \A date \in (first..last) \cap DOMAIN d.rows : BreakOf(d, date) # Conflict

(* projection: of constructible rows.  Coverage reaches two days further   *)
(* than the rows, on either side.                                          *)
Projection(d, first, last) ==
    LET dates == (first..last) \cap DOMAIN d.rows
    IN  [start |-> (first - 2) * Day, end |-> (last + 2) * Day, effective |-> d.effective,
         segments |-> UNION {Segments(d, date) : date \in dates},
         windows |-> UNION {PhaseWindows(p, date, d.rows[date]) :
                               p \in d.phases, date \in dates}]

-----------------------------------------------------------------------------
(* Evaluation.                                                             *)

Earlier(x, y) == x.from < y.from \/ (x.from = y.from /\ x.to <= y.to)
First(S) == CHOOSE x \in S : \A y \in S : Earlier(x, y)
At(S, t) == {x \in S : x.from <= t /\ t < x.to}

Edges(p) ==
    UNION {{x.from, x.to} : x \in p.segments} \cup UNION {{x.from, x.to} : x \in p.windows}

Covers(p, t) == p.start <= t /\ t < p.end
Admitted(p, t) ==
    {b \in Edges(p) : b <= t} \cup (IF p.effective <= t THEN {p.effective} ELSE {})

(* evaluate answers; otherwise it raises.                                  *)
Answers(p, t) == Covers(p, t) /\ Admitted(p, t) # {}

TradeDate(p, t) ==
    LET exchange == At(p.segments, t)
        phases == At(p.windows, t)
        future == {w \in p.windows : w.from > t}
    IN  IF exchange # {} THEN First(exchange).date
        ELSE IF phases # {} THEN First(phases).date
        ELSE IF future # {} THEN First(future).date
        ELSE None

Evaluate(p, t) ==
    LET exchange == At(p.segments, t)
        phases == At(p.windows, t)
        later == {b \in Edges(p) : b > t}
        segment == IF Cardinality(phases) = 1 THEN First(phases)
                   ELSE IF exchange # {} THEN First(exchange)
                   ELSE [from |-> None, to |-> None]
    IN  [date |-> TradeDate(p, t),
         phases |-> {w.phase : w \in phases},
         state |-> IF exchange # {} THEN First(exchange).state ELSE "CLOSED",
         open |-> segment.from, close |-> segment.to,
         next |-> IF later = {} THEN None ELSE Min(later),
         effective |-> Max(Admitted(p, t))]

(* CanonicalCalendar.evaluate: a projection of three days on either side.  *)
LocalProjection(d, t) == Projection(d, DateOf(d, t) - 3, DateOf(d, t) + 3)

LocalConstructible(d, t) == Constructible(d, DateOf(d, t) - 3, DateOf(d, t) + 3)

Evaluable(d, t) == LocalConstructible(d, t) /\ Answers(LocalProjection(d, t), t)

StateAt(d, t) == Evaluate(LocalProjection(d, t), t)
=============================================================================
