--------------------------- MODULE HistoricalPlanner ---------------------------
(***************************************************************************)
(* HistoricalEvidencePlannerActor (system/historical_planner.py) with the  *)
(* projection side of SessionStateActor (intelligence/actors.py).  It      *)
(* turns demands for symbolic windows into exact plans: at once, when the  *)
(* calendar comes, at the instant the window begins to hold completed      *)
(* data, or never.                                                         *)
(*                                                                         *)
(* Publishing is a synchronous call: calls is what is left to do, the      *)
(* innermost first.  Session-state delivery (module SessionState) appears  *)
(* as the revisions it installs, as late as it likes.  Demands of other    *)
(* instruments only count a rejection and are left out.                    *)
(***************************************************************************)
EXTENDS HistoricalWindows, CalendarDelivery

CONSTANTS
    Definition,       \* of each calendar
    Demands,          \* demand identities
    Asked,            \* of each demand [calendar, window, policy, interval, maximum]
    Faulty,           \* calendars whose projection may raise
    LookbackDays, LookaheadDays,
    MaximumDays, MaximumCalendars,      \* maximum_projection_days, maximum_calendars_per_request
    Interval,                           \* of the producer's evaluation timer
    MaximumPerRequest, MaximumTotal,    \* HistoricalResourcePolicy
    Began,            \* the instant at which the planner starts
    Horizon,          \* bound: no revision or demand later than this
    MaxLate,          \* bound: how many ticks a due alert may wait
    LastTick          \* bound: the clock stops here

ASSUME PlannerAssumption ==
    /\ \A c \in Calendars : DefinitionTyped(Definition[c])
    /\ \A d \in Demands : /\ Asked[d].calendar \in Calendars /\ Asked[d].window \in Windows
                          /\ SuppliedValid(Asked[d].policy)
                          /\ Asked[d].interval \in Nat \ {0}
    /\ LookbackDays \in Nat \ {0} /\ LookaheadDays \in Nat \ {0}
    /\ Interval \in Nat \ {0}
    /\ LastTick \in Nat /\ Began \in 0..LastTick

VARIABLES
    now,
    producer,   \* "down" (not subscribed), "starting", "ready", "stopped"
    active,     \* of the planner
    cycle,      \* _projection_state
    held,       \* _calendars: the dates of the projection held, or NoDates
    refresh,    \* _calendar_refresh_ids
    installed,  \* the state of each calendar that was installed last
    demands,    \* _pending, _deferred and what became of the others
    timer,      \* _retry_at_ns
    calls

vars == <<now, producer, active, cycle, held, refresh, installed, demands, timer, calls>>

NoDates == <<>>
Uninstalled == [state |-> "NONE"]

Places == {"absent", "pending", "deferred", "planned", "rejected", "dropped"}
Nothing == [place |-> "absent", asOf |-> Never, retry |-> Never, from |-> 0, to |-> 0]

Init ==
    /\ now = Began
    /\ producer = "down"
    /\ active = TRUE
    /\ cycle = IdleProjection
    /\ held = [c \in Calendars |-> NoDates]
    /\ refresh = {}
    /\ installed = [c \in Calendars |-> Uninstalled]
    /\ demands = [d \in Demands |-> Nothing]
    /\ timer = Never
    /\ calls = <<"begin">>        \* on_start

Idle == calls = <<>>
Handles(op) == calls # <<>> /\ Head(calls) = op
Return(more) == calls' = more \o Tail(calls)

-----------------------------------------------------------------------------
(* Planning.                                                               *)

(* What the request of an instant asks for, and the dates the producer     *)
(* projects for it: two more on either side.                               *)
Start(t) == MaxOf(0, t - LookbackDays * Day)
End(t) == t + LookaheadDays * Day

DatesOf(start, end) == <<start \div Day - 2, (end - 1) \div Day + 2>>

Instants == 0..LastTick
Views == {NoDates} \cup {DatesOf(Start(t), End(t)) : t \in Instants}

View(c, dates) == IF dates = NoDates THEN NoCalendar
                  ELSE Projection(Definition[c], dates[1], dates[2])

(* compile_historical_demand resolves the window of a demand as of t.      *)
Resolution == [d \in Demands |-> [dates \in Views |-> [t \in Instants |->
    LET asked == Asked[d]
    IN  Resolve(asked.window, asked.policy, View(asked.calendar, dates), asked.interval, t)]]]

(* HistoricalDependencyCompiler.compile, for one requirement.              *)
Compiles(asked) == asked.maximum <= MaximumPerRequest /\ asked.maximum <= MaximumTotal

Pending(e, t) == [Nothing EXCEPT !.place = "pending", !.asOf = t]

(* Fault: a demand that is too early stays pending.                     *)
PlannedNotDeferred(d, e, dates) ==
    LET found == Resolution[d][dates][e.asOf]
    IN  IF found.kind = "resolved"
        THEN [e EXCEPT !.place = "planned", !.from = found.from, !.to = found.to]
        ELSE e

(* What _plan_pending makes of one pending demand.                         *)
Planned(d, e, dates) ==
    LET found == Resolution[d][dates][e.asOf]
    IN  IF dates = NoDates /\ Asked[d].window # "RECENT_COMPLETED" THEN e
        ELSE CASE found.kind = "unavailable" ->
                    [e EXCEPT !.place = "deferred", !.retry = found.retry]
               [] found.kind = "resolved" /\ Compiles(Asked[d]) ->
                    [e EXCEPT !.place = "planned", !.from = found.from, !.to = found.to]
               [] OTHER -> [e EXCEPT !.place = "rejected"]

PlanPending(book, views) ==
    [d \in Demands |-> IF book[d].place # "pending" THEN book[d]
                       ELSE Planned(d, book[d], views[Asked[d].calendar])]

(* synchronize_historical_demand_retry_timer: the earliest retry.          *)
EarliestRetry(book) ==
    LET retries == {book[d].retry : d \in {x \in Demands : book[x].place = "deferred"}}
    IN  IF retries = {} THEN Never ELSE Min(retries)

Install(book) == demands' = book /\ timer' = EarliestRetry(demands')

Released(book, ids) == [d \in Demands |-> IF d \in ids THEN Pending(book[d], now) ELSE book[d]]

(* on_signal: a demand, new or repeated while it is still undecided.       *)
OnDemand(d) ==
    /\ Idle /\ active /\ now <= Horizon
    /\ demands[d].place \notin {"planned", "rejected"}
    /\ Install(PlanPending(Released(demands, {d}), held))
    /\ UNCHANGED <<now, producer, active, cycle, held, refresh, installed, calls>>

(* _retry_deferred: the alert of the earliest deferred demand.             *)
RetryDeferred ==
    /\ Idle /\ active
    /\ timer # Never /\ timer <= now
    /\ LET due == {d \in Demands : demands[d].place = "deferred" /\ demands[d].retry <= now}
       IN  Install(PlanPending(Released(demands, due), held))
    /\ UNCHANGED <<now, producer, active, cycle, held, refresh, installed, calls>>

(* The second half of _apply_installed_session_revisions.                  *)
OnPlan ==
    /\ Handles("plan")
    /\ Install(PlanPending(demands, held))
    /\ Return(<<>>)
    /\ UNCHANGED <<now, producer, active, cycle, held, refresh, installed>>

-----------------------------------------------------------------------------
(* The projection cycle.                                                   *)

Wanted == {c \in Calendars : held[c] = NoDates \/ c \in refresh}

(* _begin_projection_cycle.  A cycle that waits already repeats its        *)
(* request; one in backoff or ended is left alone.                         *)
OnBegin ==
    /\ Handles("begin")
    /\ IF Wanted = {} THEN Return(<<>>) /\ UNCHANGED cycle
       ELSE /\ cycle' = StartCycle(cycle, Wanted, Start(now), End(now), now)
            /\ Return(IF cycle'.phase = "WAITING" THEN <<"request">> ELSE <<>>)
    /\ UNCHANGED <<now, producer, active, held, refresh, installed, demands, timer>>

(* _publish_projection, the producer: dates of the projections, and the    *)
(* calendars without one.                                                  *)
Dates == DatesOf(cycle.start, cycle.end)

Oversized == \/ Cardinality(cycle.pending) > MaximumCalendars
             \/ (cycle.end - cycle.start) \div Day + 1 > MaximumDays

Projectable == [c \in Calendars |-> [dates \in Views \ {NoDates} |->
    Constructible(Definition[c], dates[1], dates[2])]]

Unprojected(failing) == {c \in cycle.pending : c \in failing \/ ~ Projectable[c][Dates]}

Response(failing) ==
    LET unavailable == IF producer = "starting" \/ Oversized THEN cycle.pending
                       ELSE Unprojected(failing)
    IN  [request |-> cycle.request, requested |-> cycle.pending,
         unavailable |-> unavailable,
         status |-> IF producer = "starting" THEN "NOT_READY"
                    ELSE IF Oversized THEN "REJECTED"
                    ELSE IF unavailable = {} THEN "READY"
                    ELSE IF unavailable = cycle.pending THEN "FAILED"
                    ELSE "INCOMPLETE",
         retry |-> IF producer = "starting" THEN now + Interval ELSE Never]

(* The rest of _retain_projections, when the projections are stored.       *)
AfterProjections(response) ==
    IF response.unavailable = {} THEN ReadyProjection(cycle)
    ELSE CASE response.status = "NOT_READY" ->
                ScheduleRetry(RetainPending(cycle, response.unavailable), now, response.retry)
           [] response.status = "REJECTED" -> Ended(cycle, "REJECTED")
           [] OTHER -> Ended(cycle, "FAILED")

(* The request is answered within its publication, or never.               *)
OnRequest ==
    /\ Handles("request")
    /\ IF producer \in {"down", "stopped"}
       THEN Return(<<>>) /\ UNCHANGED <<cycle, held, refresh, demands, timer>>
       ELSE \E failing \in SUBSET Faulty :
              LET response == Response(failing)
                  accepted == cycle.pending \ response.unavailable
              IN  /\ Classify(cycle, response) = "ACCEPT"
                  /\ held' = [c \in Calendars |-> IF c \in accepted THEN Dates ELSE held[c]]
                  /\ refresh' = refresh \ accepted
                  /\ Install(PlanPending(demands, held'))
                  /\ cycle' = AfterProjections(response)
                  /\ Return(IF cycle'.phase = "READY" THEN <<"begin">> ELSE <<>>)
    /\ UNCHANGED <<now, producer, active, installed>>

(* _on_projection_alert: a timeout, or the end of the backoff.             *)
ProjectionAlert ==
    /\ Idle /\ active
    /\ cycle.alert # Never /\ cycle.alert <= now
    /\ cycle' = IF cycle.phase = "WAITING" THEN ScheduleRetry(cycle, now, Never)
                ELSE BeginRetry(cycle, now)
    /\ calls' = IF cycle.phase = "BACKOFF" THEN <<"request">> ELSE <<>>
    /\ UNCHANGED <<now, producer, active, held, refresh, installed, demands, timer>>

-----------------------------------------------------------------------------
(* The producer's states, and the rest of the system.                      *)

(* _session_snapshot_identity: what makes a new revision.                  *)
Identity == [c \in Calendars |-> [t \in Instants |->
    IF Evaluable(Definition[c], t) THEN StateAt(Definition[c], t) ELSE Uninstalled]]

Changed(c) == Identity[c][now] \notin {Uninstalled, installed[c]}

(* _apply_installed_session_revisions.                                     *)
Revision(c) ==
    /\ Idle /\ active /\ producer = "ready" /\ now <= Horizon
    /\ Changed(c)
    /\ installed' = [installed EXCEPT ![c] = Identity[c][now]]
    /\ refresh' = refresh \cup {c}
    /\ demands' = Released(demands, {d \in Demands : demands[d].place = "deferred"
                                                     /\ Asked[d].calendar = c})
    /\ calls' = <<"begin", "plan">>
    /\ UNCHANGED <<now, producer, active, cycle, held, timer>>

ProducerMoves ==
    /\ Idle
    /\ producer' \in CASE producer = "down" -> {"starting"}
                       [] producer = "starting" -> {"ready", "stopped"}
                       [] producer = "ready" -> {"stopped"}
                       [] OTHER -> {}
    /\ UNCHANGED <<now, active, cycle, held, refresh, installed, demands, timer, calls>>

(* on_stop clears what is deferred and cancels every timer.                *)
Stop ==
    /\ Idle /\ active
    /\ active' = FALSE
    /\ cycle' = Ended(cycle, "STOPPED")
    /\ demands' = [d \in Demands |-> IF demands[d].place = "deferred"
                                     THEN [demands[d] EXCEPT !.place = "dropped"]
                                     ELSE demands[d]]
    /\ timer' = Never
    /\ UNCHANGED <<now, producer, held, refresh, installed, calls>>

Due(alert) == alert # Never /\ alert + MaxLate <= now

Tick ==
    /\ Idle /\ now < LastTick
    /\ ~ Due(cycle.alert) /\ ~ Due(timer)
    /\ now' = now + 1
    /\ UNCHANGED <<producer, active, cycle, held, refresh, installed, demands, timer, calls>>

Next ==
    \/ \E d \in Demands : OnDemand(d)
    \/ RetryDeferred \/ OnPlan \/ OnBegin \/ OnRequest \/ ProjectionAlert
    \/ \E c \in Calendars : Revision(c)
    \/ ProducerMoves \/ Stop \/ Tick

(* Calls return, the clock goes on and due alerts are served.              *)
Fairness ==
    /\ WF_vars(OnPlan \/ OnBegin \/ OnRequest)
    /\ WF_vars(Tick)
    /\ SF_vars(ProjectionAlert) /\ SF_vars(RetryDeferred)

Spec == Init /\ [][Next]_vars /\ Fairness

-----------------------------------------------------------------------------
(* Properties.                                                             *)

(* The cycle of start_projection_cycle and its successors: never more      *)
(* attempts than the policy allows, a request exactly while one is awaited *)
(* and an alert exactly while there is something to wait for.              *)
CycleInv ==
    /\ cycle \in States
    /\ cycle.attempt <= MaximumAttempts
    /\ cycle.phase = "WAITING" <=> cycle.request # NoRequest
    /\ cycle.phase \in {"WAITING", "BACKOFF"} <=> cycle.alert # Never
    /\ cycle.phase \in {"WAITING", "BACKOFF"} => cycle.attempt > 0 /\ cycle.started # Never
    /\ calls # <<>> /\ Head(calls) = "request" => cycle.phase = "WAITING"

(* A completed cycle leaves no calendar without a projection and none that *)
(* a revision called for again: _retain_projections begins another cycle.  *)
ReadyIsFresh ==
    Idle /\ active /\ cycle.phase = "READY" => Wanted = {}

(* No demand is forgotten in _pending: it waits for a calendar that is     *)
(* asked for, unless the cycle ended for good, and every deferred demand   *)
(* has an alert no later than its retry.                                   *)
NothingForgotten ==
    Idle /\ active =>
        \A d \in Demands :
            /\ demands[d].place = "pending" =>
                  /\ held[Asked[d].calendar] = NoDates
                  /\ \/ cycle.phase \in Terminal
                     \/ cycle.alert # Never /\ Asked[d].calendar \in cycle.pending
            /\ demands[d].place = "deferred" => timer # Never /\ timer <= demands[d].retry

(* The sessions of the phase by the whole calendar, and the one that a     *)
(* window of the demand means.                                             *)
WholeCalendar == [c \in Calendars |->
    LET dates == DOMAIN Definition[c].rows
    IN  Projection(Definition[c], Min(dates), Max(dates))]

Sessions(asked) ==
    {w \in WholeCalendar[asked.calendar].windows : w.phase = asked.policy.phase}

MeansSession(asked, s, t) ==
    IF asked.window \in Previous
    THEN LET done == Completed(Sessions(asked), CompletedBoundary(t, asked.interval))
         IN  s \in done /\ \A w \in done : w.to <= s.to
    ELSE s.date = TradeDate(WholeCalendar[asked.calendar], t)

(* Whatever projection was held when it was made, a plan is the completed  *)
(* part of the session that the whole calendar gives.                      *)
PlansMatchCalendar ==
    \A d \in Demands : demands[d].place = "planned" =>
        LET asked == Asked[d]
            e == demands[d]
            completed == CompletedBoundary(e.asOf, asked.interval)
        IN  \E s \in Sessions(asked) :
                /\ MeansSession(asked, s, e.asOf)
                /\ e.from = s.from /\ e.to = MinOf(s.to, completed)
                /\ e.from < e.to

(* A retry at its exact instant decides the demand, and a later one never  *)
(* asks for an instant that has passed: the alert of _retry_deferred can   *)
(* not spin.  Sessions last longer than the selector's interval here.      *)
RetryResolves ==
    [][\A d \in Demands :
          demands[d].place = "deferred" /\ demands'[d].place = "deferred"
          /\ demands'[d] # demands[d]
             => demands[d].retry # now /\ demands'[d].retry > now]_vars

(* Every projection cycle ends: it succeeds, exhausts its attempts or its  *)
(* budget, is refused, or is stopped.                                      *)
CycleSettles ==
    cycle.phase \in {"WAITING", "BACKOFF"} ~> cycle.phase \in Terminal \cup {"READY"}
=============================================================================
