------------------------ MODULE HistoricalAcquisition ------------------------
(***************************************************************************)
(* The historical path of DataAcquisitionActor                             *)
(* (src/src/markeitech/system/acquisition.py) around its                   *)
(* HistoricalExecutionCoordinator: the startup gate that holds plans back, *)
(* plan admission, the native provider and the attribution of its answers, *)
(* the poll timer, and the shutdown loop.                                  *)
(*                                                                         *)
(* The native bar callback carries no request identity, and cancelling a   *)
(* native request only forgets it locally, so an answer may arrive long    *)
(* after its request has ended.  wire counts the answers each request may  *)
(* still receive.                                                          *)
(*                                                                         *)
(* The actor runs one handler at a time.  A handler that walks a           *)
(* collection is split into one step per element; mode then keeps every    *)
(* other handler from running until it is through.                         *)
(***************************************************************************)
EXTENDS HistoricalExecution, Sequences, Functions

CONSTANTS
    Limit,              \* each request's observation limit
    MaxPerRequest,      \* historical.maximum_observations_per_request
    MaxObservations,    \* historical.maximum_total_observations
    Fits                \* pairs <<r, a>>: bars answering r also validate for a

ASSUME AcquisitionAssumption ==
    /\ Limit \in [Requests -> Nat \ {0}]
    /\ MaxPerRequest \in Nat \ {0}
    /\ MaxObservations \in Nat \ {0}
    /\ Fits \subseteq Requests \X Requests

VARIABLES
    released,   \* _startup_released: durable persistence has been announced
    missing,    \* _tracker.missing is not empty
    plans,      \* _pending_historical_plans, by the dependency's demand
    mode,       \* the handler that is under way
    condemned,  \* the request_ids the shutdown loop has still to cancel
    wire,       \* how many answers the provider may still deliver
    answeredBy  \* history: whose answer settled each request

actor == <<released, missing, plans, mode, condemned>>
provider == <<wire, answeredBy>>
acqVars == <<vars, actor, provider>>

NoPlan == [request |-> 0, priority |-> 0]
Plan == [request : Requests, priority : Priorities]

AcqInit ==
    /\ Init
    /\ released = FALSE
    /\ missing = TRUE
    /\ plans = [d \in Dependencies |-> NoPlan]
    /\ mode = "idle"
    /\ condemned = <<>>
    /\ wire = [r \in Requests |-> 0]
    /\ answeredBy = [r \in Requests |-> {}]

-----------------------------------------------------------------------------
(* Every request the step puts in flight has been handed to request_bars   *)
(* and may be answered.                                                    *)
SubmittedByStep == {r \in Requests : PutInFlight(r)}

Send == wire' = [r \in Requests |-> wire[r] + IF r \in SubmittedByStep THEN 1 ELSE 0]

Held == {d \in Dependencies : plans[d] # NoPlan}

Ready == released /\ ~missing

(* _start_pending_demands_if_ready, as the mode it leaves the actor in.    *)
StartIfReady(ready) == mode' = IF ready THEN "starting" ELSE "idle"

-----------------------------------------------------------------------------
(* PERSISTENCE_READY: the cache may already hold every instrument.  A      *)
(* later announcement changes nothing.                                     *)
ReleaseStartup ==
    /\ mode = "idle"
    /\ ~released
    /\ released' = TRUE
    /\ missing' \in BOOLEAN
    /\ StartIfReady(~missing')
    /\ UNCHANGED <<vars, plans, condemned, provider>>

(* Fault: plans are not looked at when the last instrument arrives.        *)
OnLastInstrumentOnlyNoting ==
    /\ mode = "idle"
    /\ released /\ missing
    /\ missing' = FALSE
    /\ UNCHANGED <<vars, released, plans, mode, condemned, provider>>

(* The last missing instrument definition; before the release instrument   *)
(* callbacks are ignored.                                                  *)
OnLastInstrument ==
    /\ mode = "idle"
    /\ released /\ missing
    /\ missing' = FALSE
    /\ StartIfReady(TRUE)
    /\ UNCHANGED <<vars, released, plans, condemned, provider>>

(* A plan for an instrument in scope; it replaces one still held for the   *)
(* same demand.                                                            *)
OnPlan(d, plan) ==
    /\ mode = "idle"
    /\ plans' = [plans EXCEPT ![d] = plan]
    /\ StartIfReady(Ready)
    /\ UNCHANGED <<vars, released, missing, condemned, provider>>

OutstandingObservations(waiting) ==
    FoldFunctionOnSet(+, 0, Limit, waiting)

(* Fault: only queued requests count against the budget.                   *)
WithinLimitsOfQueue(r) ==
    /\ Limit[r] <= MaxPerRequest
    /\ \/ r \in Outstanding(req)
       \/ OutstandingObservations(In(req, "pending")) + Limit[r] <= MaxObservations

(* validate_historical_plan_limits: sharing a request costs nothing more.  *)
WithinLimits(r) ==
    /\ Limit[r] <= MaxPerRequest
    /\ \/ r \in Outstanding(req)
       \/ OutstandingObservations(Outstanding(req)) + Limit[r] <= MaxObservations

(* What enqueue accepts; it raises for a terminal request and for a full   *)
(* queue.                                                                  *)
Enqueueable(r) ==
    \/ r \in Outstanding(req)
    \/ req[r].place = "absent" /\ Cardinality(Outstanding(req)) < MaxQueued

(* One turn of the loop that starts held plans; a plan that is refused is  *)
(* logged and forgotten.                                                   *)
StartPlan(d) ==
    LET r == plans[d].request
    IN  /\ mode = "starting"
        /\ d \in Held
        /\ plans' = [plans EXCEPT ![d] = NoPlan]
        /\ IF WithinLimits(r) /\ Enqueueable(r)
           THEN Enqueue(r, {d}, plans[d].priority) /\ Send
           ELSE UNCHANGED <<vars, wire>>
        /\ UNCHANGED <<released, missing, mode, condemned, answeredBy>>

StartDone ==
    /\ mode = "starting"
    /\ Held = {}
    /\ mode' = "idle"
    /\ UNCHANGED <<vars, released, missing, plans, condemned, provider>>

-----------------------------------------------------------------------------
(* active_request_ids[0]: the identity that sorts first.                   *)
FirstActive ==
    CHOOSE a \in In(req, "active") : \A b \in In(req, "active") : IdRank[a] <= IdRank[b]

(* validate_historical_bars for count bars that answer request r: an empty *)
(* answer is valid for any request.                                        *)
ValidFor(r, count, a) ==
    /\ count <= Limit[a]
    /\ count = 0 \/ r = a \/ <<r, a>> \in Fits

(* on_historical_bars: the answer goes to the first active request.        *)
OnHistoricalBars(r, count) ==
    /\ mode = "idle"
    /\ wire[r] > 0
    /\ IF In(req, "active") = {}
       THEN /\ wire' = [wire EXCEPT ![r] = @ - 1]
            /\ UNCHANGED <<vars, answeredBy>>
       ELSE LET a == FirstActive
            IN  /\ IF ValidFor(r, count, a)
                   THEN Complete(a, count)
                   ELSE Fail(a, FALSE)
                /\ answeredBy' = [answeredBy EXCEPT ![a] = @ \cup {r}]
                /\ wire' = [s \in Requests |->
                               wire[s] + (IF s \in SubmittedByStep THEN 1 ELSE 0)
                                       - (IF s = r THEN 1 ELSE 0)]
    /\ UNCHANGED actor

(* The poll timer, which runs from the release on.                         *)
AdvanceHistorical ==
    /\ mode = "idle"
    /\ released
    /\ Advance
    /\ Send
    /\ UNCHANGED <<actor, answeredBy>>

PassTime ==
    /\ mode = "idle"
    /\ Tick
    /\ UNCHANGED <<actor, provider>>

-----------------------------------------------------------------------------
Position(ids, r) == 1 + Cardinality({s \in ids : IdRank[s] < IdRank[r]})

SortedIds(ids) == [i \in 1..Cardinality(ids) |-> CHOOSE r \in ids : Position(ids, r) = i]

(* Fault: only the requests in flight are cancelled.                       *)
CondemnedActive == SortedIds(In(req, "active"))

(* The identities on_stop walks, collected before the first cancellation.  *)
Condemned == SortedIds(In(req, "pending")) \o SortedIds(In(req, "active"))

OnStop ==
    /\ mode = "idle"
    /\ mode' = "stopping"
    /\ condemned' = Condemned
    /\ UNCHANGED <<vars, released, missing, plans, provider>>

(* One turn of the shutdown loop.  Each cancellation ends with a dispatch  *)
(* round, so it may still submit another request that is due; a request    *)
(* that has ended meanwhile is passed over.                                *)
CancelNext ==
    /\ mode = "stopping"
    /\ condemned # <<>>
    /\ condemned' = Tail(condemned)
    /\ IF Head(condemned) \in Outstanding(req)
       THEN Cancel(Head(condemned)) /\ Send
       ELSE UNCHANGED <<vars, wire>>
    /\ UNCHANGED <<released, missing, plans, mode, answeredBy>>

StopDone ==
    /\ mode = "stopping"
    /\ condemned = <<>>
    /\ mode' = "stopped"
    /\ UNCHANGED <<vars, released, missing, plans, condemned, provider>>

AcqNext ==
    \/ ReleaseStartup
    \/ OnLastInstrument
    \/ \E d \in Dependencies, plan \in Plan : OnPlan(d, plan)
    \/ \E d \in Dependencies : StartPlan(d)
    \/ StartDone
    \/ \E r \in Requests, count \in Counts : OnHistoricalBars(r, count)
    \/ AdvanceHistorical
    \/ PassTime
    \/ OnStop
    \/ CancelNext
    \/ StopDone

AcqSpec == AcqInit /\ [][AcqNext]_acqVars

-----------------------------------------------------------------------------
(* Types; a request is submitted at most once per attempt, so at most that *)
(* many answers to it can ever be on their way.                            *)
AcqTypeOK ==
    /\ TypeOK
    /\ released \in BOOLEAN /\ missing \in BOOLEAN
    /\ plans \in [Dependencies -> Plan \cup {NoPlan}]
    /\ mode \in {"idle", "starting", "stopping", "stopped"}
    /\ condemned \in Seq(Requests)
    /\ wire \in [Requests -> 0..MaxAttempts]
    /\ answeredBy \in [Requests -> SUBSET Requests]

(* The observations of all requests queued or in flight stay within the    *)
(* budget, however often they are shared, retried or re-queued.            *)
ObservationsBudgeted ==
    OutstandingObservations(Outstanding(req)) <= MaxObservations

(* Nothing reaches the coordinator before persistence is ready and every   *)
(* instrument is known, and once both hold no plan is left waiting.        *)
StartupGate ==
    /\ ~Ready => attached = {} /\ Outstanding(req) = {}
    /\ Ready /\ mode = "idle" => Held = {}

(* An answer that some submission of r has already given up waiting for.   *)
Late(r) == wire[r] > IF r \in In(req, "active") THEN 1 ELSE 0

(* With one lane, an answer settles a request other than its own only if   *)
(* it is late: an answer on time always finds its own request.             *)
WrongAnswerOnlyWhenLate ==
    [][\A r, a \in Requests :
          r # a /\ r \in answeredBy'[a] \ answeredBy[a] => Late(r)]_acqVars

(* When the shutdown loop is through, no request is queued or in flight,   *)
(* although its cancellations may have submitted some.                     *)
StoppedLeavesNothing == mode = "stopped" => Outstanding(req) = {}

(* "Late responses after local timeout/cancellation are ignored and        *)
(* audited rather than attached to a different request": no request is     *)
(* ever settled by the answer to another.  The code does not satisfy it.   *)
LateAnswersIgnored ==
    \A a \in Requests : answeredBy[a] \subseteq {a}
=============================================================================
