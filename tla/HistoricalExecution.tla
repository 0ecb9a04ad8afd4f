------------------------- MODULE HistoricalExecution -------------------------
(***************************************************************************)
(* The provider-request lifecycle run by HistoricalExecutionCoordinator    *)
(* (src/src/markeitech/acquisition/historical_execution.py).               *)
(*                                                                         *)
(* The coordinator is a synchronous state machine owned by one actor.  It  *)
(* keeps requests in two dictionaries, _pending and _active, and a set     *)
(* _terminal; every public operation ends with a dispatch round that fills *)
(* the free provider lanes in priority order.  A request is shared by any  *)
(* number of consumer dependencies and each dependency is owed a readiness *)
(* outcome when the request ends.                                          *)
(*                                                                         *)
(* Times are kept as what is left to wait, so no clock value is bounded:   *)
(* available_at_ns becomes the remaining backoff of a pending request and  *)
(* submitted_at_ns the remaining time before an active request expires.    *)
(***************************************************************************)
EXTENDS Integers, FiniteSets

CONSTANTS
    Requests,      \* request identities (content-derived in the code)
    Dependencies,  \* consumer dependencies (HistoricalDependencyRef)
    Priorities,    \* request priorities
    IdRank,        \* the position of each request_id in sorted order
    Minimum,       \* minimum_observations of each dependency
    Counts,        \* the observation counts a provider may return
    MaxQueued,     \* policy.maximum_queued_requests
    MaxInFlight,   \* policy.maximum_in_flight_requests
    Timeout,       \* policy.timeout_ns, in ticks
    MaxAttempts,   \* policy.maximum_attempts
    Backoff        \* policy.retry_backoff_ns, in ticks

ASSUME ExecutionAssumption ==
    /\ IsFiniteSet(Requests)
    /\ IdRank \in [Requests -> Nat]
    /\ \A r, s \in Requests : IdRank[r] = IdRank[s] => r = s
    /\ Priorities \subseteq Nat
    /\ Minimum \in [Dependencies -> Nat]
    /\ Counts \subseteq Nat
    /\ MaxQueued \in Nat \ {0}
    /\ MaxInFlight \in Nat \ {0}
    /\ Timeout \in Nat \ {0}
    /\ MaxAttempts \in Nat \ {0}
    /\ Backoff \in Nat \ {0}

VARIABLES
    req,        \* each request's entry in the dictionaries, and how it ended
    readiness,  \* the readiness results handed to the caller so far
    attached    \* history: the dependencies enqueue accepted, by request

vars == <<req, readiness, attached>>

Places == {"absent", "pending", "active", "terminal"}

(* REFUSED is the FAILED event whose detail is "provider submission        *)
(* failed"; FAILED is the one caused by the provider's answer.             *)
Endings == {"COMPLETED", "FAILED", "REFUSED", "CANCELED", "EXPIRED"}

ReadinessStates == {"READY", "DEGRADED", "FAILED", "CANCELED", "EXPIRED"}

Entry == [place    : Places,
          attempt  : 0..MaxAttempts,
          wait     : Nat,
          priority : Priorities \cup {0},
          deps     : SUBSET Dependencies,
          ending   : Endings \cup {"NONE"}]

Absent == [place |-> "absent", attempt |-> 0, wait |-> 0, priority |-> 0,
           deps |-> {}, ending |-> "NONE"]

Init ==
    /\ req = [r \in Requests |-> Absent]
    /\ readiness = [r \in Requests |-> [d \in Dependencies |-> "NONE"]]
    /\ attached = {}

-----------------------------------------------------------------------------
(* Reading a table q of entries: the one before or inside an operation.    *)

In(q, place) == {r \in Requests : q[r].place = place}

Outstanding(q) == In(q, "pending") \cup In(q, "active")

Due(q) == {r \in In(q, "pending") : q[r].wait = 0}

(* Fault: the lowest priority first.                                       *)
BeforeByLowest(q, r, s) ==
    \/ q[r].priority < q[s].priority
    \/ q[r].priority = q[s].priority /\ IdRank[r] < IdRank[s]

(* The sort key of the dispatch loop: higher priority, then request_id.    *)
Before(q, r, s) ==
    \/ q[r].priority > q[s].priority
    \/ q[r].priority = q[s].priority /\ IdRank[r] < IdRank[s]

-----------------------------------------------------------------------------
(* What happens to one entry.                                              *)

Fresh(deps, priority) ==
    [place |-> "pending", attempt |-> 1, wait |-> 0, priority |-> priority,
     deps |-> deps, ending |-> "NONE"]

(* Fault: the later consumer's dependencies replace the earlier ones.      *)
MergedByReplacing(e, deps, priority) ==
    [e EXCEPT !.deps = deps, !.priority = IF priority > @ THEN priority ELSE @]

Merged(e, deps, priority) ==
    [e EXCEPT !.deps = @ \cup deps,
              !.priority = IF priority > @ THEN priority ELSE @]

Submitted(e) == [e EXCEPT !.place = "active", !.wait = Timeout]

(* The entry is deleted; only the identity stays, in _terminal.            *)
Finished(ending) ==
    [place |-> "terminal", attempt |-> 0, wait |-> 0, priority |-> 0,
     deps |-> {}, ending |-> ending]

(* Fault: one attempt too many.                                            *)
RetriedOnceMore(e, ending) ==
    IF e.attempt > MaxAttempts
    THEN Finished(ending)
    ELSE [e EXCEPT !.place = "pending", !.attempt = @ + 1, !.wait = Backoff]

(* Fault: the attempt is not counted.                                      *)
RetriedUncounted(e, ending) ==
    IF e.attempt >= MaxAttempts
    THEN Finished(ending)
    ELSE [e EXCEPT !.place = "pending", !.wait = Backoff]

RetriedOrFinished(e, ending) ==
    IF e.attempt >= MaxAttempts
    THEN Finished(ending)
    ELSE [e EXCEPT !.place = "pending", !.attempt = @ + 1, !.wait = Backoff]

(* The readiness results of the requests in closed, where state gives each *)
(* dependency's outcome; the other results stay as they are.               *)
Reported(closed, state) ==
    [r \in Requests |->
        [d \in Dependencies |->
            IF r \in closed /\ d \in req[r].deps
            THEN state[d] ELSE readiness[r][d]]]

-----------------------------------------------------------------------------
(* Fault: the loop runs while len(active) <= maximum.                      *)
DispatchLoopOneTooMany(q, accepted, refused) ==
    LET room  == MaxInFlight + 1 - Cardinality(In(q, "active"))
        tried == accepted \cup refused
    IN  /\ Cardinality(accepted) <= room
        /\ \A r \in tried, s \in Due(q) \ tried : Before(q, r, s)
        /\ IF Cardinality(accepted) < room
           THEN tried = Due(q)
           ELSE \A r \in refused : \E s \in accepted : Before(q, r, s)

(* One run of the dispatch loop over the table q: it takes the due         *)
(* requests in order until the lanes are full; the port accepts some and   *)
(* raises for the others.  A refused request either waits for its backoff  *)
(* or has ended, so the loop meets no request twice.                       *)
DispatchLoop(q, accepted, refused) ==
    LET room  == MaxInFlight - Cardinality(In(q, "active"))
        tried == accepted \cup refused
    IN  /\ Cardinality(accepted) <= room
        /\ \A r \in tried, s \in Due(q) \ tried : Before(q, r, s)
        /\ IF Cardinality(accepted) < room
           THEN tried = Due(q)
           ELSE \A r \in refused : \E s \in accepted : Before(q, r, s)

AfterDispatch(q, accepted, refused) ==
    [r \in Requests |->
        IF r \in accepted THEN Submitted(q[r])
        ELSE IF r \in refused THEN RetriedOrFinished(q[r], "REFUSED")
        ELSE q[r]]

(* _dispatch returns only the events of the loop: the readiness results of *)
(* a request that ends inside it are not handed on.                        *)
Dispatch(table) ==
    \E q \in {table} : \E accepted \in SUBSET Due(q) :
        \E refused \in SUBSET (Due(q) \ accepted) :
            /\ DispatchLoop(q, accepted, refused)
            /\ req' = AfterDispatch(q, accepted, refused)

-----------------------------------------------------------------------------
(* The operations.  Enqueue of a terminal request or beyond the capacity   *)
(* raises before any change, and Cancel of an unknown request returns an   *)
(* empty update: neither is a step.                                        *)

Enqueue(r, deps, priority) ==
    /\ \/ /\ r \in Outstanding(req)
          /\ Dispatch([req EXCEPT ![r] = Merged(@, deps, priority)])
       \/ /\ req[r].place = "absent"
          /\ Cardinality(Outstanding(req)) < MaxQueued
          /\ Dispatch([req EXCEPT ![r] = Fresh(deps, priority)])
    /\ attached' = attached \cup ({r} \X deps)
    /\ UNCHANGED readiness

Expired == {r \in In(req, "active") : req[r].wait = 0}

Advance ==
    LET spent == {r \in Expired : req[r].attempt >= MaxAttempts}
    IN  /\ Dispatch([r \in Requests |->
                        IF r \in Expired
                        THEN RetriedOrFinished(req[r], "EXPIRED")
                        ELSE req[r]])
        /\ readiness' = Reported(spent, [d \in Dependencies |-> "EXPIRED"])
        /\ UNCHANGED attached

Complete(r, count) ==
    /\ r \in In(req, "active")
    /\ Dispatch([req EXCEPT ![r] = Finished("COMPLETED")])
    /\ readiness' = Reported({r}, [d \in Dependencies |->
                                  IF count >= Minimum[d]
                                  THEN "READY" ELSE "DEGRADED"])
    /\ UNCHANGED attached

(* Fault: consumers hear FAILED although the request will be retried.      *)
FailReportingRetries(r, retryable) ==
    /\ r \in In(req, "active")
    /\ Dispatch([req EXCEPT ![r] = IF retryable
                                   THEN RetriedOrFinished(@, "FAILED")
                                   ELSE Finished("FAILED")])
    /\ readiness' = Reported({r}, [d \in Dependencies |-> "FAILED"])
    /\ UNCHANGED attached

Fail(r, retryable) ==
    LET closed == IF retryable /\ req[r].attempt < MaxAttempts
                  THEN {} ELSE {r}
    IN  /\ r \in In(req, "active")
        /\ Dispatch([req EXCEPT ![r] = IF retryable
                                       THEN RetriedOrFinished(@, "FAILED")
                                       ELSE Finished("FAILED")])
        /\ readiness' = Reported(closed, [d \in Dependencies |-> "FAILED"])
        /\ UNCHANGED attached

(* Fault: the lane freed by a cancellation is not filled.                  *)
CancelWithoutDispatch(r) ==
    /\ r \in Outstanding(req)
    /\ req' = [req EXCEPT ![r] = Finished("CANCELED")]
    /\ readiness' = Reported({r}, [d \in Dependencies |-> "CANCELED"])
    /\ UNCHANGED attached

Cancel(r) ==
    /\ r \in Outstanding(req)
    /\ Dispatch([req EXCEPT ![r] = Finished("CANCELED")])
    /\ readiness' = Reported({r}, [d \in Dependencies |-> "CANCELED"])
    /\ UNCHANGED attached

(* A tick of the clock every duration is measured with.                    *)
Elapsed(e) == IF e.wait > 0 THEN [e EXCEPT !.wait = @ - 1] ELSE e

Tick ==
    /\ \E r \in Requests : req[r].wait > 0
    /\ req' = [r \in Requests |-> Elapsed(req[r])]
    /\ UNCHANGED <<readiness, attached>>

Next ==
    \/ \E r \in Requests, d \in Dependencies, priority \in Priorities :
           Enqueue(r, {d}, priority)
    \/ Advance
    \/ \E r \in Requests, count \in Counts : Complete(r, count)
    \/ \E r \in Requests, retryable \in BOOLEAN : Fail(r, retryable)
    \/ \E r \in Requests : Cancel(r)
    \/ Tick

(* Time passes, and the actor's poll timer calls advance again and again.  *)
(* Nothing is assumed of the provider, of consumers or of cancellation.    *)
Fairness == WF_vars(Tick) /\ WF_vars(Advance)

Spec == Init /\ [][Next]_vars /\ Fairness

-----------------------------------------------------------------------------
(* The types of the coordinator's tables: in particular no entry is ever   *)
(* given more attempts than the policy allows.                             *)
TypeOK ==
    /\ req \in [Requests -> Entry]
    /\ readiness \in [Requests -> [Dependencies -> ReadinessStates \cup {"NONE"}]]
    /\ attached \subseteq Requests \X Dependencies

(* Provider lanes, the queue and the attempts stay within the policy,      *)
(* retries, shared requests and refused submissions included.              *)
LanesBounded ==
    /\ Cardinality(In(req, "active")) <= MaxInFlight
    /\ Cardinality(Outstanding(req)) <= MaxQueued
    /\ \A r \in Requests : req[r].attempt <= MaxAttempts

(* The readiness states a request's ending may give its dependencies.      *)
OutcomesOf(ending) ==
    CASE ending = "COMPLETED" -> {"READY", "DEGRADED"}
      [] ending \in {"FAILED", "CANCELED", "EXPIRED"} -> {ending}
      [] OTHER -> {"NONE"}

(* Every dependency enqueue accepted, whether it came first or was merged  *)
(* into a queued or running request, has exactly the outcome the end of    *)
(* its request calls for, and none before; no other dependency has one.    *)
(* Among the dependencies of one answer, a less demanding one is never     *)
(* worse off than a more demanding one.                                    *)
OutcomesFollowEnding ==
    \A r \in Requests, d \in Dependencies :
        IF <<r, d>> \in attached
        THEN /\ readiness[r][d] \in OutcomesOf(req[r].ending)
             /\ \A e \in Dependencies :
                    /\ readiness[r][d] = "DEGRADED"
                    /\ readiness[r][e] = "READY"
                    => Minimum[e] < Minimum[d]
        ELSE readiness[r][d] = "NONE"

(* What "each consumer separately reaches READY, DEGRADED, FAILED,         *)
(* CANCELED, or EXPIRED" would mean: no ended request leaves an attached   *)
(* dependency without an outcome.  The code does not satisfy it.           *)
EveryConsumerAnswered ==
    \A r \in In(req, "terminal"), d \in Dependencies :
        <<r, d>> \in attached => readiness[r][d] # "NONE"

PutInFlight(r) == req[r].place # "active" /\ req'[r].place = "active"

(* No operation puts a request in flight and leaves a due request of       *)
(* higher priority waiting, even one it has just queued, merged or raised. *)
ServedInPriorityOrder ==
    [][\A r, s \in Requests :
          /\ PutInFlight(r)
          /\ req'[s].place = "pending"
          /\ req'[s].wait = 0
          => req'[s].priority <= req'[r].priority]_vars

(* Whatever frees a lane or queues work also fills the lanes: only the     *)
(* clock can leave a due request waiting beside a free lane.               *)
NoIdleLane ==
    [][\/ Tick
       \/ Cardinality({r \in Requests : req'[r].place = "active"}) = MaxInFlight
       \/ \A s \in Requests : req'[s].place = "pending" => req'[s].wait > 0]_vars

(* Bounded attempts and timeouts end every accepted request, with a        *)
(* provider that never answers or always refuses.                          *)
EveryRequestEnds ==
    \A r \in Requests :
        r \in Outstanding(req) ~> req[r].place = "terminal"

Contract == INSTANCE ReadinessContract WITH closed <- In(req, "terminal")

(* The coordinator implements the contract it owes to its consumers.       *)
ImplementsContract == Contract!Spec
=============================================================================
