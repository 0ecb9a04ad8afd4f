--------------------------- MODULE ObservationDemand ---------------------------
(* The demands of many consumers, and the provider subscriptions they are   *)
(* reconciled into: DemandReconciler and AcquisitionCoordinator as pure     *)
(* operators on one record                                                  *)
(*   demands   the demand of each demand id                                 *)
(*   subs      the provider demand of each subscribed stream                *)
(*   observed  streams whose first observation has been announced           *)
(* Streams are independent of each other, so a reconciliation treats them   *)
(* together, and its events are kept per stream, in order.  A demand is     *)
(* [id, stream, params, expires]; priority, owner and purpose are only      *)
(* carried along.                                                           *)
EXTENDS Naturals, Sequences, FiniteSets, Functions

CONSTANTS Streams, Forever

Idle == [demands |-> <<>>, subs |-> <<>>, observed |-> {}]

IsExpired(demand, now) == demand.expires # Forever /\ demand.expires <= now
Current(c, now) == {d \in Range(c.demands) : ~IsExpired(d, now)}

------------------------------------------------------------------------------
(* DemandReconciler.add: an expired demand, another demand of the same id,  *)
(* and other parameters for a stream that any stored demand has, expired or *)
(* not, are refused by an exception.                                        *)
Duplicate(c, demand) == demand.id \in DOMAIN c.demands /\ c.demands[demand.id] = demand

StreamConflict(c, demand) ==
    \E d \in Range(c.demands) : d.stream = demand.stream /\ d.params # demand.params

Addable(c, demand, now) ==
    /\ ~IsExpired(demand, now)
    /\ demand.id \notin DOMAIN c.demands
    /\ ~StreamConflict(c, demand)

Raises(c, demand, now) == ~Addable(c, demand, now) /\ (IsExpired(demand, now) \/ ~Duplicate(c, demand))

Added(c, demand) ==
    [c EXCEPT !.demands = [i \in DOMAIN @ \cup {demand.id} |->
                              IF i = demand.id THEN demand ELSE @[i]]]

Removed(c, ids) == [c EXCEPT !.demands = Restrict(@, DOMAIN @ \ ids)]

ExpiredIds(c, now) == {i \in DOMAIN c.demands : IsExpired(c.demands[i], now)}

(* provider_demands: one provider demand for the current demands of a       *)
(* stream, which agree on its parameters.                                   *)
Desired(c, now) ==
    [s \in {d.stream : d \in Current(c, now)} |->
        LET claims == {d \in Current(c, now) : d.stream = s}
        IN  [params |-> (CHOOSE d \in claims : TRUE).params,
             consumers |-> {d.id : d \in claims}]]

------------------------------------------------------------------------------
(* AcquisitionCoordinator.reconcile.  failing holds the port calls that     *)
(* raise: <<"subscribe", s>> and <<"unsubscribe", s>>.                      *)

(* Subscriptions nobody wants, or wants with other parameters.              *)
Obsolete(c, desired) ==
    {s \in DOMAIN c.subs : s \notin DOMAIN desired \/ c.subs[s].params # desired[s].params}

Unsubscribed(c, desired, failing) ==
    {s \in Obsolete(c, desired) : <<"unsubscribe", s>> \notin failing}
Missing(c, desired, failing) ==
    DOMAIN desired \ (DOMAIN c.subs \ Unsubscribed(c, desired, failing))
Subscribed(c, desired, failing) ==
    {s \in Missing(c, desired, failing) : <<"subscribe", s>> \notin failing}

(* Fault: a stopped subscription stays announced as observed.               *)
ReconciledStillObserved(c, now, failing) ==
    LET desired == Desired(c, now)
        started == Subscribed(c, desired, failing)
        stays == DOMAIN c.subs \ Unsubscribed(c, desired, failing)
    IN  [c EXCEPT !.subs = [s \in stays \cup started |->
                               IF s \in Obsolete(c, desired) \ started THEN c.subs[s]
                               ELSE desired[s]]]

Reconciled(c, now, failing) ==
    LET desired == Desired(c, now)
        stopped == Unsubscribed(c, desired, failing)
        started == Subscribed(c, desired, failing)
    IN  [c EXCEPT
            !.subs = [s \in (DOMAIN c.subs \ stopped) \cup started |->
                         IF s \in Obsolete(c, desired) \ started THEN c.subs[s] ELSE desired[s]],
            !.observed = @ \ stopped]

(* The events of a reconciliation for one stream.                           *)
Reconciliation(c, now, failing, s) ==
    LET desired == Desired(c, now)
    IN  (IF s \in Unsubscribed(c, desired, failing) THEN <<"COMPLETED">>
         ELSE IF s \in Obsolete(c, desired) THEN <<"FAILED">> ELSE <<>>)
        \o
        (IF s \in Subscribed(c, desired, failing) THEN <<"SUBSCRIBED">>
         ELSE IF s \in Missing(c, desired, failing) THEN <<"FAILED">> ELSE <<>>)

(* request: the coordinator after it, and the events of the demand itself.  *)
Requested(c, demand) == IF Duplicate(c, demand) THEN c ELSE Added(c, demand)
RequestEvents(c, demand) ==
    IF Duplicate(c, demand) THEN <<"REQUESTED">> ELSE <<"REQUESTED", "ACCEPTED">>

(* observe: the first observation of a subscription makes it ACTIVE.        *)
Announces(c, s) == s \in DOMAIN c.subs \ c.observed
Observed(c, s) == IF Announces(c, s) THEN [c EXCEPT !.observed = @ \cup {s}] ELSE c
=============================================================================
