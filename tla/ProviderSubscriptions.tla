------------------------- MODULE ProviderSubscriptions -------------------------
(* The coordinator under every caller its interface admits: demands with    *)
(* parameters and an expiry, cancellation, expiry at any moment, a plain    *)
(* reconciliation, and a provider port any of whose calls may raise.        *)
EXTENDS ObservationDemand

CONSTANTS
    Offered,       \* the demands consumers make
    Unsupported,   \* streams the native port has no method for
    MaxNow         \* bound of the model: when the clock stops

VARIABLES
    coordinator,   \* as in ObservationDemand
    now,           \* the clock; past MaxNow, the coordinator is not used
    \* History.
    asked,         \* the provider demands of the last reconciliation
    refused        \* streams one of whose port calls raised in it

demandVars == <<coordinator, now, asked, refused>>

DemandInit ==
    /\ coordinator = Idle /\ now \in {0, MaxNow + 1}
    /\ asked = <<>> /\ refused = {}

Started == now <= MaxNow

Calls == {"subscribe", "unsubscribe"} \X Streams
Failing(calls) == calls \cup ({"subscribe"} \X Unsupported)

(* Every operation ends with a reconciliation.                              *)
ReconcileFrom(c) ==
    \E calls \in SUBSET Calls :
        /\ coordinator' = Reconciled(c, now, Failing(calls))
        /\ asked' = Desired(c, now)
        /\ refused' = {s \in Streams :
                          \E i \in DOMAIN Reconciliation(c, now, Failing(calls), s) :
                              Reconciliation(c, now, Failing(calls), s)[i] = "FAILED"}
        /\ UNCHANGED now

Request(demand) ==
    /\ Started /\ ~Raises(coordinator, demand, now)
    /\ ReconcileFrom(Requested(coordinator, demand))

Cancel(id) ==
    /\ Started /\ id \in DOMAIN coordinator.demands
    /\ ReconcileFrom(Removed(coordinator, {id}))

Expire == Started /\ ReconcileFrom(Removed(coordinator, ExpiredIds(coordinator, now)))

Reconcile == Started /\ ReconcileFrom(coordinator)

Observe(s) ==
    /\ Started /\ Announces(coordinator, s)
    /\ coordinator' = Observed(coordinator, s)
    /\ UNCHANGED <<now, asked, refused>>

DemandTick ==
    /\ now < MaxNow /\ now' = now + 1
    /\ UNCHANGED <<coordinator, asked, refused>>

DemandNext ==
    \/ \E d \in Offered : Request(d)
    \/ \E id \in {d.id : d \in Offered} : Cancel(id)
    \/ \E s \in Streams : Observe(s)
    \/ Expire \/ Reconcile \/ DemandTick

DemandSpec == DemandInit /\ [][DemandNext]_demandVars

------------------------------------------------------------------------------
(* No two stored demands ask for one stream with different parameters, so   *)
(* provider_demands never raises in the middle of an operation.             *)
StreamsAgree ==
    \A d, e \in Range(coordinator.demands) : d.stream = e.stream => d.params = e.params

(* What the last reconciliation asked for is subscribed, with its           *)
(* parameters and consumers, and nothing else is, except where the provider *)
(* refused; such a stream keeps its old subscription or has none.           *)
SubscriptionsFollowDemand ==
    \A s \in Streams \ refused :
        /\ s \in DOMAIN coordinator.subs <=> s \in DOMAIN asked
        /\ s \in DOMAIN asked => coordinator.subs[s] = asked[s]

(* Only a live subscription has announced its first observation, so every   *)
(* new subscription announces its own.                                      *)
ObservedAreSubscribed == coordinator.observed \subseteq DOMAIN coordinator.subs

DemandInv == StreamsAgree /\ SubscriptionsFollowDemand /\ ObservedAreSubscribed
=============================================================================
