---------------------------- MODULE EvidenceHealth ----------------------------
(* Live market evidence: the acquisition actor turns analytical demands     *)
(* into provider subscriptions and publishes every lifecycle event of a     *)
(* stream; the evidence actor judges each stream from the last such event,  *)
(* the age of its last observation and the session of its calendar.         *)
(* Signals are synchronous, so an operation and the judgements it causes    *)
(* are one step.  Ages are counted in evaluation intervals, up to the limit *)
(* beyond which they make no difference.                                    *)
EXTENDS ObservationDemand, EvidencePolicy, FiniteSetsExt, SequencesExt

CONSTANTS
    Feeds,     \* streams whose evidence is judged
    Asked,     \* analytical demands; an id may come with another purpose
    Policy,    \* of each feed: see EvidencePolicy
    Phases,    \* session phases, each with a recency profile of its own
    None

ASSUME EvidenceAssumption ==
    /\ Feeds \subseteq Streams /\ IsFiniteSet(Feeds) /\ \A s \in Feeds : Loads(Policy[s])
    /\ IsFiniteSet(Asked) /\ \A d \in Asked : d.id \in Nat
    /\ None \notin Nat \cup Phases \cup {"CLOSED"} /\ "CLOSED" \notin Phases

VARIABLES
    gate,         \* acquisition: "off", "held", "resolving", "open", "stopped"
    pending,      \* its demands held until the gate opens, by id
    live,         \* the coordinator, as in ObservationDemand
    evidence,     \* the evidence actor:
                  \*   active    "off", "waiting", "started", "stopped"
                  \*   attached  streams its own handler is registered for
                  \*   broken    streams whose registration failed
                  \*   stage     of each stream: the last lifecycle event
                  \*   session   the calendar context: None, "CLOSED" or a phase
                  \*   age       of the last observation of each stream, or None
                  \*   judged    the evidence state of each stream, or None
                  \*   profile   of each stream and phase: [count, limits]
    overdue,      \* the evaluation timer has not fired in this interval
    \* History.
    spared        \* streams whose last event ended one claim among several, or
                  \* was an unsubscription that failed

evidenceVars == <<gate, pending, live, evidence, overdue, spared>>

Oldest == 1 + Max({Policy[s].unavailable : s \in Feeds}
                  \cup {Policy[s].maxUnavailable : s \in Feeds})

------------------------------------------------------------------------------
(* A profile is kept as what it is for: its count, as far as the minimum,   *)
(* and the thresholds its mean and deviation give.                          *)
Effective(p, profile) ==
    IF p.adaptive /\ profile.count >= p.minimum THEN profile.limits ELSE Fixed(p)

Unlearned(s) == [count |-> 0, limits |-> Fixed(Policy[s])]
InSession(context) == context \in Phases
Limits(e, s) ==
    Effective(Policy[s], IF InSession(e.session) THEN e.profile[s][e.session] ELSE Unlearned(s))

(* RecencyProfile.observe: the decayed mean of intervals and its deviation  *)
(* may be anything up to the longest interval that is learned.              *)
Learnable ==
    [s \in Feeds |-> {Adaptive(Policy[s], mean, deviation) :
                            mean \in 0..Oldest, deviation \in 0..Oldest}]

Updates(s, old) ==
    {[count |-> IF old.count < Policy[s].minimum THEN old.count + 1 ELSE old.count,
      limits |-> limits] : limits \in Learnable[s]}

------------------------------------------------------------------------------
(* assess_evidence, for a stream at the end of a step.                      *)
Dead == {"REJECTED", "FAILED", "CANCELED", "EXPIRED"}

(* Fault: an observation that was stale once is never given up.             *)
ByAgeUnending(limits, years) ==
    IF years <= limits.fresh THEN "HEALTHY"
    ELSE IF years <= limits.stale THEN "DEGRADED" ELSE "STALE"

ByAge(limits, years) ==
    IF years <= limits.fresh THEN "HEALTHY"
    ELSE IF years <= limits.stale THEN "DEGRADED"
    ELSE IF years <= limits.unavailable THEN "STALE" ELSE "UNAVAILABLE"

(* Fault: an event of a claim that ended counts only while the session is   *)
(* known to be open.                                                        *)
AssessmentDormantFirst(limits, last, event, context) ==
    CASE context = None -> "NOT_EVALUATED"
      [] context = "CLOSED" -> "DORMANT"
      [] InSession(context) /\ event \in Dead -> "UNAVAILABLE"
      [] InSession(context) /\ event \notin Dead /\ last = None -> "DEGRADED"
      [] OTHER -> ByAge(limits, last)

Assessment(limits, last, event, context) ==
    CASE event \in Dead -> "UNAVAILABLE"
      [] event \notin Dead /\ context = None -> "NOT_EVALUATED"
      [] event \notin Dead /\ context = "CLOSED" -> "DORMANT"
      [] event \notin Dead /\ InSession(context) /\ last = None -> "DEGRADED"
      [] OTHER -> ByAge(limits, last)

(* _evaluate_key of some streams.                                           *)
Judge(e, touched) ==
    [e EXCEPT !.judged = [s \in Feeds |->
        IF s \in touched
        THEN Assessment(Limits(e, s), e.age[s], IF s \in e.broken THEN "FAILED" ELSE e.stage[s],
                        e.session)
        ELSE @[s]]]

JudgeIfStarted(e, touched) == IF e.active = "started" THEN Judge(e, touched) ELSE e

Listens(e) == e.active \in {"waiting", "started"}

(* on_signal: the lifecycle events of one operation, per stream.            *)
Hear(e, events) ==
    LET told == {s \in Feeds : events[s] # <<>>}
    IN  IF ~Listens(e) THEN e
        ELSE JudgeIfStarted([e EXCEPT !.stage = [s \in Feeds |-> IF s \in told THEN Last(events[s])
                                                             ELSE @[s]]], told)

(* _learn_recency: only intervals between observations of a subscribed,     *)
(* healthy or degrading stream in an open session.                          *)
Trains(e, s) ==
    /\ Policy[s].adaptive /\ e.age[s] # None /\ InSession(e.session)
    /\ e.stage[s] \in {"SUBSCRIBED", "ACTIVE"}
    /\ e.judged[s] \in {"HEALTHY", "DEGRADED"}

(* on_quote and on_bar: what the actor may become.  An observation older    *)
(* than the last one is ignored.                                            *)
Seen(e, s, old) ==
    IF ~Listens(e) \/ s \notin e.attached \/ old THEN {e}
    ELSE {Judge([learned EXCEPT !.age[s] = 0], {s}) :
             learned \in IF Trains(e, s)
                         THEN {[e EXCEPT !.profile[s][e.session] = p] :
                                  p \in Updates(s, e.profile[s][e.session])}
                         ELSE {e}}

------------------------------------------------------------------------------
EvidenceInit ==
    /\ gate \in {"off", "held"} /\ pending = <<>> /\ live = Idle
    /\ evidence = [active |-> "off", attached |-> {}, broken |-> {},
                   stage |-> [s \in Feeds |-> "REQUESTED"], session |-> None,
                   age |-> [s \in Feeds |-> None], judged |-> [s \in Feeds |-> None],
                   profile |-> [s \in Feeds |-> [phase \in Phases |-> Unlearned(s)]]]
    /\ overdue = FALSE /\ spared = {}

------------------------------------------------------------------------------
(* The acquisition actor.  An operation of its coordinator requests or      *)
(* cancels a demand, with the port calls that raise in it; its result is    *)
(* the coordinator afterwards and the events of each stream.                *)

PortCalls == {"subscribe", "unsubscribe"} \X {d.stream : d \in Asked}

Operation(c, act, demand, calls) ==
    LET claimed == IF act = "REQUEST" THEN Requested(c, demand) ELSE Removed(c, {demand.id})
        own == IF act = "REQUEST" THEN RequestEvents(c, demand) ELSE <<"CANCELED">>
    IN  [coordinator |-> Reconciled(claimed, 0, calls),
         events |-> [s \in Streams |->
                        (IF s = demand.stream THEN own ELSE <<>>)
                        \o Reconciliation(claimed, 0, calls, s)],
         spared |-> {s \in Streams :
                        \/ /\ act = "RELEASE" /\ s = demand.stream
                           /\ \E d \in Range(claimed.demands) : d.stream = s
                        \/ /\ s \in Obsolete(claimed, Desired(claimed, 0))
                           /\ <<"unsubscribe", s>> \in calls}]

(* Several operations in a row, each publishing its events before the next. *)
Publish(state, done) ==
    [coordinator |-> done.coordinator, evidence |-> Hear(state.evidence, done.events),
     spared |-> done.spared \cup {s \in state.spared : done.events[s] = <<>>}]

(* The operations are made in the order of the ids.                         *)
LastId(demands) == CHOOSE d \in demands : \A e \in demands : e.id <= d.id

Performed(act, demands, calls) ==
    LET after[ds \in SUBSET demands] ==
            IF ds = {} THEN [coordinator |-> live, evidence |-> evidence, spared |-> spared]
            ELSE LET d == LastId(ds)
                     state == after[ds \ {d}]
                 IN  Publish(state, Operation(state.coordinator, act, d, calls[d.id]))
    IN  after[demands]

Perform(act, demands, calls) ==
    LET after == Performed(act, demands, calls)
    IN  live' = after.coordinator /\ evidence' = after.evidence /\ spared' = after.spared

PerformAll(act, demands) ==
    \E calls \in [{d.id : d \in demands} -> SUBSET PortCalls] : Perform(act, demands, calls)

(* The gate opens when readiness was announced and every instrument is      *)
(* known: at the release itself or with the last definition.                *)
Opens ==
    /\ gate' = "open" /\ pending' = <<>>
    /\ PerformAll("REQUEST", Range(pending))
    /\ UNCHANGED overdue

ReleaseAcquisition ==
    /\ gate = "held"
    /\ \/ Opens
       \/ gate' = "resolving" /\ UNCHANGED <<pending, live, evidence, overdue, spared>>

LastInstrument == gate = "resolving" /\ Opens

(* A demand waits for the gate, replacing an earlier one of its id; after   *)
(* that an id in use by a different demand raises out of the handler, which *)
(* changes nothing.                                                         *)
Demand(d) ==
    \/ /\ gate \in {"held", "resolving"}
       /\ pending' = [id \in DOMAIN pending \cup {d.id} |->
                          IF id = d.id THEN d ELSE pending[id]]
       /\ UNCHANGED <<gate, live, evidence, overdue, spared>>
    \/ /\ gate = "open" /\ ~Raises(live, d, 0)
       /\ PerformAll("REQUEST", {d})
       /\ UNCHANGED <<gate, pending, overdue>>

Release(id) ==
    /\ gate \in {"held", "resolving", "open"}
    /\ pending' = Restrict(pending, DOMAIN pending \ {id})
    /\ IF id \in DOMAIN live.demands
       THEN PerformAll("RELEASE", {live.demands[id]})
       ELSE UNCHANGED <<live, evidence, spared>>
    /\ UNCHANGED <<gate, overdue>>

StopAcquisition ==
    /\ gate \in {"held", "resolving", "open"}
    /\ gate' = "stopped"
    /\ PerformAll("RELEASE", Range(live.demands))
    /\ UNCHANGED <<pending, overdue>>

(* A native observation reaches the handler of each actor that is           *)
(* subscribed, in the order of their registration.                          *)
Observation(s, old) ==
    LET hears == gate = "open" /\ Announces(live, s)
        active == [t \in Streams |-> IF t = s /\ hears THEN <<"ACTIVE">> ELSE <<>>]
    IN  /\ \/ gate = "open" /\ s \in DOMAIN live.subs
           \/ Listens(evidence) /\ s \in evidence.attached
        /\ old => s \in evidence.attached /\ evidence.age[s] # None
        /\ live' = IF hears THEN Observed(live, s) ELSE live
        /\ \/ evidence' \in Seen(Hear(evidence, active), s, old)
           \/ hears /\ \E e \in Seen(evidence, s, old) : evidence' = Hear(e, active)
        /\ spared' = IF hears THEN spared \ {s} ELSE spared
        /\ UNCHANGED <<gate, pending, overdue>>

------------------------------------------------------------------------------
(* The evidence actor.                                                      *)

Evidence(e) == evidence' = e /\ UNCHANGED <<gate, pending, live, spared>>

(* _reconcile_consumer_attachments, at the start and on a timer as long as  *)
(* a registration is missing: a recovered one is judged.                    *)
Attach(e) ==
    \E refused \in SUBSET (Feeds \ e.attached) :
        LET joined == Feeds \ (e.attached \cup refused)
        IN  Evidence(JudgeIfStarted([e EXCEPT !.attached = @ \cup joined,
                                              !.broken = (@ \cup refused) \ joined],
                                    joined \cap e.broken))

StartEvidence ==
    /\ gate # "off" /\ evidence.active = "off"
    /\ Attach([evidence EXCEPT !.active = "waiting"])
    /\ UNCHANGED overdue

RetryAttachments ==
    /\ Listens(evidence) /\ evidence.attached # Feeds
    /\ Attach(evidence)
    /\ UNCHANGED overdue

ReleaseEvidence ==
    /\ evidence.active = "waiting"
    /\ Evidence(Judge([evidence EXCEPT !.active = "started"], Feeds))
    /\ UNCHANGED overdue

(* Fault: a new context waits for the next evaluation.                      *)
SessionChangesQuietly(context) ==
    /\ Listens(evidence) /\ context # evidence.session
    /\ Evidence([evidence EXCEPT !.session = context])
    /\ UNCHANGED overdue

(* Session delivery installs a state, which becomes the calendar context.   *)
SessionChanges(context) ==
    /\ Listens(evidence) /\ context # evidence.session
    /\ Evidence(JudgeIfStarted([evidence EXCEPT !.session = context], Feeds))
    /\ UNCHANGED overdue

EvaluateAll ==
    /\ evidence.active = "started" /\ overdue
    /\ overdue' = FALSE
    /\ Evidence(Judge(evidence, Feeds))

Older(years) == IF years = None \/ years = Oldest THEN years ELSE years + 1

EvidenceTick ==
    /\ Listens(evidence) /\ ~overdue
    /\ overdue' = (evidence.active = "started")
    /\ Evidence([evidence EXCEPT !.age = [s \in Feeds |-> Older(@[s])]])

StopEvidence ==
    /\ Listens(evidence)
    /\ Evidence([evidence EXCEPT !.active = "stopped"])
    /\ UNCHANGED overdue

------------------------------------------------------------------------------
EvidenceNext ==
    \/ ReleaseAcquisition \/ LastInstrument \/ StopAcquisition
    \/ \E d \in Asked : Demand(d)
    \/ \E id \in {d.id : d \in Asked} : Release(id)
    \/ \E s \in Streams, old \in BOOLEAN : Observation(s, old)
    \/ StartEvidence \/ RetryAttachments \/ ReleaseEvidence
    \/ \E context \in Phases \cup {"CLOSED"} : SessionChanges(context)
    \/ EvaluateAll \/ EvidenceTick \/ StopEvidence

(* The clock runs and the evaluation timer fires while the actor runs.      *)
EvidenceFairness == WF_evidenceVars(EvidenceTick) /\ WF_evidenceVars(EvaluateAll)

EvidenceSpec == EvidenceInit /\ [][EvidenceNext]_evidenceVars /\ EvidenceFairness

------------------------------------------------------------------------------
Running == evidence.active = "started"

(* Evidence called HEALTHY is recent to within one evaluation interval,     *)
(* even under the widest learned thresholds, of an open session, and its    *)
(* stream has no failure: every change that ends this is judged at once.    *)
HealthyIsRecent ==
    \A s \in Feeds : Running /\ evidence.judged[s] = "HEALTHY" =>
        /\ InSession(evidence.session)
        /\ evidence.age[s] # None
        /\ evidence.age[s] <= AtLeast(Policy[s].fresh, Policy[s].maxFresh) + 1
        /\ evidence.stage[s] \notin Dead /\ s \in evidence.attached

(* "An explicit subscription rejection or failure remains UNAVAILABLE even  *)
(* while the session is closed".                                            *)
FailureIsUnavailable ==
    \A s \in Feeds :
        Running /\ evidence.stage[s] \in Dead => evidence.judged[s] = "UNAVAILABLE"

(* A stream the provider still delivers is held to have failed or ended     *)
(* only if one of several claims on it was released, or its unsubscription  *)
(* failed.  Then it stays UNAVAILABLE whatever arrives: lifecycle events    *)
(* name the stream and not the claim.                                       *)
DeadOnlyIfSpared ==
    \A s \in DOMAIN live.subs \cap Feeds :
        gate = "open" /\ Listens(evidence) /\ evidence.stage[s] \in Dead => s \in spared

EvidenceInv == HealthyIsRecent /\ FailureIsUnavailable /\ DeadOnlyIfSpared

(* Silence in an open session is noticed: a stream that was observed once   *)
(* and never again becomes UNAVAILABLE, whatever thresholds it learned.     *)
SilenceNoticed ==
    \A s \in Feeds :
        <>[](/\ Running /\ InSession(evidence.session)
             /\ evidence.age[s] \notin {None, 0})
        => <>[](evidence.judged[s] = "UNAVAILABLE")
=============================================================================
