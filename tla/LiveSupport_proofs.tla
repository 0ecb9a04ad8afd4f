-------------------------- MODULE LiveSupport_proofs --------------------------
(* The parts that share no state with one another and that MCLiveSupport    *)
(* instantiates together: the startup barrier, the admission of metric      *)
(* values, the demands and subscriptions of the coordinator, the validation *)
(* of bars, the path of a resource alert, the evidence of acquisition and   *)
(* health, and the book of entities.  Each has an inductive invariant of    *)
(* its own.                                                                 *)
EXTENDS StartupReadiness, Revisions, ProviderSubscriptions, BarValidation,
        ResourceAlerts, EvidenceHealth, FunctionTheorems, FiniteSetTheorems,
        SequenceTheorems, NaturalsInduction, WellFoundedInduction, TLAPS

------------------------------------------------------------------------------
(* The startup barrier, for any consumers, any clock and any timeout.       *)

(* The inductive invariant: the properties, the types they need, and that a *)
(* barrier once sealed is past every change.                                *)
ReadinessTypes ==
    /\ acks \in [DOMAIN acks -> Acknowledgements]
    /\ latest \in Nat
    /\ sealedAt \in Nat \cup {NoTime}

RInv == ReadinessTypes /\ ReadinessInv

LEMMA BarrierConstants ==
    /\ Required # {} /\ BarrierStart \in Nat \ {0} /\ Timeout \in Nat \ {0}
    /\ Instants \subseteq Nat /\ NoTime \notin Nat
    /\ Deadline \in Nat /\ BarrierStart < Deadline
BY ReadinessAssumption DEF Deadline

LEMMA BarrierInit == ReadinessInit => RInv
<1> SUFFICES ASSUME ReadinessInit PROVE RInv
  OBVIOUS
<1>1. DOMAIN acks = {}
  BY DEF ReadinessInit
<1>2. acks \in [DOMAIN acks -> Acknowledgements]
  BY DEF ReadinessInit
<1>3. latest = BarrierStart /\ sealedAt = NoTime /\ contradicting = {}
  BY DEF ReadinessInit
<1>4. ReadinessTypes
  BY <1>2, <1>3, BarrierConstants DEF ReadinessTypes
<1>5. SealIsFinal /\ SealIsTimely
  BY <1>1, <1>3, BarrierConstants DEF SealIsFinal, SealIsTimely
<1>6. AnswersCount
  BY <1>1, <1>3, BarrierConstants DEF AnswersCount, Deadline
<1>7. QED BY <1>4, <1>5, <1>6 DEF RInv, ReadinessInv

(* The seal comes with the last answer, at the latest time that counted.    *)
LEMMA SealKeeps ==
    ASSUME SealIfTerminal, sealedAt = NoTime, latest' \in BarrierStart..Deadline - 1
    PROVE  /\ sealedAt' \in Nat \cup {NoTime}
           /\ SealIsFinal' /\ SealIsTimely'
<1>1. CASE DOMAIN acks' = Required
  <2>1. sealedAt' = latest' /\ sealing' = Verdict(acks', contradicting')
    BY <1>1 DEF SealIfTerminal, SealAt
  <2>2. QED BY <1>1, <2>1, BarrierConstants DEF SealIsFinal, SealIsTimely
<1>2. CASE DOMAIN acks' # Required
  <2>1. sealedAt' = NoTime
    BY <1>2 DEF SealIfTerminal
  <2>2. QED BY <1>2, <2>1, BarrierConstants DEF SealIsFinal, SealIsTimely
<1>3. QED BY <1>1, <1>2

LEMMA LatestKeeps ==
    ASSUME NEW time \in Instants, latest \in BarrierStart..Deadline - 1, Latest(time),
           time >= BarrierStart, time < Deadline
    PROVE  latest' \in BarrierStart..Deadline - 1 /\ latest' \in Nat
BY BarrierConstants DEF Latest

LEMMA FirstAnswerKeeps ==
    ASSUME RInv, Unsealed, NEW ack \in Acknowledgements, NEW time \in Instants,
           FirstAnswer(ack, time)
    PROVE  RInv'
<1>1. /\ acks' = [k \in DOMAIN acks \cup {ack.by} |-> IF k = ack.by THEN ack ELSE acks[k]]
      /\ contradicting' = contradicting /\ Latest(time) /\ SealIfTerminal
      /\ ack.by \in Required /\ time >= BarrierStart /\ time < Deadline
      /\ sealedAt = NoTime
  BY DEF FirstAnswer, Answers, Unsealed
<1>2. latest' \in BarrierStart..Deadline - 1 /\ latest' \in Nat
  BY <1>1, LatestKeeps DEF RInv, ReadinessInv, AnswersCount
<1>3. sealedAt' \in Nat \cup {NoTime} /\ SealIsFinal' /\ SealIsTimely'
  BY <1>1, <1>2, SealKeeps
<1>4. DOMAIN acks' = DOMAIN acks \cup {ack.by}
  BY <1>1
<1>5. acks' \in [DOMAIN acks' -> Acknowledgements]
  BY <1>1, <1>4 DEF RInv, ReadinessTypes
<1>6. AnswersCount'
  BY <1>1, <1>2, <1>4 DEF RInv, ReadinessInv, AnswersCount
<1>7. QED BY <1>2, <1>3, <1>5, <1>6 DEF RInv, ReadinessInv, ReadinessTypes

LEMMA ContradictionKeeps ==
    ASSUME RInv, Unsealed, NEW ack \in Acknowledgements, NEW time \in Instants,
           Contradiction(ack, time)
    PROVE  RInv'
<1>1. /\ acks' = acks /\ contradicting' = contradicting \cup {ack.by}
      /\ Latest(time) /\ SealIfTerminal
      /\ ack.by \in DOMAIN acks /\ time >= BarrierStart /\ time < Deadline
      /\ sealedAt = NoTime
  BY DEF Contradiction, Answers, Unsealed
<1>2. latest' \in BarrierStart..Deadline - 1 /\ latest' \in Nat
  BY <1>1, LatestKeeps DEF RInv, ReadinessInv, AnswersCount
<1>3. sealedAt' \in Nat \cup {NoTime} /\ SealIsFinal' /\ SealIsTimely'
  BY <1>1, <1>2, SealKeeps
<1>4. acks' \in [DOMAIN acks' -> Acknowledgements]
  BY <1>1 DEF RInv, ReadinessTypes
<1>5. AnswersCount'
  BY <1>1, <1>2 DEF RInv, ReadinessInv, AnswersCount
<1>6. QED BY <1>2, <1>3, <1>4, <1>5 DEF RInv, ReadinessInv, ReadinessTypes

(* Both ways in which time seals the barrier: no later than its deadline.   *)
LEMMA SealByTimeKeeps ==
    ASSUME RInv, Unsealed, NEW time \in Nat, SealAt(time), time = Deadline,
           UNCHANGED <<acks, contradicting, latest>>
    PROVE  RInv'
<1>1. sealedAt' = Deadline /\ sealing' = Verdict(acks', contradicting')
  BY DEF SealAt
<1>2. SealIsFinal'
  BY <1>1 DEF SealIsFinal
<1>3. latest \in BarrierStart..Deadline - 1
  BY DEF RInv, ReadinessInv, AnswersCount
<1>4. SealIsTimely'
  BY <1>1, <1>3, BarrierConstants DEF SealIsTimely
<1>5. AnswersCount'
  BY DEF RInv, ReadinessInv, AnswersCount
<1>6. ReadinessTypes'
  BY <1>1, BarrierConstants DEF RInv, ReadinessTypes
<1>7. QED BY <1>2, <1>4, <1>5, <1>6 DEF RInv, ReadinessInv

LEMMA AcknowledgeKeeps == RInv /\ Acknowledge => RInv'
<1> SUFFICES ASSUME RInv, NEW ack \in Acknowledgements, NEW time \in Instants, Unsealed,
                    TooLate(time) \/ FirstAnswer(ack, time) \/ Contradiction(ack, time)
             PROVE  RInv'
  BY DEF Acknowledge
<1>1. CASE TooLate(time)
  BY <1>1, SealByTimeKeeps, BarrierConstants DEF TooLate
<1>2. CASE FirstAnswer(ack, time)
  BY <1>2, FirstAnswerKeeps
<1>3. CASE Contradiction(ack, time)
  BY <1>3, ContradictionKeeps
<1>4. QED BY <1>1, <1>2, <1>3

LEMMA EvaluateKeeps == RInv /\ Evaluate => RInv'
<1> SUFFICES ASSUME RInv, NEW time \in Instants, Unsealed,
                    time - BarrierStart >= Timeout,
                    UNCHANGED <<acks, contradicting, latest>>,
                    SealAt(IF time < Deadline THEN time ELSE Deadline)
             PROVE  RInv'
  BY DEF Evaluate
<1>1. ~(time < Deadline)
  BY BarrierConstants DEF Deadline
<1>2. SealAt(Deadline)
  BY <1>1
<1>3. QED BY <1>2, SealByTimeKeeps, BarrierConstants

LEMMA BarrierStep == RInv /\ [ReadinessNext]_readinessVars => RInv'
<1> SUFFICES ASSUME RInv, [ReadinessNext]_readinessVars PROVE RInv'
  OBVIOUS
<1>1. CASE Acknowledge
  BY <1>1, AcknowledgeKeeps
<1>2. CASE Evaluate
  BY <1>2, EvaluateKeeps
<1>3. CASE UNCHANGED readinessVars
  BY <1>3 DEF RInv, ReadinessTypes, ReadinessInv, SealIsFinal, SealIsTimely, AnswersCount,
     readinessVars
<1>4. QED BY <1>1, <1>2, <1>3 DEF ReadinessNext

(* The decision of a sealed barrier never changes, it is sealed as soon as  *)
(* everyone has answered and otherwise at the deadline, and only answers of *)
(* required consumers received in time count: for any number of consumers,  *)
(* any timeout and any times of receipt, in any order.                      *)
THEOREM BarrierCorrect == ReadinessSpec => []ReadinessInv
<1>1. RInv => ReadinessInv
  BY DEF RInv
<1>2. QED BY <1>1, BarrierInit, BarrierStep, PTL DEF ReadinessSpec

------------------------------------------------------------------------------
(* The metric admission book, for any keys, contents and bounds.            *)

AdmissionTypes ==
    /\ current \in [DOMAIN current -> MetricValues]
    /\ chain \in [Keys -> Seq(MetricValues)]
    /\ IsFiniteSet(DOMAIN current)

AInv == AdmissionTypes /\ AdmissionInv

LEMMA MetricsInit == AdmissionInit => AInv
<1> SUFFICES ASSUME AdmissionInit PROVE AInv
  OBVIOUS
<1>1. DOMAIN current = {} /\ current \in [DOMAIN current -> MetricValues]
  BY DEF AdmissionInit
<1>2. chain \in [Keys -> Seq(MetricValues)] /\ \A k \in Keys : chain[k] = <<>>
  BY DEF AdmissionInit
<1>3. IsFiniteSet(DOMAIN current) /\ Cardinality(DOMAIN current) = 0
  BY <1>1, FS_EmptySet
<1>4. ChainsUnbroken
  BY <1>1, <1>2 DEF ChainsUnbroken
<1>5. SubjectsBounded
  BY <1>1, <1>3, AdmissionAssumption DEF SubjectsBounded
<1>6. QED BY <1>1, <1>2, <1>3, <1>4, <1>5 DEF AInv, AdmissionTypes, AdmissionInv

(* A value that is declined changes no chain.                               *)
LEMMA MetricDeclineKeeps ==
    ASSUME AInv, NEW disposition, Decline(disposition)
    PROVE  AInv'
BY DEF AInv, AdmissionTypes, AdmissionInv, ChainsUnbroken, SubjectsBounded, Decline

(* A value that continues the chain of its key, for which there is room.    *)
LEMMA MetricAcceptKeeps ==
    ASSUME AInv, NEW v \in MetricValues, Accept(v),
           v.revision = Len(chain[v.key]) + 1,
           IsFiniteSet(DOMAIN current \cup {v.key}),
           Cardinality(DOMAIN current \cup {v.key}) <= MaximumSubjects
    PROVE  AInv'
<1>1. /\ v.key \in Keys /\ v.revision \in Nat
      /\ current' = [k \in DOMAIN current \cup {v.key} |-> IF k = v.key THEN v ELSE current[k]]
      /\ chain' = [chain EXCEPT ![v.key] = Append(chain[v.key], v)]
  BY DEF Accept, MetricValues
<1>2. DOMAIN current' = DOMAIN current \cup {v.key}
  BY <1>1
<1>3. current' \in [DOMAIN current' -> MetricValues]
  BY <1>1, <1>2 DEF AInv, AdmissionTypes
<1>4. chain' \in [Keys -> Seq(MetricValues)]
  BY <1>1 DEF AInv, AdmissionTypes
<1>5. SubjectsBounded'
  BY <1>1, <1>2 DEF AInv, AdmissionInv, SubjectsBounded
<1>6. ASSUME NEW k \in Keys
      PROVE  /\ \A i \in DOMAIN chain'[k] :
                   chain'[k][i].key = k /\ chain'[k][i].revision = i
             /\ k \in DOMAIN current' <=> chain'[k] # <<>>
             /\ k \in DOMAIN current' => current'[k] = chain'[k][Len(chain'[k])]
  <2>1. chain[k] \in Seq(MetricValues)
    BY DEF AInv, AdmissionTypes
  <2>2. CASE k # v.key
    <3>1. chain'[k] = chain[k]
      BY <1>1, <2>2 DEF AInv, AdmissionTypes
    <3>2. k \in DOMAIN current' <=> k \in DOMAIN current
      BY <1>2, <2>2
    <3>3. k \in DOMAIN current => current'[k] = current[k]
      BY <1>1, <2>2
    <3>4. QED BY <3>1, <3>2, <3>3 DEF AInv, AdmissionInv, ChainsUnbroken
  <2>3. CASE k = v.key
    <3>1. chain'[k] = Append(chain[k], v)
      BY <1>1, <2>3 DEF AInv, AdmissionTypes
    <3>2. /\ Len(chain'[k]) = Len(chain[k]) + 1
          /\ DOMAIN chain'[k] = 1..Len(chain[k]) + 1
          /\ \A i \in 1..Len(chain[k]) : chain'[k][i] = chain[k][i]
          /\ chain'[k][Len(chain[k]) + 1] = v
      BY <2>1, <3>1
    <3>3. DOMAIN chain[k] = 1..Len(chain[k]) /\ Len(chain[k]) \in Nat
      BY <2>1
    <3>4. \A i \in DOMAIN chain'[k] : chain'[k][i].key = k /\ chain'[k][i].revision = i
      BY <2>3, <3>2, <3>3 DEF AInv, AdmissionInv, ChainsUnbroken
    <3>5. current'[k] = v /\ k \in DOMAIN current'
      BY <1>1, <1>2, <2>3
    <3>6. chain'[k] # <<>>
      BY <3>2, <3>3
    <3>7. QED BY <3>2, <3>4, <3>5, <3>6
  <2>4. QED BY <2>2, <2>3
<1>7. ChainsUnbroken'
  BY <1>6 DEF ChainsUnbroken
<1>8. QED BY <1>2, <1>3, <1>4, <1>5, <1>7 DEF AInv, AdmissionTypes, AdmissionInv

LEMMA MetricFirstKeeps ==
    ASSUME AInv, NEW v \in MetricValues, OfferFirst(v)
    PROVE  AInv'
<1>1. CASE \E disposition \in {"gaps", "capacity"} : Decline(disposition)
  BY <1>1, MetricDeclineKeeps
<1>2. CASE v.revision = 1 /\ Cardinality(DOMAIN current) < MaximumSubjects /\ Accept(v)
  <2>1. v.key \in Keys /\ v.key \notin DOMAIN current
    BY DEF OfferFirst, MetricValues
  <2>2. chain[v.key] = <<>>
    BY <2>1 DEF AInv, AdmissionInv, ChainsUnbroken
  <2>3. v.revision = Len(chain[v.key]) + 1
    BY <1>2, <2>2
  <2>4. /\ IsFiniteSet(DOMAIN current \cup {v.key})
        /\ Cardinality(DOMAIN current \cup {v.key}) = Cardinality(DOMAIN current) + 1
    BY <2>1, FS_AddElement DEF AInv, AdmissionTypes
  <2>5. Cardinality(DOMAIN current) \in Nat
    BY FS_CardinalityType DEF AInv, AdmissionTypes
  <2>6. Cardinality(DOMAIN current \cup {v.key}) <= MaximumSubjects
    BY <1>2, <2>4, <2>5, AdmissionAssumption
  <2>7. QED BY <1>2, <2>3, <2>4, <2>6, MetricAcceptKeeps
<1>3. QED BY <1>1, <1>2 DEF OfferFirst

LEMMA MetricNextKeeps ==
    ASSUME AInv, NEW v \in MetricValues, OfferNext(v)
    PROVE  AInv'
<1>1. CASE \E disposition \in {"duplicates", "conflicts", "stale", "gaps"} : Decline(disposition)
  BY <1>1, MetricDeclineKeeps
<1>2. CASE Follows(v) /\ Accept(v)
  <2>1. v.key \in Keys /\ v.key \in DOMAIN current
    BY DEF OfferNext, MetricValues
  <2>2. /\ chain[v.key] \in Seq(MetricValues) /\ chain[v.key] # <<>>
        /\ current[v.key] = chain[v.key][Len(chain[v.key])]
    BY <2>1 DEF AInv, AdmissionTypes, AdmissionInv, ChainsUnbroken
  <2>3. Len(chain[v.key]) \in DOMAIN chain[v.key]
    BY <2>2
  <2>4. current[v.key].revision = Len(chain[v.key])
    BY <2>1, <2>2, <2>3 DEF AInv, AdmissionInv, ChainsUnbroken
  <2>5. v.revision = Len(chain[v.key]) + 1
    BY <1>2, <2>4 DEF Follows
  <2>6. DOMAIN current \cup {v.key} = DOMAIN current
    BY <2>1
  <2>7. QED BY <1>2, <2>5, <2>6, MetricAcceptKeeps
         DEF AInv, AdmissionTypes, AdmissionInv, SubjectsBounded
<1>3. QED BY <1>1, <1>2 DEF OfferNext

LEMMA MetricsStep == AInv /\ [AdmissionNext]_admissionVars => AInv'
<1> SUFFICES ASSUME AInv, [AdmissionNext]_admissionVars PROVE AInv'
  OBVIOUS
<1>1. CASE \E v \in MetricValues : OfferFirst(v)
  BY <1>1, MetricFirstKeeps
<1>2. CASE \E v \in MetricValues : OfferNext(v)
  BY <1>2, MetricNextKeeps
<1>3. CASE UNCHANGED admissionVars
  BY <1>3 DEF AInv, AdmissionTypes, AdmissionInv, ChainsUnbroken, SubjectsBounded, admissionVars
<1>4. QED BY <1>1, <1>2, <1>3 DEF AdmissionNext

(* Whatever is offered in whatever order, the book holds of each subject    *)
(* the end of an unbroken chain of revisions 1, 2, ..., and never more      *)
(* subjects than its limit: for every set of subjects and contents.         *)
THEOREM AdmissionCorrect == AdmissionSpec => []AdmissionInv
<1>1. AInv => AdmissionInv
  BY DEF AInv
<1>2. QED BY <1>1, MetricsInit, MetricsStep, PTL DEF AdmissionSpec

------------------------------------------------------------------------------
(* Observation demands and subscriptions, for any demands, any port calls   *)
(* that raise and any clock.                                                *)
CoordinatorShape(c) ==
    c = [demands |-> c.demands, subs |-> c.subs, observed |-> c.observed]

DInv == CoordinatorShape(coordinator) /\ DemandInv

(* What a reconciliation begins with: demands that agree, and nothing       *)
(* announced that is not subscribed.                                        *)
Reconcilable(c) ==
    /\ CoordinatorShape(c)
    /\ \A d, e \in Range(c.demands) : d.stream = e.stream => d.params = e.params
    /\ c.observed \subseteq DOMAIN c.subs

(* What a reconciliation tells of one stream.                               *)
PortEvents == {"COMPLETED", "SUBSCRIBED", "FAILED"}

LEMMA Occurs ==
    ASSUME NEW a \in Seq(PortEvents), NEW b \in Seq(PortEvents)
    PROVE  /\ \A i \in DOMAIN a : \E k \in DOMAIN (a \o b) : (a \o b)[k] = a[i]
           /\ \A i \in DOMAIN b : \E k \in DOMAIN (a \o b) : (a \o b)[k] = b[i]
<1> DEFINE s == a \o b
<1>1. /\ s \in Seq(PortEvents) /\ Len(s) = Len(a) + Len(b) /\ Len(a) \in Nat /\ Len(b) \in Nat
      /\ \A i \in 1 .. Len(a) + Len(b) : s[i] = IF i <= Len(a) THEN a[i] ELSE b[i - Len(a)]
  BY ConcatProperties
<1>2. DOMAIN s = 1..Len(s) /\ DOMAIN a = 1..Len(a) /\ DOMAIN b = 1..Len(b)
  BY <1>1
<1> HIDE DEF s
<1>3. ASSUME NEW i \in DOMAIN a PROVE i \in DOMAIN s /\ s[i] = a[i]
  BY <1>1, <1>2
<1>4. ASSUME NEW i \in DOMAIN b
      PROVE  Len(a) + i \in DOMAIN s /\ s[Len(a) + i] = b[i]
  <2>1. i \in Int /\ 1 <= i /\ i <= Len(b) /\ ~(Len(a) + i <= Len(a))
        /\ Len(a) + i - Len(a) = i /\ Len(a) + i \in 1..Len(a) + Len(b)
    BY <1>1, <1>2
  <2>2. QED BY <1>1, <1>2, <2>1
<1>5. QED BY <1>3, <1>4 DEF s

(* A stream whose events hold no failure was unsubscribed if it was         *)
(* obsolete and subscribed if it was missing.                               *)
LEMMA NotRefused ==
    ASSUME NEW c, NEW t, NEW failing, NEW s,
           \A i \in DOMAIN Reconciliation(c, t, failing, s) :
               Reconciliation(c, t, failing, s)[i] # "FAILED"
    PROVE  /\ s \in Obsolete(c, Desired(c, t)) => s \in Unsubscribed(c, Desired(c, t), failing)
           /\ s \in Missing(c, Desired(c, t), failing)
                  => s \in Subscribed(c, Desired(c, t), failing)
<1> DEFINE desired == Desired(c, t)
           a == IF s \in Unsubscribed(c, desired, failing) THEN <<"COMPLETED">>
                ELSE IF s \in Obsolete(c, desired) THEN <<"FAILED">> ELSE <<>>
           b == IF s \in Subscribed(c, desired, failing) THEN <<"SUBSCRIBED">>
                ELSE IF s \in Missing(c, desired, failing) THEN <<"FAILED">> ELSE <<>>
<1>1. Reconciliation(c, t, failing, s) = a \o b
  BY DEF Reconciliation
<1>2. a \in Seq(PortEvents) /\ b \in Seq(PortEvents)
  <2>1. <<"COMPLETED">> \in Seq(PortEvents)
    BY DEF PortEvents
  <2>2. <<"SUBSCRIBED">> \in Seq(PortEvents)
    BY DEF PortEvents
  <2>3. <<"FAILED">> \in Seq(PortEvents) /\ <<>> \in Seq(PortEvents)
    BY DEF PortEvents
  <2>4. QED BY <2>1, <2>2, <2>3
<1>3. /\ s \in Obsolete(c, desired) /\ s \notin Unsubscribed(c, desired, failing)
            => \E i \in DOMAIN a : a[i] = "FAILED"
      /\ s \in Missing(c, desired, failing) /\ s \notin Subscribed(c, desired, failing)
            => \E i \in DOMAIN b : b[i] = "FAILED"
  <2>1. 1 \in DOMAIN <<"FAILED">> /\ <<"FAILED">>[1] = "FAILED"
    OBVIOUS
  <2> HIDE DEF desired
  <2>2. QED BY <2>1
<1> HIDE DEF a, b
<1>4. ~\E i \in DOMAIN (a \o b) : (a \o b)[i] = "FAILED"
  BY <1>1 DEF desired
<1> HIDE DEF desired
<1>5. ~(\E i \in DOMAIN a : a[i] = "FAILED") /\ ~(\E i \in DOMAIN b : b[i] = "FAILED")
  <2>1. /\ \A i \in DOMAIN a : \E k \in DOMAIN (a \o b) : (a \o b)[k] = a[i]
        /\ \A i \in DOMAIN b : \E k \in DOMAIN (a \o b) : (a \o b)[k] = b[i]
    BY <1>2, Occurs
  <2>2. QED BY <1>4, <2>1
<1>6. /\ s \in Obsolete(c, desired) => s \in Unsubscribed(c, desired, failing)
      /\ s \in Missing(c, desired, failing) => s \in Subscribed(c, desired, failing)
  BY <1>3, <1>5
<1>7. QED BY <1>6 DEF desired

LEMMA ReconcileKeeps ==
    ASSUME NEW c, Reconcilable(c), ReconcileFrom(c)
    PROVE  DInv'
<1>1. PICK calls \in SUBSET Calls :
          /\ coordinator' = Reconciled(c, now, Failing(calls))
          /\ asked' = Desired(c, now)
          /\ refused' = {s \in Streams :
                            \E i \in DOMAIN Reconciliation(c, now, Failing(calls), s) :
                                Reconciliation(c, now, Failing(calls), s)[i] = "FAILED"}
  BY DEF ReconcileFrom
<1> DEFINE failing == Failing(calls)
           desired == Desired(c, now)
           stopped == Unsubscribed(c, desired, failing)
           started == Subscribed(c, desired, failing)
           subs == [s \in (DOMAIN c.subs \ stopped) \cup started |->
                       IF s \in Obsolete(c, desired) \ started THEN c.subs[s] ELSE desired[s]]
           after == [demands |-> c.demands, subs |-> subs, observed |-> c.observed \ stopped]
<1>2. coordinator' = after
  BY <1>1 DEF Reconciled, Reconcilable, CoordinatorShape
<1>3. /\ coordinator'.demands = c.demands /\ coordinator'.subs = subs
      /\ coordinator'.observed = c.observed \ stopped
  BY <1>2
<1>4. CoordinatorShape(coordinator')
  BY <1>2 DEF CoordinatorShape
<1>5. StreamsAgree'
  BY <1>3 DEF StreamsAgree, Reconcilable
<1>6. DOMAIN subs = (DOMAIN c.subs \ stopped) \cup started
  OBVIOUS
<1>7. ObservedAreSubscribed'
  <2> HIDE DEF subs, stopped, started
  <2>1. QED BY <1>3, <1>6 DEF ObservedAreSubscribed, Reconcilable
<1>8. ASSUME NEW s \in Streams \ refused'
      PROVE  /\ s \in DOMAIN subs <=> s \in DOMAIN desired
             /\ s \in DOMAIN desired => subs[s] = desired[s]
  <2>1. /\ s \in Obsolete(c, desired) => s \in stopped
        /\ s \in Missing(c, desired, failing) => s \in started
    BY <1>1, <1>8, NotRefused
  <2>2. s \in started => s \in DOMAIN desired
    BY DEF Subscribed, Missing
  <2>3. s \in DOMAIN c.subs /\ s \notin DOMAIN desired => s \in stopped
    BY <2>1 DEF Obsolete
  <2>4. s \in DOMAIN desired /\ s \notin DOMAIN c.subs \ stopped => s \in started
    BY <2>1 DEF Missing
  <2>5. s \in DOMAIN subs /\ s \notin Obsolete(c, desired) \ started => subs[s] = desired[s]
    OBVIOUS
  <2> HIDE DEF subs, desired, stopped, started
  <2>6. QED BY <1>6, <2>1, <2>2, <2>3, <2>4, <2>5
<1>9. SubscriptionsFollowDemand'
  <2> HIDE DEF subs, desired
  <2>1. asked' = desired
    BY <1>1 DEF desired
  <2>2. coordinator'.subs = subs
    BY <1>3
  <2>3. \A s \in Streams \ refused' :
            /\ s \in DOMAIN coordinator'.subs <=> s \in DOMAIN asked'
            /\ s \in DOMAIN asked' => coordinator'.subs[s] = asked'[s]
    BY <1>8, <2>1, <2>2
  <2>4. QED BY <2>3 DEF SubscriptionsFollowDemand
<1>10. QED BY <1>4, <1>5, <1>7, <1>9 DEF DInv, DemandInv

LEMMA RemovedReconcilable ==
    ASSUME NEW c, Reconcilable(c), NEW ids
    PROVE  Reconcilable(Removed(c, ids))
<1> DEFINE kept == Restrict(c.demands, DOMAIN c.demands \ ids)
<1>1. Removed(c, ids) = [demands |-> kept, subs |-> c.subs, observed |-> c.observed]
  BY DEF Removed, Reconcilable, CoordinatorShape
<1>2. Range(kept) \subseteq Range(c.demands)
  BY DEF Restrict, Range
<1> HIDE DEF kept
<1>3. QED BY <1>1, <1>2 DEF Reconcilable, CoordinatorShape

LEMMA RequestedReconcilable ==
    ASSUME NEW c, Reconcilable(c), NEW demand, NEW t, ~Raises(c, demand, t)
    PROVE  Reconcilable(Requested(c, demand))
<1>1. CASE Duplicate(c, demand)
  BY <1>1 DEF Requested
<1>2. CASE ~Duplicate(c, demand)
  <2> DEFINE more == [i \in DOMAIN c.demands \cup {demand.id} |->
                         IF i = demand.id THEN demand ELSE c.demands[i]]
  <2>1. Requested(c, demand) = [demands |-> more, subs |-> c.subs, observed |-> c.observed]
    BY <1>2 DEF Requested, Added, Reconcilable, CoordinatorShape
  <2>2. \A d \in Range(more) : d = demand \/ d \in Range(c.demands)
    BY DEF Range
  <2>3. \A d \in Range(c.demands) : d.stream = demand.stream => d.params = demand.params
    BY <1>2 DEF Raises, Addable, StreamConflict
  <2> HIDE DEF more
  <2>4. \A d, e \in Range(more) : d.stream = e.stream => d.params = e.params
    BY <2>2, <2>3 DEF Reconcilable
  <2>5. QED BY <2>1, <2>4 DEF Reconcilable, CoordinatorShape
<1>3. QED BY <1>1, <1>2

LEMMA DemandStep == DInv /\ [DemandNext]_demandVars => DInv'
<1> SUFFICES ASSUME DInv, [DemandNext]_demandVars PROVE DInv'
  OBVIOUS
<1>1. Reconcilable(coordinator)
  BY DEF DInv, DemandInv, StreamsAgree, ObservedAreSubscribed, Reconcilable
<1>2. ASSUME NEW d \in Offered, Request(d) PROVE DInv'
  BY <1>1, <1>2, RequestedReconcilable, ReconcileKeeps DEF Request
<1>3. ASSUME NEW id, Cancel(id) PROVE DInv'
  BY <1>1, <1>3, RemovedReconcilable, ReconcileKeeps DEF Cancel
<1>4. ASSUME NEW s \in Streams, Observe(s) PROVE DInv'
  <2>1. /\ coordinator' = [demands |-> coordinator.demands, subs |-> coordinator.subs,
                           observed |-> coordinator.observed \cup {s}]
        /\ s \in DOMAIN coordinator.subs /\ UNCHANGED <<asked, refused>>
    BY <1>1, <1>4 DEF Observe, Observed, Announces, Reconcilable, CoordinatorShape
  <2>2. /\ coordinator'.demands = coordinator.demands /\ coordinator'.subs = coordinator.subs
        /\ coordinator'.observed = coordinator.observed \cup {s}
        /\ CoordinatorShape(coordinator')
    BY <2>1 DEF CoordinatorShape
  <2>3. QED BY <2>1, <2>2 DEF DInv, DemandInv, StreamsAgree, SubscriptionsFollowDemand,
                               ObservedAreSubscribed
<1>5. CASE Expire
  BY <1>1, <1>5, RemovedReconcilable, ReconcileKeeps DEF Expire
<1>6. CASE Reconcile
  BY <1>1, <1>6, ReconcileKeeps DEF Reconcile
<1>7. CASE DemandTick \/ UNCHANGED demandVars
  BY <1>7 DEF DemandTick, demandVars, DInv, DemandInv, StreamsAgree,
              SubscriptionsFollowDemand, ObservedAreSubscribed
<1>8. QED BY <1>2, <1>3, <1>4, <1>5, <1>6, <1>7 DEF DemandNext

(* In every mixture of demands, expiry, cancellation and failing port       *)
(* calls, what is subscribed is what the last reconciliation asked for,     *)
(* except where the provider refused, and stored demands never disagree on  *)
(* a stream, so that provider_demands can not raise in mid-operation.       *)
THEOREM DemandsFollowed == DemandSpec => []DemandInv
<1>1. DemandInit => DInv
  <2> SUFFICES ASSUME DemandInit PROVE DInv
    OBVIOUS
  <2>1. DOMAIN coordinator.subs = {} /\ DOMAIN asked = {} /\ Range(coordinator.demands) = {}
    BY DEF DemandInit, Idle, Range
  <2>2. coordinator.observed = {} /\ CoordinatorShape(coordinator)
    BY DEF DemandInit, Idle, CoordinatorShape
  <2>3. QED BY <2>1, <2>2 DEF DInv, DemandInv, StreamsAgree, SubscriptionsFollowDemand,
                               ObservedAreSubscribed
<1>2. DInv => DemandInv
  BY DEF DInv
<1>3. QED BY <1>1, <1>2, DemandStep, PTL DEF DemandSpec

------------------------------------------------------------------------------
(* The validation of a batch, for any series, span, bounds and batch.       *)

Shaped(o) ==
    o = [series |-> o.series, start |-> o.start, missing |-> o.missing,
         revision |-> o.revision, prices |-> o.prices, lineage |-> o.lineage,
         references |-> o.references]

Alike(o, p) == o.series = p.series /\ o.start = p.start /\ Equivalent(o, p)

Foreign(o) == o.series # Series \/ o.lineage \cap ForeignEntries # {}
Outside(o) == o.start < RequestedStart \/ o.start + Interval > RequestedEnd
InOrder == \A i, j \in DOMAIN batch : i < j => batch[i].start <= batch[j].start

(* The inductive invariant.  What is retained of a key is an observation    *)
(* that was taken, but for where it is from, and every one taken has its    *)
(* key retained.                                                            *)
RetainedKept ==
    /\ batch \in Seq(Received) /\ duplicates \in Nat /\ conflicting \in Nat
    /\ IsFiniteSet(DOMAIN retained)
    /\ Len(batch) = Cardinality(DOMAIN retained) + duplicates + conflicting
    /\ \A k \in DOMAIN retained :
          /\ Shaped(retained[k]) /\ Key(retained[k]) = k
          /\ \E o \in Taken : Alike(o, retained[k])
    /\ \A o \in Taken : Key(o) \in DOMAIN retained

(* A reason of the loop stands for a fact about the batch as a whole.       *)
ReasonsKept ==
    /\ reasons \subseteq {"IDENTITY_MISMATCH", "REVISION_REJECTED", "OUTSIDE_REQUEST_BOUNDS",
                          "ORDERING_INVALID", "UNEQUAL_INTERVAL_CONFLICT"}
    /\ "IDENTITY_MISMATCH" \in reasons <=> \E o \in Taken : Foreign(o)
    /\ "REVISION_REJECTED" \in reasons <=> \E o \in Taken : o.revision # 1
    /\ "OUTSIDE_REQUEST_BOUNDS" \in reasons <=> \E o \in Taken : Outside(o)
    /\ "ORDERING_INVALID" \in reasons <=> ~InOrder

(* Without a conflict what is retained is equivalent to all that was taken. *)
ConflictsKept ==
    /\ "UNEQUAL_INTERVAL_CONFLICT" \in reasons <=> conflicting > 0
    /\ conflicting = 0 <=> \A o \in Taken : Equivalent(retained[Key(o)], o)

(* What is retained carries nothing that was not taken, and without a       *)
(* conflict all of it; the loop stops only for an observation that carries  *)
(* too much.                                                                *)
TooMuch(o) ==
    Cardinality(o.lineage) > MaximumLineage \/ Cardinality(o.references) > MaximumReferences
CarriedKept ==
    /\ Lineage \subseteq TakenLineage /\ Own(Ordered) \subseteq Own(Taken)
    /\ conflicting = 0 => TakenLineage \subseteq Lineage /\ Own(Taken) \subseteq Own(Ordered)
    /\ raised \in BOOLEAN
    /\ raised => \E o \in Ordered : TooMuch(o)

VInv == RetainedKept /\ ReasonsKept /\ ConflictsKept /\ CarriedKept

LEMMA ReceivedShaped ==
    ASSUME NEW o \in Received
    PROVE  Shaped(o) /\ o.start \in Nat /\ o.revision \in Nat
BY RequestAssumption DEF ObservationValid, Shaped

LEMMA RequestConstants ==
    /\ Interval \in Nat \ {0} /\ RequestedStart \in Nat \ {0} /\ RequestedEnd \in Nat
    /\ RequestedEnd > RequestedStart /\ (RequestedEnd - RequestedStart) % Interval = 0
    /\ MaximumLineage \in Nat
BY RequestAssumption

(* What a step adds to the batch.                                           *)
LEMMA TakenGrows ==
    ASSUME batch \in Seq(Received), NEW o \in Received, batch' = Append(batch, o)
    PROVE  /\ batch' \in Seq(Received) /\ Len(batch') = Len(batch) + 1 /\ Len(batch) \in Nat
           /\ DOMAIN batch' = 1..Len(batch) + 1 /\ DOMAIN batch = 1..Len(batch)
           /\ \A i \in DOMAIN batch : batch'[i] = batch[i]
           /\ batch'[Len(batch) + 1] = o
           /\ Taken' = Taken \cup {o} /\ Taken \subseteq Received
<1>1. /\ batch' \in Seq(Received) /\ Len(batch') = Len(batch) + 1 /\ Len(batch) \in Nat
      /\ DOMAIN batch' = 1..Len(batch) + 1 /\ DOMAIN batch = 1..Len(batch)
      /\ \A i \in 1..Len(batch) : batch'[i] = batch[i]
      /\ batch'[Len(batch) + 1] = o
  BY AppendProperties
<1>2. Taken' = {batch'[i] : i \in DOMAIN batch'}
  BY DEF Taken
<1>3. Taken' \subseteq Taken \cup {o}
  <2> SUFFICES ASSUME NEW i \in DOMAIN batch' PROVE batch'[i] \in Taken \cup {o}
    BY <1>2
  <2>1. CASE i = Len(batch) + 1
    BY <1>1, <2>1
  <2>2. CASE i \in DOMAIN batch
    BY <1>1, <2>2 DEF Taken
  <2>3. QED BY <1>1, <2>1, <2>2
<1>4. Taken \cup {o} \subseteq Taken'
  <2>1. Len(batch) + 1 \in DOMAIN batch'
    BY <1>1
  <2>2. \A i \in DOMAIN batch : i \in DOMAIN batch' /\ batch'[i] = batch[i]
    BY <1>1
  <2>3. QED BY <1>1, <1>2, <2>1, <2>2 DEF Taken
<1>5. Taken \subseteq Received
  BY <1>1 DEF Taken
<1>6. QED BY <1>1, <1>3, <1>4, <1>5

LEMMA FaultsAre ==
    ASSUME NEW o
    PROVE  /\ Faults(o) \subseteq {"IDENTITY_MISMATCH", "REVISION_REJECTED",
                                   "OUTSIDE_REQUEST_BOUNDS", "ORDERING_INVALID"}
           /\ "IDENTITY_MISMATCH" \in Faults(o) <=> Foreign(o)
           /\ "REVISION_REJECTED" \in Faults(o) <=> o.revision # 1
           /\ "OUTSIDE_REQUEST_BOUNDS" \in Faults(o) <=> Outside(o)
           /\ "ORDERING_INVALID" \in Faults(o)
                  <=> batch # <<>> /\ o.start < batch[Len(batch)].start
<1>1. Faults(o) \subseteq {"IDENTITY_MISMATCH", "REVISION_REJECTED",
                           "OUTSIDE_REQUEST_BOUNDS", "ORDERING_INVALID"}
  BY DEF Faults
<1>2. "IDENTITY_MISMATCH" \in Faults(o) <=> Foreign(o)
  BY DEF Faults, Foreign
<1>3. "REVISION_REJECTED" \in Faults(o) <=> o.revision # 1
  BY DEF Faults
<1>4. "OUTSIDE_REQUEST_BOUNDS" \in Faults(o) <=> Outside(o)
  BY DEF Faults, Outside
<1>5. "ORDERING_INVALID" \in Faults(o) <=> batch # <<>> /\ o.start < batch[Len(batch)].start
  BY DEF Faults
<1>6. QED BY <1>1, <1>2, <1>3, <1>4, <1>5

(* A batch that was in order stays so with an observation that starts no    *)
(* earlier than the last.                                                   *)
LEMMA OrderGrows ==
    ASSUME batch \in Seq(Received), NEW o \in Received, batch' = Append(batch, o)
    PROVE  InOrder' <=> InOrder /\ ~(batch # <<>> /\ o.start < batch[Len(batch)].start)
<1> DEFINE n == Len(batch)
<1>1. /\ n \in Nat /\ DOMAIN batch' = 1..n + 1 /\ DOMAIN batch = 1..n
      /\ \A i \in 1..n : batch'[i] = batch[i]
      /\ batch'[n + 1] = o
  BY TakenGrows
<1>2. \A i \in 1..n : batch[i].start \in Nat
  BY <1>1, ReceivedShaped
<1>3. o.start \in Nat
  BY ReceivedShaped
<1>4. batch # <<>> => n \in 1..n
  BY EmptySeq, <1>1
<1>5. batch = <<>> => n = 0
  OBVIOUS
<1> HIDE DEF n
<1>6. ASSUME InOrder' PROVE InOrder /\ ~(batch # <<>> /\ o.start < batch[n].start)
  <2>1. \A i, j \in 1..n + 1 : i < j => batch'[i].start <= batch'[j].start
    BY <1>1, <1>6 DEF InOrder
  <2>2. InOrder
    <3> SUFFICES ASSUME NEW i \in 1..n, NEW j \in 1..n, i < j
                 PROVE  batch[i].start <= batch[j].start
      BY <1>1 DEF InOrder
    <3>1. i \in 1..n + 1 /\ j \in 1..n + 1
      BY <1>1
    <3>2. QED BY <1>1, <2>1, <3>1
  <2>3. ASSUME batch # <<>> PROVE batch[n].start <= o.start
    <3>1. n \in 1..n + 1 /\ n + 1 \in 1..n + 1 /\ n < n + 1 /\ n \in 1..n
      BY <1>1, <1>4, <2>3
    <3>2. QED BY <1>1, <2>1, <3>1
  <2>4. batch # <<>> => ~(o.start < batch[n].start)
    <3> SUFFICES ASSUME batch # <<>> PROVE ~(o.start < batch[n].start)
      OBVIOUS
    <3>1. batch[n].start \in Nat
      BY <1>2, <1>4
    <3>2. QED BY <1>3, <2>3, <3>1
  <2>5. QED BY <2>2, <2>4
<1>7. ASSUME InOrder, ~(batch # <<>> /\ o.start < batch[n].start) PROVE InOrder'
  <2> SUFFICES ASSUME NEW i \in 1..n + 1, NEW j \in 1..n + 1, i < j
               PROVE  batch'[i].start <= batch'[j].start
    BY <1>1 DEF InOrder
  <2>1. CASE j \in 1..n
    <3>1. i \in 1..n
      BY <2>1, <1>1
    <3>2. QED BY <1>1, <1>7, <2>1, <3>1 DEF InOrder
  <2>2. CASE j = n + 1
    <3>1. i \in 1..n /\ batch # <<>>
      BY <2>2, <1>1, <1>5
    <3>2. batch[n].start <= o.start /\ n \in 1..n /\ batch[n].start \in Nat
      BY <1>2, <1>3, <1>4, <1>7, <3>1
    <3>3. batch[i].start <= batch[n].start
      <4>1. CASE i = n
        BY <4>1, <3>2
      <4>2. CASE i < n
        BY <4>2, <1>1, <1>7, <3>1, <3>2 DEF InOrder
      <4>3. QED BY <4>1, <4>2, <3>1, <1>1
    <3>4. batch[i].start \in Nat
      BY <1>2, <3>1
    <3>5. batch[i].start <= o.start
      BY <1>3, <3>2, <3>3, <3>4
    <3>6. QED BY <1>1, <2>2, <3>1, <3>5
  <2>3. QED BY <1>1, <2>1, <2>2
<1>8. QED BY <1>6, <1>7 DEF n

LEMMA ReasonsStep ==
    ASSUME VInv, NEW o \in Received, batch' = Append(batch, o),
           reasons \cup Faults(o) \subseteq reasons',
           reasons' \subseteq reasons \cup Faults(o) \cup {"UNEQUAL_INTERVAL_CONFLICT"}
    PROVE  ReasonsKept'
<1>1. batch \in Seq(Received)
  BY DEF VInv, RetainedKept
<1>2. Taken' = Taken \cup {o}
  BY <1>1, TakenGrows
<1>3. /\ Faults(o) \subseteq {"IDENTITY_MISMATCH", "REVISION_REJECTED",
                              "OUTSIDE_REQUEST_BOUNDS", "ORDERING_INVALID"}
      /\ "IDENTITY_MISMATCH" \in Faults(o) <=> Foreign(o)
      /\ "REVISION_REJECTED" \in Faults(o) <=> o.revision # 1
      /\ "OUTSIDE_REQUEST_BOUNDS" \in Faults(o) <=> Outside(o)
      /\ "ORDERING_INVALID" \in Faults(o) <=> batch # <<>> /\ o.start < batch[Len(batch)].start
  BY FaultsAre
<1>4. /\ reasons \subseteq {"IDENTITY_MISMATCH", "REVISION_REJECTED", "OUTSIDE_REQUEST_BOUNDS",
                            "ORDERING_INVALID", "UNEQUAL_INTERVAL_CONFLICT"}
      /\ "IDENTITY_MISMATCH" \in reasons <=> \E p \in Taken : Foreign(p)
      /\ "REVISION_REJECTED" \in reasons <=> \E p \in Taken : p.revision # 1
      /\ "OUTSIDE_REQUEST_BOUNDS" \in reasons <=> \E p \in Taken : Outside(p)
      /\ "ORDERING_INVALID" \in reasons <=> ~InOrder
  BY DEF VInv, ReasonsKept
<1>5. "IDENTITY_MISMATCH" \in reasons' <=> \E p \in Taken' : Foreign(p)
  BY <1>2, <1>3, <1>4
<1>6. "REVISION_REJECTED" \in reasons' <=> \E p \in Taken' : p.revision # 1
  BY <1>2, <1>3, <1>4
<1>7. "OUTSIDE_REQUEST_BOUNDS" \in reasons' <=> \E p \in Taken' : Outside(p)
  BY <1>2, <1>3, <1>4
<1>8. "ORDERING_INVALID" \in reasons' <=> ~InOrder'
  <2>1. InOrder' <=> InOrder /\ ~(batch # <<>> /\ o.start < batch[Len(batch)].start)
    BY <1>1, OrderGrows
  <2>2. "ORDERING_INVALID" \in reasons'
            <=> "ORDERING_INVALID" \in reasons \/ "ORDERING_INVALID" \in Faults(o)
    OBVIOUS
  <2>3. QED BY <1>3, <1>4, <2>1, <2>2
<1>9. reasons' \subseteq {"IDENTITY_MISMATCH", "REVISION_REJECTED", "OUTSIDE_REQUEST_BOUNDS",
                          "ORDERING_INVALID", "UNEQUAL_INTERVAL_CONFLICT"}
  BY <1>3, <1>4
<1>10. QED BY <1>5, <1>6, <1>7, <1>8, <1>9 DEF ReasonsKept, Foreign, Outside

LEMMA Rebuilt ==
    ASSUME NEW o, Shaped(o), NEW entries, NEW others
    PROVE  [o EXCEPT !.lineage = entries, !.references = others]
               = [series |-> o.series, start |-> o.start, missing |-> o.missing,
                  revision |-> o.revision, prices |-> o.prices,
                  lineage |-> entries, references |-> others]
<1>1. ASSUME NEW s, NEW t, NEW m, NEW r, NEW p, NEW l, NEW f,
             o = [series |-> s, start |-> t, missing |-> m,
                  revision |-> r, prices |-> p, lineage |-> l, references |-> f],
             NEW u, u = [o EXCEPT !.lineage = entries, !.references = others]
      PROVE  u = [series |-> s, start |-> t, missing |-> m,
                  revision |-> r, prices |-> p, lineage |-> entries, references |-> others]
  <2>1. /\ u.series = s /\ u.start = t /\ u.missing = m /\ u.revision = r
        /\ u.prices = p /\ u.lineage = entries /\ u.references = others
    BY <1>1
  <2>2. u = [series |-> u.series, start |-> u.start, missing |-> u.missing,
             revision |-> u.revision, prices |-> u.prices,
             lineage |-> u.lineage, references |-> u.references]
    BY <1>1
  <2>3. QED BY <2>1, <2>2
<1>2. QED BY <1>1 DEF Shaped

LEMMA Merged ==
    ASSUME NEW o, Shaped(o), NEW more, NEW others
    PROVE  [o EXCEPT !.lineage = @ \cup more, !.references = @ \cup others]
               = [series |-> o.series, start |-> o.start, missing |-> o.missing,
                  revision |-> o.revision, prices |-> o.prices,
                  lineage |-> o.lineage \cup more, references |-> o.references \cup others]
BY Rebuilt

(* What an observation that is taken adds to the lineage and the references *)
(* of the batch.                                                            *)
LEMMA TakenCarries ==
    ASSUME NEW o, Taken' = Taken \cup {o}
    PROVE  TakenLineage' = TakenLineage \cup o.lineage /\ Own(Taken)' = Own(Taken) \cup o.references
BY DEF TakenLineage, Own

(* If the step adds as much to what is retained, nothing more is lost.      *)
LEMMA CarriedStep ==
    ASSUME CarriedKept, NEW o, Taken' = Taken \cup {o}, conflicting' = conflicting,
           Lineage' = Lineage \cup o.lineage, Own(Ordered)' = Own(Ordered) \cup o.references,
           raised' \in BOOLEAN, raised' => \E p \in Ordered' : TooMuch(p)
    PROVE  CarriedKept'
<1>1. TakenLineage' = TakenLineage \cup o.lineage /\ Own(Taken)' = Own(Taken) \cup o.references
  BY TakenCarries
<1>2. QED BY <1>1 DEF CarriedKept, TooMuch

LEMMA TakeNewKeeps ==
    ASSUME VInv, NEW o \in Received, batch' = Append(batch, o), TakeNew(o)
    PROVE  VInv'
<1>1. /\ batch' \in Seq(Received) /\ Len(batch') = Len(batch) + 1 /\ Len(batch) \in Nat
      /\ Taken' = Taken \cup {o}
  BY TakenGrows DEF VInv, RetainedKept
<1>2. /\ Key(o) \notin DOMAIN retained
      /\ DOMAIN retained' = DOMAIN retained \cup {Key(o)}
      /\ retained'[Key(o)] = o
      /\ \A k \in DOMAIN retained : retained'[k] = retained[k]
      /\ duplicates' = duplicates /\ conflicting' = conflicting
      /\ reasons' = reasons \cup Faults(o) /\ raised' = raised
  BY DEF TakeNew
<1>3. ReasonsKept'
  BY <1>2, ReasonsStep
<1>4. /\ IsFiniteSet(DOMAIN retained')
      /\ Cardinality(DOMAIN retained') = Cardinality(DOMAIN retained) + 1
      /\ Cardinality(DOMAIN retained) \in Nat
  BY <1>2, FS_AddElement, FS_CardinalityType DEF VInv, RetainedKept
<1>5. RetainedKept'
  <2>1. Len(batch') = Cardinality(DOMAIN retained') + duplicates' + conflicting'
    BY <1>1, <1>2, <1>4 DEF VInv, RetainedKept
  <2>2. ASSUME NEW k \in DOMAIN retained'
        PROVE  /\ Shaped(retained'[k]) /\ Key(retained'[k]) = k
               /\ \E p \in Taken' : Alike(p, retained'[k])
    <3>1. CASE k = Key(o)
      BY <1>1, <1>2, <3>1, ReceivedShaped DEF Alike, Equivalent
    <3>2. CASE k \in DOMAIN retained
      BY <1>1, <1>2, <3>2 DEF VInv, RetainedKept
    <3>3. QED BY <1>2, <3>1, <3>2
  <2>3. \A p \in Taken' : Key(p) \in DOMAIN retained'
    BY <1>1, <1>2 DEF VInv, RetainedKept
  <2>4. duplicates' \in Nat /\ conflicting' \in Nat
    BY <1>2 DEF VInv, RetainedKept
  <2>5. QED BY <1>1, <1>4, <2>1, <2>2, <2>3, <2>4 DEF VInv, RetainedKept, Key, Shaped, Alike, Equivalent
<1>6. ConflictsKept'
  <2>1. "UNEQUAL_INTERVAL_CONFLICT" \in reasons' <=> conflicting' > 0
    <3>1. "UNEQUAL_INTERVAL_CONFLICT" \notin Faults(o)
      BY FaultsAre
    <3>2. QED BY <1>2, <3>1 DEF VInv, ConflictsKept
  <2>2. \A p \in Taken : retained'[Key(p)] = retained[Key(p)]
    BY <1>2 DEF VInv, RetainedKept
  <2>3. Equivalent(retained'[Key(o)], o)
    BY <1>2 DEF Equivalent
  <2>4. conflicting' = 0 <=> \A p \in Taken' : Equivalent(retained'[Key(p)], p)
    BY <1>1, <1>2, <2>2, <2>3 DEF VInv, ConflictsKept
  <2>5. QED BY <2>1, <2>4 DEF VInv, ConflictsKept, Key, Equivalent
<1>7. CarriedKept'
  <2>1. Lineage' = Lineage \cup o.lineage
    BY <1>2 DEF Lineage, Ordered
  <2>2. Own(Ordered)' = Own(Ordered) \cup o.references
    BY <1>2 DEF Own, Ordered
  <2>3. Ordered \subseteq Ordered'
    BY <1>2 DEF Ordered
  <2>4. raised' \in BOOLEAN /\ (raised' => \E p \in Ordered' : TooMuch(p))
    BY <1>2, <2>3 DEF VInv, CarriedKept
  <2>5. QED BY <1>1, <1>2, <2>1, <2>2, <2>4, CarriedStep DEF VInv
<1>8. QED BY <1>3, <1>5, <1>6, <1>7 DEF VInv

LEMMA TakeDuplicateKeeps ==
    ASSUME VInv, NEW o \in Received, batch' = Append(batch, o), TakeDuplicate(o)
    PROVE  VInv'
<1> DEFINE old == retained[Key(o)]
           merged == [old EXCEPT !.lineage = @ \cup o.lineage,
                                 !.references = @ \cup o.references]
<1>1. /\ batch' \in Seq(Received) /\ Len(batch') = Len(batch) + 1 /\ Len(batch) \in Nat
      /\ Taken' = Taken \cup {o}
  BY TakenGrows DEF VInv, RetainedKept
<1>2. /\ Key(o) \in DOMAIN retained /\ Equivalent(old, o)
      /\ DOMAIN retained' = DOMAIN retained
      /\ retained'[Key(o)] = merged
      /\ \A k \in DOMAIN retained : k # Key(o) => retained'[k] = retained[k]
      /\ duplicates' = duplicates + 1 /\ conflicting' = conflicting
      /\ reasons' = reasons \cup Faults(o)
      /\ raised' \in BOOLEAN /\ (raised' => TooMuch(retained'[Key(o)]))
  BY DEF TakeDuplicate, TooMuch
<1>3. ReasonsKept'
  BY <1>2, ReasonsStep
<1>4. /\ Shaped(merged) /\ merged.lineage = old.lineage \cup o.lineage
      /\ merged.references = old.references \cup o.references
      /\ merged.series = old.series /\ merged.start = old.start
      /\ merged.missing = old.missing /\ merged.revision = old.revision
      /\ merged.prices = old.prices
  <2>1. Shaped(old)
    BY <1>2 DEF VInv, RetainedKept
  <2>2. merged = [series |-> old.series, start |-> old.start, missing |-> old.missing,
                  revision |-> old.revision, prices |-> old.prices,
                  lineage |-> old.lineage \cup o.lineage,
                  references |-> old.references \cup o.references]
    <3> HIDE DEF old
    <3>1. QED BY <2>1, Merged
  <2> HIDE DEF old, merged
  <2>3. QED BY <2>2 DEF Shaped
<1> HIDE DEF old, merged
<1>5. /\ Key(old) = Key(o) /\ Key(merged) = Key(o)
      /\ \A p : Alike(p, merged) <=> Alike(p, old)
      /\ \A p : Equivalent(merged, p) <=> Equivalent(old, p)
  BY <1>2, <1>4 DEF VInv, RetainedKept, Key, Alike, Equivalent, old
<1>6. RetainedKept'
  <2>1. Len(batch') = Cardinality(DOMAIN retained') + duplicates' + conflicting'
    <3>1. Cardinality(DOMAIN retained) \in Nat
      BY FS_CardinalityType DEF VInv, RetainedKept
    <3>2. QED BY <1>1, <1>2, <3>1 DEF VInv, RetainedKept
  <2>2. ASSUME NEW k \in DOMAIN retained'
        PROVE  /\ Shaped(retained'[k]) /\ Key(retained'[k]) = k
               /\ \E p \in Taken' : Alike(p, retained'[k])
    <3>1. CASE k = Key(o)
      <4>1. PICK p \in Taken : Alike(p, old)
        BY <1>2 DEF VInv, RetainedKept, old
      <4>2. QED BY <1>1, <1>2, <1>4, <1>5, <3>1, <4>1
    <3>2. CASE k # Key(o)
      BY <1>1, <1>2, <3>2 DEF VInv, RetainedKept
    <3>3. QED BY <3>1, <3>2
  <2>3. \A p \in Taken' : Key(p) \in DOMAIN retained'
    BY <1>1, <1>2 DEF VInv, RetainedKept
  <2>4. IsFiniteSet(DOMAIN retained') /\ duplicates' \in Nat /\ conflicting' \in Nat
    BY <1>2 DEF VInv, RetainedKept
  <2>5. QED BY <1>1, <2>1, <2>2, <2>3, <2>4 DEF VInv, RetainedKept, Key, Shaped, Alike, Equivalent
<1>7. ConflictsKept'
  <2>1. "UNEQUAL_INTERVAL_CONFLICT" \in reasons' <=> conflicting' > 0
    <3>1. "UNEQUAL_INTERVAL_CONFLICT" \notin Faults(o)
      BY FaultsAre
    <3>2. QED BY <1>2, <3>1 DEF VInv, ConflictsKept
  <2>2. ASSUME NEW p \in Taken
        PROVE  Equivalent(retained'[Key(p)], p) <=> Equivalent(retained[Key(p)], p)
    <3>1. CASE Key(p) = Key(o)
      BY <1>2, <1>5, <3>1 DEF old
    <3>2. CASE Key(p) # Key(o)
      BY <1>2, <3>2 DEF VInv, RetainedKept
    <3>3. QED BY <3>1, <3>2
  <2>3. Equivalent(retained'[Key(o)], o)
    BY <1>2, <1>5
  <2>4. conflicting' = 0 <=> \A p \in Taken' : Equivalent(retained'[Key(p)], p)
    BY <1>1, <1>2, <2>2, <2>3 DEF VInv, ConflictsKept
  <2>5. QED BY <2>1, <2>4 DEF VInv, ConflictsKept, Key, Equivalent
<1>8. CarriedKept'
  <2>1. \A k \in DOMAIN retained :
           /\ retained'[k].lineage = retained[k].lineage \cup (IF k = Key(o) THEN o.lineage ELSE {})
           /\ retained'[k].references
                  = retained[k].references \cup (IF k = Key(o) THEN o.references ELSE {})
    BY <1>2, <1>4 DEF old
  <2>2. Lineage' = Lineage \cup o.lineage
    <3>1. \A e : e \in Lineage <=> \E k \in DOMAIN retained : e \in retained[k].lineage
      BY DEF Lineage, Ordered
    <3>2. \A e : e \in Lineage' <=> \E k \in DOMAIN retained' : e \in retained'[k].lineage
      BY DEF Lineage, Ordered
    <3>3. \A e : e \in Lineage' <=> e \in Lineage \/ e \in o.lineage
      BY <1>2, <2>1, <3>1, <3>2
    <3>4. QED BY <3>3
  <2>3. Own(Ordered)' = Own(Ordered) \cup o.references
    <3>1. \A e : e \in Own(Ordered) <=> \E k \in DOMAIN retained : e \in retained[k].references
      BY DEF Own, Ordered
    <3>2. \A e : e \in Own(Ordered)' <=> \E k \in DOMAIN retained' : e \in retained'[k].references
      BY DEF Own, Ordered
    <3>3. \A e : e \in Own(Ordered)' <=> e \in Own(Ordered) \/ e \in o.references
      BY <1>2, <2>1, <3>1, <3>2
    <3>4. QED BY <3>3
  <2>4. retained'[Key(o)] \in Ordered'
    BY <1>2 DEF Ordered
  <2>5. raised' => \E p \in Ordered' : TooMuch(p)
    BY <1>2, <2>4
  <2>6. QED BY <1>1, <1>2, <2>2, <2>3, <2>5, CarriedStep DEF VInv
<1>9. QED BY <1>3, <1>6, <1>7, <1>8 DEF VInv

LEMMA TakeConflictKeeps ==
    ASSUME VInv, NEW o \in Received, batch' = Append(batch, o), TakeConflict(o)
    PROVE  VInv'
<1>1. /\ batch' \in Seq(Received) /\ Len(batch') = Len(batch) + 1 /\ Len(batch) \in Nat
      /\ Taken' = Taken \cup {o}
  BY TakenGrows DEF VInv, RetainedKept
<1>2. /\ Key(o) \in DOMAIN retained /\ ~Equivalent(retained[Key(o)], o)
      /\ retained' = retained /\ duplicates' = duplicates /\ conflicting' = conflicting + 1
      /\ reasons' = reasons \cup Faults(o) \cup {"UNEQUAL_INTERVAL_CONFLICT"}
      /\ raised' = raised
  BY DEF TakeConflict
<1>3. ReasonsKept'
  BY <1>2, ReasonsStep
<1>4. RetainedKept'
  <2>1. Len(batch') = Cardinality(DOMAIN retained') + duplicates' + conflicting'
    <3>1. Cardinality(DOMAIN retained) \in Nat
      BY FS_CardinalityType DEF VInv, RetainedKept
    <3>2. QED BY <1>1, <1>2, <3>1 DEF VInv, RetainedKept
  <2>2. QED BY <1>1, <1>2, <2>1 DEF VInv, RetainedKept, Key, Shaped, Alike, Equivalent
<1>5. ConflictsKept'
  <2>1. "UNEQUAL_INTERVAL_CONFLICT" \in reasons' /\ conflicting' > 0
    BY <1>2 DEF VInv, RetainedKept
  <2>2. ~\A p \in Taken' : Equivalent(retained'[Key(p)], p)
    BY <1>1, <1>2
  <2>3. QED BY <2>1, <2>2 DEF VInv, ConflictsKept, Key, Equivalent
<1>6. CarriedKept'
  <2>1. TakenLineage' = TakenLineage \cup o.lineage /\ Own(Taken)' = Own(Taken) \cup o.references
    BY <1>1, TakenCarries
  <2>2. Ordered' = Ordered /\ Lineage' = Lineage
    BY <1>2 DEF Ordered, Lineage
  <2>3. conflicting' # 0
    BY <1>2 DEF VInv, RetainedKept
  <2>4. Own(Ordered)' = Own(Ordered)
    BY <2>2 DEF Own
  <2>5. QED BY <1>2, <2>1, <2>2, <2>3, <2>4 DEF VInv, CarriedKept, TooMuch
<1>7. QED BY <1>3, <1>4, <1>5, <1>6 DEF VInv

LEMMA ValidationInvariant == ValidationSpec => []VInv
<1>1. ValidationInit => VInv
  <2> SUFFICES ASSUME ValidationInit PROVE VInv
    OBVIOUS
  <2>1. DOMAIN retained = {} /\ Ordered = {} /\ Taken = {}
    BY DEF ValidationInit, Ordered, Taken
  <2>2. batch = <<>> /\ duplicates = 0 /\ conflicting = 0 /\ reasons = {}
    BY DEF ValidationInit
  <2>3. RetainedKept
    BY <2>1, <2>2, FS_EmptySet DEF RetainedKept
  <2>4. InOrder
    BY <2>2 DEF InOrder
  <2>5. ReasonsKept
    BY <2>1, <2>2, <2>4 DEF ReasonsKept
  <2>6. ConflictsKept
    BY <2>1, <2>2 DEF ConflictsKept
  <2>7. CarriedKept
    <3>1. raised = FALSE
      BY DEF ValidationInit
    <3>2. QED BY <2>1, <3>1 DEF CarriedKept, Lineage, TakenLineage, Own
  <2>8. QED BY <2>3, <2>5, <2>6, <2>7 DEF VInv
<1>2. VInv /\ [ValidationNext]_validationVars => VInv'
  <2> SUFFICES ASSUME VInv, [ValidationNext]_validationVars PROVE VInv'
    OBVIOUS
  <2>1. ASSUME NEW o \in Received, batch' = Append(batch, o),
               TakeNew(o) \/ TakeDuplicate(o) \/ TakeConflict(o)
        PROVE  VInv'
    BY <2>1, TakeNewKeeps, TakeDuplicateKeeps, TakeConflictKeeps
  <2>2. CASE UNCHANGED validationVars
    <3>1. /\ retained' = retained /\ duplicates' = duplicates /\ conflicting' = conflicting
          /\ reasons' = reasons /\ batch' = batch /\ raised' = raised
      BY <2>2 DEF validationVars
    <3>2. /\ Taken' = Taken /\ InOrder' = InOrder /\ Ordered' = Ordered
          /\ Lineage' = Lineage /\ TakenLineage' = TakenLineage
      BY <3>1 DEF Taken, InOrder, Lineage, Ordered, TakenLineage
    <3>3. RetainedKept'
      BY <3>1, <3>2 DEF VInv, RetainedKept
    <3>4. ReasonsKept'
      BY <3>1, <3>2 DEF VInv, ReasonsKept
    <3>5. ConflictsKept'
      BY <3>1, <3>2 DEF VInv, ConflictsKept
    <3>6. CarriedKept'
      BY <3>1, <3>2 DEF VInv, CarriedKept, Own, TooMuch
    <3>7. QED BY <3>3, <3>4, <3>5, <3>6 DEF VInv
  <2>3. QED BY <2>1, <2>2 DEF ValidationNext
<1>3. QED BY <1>1, <1>2, PTL DEF ValidationSpec

------------------------------------------------------------------------------
(* What the invariant says of the result.                                   *)

(* What is retained of an observation when no other disagreed with it.      *)
LEMMA RetainedAlike ==
    ASSUME VInv, reasons = {}
    PROVE  /\ conflicting = 0
           /\ \A o \in Taken : Alike(o, retained[Key(o)])
           /\ \A k \in DOMAIN retained : \E o \in Taken : Key(o) = k /\ Alike(o, retained[k])
<1>1. conflicting = 0
  BY DEF VInv, ConflictsKept, RetainedKept
<1>2. ASSUME NEW o \in Taken PROVE Alike(o, retained[Key(o)])
  <2>1. Key(o) \in DOMAIN retained /\ Equivalent(retained[Key(o)], o)
    BY <1>1 DEF VInv, ConflictsKept, RetainedKept
  <2>2. Key(retained[Key(o)]) = Key(o)
    BY <2>1 DEF VInv, RetainedKept
  <2>3. QED BY <2>1, <2>2 DEF Alike, Key, Equivalent
<1>3. ASSUME NEW k \in DOMAIN retained
      PROVE  \E o \in Taken : Key(o) = k /\ Alike(o, retained[k])
  <2>1. PICK o \in Taken : Alike(o, retained[k])
    BY DEF VInv, RetainedKept
  <2>2. Key(retained[k]) = k
    BY DEF VInv, RetainedKept
  <2>3. Key(o) = k
    BY <2>1, <2>2 DEF Alike, Key
  <2>4. QED BY <2>1, <2>3
<1>4. QED BY <1>1, <1>2, <1>3

LEMMA TakenReceived == ASSUME VInv PROVE Taken \subseteq Received
BY DEF VInv, RetainedKept, Taken

(* Two observations are the same but for where they are from.               *)
LEMMA ButOrigin ==
    ASSUME NEW o, NEW p, Shaped(o), Shaped(p)
    PROVE  [o EXCEPT !.lineage = {}, !.references = {}]
               = [p EXCEPT !.lineage = {}, !.references = {}] <=> Alike(o, p)
<1>1. ASSUME NEW q, Shaped(q)
      PROVE  [q EXCEPT !.lineage = {}, !.references = {}]
                 = [series |-> q.series, start |-> q.start, missing |-> q.missing,
                    revision |-> q.revision, prices |-> q.prices,
                    lineage |-> {}, references |-> {}]
  BY <1>1, Rebuilt
<1> DEFINE bare(q) == [q EXCEPT !.lineage = {}, !.references = {}]
           rest(q) == [series |-> q.series, start |-> q.start, missing |-> q.missing,
                       revision |-> q.revision, prices |-> q.prices,
                       lineage |-> {}, references |-> {}]
<1>2. bare(o) = rest(o) /\ bare(p) = rest(p)
  BY <1>1
<1>3. rest(o) = rest(p) <=> Alike(o, p)
  BY DEF Alike, Equivalent
<1> HIDE DEF bare, rest
<1>4. bare(o) = bare(p) <=> Alike(o, p)
  BY <1>2, <1>3
<1>5. QED BY <1>4 DEF bare

LEMMA ReasonsAreSound == ASSUME VInv PROVE reasons = {} <=> Sound
<1>1. \A o \in Taken : Shaped(o) /\ o.start \in Nat
  BY TakenReceived, ReceivedShaped
<1> DEFINE Each == \A o \in Taken : /\ o.series = Series /\ o.lineage \cap ForeignEntries = {}
                                   /\ o.revision = 1
                                   /\ o.start \in RequestedStart..RequestedEnd - Interval
           Same == \A o, p \in Taken : o.start = p.start =>
                      [o EXCEPT !.lineage = {}, !.references = {}]
                          = [p EXCEPT !.lineage = {}, !.references = {}]
<1>2. Sound <=> Each /\ InOrder /\ Same
  BY DEF Sound, InOrder
<1>3. Each <=> /\ "IDENTITY_MISMATCH" \notin reasons /\ "REVISION_REJECTED" \notin reasons
               /\ "OUTSIDE_REQUEST_BOUNDS" \notin reasons
  <2>1. \A o \in Taken : Outside(o) <=> o.start \notin RequestedStart..RequestedEnd - Interval
    BY <1>1, RequestConstants DEF Outside
  <2>2. QED BY <2>1 DEF VInv, ReasonsKept, Foreign
<1>4. Same <=> \A o, p \in Taken : o.start = p.start => Alike(o, p)
  BY <1>1, ButOrigin
<1>5. ASSUME reasons = {} PROVE Sound
  <2>1. Each /\ InOrder
    BY <1>3, <1>5 DEF VInv, ReasonsKept
  <2>2. ASSUME NEW o \in Taken, NEW p \in Taken, o.start = p.start PROVE Alike(o, p)
    <3>1. Key(o) = Key(p)
      BY <2>1, <2>2 DEF Key
    <3>2. Alike(o, retained[Key(o)]) /\ Alike(p, retained[Key(p)])
      BY <1>5, RetainedAlike
    <3>3. QED BY <3>1, <3>2 DEF Alike, Equivalent
  <2>3. Same
    BY <1>4, <2>2
  <2>4. QED BY <1>2, <2>1, <2>3
<1>6. ASSUME Sound PROVE reasons = {}
  <2>1. Each /\ InOrder /\ Same
    BY <1>2, <1>6
  <2>2. conflicting = 0
    <3> SUFFICES ASSUME NEW p \in Taken PROVE Equivalent(retained[Key(p)], p)
      BY DEF VInv, ConflictsKept
    <3>1. Key(p) \in DOMAIN retained
      BY DEF VInv, RetainedKept
    <3>2. PICK o \in Taken : Alike(o, retained[Key(p)])
      BY <3>1 DEF VInv, RetainedKept
    <3>3. Key(retained[Key(p)]) = Key(p)
      BY <3>1 DEF VInv, RetainedKept
    <3>4. o.start = p.start
      BY <3>2, <3>3 DEF Alike, Key
    <3>5. Alike(o, p)
      BY <1>4, <2>1, <3>4
    <3>6. QED BY <3>2, <3>5 DEF Alike, Equivalent
  <2>3. "UNEQUAL_INTERVAL_CONFLICT" \notin reasons
    BY <2>2 DEF VInv, ConflictsKept
  <2>4. "ORDERING_INVALID" \notin reasons
    BY <2>1 DEF VInv, ReasonsKept
  <2> HIDE DEF Each, Same
  <2>5. QED BY <1>3, <2>1, <2>3, <2>4 DEF VInv, ReasonsKept
<1>7. QED BY <1>5, <1>6

(* The starts of a batch without a reason are those of what is retained.    *)
LEMMA RetainedStarts ==
    ASSUME VInv, reasons = {}
    PROVE  /\ {o.start : o \in Ordered} = {o.start : o \in Taken}
           /\ (\E o \in Ordered : Partial(o)) <=> \E o \in Taken : Partial(o)
           /\ \A o \in Ordered : \E p \in Taken : Alike(p, o)
<1>1. \A o \in Taken : \E p \in Ordered : Alike(o, p)
  BY RetainedAlike DEF VInv, RetainedKept, Ordered
<1>2. \A p \in Ordered : \E o \in Taken : Alike(o, p)
  BY RetainedAlike DEF Ordered
<1>3. QED BY <1>1, <1>2 DEF Alike, Equivalent, Partial

LEMMA Dispositions ==
    /\ Disposition # "REJECTED" <=> reasons = {}
    /\ Disposition = "COMPLETE" <=> reasons = {} /\ AllReasons = {}
    /\ Disposition # "COMPLETE" => AllReasons # {}
<1>1. reasons \subseteq AllReasons
  BY DEF AllReasons
<1>2. QED BY <1>1 DEF Disposition

LEMMA CompleteBatch ==
    ASSUME VInv
    PROVE  Disposition = "COMPLETE" <=>
              /\ reasons = {}
              /\ \A t \in ExpectedStarts : \E o \in Taken : o.start = t
              /\ \A o \in Taken : ~Partial(o)
<1>1. CASE reasons = {}
  <2>1. RequestedStart \in ExpectedStarts
    <3>1. RequestedStart \in RequestedStart..RequestedEnd - 1
      BY RequestConstants
    <3>2. (RequestedStart - RequestedStart) % Interval = 0
      <4>1. RequestedStart - RequestedStart = 0
        BY RequestConstants
      <4>2. 0 % Interval = 0
        BY RequestConstants
      <4>3. QED BY <4>1, <4>2
    <3>3. QED BY <3>1, <3>2 DEF ExpectedStarts
  <2>2. batch = <<>> => Taken = {}
    BY DEF Taken
  <2>3. MissingStarts = ExpectedStarts \ {o.start : o \in Taken}
    BY <1>1, RetainedStarts DEF MissingStarts
  <2>4. AllReasons = {} <=> MissingStarts = {} /\ ~(\E o \in Ordered : Partial(o)) /\ batch # <<>>
    BY <1>1 DEF AllReasons
  <2>5. AllReasons = {} <=> /\ \A t \in ExpectedStarts : \E o \in Taken : o.start = t
                            /\ \A o \in Taken : ~Partial(o)
    BY <1>1, <2>1, <2>2, <2>3, <2>4, RetainedStarts
  <2>6. QED BY <1>1, <2>5, Dispositions
<1>2. CASE reasons # {}
  BY <1>2, Dispositions
<1>3. QED BY <1>1, <1>2

(* One observation is retained for each key, and a batch without a reason   *)
(* has one key for each start.                                              *)
LEMMA OrderedCardinality == ASSUME VInv PROVE Cardinality(Ordered) = Cardinality(DOMAIN retained)
<1> DEFINE f == [k \in DOMAIN retained |-> retained[k]]
<1>1. f \in Bijection(DOMAIN retained, Ordered)
  <2>1. f \in [DOMAIN retained -> Ordered] /\ DOMAIN f = DOMAIN retained
    BY DEF Ordered
  <2>2. \A k, l \in DOMAIN retained : f[k] = f[l] => k = l
    BY DEF VInv, RetainedKept
  <2>3. \A o \in Ordered : \E k \in DOMAIN retained : f[k] = o
    BY DEF Ordered
  <2> HIDE DEF f
  <2>4. QED BY <2>1, <2>2, <2>3, Fun_IsBij
<1>2. QED BY <1>1, FS_Bijection DEF VInv, RetainedKept, ExistsBijection

LEMMA StartsCardinality ==
    ASSUME VInv, reasons = {}
    PROVE  LET starts == {o.start : o \in Taken}
           IN  IsFiniteSet(starts) /\ Cardinality(starts) = Cardinality(DOMAIN retained)
<1> DEFINE starts == {o.start : o \in Taken}
           f == [k \in DOMAIN retained |-> retained[k].start]
<1>1. f \in Bijection(DOMAIN retained, starts)
  <2>1. DOMAIN f = DOMAIN retained
    OBVIOUS
  <2>2. ASSUME NEW k \in DOMAIN retained
        PROVE  f[k] \in starts /\ k = <<Series, f[k]>>
    <3>1. PICK o \in Taken : Key(o) = k /\ Alike(o, retained[k])
      BY RetainedAlike
    <3>2. o.series = Series
      BY ReasonsAreSound DEF Sound
    <3>3. QED BY <3>1, <3>2 DEF Key, Alike
  <2>3. ASSUME NEW t \in starts PROVE \E k \in DOMAIN retained : f[k] = t
    <3>1. PICK o \in Taken : o.start = t
      OBVIOUS
    <3>2. Key(o) \in DOMAIN retained /\ Alike(o, retained[Key(o)])
      BY RetainedAlike DEF VInv, RetainedKept
    <3>3. QED BY <3>1, <3>2 DEF Alike
  <2>4. f = [k \in DOMAIN f |-> f[k]]
    OBVIOUS
  <2> HIDE DEF f, starts
  <2>5. f \in [DOMAIN retained -> starts]
    BY <2>1, <2>2, <2>4
  <2>6. \A k, l \in DOMAIN retained : f[k] = f[l] => k = l
    BY <2>2
  <2>7. QED BY <2>3, <2>5, <2>6, Fun_IsBij
<1> HIDE DEF f, starts
<1>2. IsFiniteSet(starts) /\ Cardinality(starts) = Cardinality(DOMAIN retained)
  BY <1>1, FS_Bijection DEF VInv, RetainedKept, ExistsBijection
<1>3. QED BY <1>2 DEF starts

LEMMA ConstructedUnlessExtra ==
    ASSUME VInv
    PROVE  ResultConstructed <=> ~ExtraBars
<1> DEFINE starts == {o.start : o \in Taken}
<1>1. Len(batch) = Cardinality(DOMAIN retained) + duplicates + conflicting
  BY DEF VInv, RetainedKept
<1>2. ASSUME NEW o \in Usable
      PROVE  /\ o.series = Series /\ o.start >= RequestedStart
             /\ o.start + Interval <= RequestedEnd
  <2>1. reasons = {} /\ o \in Ordered
    BY Dispositions DEF Usable
  <2>2. PICK p \in Taken : Alike(p, o)
    BY <2>1, RetainedStarts
  <2>3. p.series = Series /\ p.start \in RequestedStart..RequestedEnd - Interval
    BY <2>1, ReasonsAreSound DEF Sound
  <2>4. QED BY <2>2, <2>3, RequestConstants DEF Alike
<1>3. Disposition # "REJECTED" => Cardinality(Usable) = Cardinality(DOMAIN retained)
  BY OrderedCardinality DEF Usable
<1>4. Disposition # "COMPLETE" => AllReasons # {}
  BY Dispositions
<1>5. ASSUME Disposition = "COMPLETE"
      PROVE  /\ Cardinality(DOMAIN retained) = Cardinality(ExpectedStarts) /\ conflicting = 0
             <=> starts \subseteq ExpectedStarts
  <2>1. reasons = {} /\ ExpectedStarts \subseteq starts
    BY <1>5, CompleteBatch
  <2>2. conflicting = 0
    BY <2>1, RetainedAlike
  <2>3. IsFiniteSet(starts) /\ Cardinality(starts) = Cardinality(DOMAIN retained)
    BY <2>1, StartsCardinality
  <2> HIDE DEF starts
  <2>4. Cardinality(ExpectedStarts) = Cardinality(starts) <=> starts = ExpectedStarts
    BY <2>1, <2>3, FS_Subset
  <2>5. QED BY <2>1, <2>2, <2>3, <2>4
<1>6. QED BY <1>1, <1>2, <1>3, <1>4, <1>5 DEF ResultConstructed, ExtraBars

------------------------------------------------------------------------------
(* What a batch carries.                                                    *)

LEMMA ReferencesAre ==
    ASSUME NEW S
    PROVE  ReferencesOf(S)
               = Own(S) \cup UNION {EntryReferences[e] : e \in UNION {o.lineage : o \in S}}
BY DEF ReferencesOf

LEMMA CarriedFinite ==
    ASSUME VInv
    PROVE  IsFiniteSet(TakenLineage) /\ IsFiniteSet(ReferencesOf(Taken))
<1>1. batch \in Seq(Received) /\ DOMAIN batch = 1..Len(batch) /\ Len(batch) \in Nat
  BY DEF VInv, RetainedKept
<1>2. IsFiniteSet(Taken)
  <2>1. IsFiniteSet(1..Len(batch))
    BY <1>1, FS_Interval
  <2>2. Taken = {batch[i] : i \in 1..Len(batch)}
    BY <1>1 DEF Taken
  <2>3. [i \in 1..Len(batch) |-> batch[i]] \in Surjection(1..Len(batch), Taken)
    BY <2>2, Zenon DEF Surjection
  <2>4. QED BY <2>1, <2>3, FS_Surjection
<1>3. \A o \in Taken : /\ IsFiniteSet(o.lineage) /\ IsFiniteSet(o.references)
                       /\ \A e \in o.lineage : IsFiniteSet(EntryReferences[e])
  BY TakenReceived, RequestAssumption DEF ObservationValid
<1>4. IsFiniteSet(TakenLineage)
  <2>1. [o \in Taken |-> o.lineage] \in Surjection(Taken, {o.lineage : o \in Taken})
    BY Zenon DEF Surjection
  <2>2. IsFiniteSet({o.lineage : o \in Taken})
    BY <1>2, <2>1, FS_Surjection
  <2>3. QED BY <1>3, <2>2, FS_UNION DEF TakenLineage
<1>5. IsFiniteSet(Own(Taken))
  <2>1. [o \in Taken |-> o.references] \in Surjection(Taken, {o.references : o \in Taken})
    BY Zenon DEF Surjection
  <2>2. IsFiniteSet({o.references : o \in Taken})
    BY <1>2, <2>1, FS_Surjection
  <2>3. QED BY <1>3, <2>2, FS_UNION DEF Own
<1>6. IsFiniteSet(UNION {EntryReferences[e] : e \in TakenLineage})
  <2> DEFINE theirs == {EntryReferences[e] : e \in TakenLineage}
  <2>1. [e \in TakenLineage |-> EntryReferences[e]] \in Surjection(TakenLineage, theirs)
    BY Zenon DEF Surjection
  <2>2. IsFiniteSet(theirs)
    BY <1>4, <2>1, FS_Surjection
  <2>3. \A e \in TakenLineage : IsFiniteSet(EntryReferences[e])
    BY <1>3 DEF TakenLineage
  <2>4. QED BY <2>2, <2>3, FS_UNION
<1>7. IsFiniteSet(Own(Taken) \cup UNION {EntryReferences[e] : e \in TakenLineage})
  BY <1>5, <1>6, FS_Union
<1>8. QED BY <1>4, <1>7, ReferencesAre DEF TakenLineage

(* What is retained carries no more than what was taken, and without a      *)
(* conflict the same.                                                       *)
LEMMA CarriedIs ==
    ASSUME VInv
    PROVE  /\ Lineage \subseteq TakenLineage /\ References \subseteq ReferencesOf(Taken)
           /\ conflicting = 0 => Lineage = TakenLineage /\ References = ReferencesOf(Taken)
<1>1. References = Own(Ordered) \cup UNION {EntryReferences[e] : e \in Lineage}
  BY ReferencesAre DEF References, Lineage
<1>2. ReferencesOf(Taken) = Own(Taken) \cup UNION {EntryReferences[e] : e \in TakenLineage}
  BY ReferencesAre DEF TakenLineage
<1>3. Lineage \subseteq TakenLineage /\ Own(Ordered) \subseteq Own(Taken)
  BY DEF VInv, CarriedKept
<1>4. ASSUME conflicting = 0
      PROVE  Lineage = TakenLineage /\ Own(Ordered) = Own(Taken)
  BY <1>4 DEF VInv, CarriedKept
<1>5. UNION {EntryReferences[e] : e \in Lineage}
          \subseteq UNION {EntryReferences[e] : e \in TakenLineage}
  BY <1>3
<1>6. QED BY <1>1, <1>2, <1>3, <1>4, <1>5

(* The loop does not stop for a batch that fits into a payload as a whole.  *)
LEMMA CarriedReturns ==
    ASSUME VInv, Carried
    PROVE  /\ raised = FALSE
           /\ Cardinality(Lineage) <= MaximumLineage
           /\ Cardinality(References) <= MaximumReferences
<1>1. MaximumLineage \in Nat /\ MaximumReferences \in Nat
  BY RequestAssumption
<1>2. ASSUME NEW S, S \subseteq TakenLineage
      PROVE  Cardinality(S) \in Nat /\ Cardinality(S) <= MaximumLineage
  <2>1. /\ IsFiniteSet(S) /\ Cardinality(S) <= Cardinality(TakenLineage)
    BY <1>2, CarriedFinite, FS_Subset
  <2>2. Cardinality(S) \in Nat /\ Cardinality(TakenLineage) \in Nat
    BY <2>1, CarriedFinite, FS_CardinalityType
  <2>3. QED BY <1>1, <2>1, <2>2 DEF Carried
<1>3. ASSUME NEW S, S \subseteq ReferencesOf(Taken)
      PROVE  Cardinality(S) \in Nat /\ Cardinality(S) <= MaximumReferences
  <2>1. /\ IsFiniteSet(S) /\ Cardinality(S) <= Cardinality(ReferencesOf(Taken))
    BY <1>3, CarriedFinite, FS_Subset
  <2>2. Cardinality(S) \in Nat /\ Cardinality(ReferencesOf(Taken)) \in Nat
    BY <2>1, CarriedFinite, FS_CardinalityType
  <2>3. QED BY <1>1, <2>1, <2>2 DEF Carried
<1>4. ASSUME NEW o \in Ordered PROVE ~TooMuch(o)
  <2>1. o.lineage \subseteq TakenLineage
    BY CarriedIs DEF Lineage
  <2>2. o.references \subseteq ReferencesOf(Taken)
    <3>1. o.references \subseteq Own(Ordered)
      BY DEF Own
    <3>2. Own(Ordered) \subseteq References
      BY DEF References, ReferencesOf
    <3>3. QED BY <3>1, <3>2, CarriedIs
  <2>3. QED BY <1>1, <1>2, <1>3, <2>1, <2>2 DEF TooMuch
<1>5. raised = FALSE
  BY <1>4 DEF VInv, CarriedKept
<1>6. QED BY <1>2, <1>3, <1>5, CarriedIs

(* Whatever a provider returned, in whatever order and however often: the   *)
(* batch is rejected exactly if it is not sound as a whole, complete        *)
(* exactly if it also has a whole bar for every interval, merging           *)
(* duplicates loses neither lineage nor references of a batch that is used, *)
(* and the validator returns for every batch whose lineage and references   *)
(* fit into a payload and that is not complete with bars between the        *)
(* intervals, and of those it does not reject for no other.                 *)
THEOREM ValidationCorrect == ValidationSpec => []ValidationInv
<1>1. VInv => ValidationInv
  <2> SUFFICES ASSUME VInv PROVE ValidationInv
    OBVIOUS
  <2>1. JudgedAsAWhole
    BY ReasonsAreSound, CompleteBatch, Dispositions DEF JudgedAsAWhole
  <2>2. ASSUME Disposition # "REJECTED"
        PROVE  Lineage = TakenLineage /\ References = ReferencesOf(Taken)
    BY <2>2, Dispositions, RetainedAlike, CarriedIs
  <2>3. ASSUME Carried, ~ExtraBars PROVE Returns
    BY <2>3, CarriedReturns, ConstructedUnlessExtra DEF Returns
  <2>4. ASSUME Returns, Disposition # "REJECTED" PROVE Carried /\ ~ExtraBars
    BY <2>2, <2>4, ConstructedUnlessExtra DEF Returns, Carried
  <2>5. QED BY <2>1, <2>2, <2>3, <2>4 DEF ValidationInv, LineageKept, RaisesAsAWhole
<1>2. QED BY <1>1, ValidationInvariant, PTL

------------------------------------------------------------------------------
(* The path of an alert, for any readings, thresholds, confirmations,       *)
(* cooldown and queue.                                                      *)

AlertCards == [about : {"RESOURCE", "SYSTEM"}, state : Levels \cup {"READY"}]
AlertEntries == AlertCards \cup {Stop}

(* Where the accepted cards are: one in the hands of the thread while it    *)
(* posts, the others in the queue, the sentinel of close behind them.       *)
Sentinel == stopQueued /\ worker # "ended"
Held == IF worker = "posting" THEN 1 ELSE 0
Waiting == IF Sentinel THEN Len(queue) - 1 ELSE Len(queue)

QueueKept ==
    /\ accepted \in Seq(AlertCards) /\ queue \in Seq(AlertEntries)
    /\ mode \in {"off", "running", "stop", "stopped", "dispose", "disposed"}
    /\ worker \in {"idle", "posting", "reporting", "ended"}
    /\ stopQueued \in BOOLEAN /\ clean \in BOOLEAN
    /\ Sentinel => Len(queue) > 0 /\ queue[Len(queue)] = Stop
    /\ Len(accepted) = Held + Waiting
    /\ \A i \in 1..Waiting : queue[i] = accepted[Held + i]
    /\ worker = "ended" => queue = <<>> /\ stopQueued
    /\ stopQueued => mode \notin {"off", "running"}
    /\ clean => worker = "ended" /\ unread = 0 /\ mode \in {"stopped", "dispose", "disposed"}

(* A resource card tells the level of the evaluator, or an earlier one when *)
(* the last transition was a warning within the cooldown.                   *)
Agrees(state) == state = level.state \/ (level.state = "WARNING" /\ hushed)

LastCardAgrees ==
    \E i \in DOMAIN accepted :
        /\ accepted[i].about = "RESOURCE" /\ Agrees(accepted[i].state)
        /\ \A j \in DOMAIN accepted : j > i => accepted[j].about # "RESOURCE"

LevelKept ==
    /\ level = [state |-> level.state, candidate |-> level.candidate,
                count |-> level.count, quiet |-> level.quiet]
    /\ level.state \in Levels /\ level.quiet \in 0..Cooldown /\ hushed \in BOOLEAN
    /\ last \in {"none", "pending", "told", "lost"}
    /\ last = "none" => /\ level.state = "NORMAL" /\ told = "NORMAL"
                        /\ level.quiet = Cooldown /\ ~Pending(accepted)
    /\ last = "told" => Agrees(told) /\ ~Pending(accepted)
    /\ last = "pending" => LastCardAgrees

AlertKept == QueueKept /\ LevelKept

LEMMA StopApart == AlertCards \subseteq AlertEntries /\ Stop \in AlertEntries /\ Stop \notin AlertCards
BY DEF AlertEntries, AlertCards, Stop, Card

(* Cards are submitted only before close queues its sentinel.               *)
LEMMA SubmitQueue ==
    ASSUME AlertKept, NEW card \in AlertCards, Submit(card), mode = "running",
           UNCHANGED <<mode, worker, stopQueued, clean, unread>>
    PROVE  QueueKept'
<1>1. ~stopQueued /\ worker # "ended" /\ ~clean /\ Waiting = Len(queue)
  BY DEF AlertKept, QueueKept, Waiting, Sentinel
<1>2. Held' = Held /\ Waiting' = Len(queue') /\ ~Sentinel' /\ Held \in {0, 1}
  BY <1>1 DEF Held, Waiting, Sentinel
<1>3. /\ Len(queue) \in Nat /\ Len(accepted) = Held + Len(queue)
      /\ \A i \in 1..Len(queue) : queue[i] = accepted[Held + i]
  BY <1>1 DEF AlertKept, QueueKept
<1>4. CASE Len(queue) < QueueCapacity
  <2>1. queue' = Append(queue, card) /\ accepted' = Append(accepted, card)
    BY <1>4 DEF Submit
  <2>2. /\ queue' \in Seq(AlertEntries) /\ Len(queue') = Len(queue) + 1
        /\ \A i \in 1..Len(queue) : queue'[i] = queue[i]
        /\ queue'[Len(queue) + 1] = card
    BY <2>1, StopApart, AppendProperties DEF AlertKept, QueueKept
  <2>3. /\ accepted' \in Seq(AlertCards) /\ Len(accepted') = Len(accepted) + 1
        /\ \A i \in 1..Len(accepted) : accepted'[i] = accepted[i]
        /\ accepted'[Len(accepted) + 1] = card
    BY <2>1, AppendProperties DEF AlertKept, QueueKept
  <2>4. ASSUME NEW i \in 1..Len(queue') PROVE queue'[i] = accepted'[Held + i]
    <3>1. CASE i = Len(queue) + 1
      <4>1. Held + i = Len(accepted) + 1
        BY <1>2, <1>3, <3>1
      <4>2. QED BY <2>2, <2>3, <3>1, <4>1
    <3>2. CASE i \in 1..Len(queue)
      <4>1. Held + i \in 1..Len(accepted)
        BY <1>2, <1>3, <3>2
      <4>2. QED BY <1>3, <2>2, <2>3, <3>2, <4>1
    <3>3. QED BY <1>3, <2>2, <3>1, <3>2
  <2>5. Len(accepted') = Held + Len(queue')
    BY <1>2, <1>3, <2>2, <2>3
  <2>6. QED BY <1>1, <1>2, <2>2, <2>3, <2>4, <2>5 DEF AlertKept, QueueKept
<1>5. CASE ~(Len(queue) < QueueCapacity)
  <2>1. queue' = queue /\ accepted' = accepted
    BY <1>5 DEF Submit
  <2>2. QED BY <1>1, <1>2, <1>3, <2>1 DEF AlertKept, QueueKept
<1>6. QED BY <1>4, <1>5

LEMMA UnsubmittedQueue ==
    ASSUME AlertKept, UNCHANGED <<mode, worker, stopQueued, clean, unread, queue, accepted>>
    PROVE  QueueKept'
BY DEF AlertKept, QueueKept, Waiting, Held, Sentinel

(* What a submission does to the last resource card.                        *)
LEMMA SubmitLast ==
    ASSUME accepted \in Seq(AlertCards), NEW card \in AlertCards, Submit(card)
    PROVE  /\ \/ accepted' = accepted /\ card.about = "RESOURCE" => last' = "lost"
              \/ accepted' = Append(accepted, card) /\ card.about = "RESOURCE" => last' = "pending"
           /\ card.about = "SYSTEM" => last' = last /\ accepted' \in {accepted, Append(accepted, card)}
           /\ card.about = "RESOURCE" =>
                 \/ last' = "lost"
                 \/ last' = "pending" /\ accepted' = Append(accepted, card)
BY DEF Submit, AlertCards

LEMMA SystemLevel ==
    ASSUME AlertKept, NEW card \in AlertCards, card.about = "SYSTEM", Submit(card),
           UNCHANGED <<level, told, hushed>>
    PROVE  LevelKept'
<1>1. last' = last /\ accepted' \in {accepted, Append(accepted, card)}
  BY SubmitLast DEF AlertKept, QueueKept
<1>2. CASE accepted' = accepted
  BY <1>1, <1>2 DEF AlertKept, LevelKept, Agrees, LastCardAgrees, Pending
<1>3. CASE accepted' = Append(accepted, card)
  <2>1. /\ DOMAIN accepted = 1..Len(accepted) /\ DOMAIN accepted' = 1..Len(accepted) + 1
        /\ Len(accepted) \in Nat
        /\ \A i \in 1..Len(accepted) : accepted'[i] = accepted[i]
        /\ accepted'[Len(accepted) + 1] = card
    BY <1>3, AppendProperties DEF AlertKept, QueueKept
  <2>2. Pending(accepted') <=> Pending(accepted)
    BY <2>1 DEF Pending
  <2>3. LastCardAgrees => LastCardAgrees'
    <3> SUFFICES ASSUME LastCardAgrees PROVE LastCardAgrees'
      OBVIOUS
    <3>1. PICK i \in DOMAIN accepted :
             /\ accepted[i].about = "RESOURCE" /\ Agrees(accepted[i].state)
             /\ \A j \in DOMAIN accepted : j > i => accepted[j].about # "RESOURCE"
      BY DEF LastCardAgrees
    <3>2. i \in DOMAIN accepted' /\ accepted'[i] = accepted[i]
      BY <2>1
    <3>3. ASSUME NEW j \in DOMAIN accepted', j > i PROVE accepted'[j].about # "RESOURCE"
      BY <2>1, <3>1, <3>3
    <3>4. QED BY <3>1, <3>2, <3>3 DEF LastCardAgrees, Agrees
  <2>4. \A s : Agrees(s)' <=> Agrees(s)
    BY DEF Agrees
  <2>5. QED BY <1>1, <2>2, <2>3, <2>4 DEF AlertKept, LevelKept, Agrees
<1>4. QED BY <1>1, <1>2, <1>3

(* The evaluator.                                                           *)
LEMMA AdvancedLevel ==
    ASSUME LevelKept, NEW target \in Levels, level' = Advanced(target)
    PROVE  /\ level' = [state |-> level'.state, candidate |-> level'.candidate,
                        count |-> level'.count, quiet |-> level'.quiet]
           /\ level'.state = IF Confirmed(target) THEN target ELSE level.state
           /\ ~Confirmed(target) => level'.quiet = level.quiet
           /\ level'.quiet \in {0, level.quiet}
<1>1. CASE target = level.state \/ Confirmed(target)
  BY <1>1 DEF Advanced, Confirmed
<1>2. CASE ~(target = level.state \/ Confirmed(target))
  BY <1>2 DEF Advanced, LevelKept
<1>3. QED BY <1>1, <1>2

LEMMA AdvanceKeeps ==
    ASSUME AlertKept, NEW target \in Levels, Advance(target), mode = "running",
           UNCHANGED <<mode, worker, stopQueued, clean, unread, told>>
    PROVE  AlertKept'
<1>1. LevelKept /\ accepted \in Seq(AlertCards) /\ hushed \in BOOLEAN /\ level.state \in Levels
  BY DEF AlertKept, LevelKept, QueueKept
<1>2. /\ level' = [state |-> level'.state, candidate |-> level'.candidate,
                   count |-> level'.count, quiet |-> level'.quiet]
      /\ level'.state = IF Confirmed(target) THEN target ELSE level.state
      /\ ~Confirmed(target) => level'.quiet = level.quiet
      /\ level'.quiet \in 0..Cooldown
  BY <1>1, AdvancedLevel, AlertAssumption DEF Advance, LevelKept
<1>3. CASE Confirmed(target) /\ NotificationEligible(target)
  <2> DEFINE card == Card("RESOURCE", target)
  <2>1. card \in AlertCards /\ card.about = "RESOURCE" /\ card.state = target
    BY DEF AlertCards, Card
  <2>2. Submit(card) /\ hushed' \in BOOLEAN /\ level'.state = target
    BY <1>2, <1>3 DEF Advance
  <2> HIDE DEF card
  <2>3. QueueKept'
    BY <2>1, <2>2, SubmitQueue
  <2>4. \/ last' = "lost"
        \/ last' = "pending" /\ accepted' = Append(accepted, card)
    BY <1>1, <2>1, <2>2, SubmitLast
  <2>5. CASE last' = "lost"
    BY <1>2, <2>2, <2>3, <2>5 DEF AlertKept, LevelKept
  <2>6. CASE last' = "pending" /\ accepted' = Append(accepted, card)
    <3>1. /\ DOMAIN accepted' = 1..Len(accepted) + 1 /\ Len(accepted) \in Nat
          /\ accepted'[Len(accepted) + 1] = card
      BY <1>1, <2>1, <2>6, AppendProperties
    <3>2. LastCardAgrees'
      <4>1. Len(accepted) + 1 \in DOMAIN accepted'
            /\ \A j \in DOMAIN accepted' : ~(j > Len(accepted) + 1)
        BY <3>1
      <4>2. QED BY <2>1, <2>2, <3>1, <4>1 DEF LastCardAgrees, Agrees
    <3>3. QED BY <1>2, <2>2, <2>3, <2>6, <3>2 DEF AlertKept, LevelKept
  <2>7. QED BY <2>4, <2>5, <2>6
<1>4. CASE ~(Confirmed(target) /\ NotificationEligible(target))
  <2>1. queue' = queue /\ accepted' = accepted /\ last' = last
    BY <1>4 DEF Advance
  <2>2. QueueKept'
    BY <2>1, UnsubmittedQueue
  <2>3. CASE ~Confirmed(target)
    <3>1. hushed' = hushed /\ level'.state = level.state /\ level'.quiet = level.quiet
      BY <1>2, <2>3 DEF Advance
    <3>2. QED BY <1>2, <2>1, <2>2, <3>1 DEF AlertKept, LevelKept, Agrees, LastCardAgrees, Pending
  <2>4. CASE Confirmed(target) /\ ~NotificationEligible(target)
    <3>1. target = "WARNING" /\ level.quiet < Cooldown
      BY <1>1, <2>4, AlertAssumption DEF NotificationEligible, LevelKept
    <3>2. level'.state = "WARNING" /\ hushed' = TRUE
      BY <1>2, <2>4, <3>1 DEF Advance
    <3>3. last # "none" /\ (\A s : Agrees(s)')
      BY <1>1, <3>1, <3>2, AlertAssumption DEF LevelKept, Agrees
    <3>4. LastCardAgrees => LastCardAgrees'
      BY <2>1, <3>3 DEF LastCardAgrees, Agrees
    <3>5. Pending(accepted') <=> Pending(accepted)
      BY <2>1 DEF Pending
    <3>6. LevelKept'
      BY <1>1, <1>2, <2>1, <3>2, <3>3, <3>4, <3>5 DEF LevelKept, Agrees, Levels
    <3>7. QED BY <2>2, <3>6 DEF AlertKept
  <2>5. QED BY <1>4, <2>3, <2>4
<1>5. QED BY <1>3, <1>4

LEMMA TargetsAreLevels ==
    /\ \A observed : Assess(observed) \in Levels
    /\ Staleness \subseteq Levels
<1>1. ASSUME NEW observed PROVE Assess(observed) \in Levels
  <2>1. CASE Breached(observed, CriticalAt)
    BY <2>1 DEF Assess, Levels
  <2>2. CASE ~Breached(observed, CriticalAt) /\ Breached(observed, WarningAt)
    BY <2>2 DEF Assess, Levels
  <2>3. CASE ~Breached(observed, CriticalAt) /\ ~Breached(observed, WarningAt)
    BY <2>3 DEF Assess, Levels
  <2>4. QED BY <2>1, <2>2, <2>3
<1>2. Staleness \subseteq Levels
  BY DEF Staleness, Levels
<1>3. QED BY <1>1, <1>2

(* What leaves the level, the channel and the accepted cards alone.         *)
LEMMA LevelUntouched ==
    ASSUME LevelKept, UNCHANGED <<accepted, told, last, hushed>>,
           level' = [state |-> level.state, candidate |-> level'.candidate,
                     count |-> level'.count, quiet |-> level'.quiet],
           level'.quiet \in 0..Cooldown,
           level.quiet = Cooldown => level'.quiet = Cooldown
    PROVE  LevelKept'
<1>1. level'.state = level.state
  OBVIOUS
<1>2. Pending(accepted') <=> Pending(accepted)
  BY DEF Pending
<1>3. LastCardAgrees => LastCardAgrees'
  BY <1>1 DEF LastCardAgrees, Agrees
<1>4. QED BY <1>1, <1>2, <1>3 DEF LevelKept, Agrees

LEMMA UnchangedLevel ==
    ASSUME LevelKept, UNCHANGED <<accepted, told, last, hushed, level>>
    PROVE  LevelKept'
BY DEF LevelKept, Agrees, LastCardAgrees, Pending

(* The thread takes a card, which it then holds, or the sentinel, behind    *)
(* which nothing waits.                                                     *)
LEMMA TakeKeeps ==
    ASSUME AlertKept, Take
    PROVE  AlertKept'
<1>1. /\ worker = "idle" /\ queue # <<>> /\ queue' = Tail(queue)
      /\ worker' = IF Head(queue) = Stop THEN "ended" ELSE "posting"
      /\ UNCHANGED <<mode, unread, stopQueued, clean, accepted, told, last, hushed, level>>
  BY DEF Take, closeVars
<1>2. /\ queue' \in Seq(AlertEntries) /\ Len(queue') = Len(queue) - 1 /\ Len(queue) \in Nat \ {0}
      /\ \A i \in 1..Len(queue') : queue'[i] = queue[i + 1]
      /\ Head(queue) = queue[1]
  BY <1>1, HeadTailProperties, EmptySeq DEF AlertKept, QueueKept
<1>3. Held = 0 /\ (Sentinel <=> stopQueued) /\ ~clean
  BY <1>1 DEF Held, Sentinel, AlertKept, QueueKept
<1>4. /\ Len(accepted) = Waiting
      /\ \A i \in 1..Waiting : queue[i] = accepted[i] /\ queue[i] # Stop
      /\ Waiting = IF stopQueued THEN Len(queue) - 1 ELSE Len(queue)
      /\ stopQueued => queue[Len(queue)] = Stop
  <2>1. \A i \in 1..Len(accepted) : accepted[i] \in AlertCards
    BY DEF AlertKept, QueueKept
  <2>2. Waiting \in Nat /\ Waiting = IF stopQueued THEN Len(queue) - 1 ELSE Len(queue)
    BY <1>2, <1>3 DEF Waiting
  <2>3. QED BY <1>3, <2>1, <2>2, StopApart DEF AlertKept, QueueKept
<1>5. LevelKept'
  BY <1>1, UnchangedLevel DEF AlertKept
<1>6. CASE Head(queue) = Stop
  <2>1. stopQueued /\ Waiting = 0 /\ Len(queue) = 1
    BY <1>2, <1>4, <1>6
  <2>2. queue' = <<>>
    BY <1>2, <2>1, EmptySeq
  <2>3. worker' = "ended" /\ Held' = 0 /\ Waiting' = 0 /\ ~Sentinel'
    BY <1>1, <1>2, <1>6, <2>1 DEF Held, Waiting, Sentinel
  <2>4. QueueKept'
    BY <1>1, <1>2, <1>3, <1>4, <2>1, <2>2, <2>3 DEF AlertKept, QueueKept
  <2>5. QED BY <1>5, <2>4 DEF AlertKept
<1>7. CASE Head(queue) # Stop
  <2>1. worker' = "posting" /\ Held' = 1 /\ (Sentinel' <=> stopQueued)
    BY <1>1, <1>7 DEF Held, Sentinel
  <2>2. Waiting >= 1 /\ Waiting' = Waiting - 1 /\ Waiting \in Nat
    <3>1. Waiting \in Nat /\ Waiting # 0
      BY <1>2, <1>4, <1>7
    <3>2. Waiting' = IF stopQueued THEN Len(queue') - 1 ELSE Len(queue')
      BY <2>1 DEF Waiting
    <3>3. QED BY <1>2, <1>4, <3>1, <3>2
  <2>3. ASSUME stopQueued PROVE Len(queue') > 0 /\ queue'[Len(queue')] = Stop
    <3>1. Len(queue') > 0 /\ Len(queue') \in 1..Len(queue') /\ Len(queue') + 1 = Len(queue)
      BY <1>2, <1>4, <2>2, <2>3
    <3>2. QED BY <1>2, <1>4, <2>3, <3>1
  <2>4. \A i \in 1..Waiting' : queue'[i] = accepted[1 + i]
    <3> SUFFICES ASSUME NEW i \in 1..Waiting' PROVE queue'[i] = accepted[1 + i]
      OBVIOUS
    <3>1. i \in 1..Len(queue') /\ i + 1 \in 1..Waiting /\ 1 + i = i + 1
      BY <1>2, <1>4, <2>2
    <3>2. QED BY <1>2, <1>4, <3>1
  <2>5. Len(accepted') = Held' + Waiting'
    BY <1>1, <1>4, <2>1, <2>2
  <2>6. QueueKept'
    BY <1>1, <1>2, <1>3, <2>1, <2>3, <2>4, <2>5 DEF AlertKept, QueueKept
  <2>7. QED BY <1>5, <2>6 DEF AlertKept
<1>8. QED BY <1>6, <1>7

(* A post ends the card in hand: if it was the last resource card, the      *)
(* channel now shows it or it is lost.                                      *)
LEMMA PostKeeps ==
    ASSUME AlertKept, Post
    PROVE  AlertKept'
<1>1. /\ worker = "posting" /\ worker' = "reporting" /\ accepted' = Tail(accepted)
      /\ UNCHANGED <<mode, unread, stopQueued, clean, queue, hushed, level>>
  BY DEF Post, closeVars
<1>2. Held = 1 /\ Held' = 0 /\ (Sentinel' <=> Sentinel) /\ Waiting' = Waiting
  BY <1>1 DEF Held, Sentinel, Waiting
<1>3. Waiting \in Nat /\ Len(accepted) = 1 + Waiting
  BY <1>2, EmptySeq DEF AlertKept, QueueKept, Waiting
<1>4. /\ accepted # <<>> /\ accepted' \in Seq(AlertCards) /\ Len(accepted') = Waiting
      /\ \A i \in 1..Waiting : accepted'[i] = accepted[1 + i]
      /\ Head(accepted) = accepted[1] /\ accepted[1] \in AlertCards
      /\ DOMAIN accepted = 1..1 + Waiting /\ DOMAIN accepted' = 1..Waiting
  <2>1. accepted # <<>>
    BY <1>3
  <2>2. \A i \in 1..Waiting : i + 1 = 1 + i
    BY <1>3
  <2>3. QED BY <1>1, <1>3, <2>1, <2>2, HeadTailProperties DEF AlertKept, QueueKept
<1>5. QueueKept'
  BY <1>1, <1>2, <1>3, <1>4 DEF AlertKept, QueueKept
<1>6. Pending(accepted') <=> \E i \in 1..Waiting : accepted[1 + i].about = "RESOURCE"
  BY <1>1, <1>4 DEF Pending
<1>7. Pending(accepted) <=> accepted[1].about = "RESOURCE" \/ Pending(accepted')
  <2>1. 1 \in 1..1 + Waiting /\ \A i \in 1..1 + Waiting : i = 1 \/ (i - 1 \in 1..Waiting /\ 1 + (i - 1) = i)
    BY <1>3
  <2>2. \A i \in 1..Waiting : 1 + i \in 1..1 + Waiting
    BY <1>3
  <2>3. QED BY <1>4, <1>6, <2>1, <2>2 DEF Pending
<1>8. ASSUME LastCardAgrees
      PROVE  IF Pending(accepted') THEN LastCardAgrees'
             ELSE accepted[1].about = "RESOURCE" /\ Agrees(accepted[1].state)
  <2>1. PICK i \in 1..1 + Waiting :
           /\ accepted[i].about = "RESOURCE" /\ Agrees(accepted[i].state)
           /\ \A j \in 1..1 + Waiting : j > i => accepted[j].about # "RESOURCE"
    BY <1>4, <1>8 DEF LastCardAgrees
  <2>2. CASE i = 1
    <3>1. \A j \in 1..Waiting : 1 + j \in 1..1 + Waiting /\ 1 + j > 1
      BY <1>3
    <3>2. ~Pending(accepted')
      BY <1>6, <2>1, <2>2, <3>1
    <3>3. QED BY <2>1, <2>2, <3>2
  <2>3. CASE i # 1
    <3>1. i - 1 \in 1..Waiting /\ 1 + (i - 1) = i
      BY <1>3, <2>3
    <3>2. accepted'[i - 1] = accepted[i]
      BY <1>4, <3>1
    <3>3. ASSUME NEW j \in 1..Waiting, j > i - 1 PROVE accepted'[j].about # "RESOURCE"
      <4>1. 1 + j \in 1..1 + Waiting /\ 1 + j > i
        BY <1>3, <2>1, <3>3
      <4>2. QED BY <1>4, <2>1, <4>1
    <3>4. LastCardAgrees' /\ Pending(accepted')
      BY <1>1, <1>4, <1>6, <2>1, <3>1, <3>2, <3>3 DEF LastCardAgrees, Agrees
    <3>5. QED BY <3>4
  <2>4. QED BY <2>2, <2>3
<1>9. LevelKept'
  <2>1. \A s : Agrees(s)' <=> Agrees(s)
    BY <1>1 DEF Agrees
  <2>2. CASE Head(accepted).about # "RESOURCE"
    <3>1. told' = told /\ last' = last
      BY <2>2 DEF Post
    <3>2. (Pending(accepted') <=> Pending(accepted)) /\ (LastCardAgrees => LastCardAgrees')
      BY <1>4, <1>7, <1>8, <2>2
    <3>3. QED BY <1>1, <2>1, <3>1, <3>2 DEF AlertKept, LevelKept, Agrees
  <2>3. CASE Head(accepted).about = "RESOURCE"
    <3>1. PICK delivered \in BOOLEAN :
             /\ told' = IF delivered THEN Head(accepted).state ELSE told
             /\ last' = IF last = "lost" \/ Pending(Tail(accepted)) THEN last
                        ELSE IF delivered THEN "told" ELSE "lost"
      BY <2>3 DEF Post
    <3>2. Pending(accepted) /\ last \in {"pending", "lost"}
      BY <1>4, <1>7, <2>3 DEF AlertKept, LevelKept
    <3>3. CASE last = "lost"
      BY <1>1, <3>1, <3>3 DEF AlertKept, LevelKept
    <3>4. CASE last = "pending" /\ Pending(accepted')
      <4>1. last' = "pending" /\ LastCardAgrees'
        BY <1>1, <1>8, <3>1, <3>4 DEF AlertKept, LevelKept
      <4>2. QED BY <1>1, <4>1 DEF AlertKept, LevelKept
    <3>5. CASE last = "pending" /\ ~Pending(accepted')
      <4>1. Agrees(Head(accepted).state)
        BY <1>4, <1>8, <3>5 DEF AlertKept, LevelKept
      <4>2. \/ last' = "lost"
            \/ last' = "told" /\ told' = Head(accepted).state
        BY <1>1, <3>1, <3>5
      <4>3. QED BY <1>1, <2>1, <3>5, <4>1, <4>2 DEF AlertKept, LevelKept, Agrees
    <3>6. QED BY <3>2, <3>3, <3>4, <3>5
  <2>4. QED BY <2>2, <2>3
<1>10. QED BY <1>5, <1>9 DEF AlertKept

LEMMA QueueSentinelKeeps ==
    ASSUME AlertKept, QueueSentinel
    PROVE  AlertKept'
<1>1. /\ Closing /\ ~stopQueued /\ queue' = Append(queue, Stop) /\ stopQueued' = TRUE
      /\ UNCHANGED <<mode, worker, unread, clean, accepted, told, last, hushed, level>>
  BY DEF QueueSentinel, threadVars
<1>2. /\ worker # "ended" /\ ~clean /\ ~Sentinel /\ Sentinel' /\ Held' = Held
  BY <1>1 DEF AlertKept, QueueKept, Sentinel, Held
<1>3. /\ queue' \in Seq(AlertEntries) /\ Len(queue') = Len(queue) + 1 /\ Len(queue) \in Nat
      /\ \A i \in 1..Len(queue) : queue'[i] = queue[i]
      /\ queue'[Len(queue) + 1] = Stop
  BY <1>1, StopApart, AppendProperties DEF AlertKept, QueueKept
<1>4. Waiting = Len(queue) /\ Waiting' = Len(queue)
  BY <1>2, <1>3 DEF Waiting
<1>5. QueueKept'
  BY <1>1, <1>2, <1>3, <1>4 DEF AlertKept, QueueKept, Closing
<1>6. QED BY <1>1, <1>5, UnchangedLevel DEF AlertKept

LEMMA CloseKeeps ==
    ASSUME AlertKept, CloseSucceeds \/ CloseTimesOut
    PROVE  AlertKept'
<1>1. /\ Closing
      /\ \/ CloseReturns(TRUE) /\ worker = "ended"
         \/ CloseReturns(FALSE)
  BY DEF CloseSucceeds, CloseTimesOut
<1>2. /\ mode' = IF mode = "stop" THEN "stopped" ELSE "disposed"
      /\ unread' = IF mode = "stop" THEN 0 ELSE unread
      /\ UNCHANGED <<queue, worker, stopQueued, accepted, told, last, hushed, level>>
  BY <1>1 DEF CloseReturns
<1>3. clean' \in BOOLEAN /\ (clean' => worker = "ended" /\ (mode = "stop" \/ clean))
  <2>1. CASE CloseReturns(TRUE) /\ worker = "ended"
    BY <2>1 DEF CloseReturns, AlertKept, QueueKept
  <2>2. CASE CloseReturns(FALSE)
    BY <2>2 DEF CloseReturns, AlertKept, QueueKept
  <2>3. QED BY <1>1, <2>1, <2>2
<1>4. Waiting' = Waiting /\ Held' = Held /\ (Sentinel' <=> Sentinel)
  BY <1>2 DEF Waiting, Held, Sentinel
<1>5. QueueKept'
  BY <1>1, <1>2, <1>3, <1>4 DEF AlertKept, QueueKept, Closing
<1>6. QED BY <1>2, <1>5, UnchangedLevel DEF AlertKept

LEMMA AlertStep == AlertKept /\ [AlertNext]_alertVars => AlertKept'
<1> SUFFICES ASSUME AlertKept, [AlertNext]_alertVars PROVE AlertKept'
  OBVIOUS
<1>1. CASE AlertTick
  <2>1. /\ level' = [level EXCEPT !.quiet = UpTo(Cooldown, @)]
        /\ UNCHANGED <<mode, queue, worker, unread, stopQueued, clean, accepted, told, last, hushed>>
    BY <1>1 DEF AlertTick, threadVars, closeVars
  <2>2. level' = [state |-> level.state, candidate |-> level.candidate,
                  count |-> level.count, quiet |-> UpTo(Cooldown, level.quiet)]
    <3>1. ASSUME NEW s, NEW c, NEW n, NEW q,
                 level = [state |-> s, candidate |-> c, count |-> n, quiet |-> q]
          PROVE  level' = [state |-> s, candidate |-> c, count |-> n, quiet |-> UpTo(Cooldown, q)]
      BY <2>1, <3>1
    <3>2. QED BY <3>1 DEF AlertKept, LevelKept
  <2>3. level.quiet \in 0..Cooldown
    BY DEF AlertKept, LevelKept
  <2>4. /\ UpTo(Cooldown, level.quiet) \in 0..Cooldown
        /\ level.quiet = Cooldown => UpTo(Cooldown, level.quiet) = Cooldown
    BY <2>3, AlertAssumption DEF UpTo
  <2>5. /\ level'.candidate = level.candidate /\ level'.count = level.count
        /\ level'.quiet = UpTo(Cooldown, level.quiet)
    BY <2>2
  <2>6. LevelKept'
    BY <2>1, <2>2, <2>4, <2>5, LevelUntouched DEF AlertKept
  <2>7. QED BY <2>1, <2>6, UnsubmittedQueue DEF AlertKept
<1>2. CASE Sampled
  <2>1. PICK reading \in Readings :
           Advance(Assess(Observations(reading, Remembered(growth, reading.rss))))
    BY <1>2 DEF Sampled
  <2>2. mode = "running" /\ UNCHANGED <<mode, worker, stopQueued, clean, unread, told>>
    BY <1>2 DEF Sampled, Fires, threadVars, closeVars
  <2>3. QED BY <2>1, <2>2, TargetsAreLevels, AdvanceKeeps
<1>3. CASE SampleFails
  BY <1>3, UnsubmittedQueue, UnchangedLevel DEF SampleFails, threadVars, closeVars, AlertKept
<1>4. CASE CheckStaleness
  <2>1. mode = "running" /\ UNCHANGED <<mode, worker, stopQueued, clean, unread, told>>
    BY <1>4 DEF CheckStaleness, Fires, threadVars, closeVars
  <2>2. CASE Staleness = {}
    <3>1. UNCHANGED <<level, queue, accepted, last, hushed>>
      BY <1>4, <2>2 DEF CheckStaleness
    <3>2. QED BY <2>1, <3>1, UnsubmittedQueue, UnchangedLevel DEF AlertKept
  <2>3. CASE Staleness # {}
    <3>1. PICK target \in Staleness : Advance(target)
      BY <1>4, <2>3 DEF CheckStaleness
    <3>2. target \in Levels
      BY TargetsAreLevels
    <3>3. QED BY <2>1, <3>1, <3>2, AdvanceKeeps
  <2>4. QED BY <2>2, <2>3
<1>5. CASE SystemHealth
  <2> DEFINE card == Card("SYSTEM", "READY")
  <2>1. card \in AlertCards /\ card.about = "SYSTEM"
    BY DEF AlertCards, Card
  <2>2. /\ Submit(card) /\ mode = "running"
        /\ UNCHANGED <<mode, worker, stopQueued, clean, unread, level, told, hushed>>
    BY <1>5 DEF SystemHealth, threadVars, closeVars
  <2> HIDE DEF card
  <2>3. QED BY <2>1, <2>2, SubmitQueue, SystemLevel DEF AlertKept
<1>6. CASE DrainResults
  <2>1. /\ mode = "running" /\ unread' = 0
        /\ UNCHANGED <<mode, level, queue, worker, stopQueued, clean, accepted, told, last, hushed>>
    BY <1>6 DEF DrainResults, closeVars
  <2>2. QueueKept'
    BY <2>1 DEF AlertKept, QueueKept, Waiting, Held, Sentinel
  <2>3. QED BY <2>1, <2>2, UnchangedLevel DEF AlertKept
<1>7. CASE Take
  BY <1>7, TakeKeeps
<1>8. CASE Post
  BY <1>8, PostKeeps
<1>9. CASE Report
  <2>1. /\ worker = "reporting" /\ worker' = "idle" /\ unread' = unread + 1
        /\ UNCHANGED <<mode, level, queue, stopQueued, clean, accepted, told, last, hushed>>
    BY <1>9 DEF Report, closeVars
  <2>2. QueueKept'
    BY <2>1 DEF AlertKept, QueueKept, Waiting, Held, Sentinel
  <2>3. QED BY <2>1, <2>2, UnchangedLevel DEF AlertKept
<1>10. CASE StopActors
  <2>1. /\ level' = [level EXCEPT !.candidate = "none", !.count = 0, !.quiet = Cooldown]
        /\ mode = "running" /\ mode' = "stop"
        /\ UNCHANGED <<queue, worker, unread, stopQueued, clean, accepted, told, last, hushed>>
    BY <1>10 DEF StopActors, threadVars, closeVars
  <2>2. level' = [state |-> level.state, candidate |-> "none", count |-> 0, quiet |-> Cooldown]
    <3>1. ASSUME NEW s, NEW c, NEW n, NEW q,
                 level = [state |-> s, candidate |-> c, count |-> n, quiet |-> q]
          PROVE  level' = [state |-> s, candidate |-> "none", count |-> 0, quiet |-> Cooldown]
      BY <2>1, <3>1
    <3>2. QED BY <3>1 DEF AlertKept, LevelKept
  <2>3. level'.candidate = "none" /\ level'.count = 0 /\ level'.quiet = Cooldown
    BY <2>2
  <2>4. LevelKept'
    <3>1. level'.quiet \in 0..Cooldown
      BY <2>3, AlertAssumption
    <3>2. level' = [state |-> level.state, candidate |-> level'.candidate,
                    count |-> level'.count, quiet |-> level'.quiet]
      BY <2>2, <2>3
    <3>3. QED BY <2>1, <2>3, <3>1, <3>2, LevelUntouched DEF AlertKept
  <2>5. QueueKept'
    BY <2>1 DEF AlertKept, QueueKept, Waiting, Held, Sentinel
  <2>6. QED BY <2>4, <2>5 DEF AlertKept
<1>11. CASE Dispose
  <2>1. /\ mode = "stopped" /\ mode' = "dispose"
        /\ UNCHANGED <<level, queue, worker, unread, stopQueued, clean, accepted, told, last, hushed>>
    BY <1>11 DEF Dispose, threadVars, closeVars
  <2>2. QueueKept'
    BY <2>1 DEF AlertKept, QueueKept, Waiting, Held, Sentinel
  <2>3. QED BY <2>1, <2>2, UnchangedLevel DEF AlertKept
<1>12. CASE QueueSentinel
  BY <1>12, QueueSentinelKeeps
<1>13. CASE CloseSucceeds \/ CloseTimesOut
  BY <1>13, CloseKeeps
<1>14. CASE UNCHANGED alertVars
  BY <1>14, UnsubmittedQueue, UnchangedLevel DEF alertVars, AlertKept
<1>15. QED BY <1>1, <1>2, <1>3, <1>4, <1>5, <1>6, <1>7, <1>8, <1>9, <1>10, <1>11, <1>12, <1>13,
             <1>14 DEF AlertNext

(* For any sequence of samples, failures and posts: when the last resource  *)
(* card arrived the channel shows the level of the evaluator, except for a  *)
(* warning within the cooldown, and a close that on_stop reports as         *)
(* complete left no card and no result behind.                              *)
THEOREM AlertsCorrect == AlertSpec => []AlertInv
<1>1. AlertInit => AlertKept
  <2> SUFFICES ASSUME AlertInit PROVE AlertKept
    OBVIOUS
  <2>1. /\ queue = <<>> /\ accepted = <<>> /\ worker = "idle" /\ ~stopQueued /\ stopQueued \in BOOLEAN
        /\ ~clean /\ clean \in BOOLEAN /\ mode \in {"off", "running"} /\ hushed \in BOOLEAN
        /\ Len(queue) = 0 /\ Len(accepted) = 0 /\ queue \in Seq(AlertEntries) /\ accepted \in Seq(AlertCards)
    BY EmptySeq DEF AlertInit
  <2>2. Held = 0 /\ Waiting = 0 /\ ~Sentinel
    BY <2>1 DEF Held, Waiting, Sentinel
  <2>3. QueueKept
    <3>1. \A i \in 1..Waiting : queue[i] = accepted[Held + i]
      BY <2>2
    <3>2. Len(accepted) = Held + Waiting
      BY <2>1, <2>2
    <3>3. QED BY <2>1, <2>2, <3>1, <3>2 DEF QueueKept
  <2>4. ~Pending(accepted)
    BY <2>1 DEF Pending
  <2>5. LevelKept
    <3>1. /\ level = [state |-> "NORMAL", candidate |-> "none", count |-> 0, quiet |-> Cooldown]
          /\ last = "none" /\ told = "NORMAL"
      BY DEF AlertInit
    <3>2. /\ level.state = "NORMAL" /\ level.quiet = Cooldown
          /\ level = [state |-> level.state, candidate |-> level.candidate,
                      count |-> level.count, quiet |-> level.quiet]
      BY <3>1
    <3>3. Cooldown \in 0..Cooldown /\ "NORMAL" \in Levels
      BY AlertAssumption DEF Levels
    <3>4. QED BY <2>1, <2>4, <3>1, <3>2, <3>3 DEF LevelKept
  <2>6. QED BY <2>3, <2>5 DEF AlertKept
<1>2. AlertKept => AlertInv
  <2> SUFFICES ASSUME AlertKept PROVE AlertInv
    OBVIOUS
  <2>1. ChannelAgrees
    BY DEF AlertKept, LevelKept, ChannelAgrees, Agrees
  <2>2. CleanCloseSettles
    <3> SUFFICES ASSUME clean PROVE accepted = <<>> /\ queue = <<>> /\ unread = 0
      BY DEF CleanCloseSettles
    <3>1. worker = "ended" /\ queue = <<>> /\ unread = 0
      BY DEF AlertKept, QueueKept
    <3>2. Len(accepted) = 0
      BY <3>1, EmptySeq DEF AlertKept, QueueKept, Held, Waiting, Sentinel
    <3>3. QED BY <3>1, <3>2, EmptySeq DEF AlertKept, QueueKept
  <2>3. QED BY <2>1, <2>2 DEF AlertInv
<1>3. QED BY <1>1, <1>2, AlertStep, PTL DEF AlertSpec
------------------------------------------------------------------------------
(* A nonempty set of naturals has a least element.                          *)
LEMMA Smallest ==
    ASSUME NEW N \in SUBSET Nat, N # {}
    PROVE  \E n \in N : \A m \in N : n <= m
<1>1. PICK n \in N : \A m \in N : <<m, n>> \notin OpToRel(<, Nat)
  BY NatLessThanWellFounded, WFMin
<1>2. ASSUME NEW m \in N PROVE n <= m
  <2>1. m \in Nat /\ n \in Nat /\ <<m, n>> \in Nat \X Nat
    OBVIOUS
  <2>2. m < n => <<m, n>> \in OpToRel(<, Nat)
    BY <2>1 DEF OpToRel
  <2>3. ~(m < n)
    BY <1>1, <2>2, Zenon
  <2>4. QED BY <2>1, <2>3
<1>3. QED BY <1>2

(* The evidence of acquisition and health, for any streams, policies,       *)
(* demands, phases, observations and failing port calls.                    *)

(* A finite set of naturals has a greatest element.                         *)
LEMMA Greatest ==
    ASSUME NEW S \in SUBSET Nat, IsFiniteSet(S), S # {}
    PROVE  \E x \in S : \A y \in S : y <= x
<1> DEFINE Sized(n) == \A T \in SUBSET Nat : IsFiniteSet(T) /\ Cardinality(T) = n /\ T # {} =>
                           \E x \in T : \A y \in T : y <= x
           N == {n \in Nat : ~Sized(n)}
<1>1. N = {}
  <2> SUFFICES ASSUME N # {} PROVE FALSE
    OBVIOUS
  <2> HIDE DEF Sized
  <2>1. PICK n \in N : \A m \in N : n <= m
    <3>1. N \in SUBSET Nat
      OBVIOUS
    <3> HIDE DEF N
    <3>2. QED BY <3>1, Smallest
  <2>2. n \in Nat /\ ~Sized(n) /\ \A m \in Nat : m < n => Sized(m)
    BY <2>1
  <2>3. PICK T \in SUBSET Nat : /\ IsFiniteSet(T) /\ Cardinality(T) = n /\ T # {}
                                /\ ~\E x \in T : \A y \in T : y <= x
    BY <2>2 DEF Sized
  <2>4. PICK t \in T : TRUE
    BY <2>3
  <2>5. IsFiniteSet(T \ {t}) /\ Cardinality(T \ {t}) = n - 1 /\ T \ {t} \in SUBSET Nat
    BY <2>3, FS_RemoveElement
  <2>6. n # 0
    BY <2>3, FS_EmptySet
  <2>7. Sized(n - 1)
    BY <2>2, <2>6
  <2>8. T \ {t} # {} => \E x \in T \ {t} : \A y \in T \ {t} : y <= x
    BY <2>5, <2>7 DEF Sized
  <2>9. CASE T \ {t} = {}
    BY <2>3, <2>9
  <2>10. CASE T \ {t} # {}
    <3>1. PICK x \in T \ {t} : \A y \in T \ {t} : y <= x
      BY <2>8, <2>10
    <3>2. x \in Nat /\ t \in Nat
      OBVIOUS
    <3>3. CASE x <= t
      <4>1. ASSUME NEW y \in T PROVE y <= t
        BY <3>1, <3>2, <3>3
      <4>2. QED BY <2>3, <4>1
    <3>4. CASE ~(x <= t)
      <4>1. ASSUME NEW y \in T PROVE y <= x
        BY <3>1, <3>2, <3>4
      <4>2. QED BY <2>3, <4>1
    <3>5. QED BY <3>3, <3>4
  <2>11. QED BY <2>9, <2>10
<1>2. Cardinality(S) \in Nat
  BY FS_CardinalityType
<1>3. Sized(Cardinality(S))
  BY <1>1, <1>2
<1>4. QED BY <1>3

(* The demand with the greatest id.                                         *)
LEMMA LastIdIsMember ==
    ASSUME NEW ds \in SUBSET Asked, ds # {}
    PROVE  LastId(ds) \in ds
<1> DEFINE ids == {d.id : d \in ds}
<1>1. IsFiniteSet(ds)
  BY EvidenceAssumption, FS_Subset
<1>2. IsFiniteSet(ids)
  <2>1. [d \in ds |-> d.id] \in Surjection(ds, ids)
    BY Zenon DEF Surjection
  <2>2. QED BY <1>1, <2>1, FS_Surjection
<1>3. ids \in SUBSET Nat /\ ids # {}
  BY EvidenceAssumption
<1>4. PICK x \in ids : \A y \in ids : y <= x
  <2> HIDE DEF ids
  <2>1. QED BY <1>2, <1>3, Greatest
<1>5. PICK d \in ds : x = d.id
  OBVIOUS
<1>6. \A e \in ds : e.id <= d.id
  BY <1>4, <1>5
<1>7. QED BY <1>6 DEF LastId

LEMMA OldestIsNatural == Feeds # {} => Oldest \in Nat
<1> SUFFICES ASSUME Feeds # {} PROVE Oldest \in Nat
  OBVIOUS
<1> DEFINE fixed == {Policy[s].unavailable : s \in Feeds}
           learned == {Policy[s].maxUnavailable : s \in Feeds}
<1>1. IsFiniteSet(fixed) /\ IsFiniteSet(learned)
  <2>1. [s \in Feeds |-> Policy[s].unavailable] \in Surjection(Feeds, fixed)
    BY Zenon DEF Surjection
  <2>2. [s \in Feeds |-> Policy[s].maxUnavailable] \in Surjection(Feeds, learned)
    BY Zenon DEF Surjection
  <2>3. QED BY <2>1, <2>2, EvidenceAssumption, FS_Surjection
<1>2. fixed \in SUBSET Nat /\ learned \in SUBSET Nat /\ fixed # {}
  BY EvidenceAssumption DEF Loads
<1> DEFINE all == fixed \cup learned
<1>3. IsFiniteSet(all)
  BY <1>1, FS_Union
<1>4. all \in SUBSET Nat /\ all # {}
  BY <1>2
<1>5. Oldest = 1 + Max(all)
  BY DEF Oldest
<1> HIDE DEF all, fixed, learned
<1>6. PICK x \in all : \A y \in all : y <= x
  BY <1>3, <1>4, Greatest
<1>7. \E m \in all : \A y \in all : m >= y
  BY <1>4, <1>6
<1>8. Max(all) \in all
  <2>1. PICK m : m = CHOOSE z \in all : \A w \in all : z >= w
    OBVIOUS
  <2>2. m \in all
    BY <1>7, <2>1
  <2>3. Max(all) = m
    BY <2>1 DEF Max
  <2>4. QED BY <2>2, <2>3
<1>9. PICK m \in all : Oldest = 1 + m
  BY <1>5, <1>8
<1>10. m \in Nat
  BY <1>4
<1>11. QED BY <1>9, <1>10

(* No learned threshold is wider than the policy allows.                    *)
Widest(s) == AtLeast(Policy[s].fresh, Policy[s].maxFresh)

Thresholds(s) == {limits \in [fresh : Int, stale : Int, unavailable : Int] : limits.fresh <= Widest(s)}

Profiles(s) == [count : Nat, limits : Thresholds(s)]

LEMMA PolicyConstants ==
    ASSUME NEW s \in Feeds
    PROVE  /\ Loads(Policy[s]) /\ Widest(s) \in Nat
           /\ Policy[s].fresh <= Widest(s) /\ Policy[s].maxFresh <= Widest(s)
           /\ Fixed(Policy[s]) \in Thresholds(s) /\ Unlearned(s) \in Profiles(s)
<1>1. Loads(Policy[s])
  BY EvidenceAssumption
<1>2. /\ Widest(s) \in Nat /\ Policy[s].fresh <= Widest(s) /\ Policy[s].maxFresh <= Widest(s)
  BY <1>1 DEF Loads, Widest, AtLeast
<1>3. Fixed(Policy[s]) \in Thresholds(s)
  BY <1>1, <1>2 DEF Loads, Fixed, Thresholds
<1>4. QED BY <1>1, <1>2, <1>3 DEF Unlearned, Profiles

LEMMA Product == ASSUME NEW a \in Nat, NEW b \in Nat PROVE a * b \in Nat
OBVIOUS

LEMMA LearnedIsBounded ==
    ASSUME NEW s \in Feeds, NEW mean \in Nat, NEW deviation \in Nat
    PROVE  Adaptive(Policy[s], mean, deviation) \in Thresholds(s)
<1>1. PICK p : p = Policy[s]
  OBVIOUS
<1>2. /\ p.sigmaFresh \in Nat /\ p.sigmaStale \in Nat /\ p.sigmaUnavailable \in Nat
      /\ p.minFresh \in Nat /\ p.minStale \in Nat /\ p.minUnavailable \in Nat
      /\ p.maxFresh \in Nat /\ p.maxStale \in Nat /\ p.maxUnavailable \in Nat
      /\ p.minFresh <= p.maxFresh
  BY <1>1, PolicyConstants DEF Loads
<1>3. PICK a \in Int, b \in Int, c \in Int :
          /\ a = mean + p.sigmaFresh * deviation /\ b = mean + p.sigmaStale * deviation
          /\ c = mean + p.sigmaUnavailable * deviation
  <2>1. /\ p.sigmaFresh * deviation \in Nat /\ p.sigmaStale * deviation \in Nat
        /\ p.sigmaUnavailable * deviation \in Nat
    BY <1>2, Product
  <2>2. QED BY <2>1
<1>4. PICK fresh : fresh = Bounded(a, p.minFresh, p.maxFresh)
  OBVIOUS
<1>5. fresh \in Int /\ fresh <= p.maxFresh
  BY <1>2, <1>3, <1>4 DEF Bounded
<1>6. PICK stale : stale = Bounded(b, AtLeast(p.minStale, fresh + 1), p.maxStale)
  OBVIOUS
<1>7. stale \in Int
  <2>1. AtLeast(p.minStale, fresh + 1) \in Int
    BY <1>2, <1>5 DEF AtLeast
  <2>2. QED BY <1>2, <1>3, <1>6, <2>1 DEF Bounded
<1>8. PICK unavailable : unavailable = Bounded(c, AtLeast(p.minUnavailable, stale + 1), p.maxUnavailable)
  OBVIOUS
<1>9. unavailable \in Int
  <2>1. AtLeast(p.minUnavailable, stale + 1) \in Int
    BY <1>2, <1>7 DEF AtLeast
  <2>2. QED BY <1>2, <1>3, <1>8, <2>1 DEF Bounded
<1>10. Adaptive(p, mean, deviation) = [fresh |-> fresh, stale |-> stale, unavailable |-> unavailable]
  BY <1>3, <1>4, <1>6, <1>8 DEF Adaptive
<1>11. fresh <= Widest(s)
  BY <1>1, <1>2, <1>5, PolicyConstants
<1>12. QED BY <1>1, <1>5, <1>7, <1>9, <1>10, <1>11 DEF Thresholds

LEMMA UpdatesAreProfiles ==
    ASSUME NEW s \in Feeds, NEW old \in Profiles(s), NEW p \in Updates(s, old)
    PROVE  p \in Profiles(s)
<1>1. PICK limits \in Learnable[s] :
          p = [count |-> IF old.count < Policy[s].minimum THEN old.count + 1 ELSE old.count,
               limits |-> limits]
  BY DEF Updates
<1>2. limits \in {Adaptive(Policy[s], mean, deviation) :
                       mean \in 0..Oldest, deviation \in 0..Oldest}
  BY <1>1 DEF Learnable
<1>3. PICK mean \in 0..Oldest, deviation \in 0..Oldest :
          limits = Adaptive(Policy[s], mean, deviation)
  BY <1>2
<1>4. mean \in Nat /\ deviation \in Nat
  BY OldestIsNatural
<1>5. limits \in Thresholds(s)
  BY <1>3, <1>4, LearnedIsBounded
<1>6. QED BY <1>1, <1>5 DEF Profiles

(* The evidence actor.                                                      *)
Verdicts == {"HEALTHY", "DEGRADED", "STALE", "UNAVAILABLE", "NOT_EVALUATED", "DORMANT"}
Happenings == {"REQUESTED", "ACCEPTED", "CANCELED", "COMPLETED", "FAILED", "SUBSCRIBED", "ACTIVE"}
Contexts == Phases \cup {None, "CLOSED"}
AnyProfile == [count : Nat, limits : [fresh : Int, stale : Int, unavailable : Int]]

Evidences ==
    [active : {"off", "waiting", "started", "stopped"},
     attached : SUBSET Feeds, broken : SUBSET Feeds,
     stage : [Feeds -> Happenings], session : Contexts,
     age : [Feeds -> Nat \cup {None}], judged : [Feeds -> Verdicts \cup {None}],
     profile : [Feeds -> [Phases -> AnyProfile]]]

Typed(e) ==
    /\ e \in Evidences
    /\ \A s \in Feeds : \A phase \in Phases : e.profile[s][phase] \in Profiles(s)
    /\ e.active # "off" => e.broken = Feeds \ e.attached
    /\ e.active = "off" => e.broken = {} /\ \A s \in Feeds : e.stage[s] = "REQUESTED"

(* What the verdict on one stream is worth, so many evaluation intervals    *)
(* after it was last judged.                                                *)
Fit(e, s, slack) ==
    /\ e.judged[s] = "HEALTHY" =>
          /\ InSession(e.session) /\ e.age[s] \in Nat /\ e.age[s] <= Widest(s) + slack
          /\ e.stage[s] \notin Dead /\ s \in e.attached
    /\ e.stage[s] \in Dead => e.judged[s] = "UNAVAILABLE"

EvidenceKept(e, slack) ==
    /\ Typed(e)
    /\ e.active = "started" => \A s \in Feeds : Fit(e, s, slack)

LEMMA LimitsBounded ==
    ASSUME NEW e, Typed(e), NEW s \in Feeds
    PROVE  Limits(e, s) \in Thresholds(s)
<1>1. PICK p : p = IF InSession(e.session) THEN e.profile[s][e.session] ELSE Unlearned(s)
  OBVIOUS
<1>2. p \in Profiles(s)
  BY <1>1, PolicyConstants DEF Typed, InSession
<1>3. Limits(e, s) = Effective(Policy[s], p)
  BY <1>1 DEF Limits
<1>4. p.limits \in Thresholds(s)
  BY <1>2 DEF Profiles
<1>5. QED BY <1>3, <1>4, PolicyConstants DEF Effective

LEMMA AssessmentSound ==
    ASSUME NEW s \in Feeds, NEW limits \in Thresholds(s), NEW years \in Nat \cup {None},
           NEW event, NEW context \in Contexts
    PROVE  /\ Assessment(limits, years, event, context) \in Verdicts
           /\ event \in Dead => Assessment(limits, years, event, context) = "UNAVAILABLE"
           /\ Assessment(limits, years, event, context) = "HEALTHY" =>
                 /\ event \notin Dead /\ InSession(context)
                 /\ years \in Nat /\ years <= Widest(s)
<1>1. PICK a : a = Assessment(limits, years, event, context)
  OBVIOUS
<1>2. /\ limits.fresh \in Int /\ limits.stale \in Int /\ limits.unavailable \in Int
      /\ limits.fresh <= Widest(s) /\ Widest(s) \in Nat
  BY PolicyConstants DEF Thresholds
<1>3. None \notin Phases /\ None # "CLOSED" /\ "CLOSED" \notin Phases /\ None \notin Nat
  BY EvidenceAssumption
<1>4. CASE event \in Dead
  <2>1. a = "UNAVAILABLE"
    BY <1>1, <1>4 DEF Assessment
  <2>2. QED BY <1>1, <1>4, <2>1 DEF Verdicts
<1>5. CASE event \notin Dead /\ context = None
  <2>1. a = "NOT_EVALUATED"
    BY <1>1, <1>3, <1>5 DEF Assessment, InSession
  <2>2. QED BY <1>1, <1>5, <2>1 DEF Verdicts
<1>6. CASE event \notin Dead /\ context = "CLOSED"
  <2>1. a = "DORMANT"
    BY <1>1, <1>3, <1>6 DEF Assessment, InSession
  <2>2. QED BY <1>1, <1>6, <2>1 DEF Verdicts
<1>7. CASE event \notin Dead /\ InSession(context) /\ years = None
  <2>1. a = "DEGRADED"
    BY <1>1, <1>3, <1>7 DEF Assessment, InSession
  <2>2. QED BY <1>1, <1>7, <2>1 DEF Verdicts
<1>8. CASE event \notin Dead /\ InSession(context) /\ years # None
  <2>1. a = ByAge(limits, years)
    BY <1>1, <1>3, <1>8 DEF Assessment, InSession
  <2>2. years \in Nat
    BY <1>8
  <2>3. a \in Verdicts /\ (a = "HEALTHY" => years <= limits.fresh)
    BY <2>1 DEF ByAge, Verdicts
  <2>4. a = "HEALTHY" => years <= Widest(s)
    BY <1>2, <2>2, <2>3
  <2>5. QED BY <1>1, <1>8, <2>2, <2>3, <2>4
<1>9. QED BY <1>4, <1>5, <1>6, <1>7, <1>8 DEF Contexts, InSession

LEMMA JudgeFits ==
    ASSUME NEW e, Typed(e), e.active # "off", NEW touched \in SUBSET Feeds, NEW slack \in {0, 1},
           e.active = "started" => \A s \in Feeds \ touched : Fit(e, s, slack)
    PROVE  /\ EvidenceKept(Judge(e, touched), slack)
           /\ Judge(e, touched).active = e.active /\ Judge(e, touched).stage = e.stage
           /\ touched = Feeds => EvidenceKept(Judge(e, touched), 0)
<1> DEFINE verdict(s) == Assessment(Limits(e, s), e.age[s],
                                    IF s \in e.broken THEN "FAILED" ELSE e.stage[s], e.session)
<1>1. PICK j : j = [s \in Feeds |-> IF s \in touched THEN verdict(s) ELSE e.judged[s]]
  OBVIOUS
<1>2. PICK g : g = [e EXCEPT !.judged = j]
  OBVIOUS
<1>3. Judge(e, touched) = g
  BY <1>1, <1>2 DEF Judge
<1>4. \A s \in touched : /\ verdict(s) \in Verdicts
                         /\ e.stage[s] \in Dead \/ s \in e.broken => verdict(s) = "UNAVAILABLE"
                         /\ verdict(s) = "HEALTHY" =>
                               /\ e.stage[s] \notin Dead /\ s \notin e.broken
                               /\ InSession(e.session)
                               /\ e.age[s] \in Nat /\ e.age[s] <= Widest(s)
  <2>1. TAKE s \in touched
  <2>2. Limits(e, s) \in Thresholds(s)
    BY LimitsBounded
  <2>3. e.age[s] \in Nat \cup {None} /\ e.session \in Contexts
    BY DEF Typed, Evidences
  <2>4. PICK event : event = IF s \in e.broken THEN "FAILED" ELSE e.stage[s]
    OBVIOUS
  <2>5. verdict(s) = Assessment(Limits(e, s), e.age[s], event, e.session)
    BY <2>4
  <2>6. event \in Dead <=> e.stage[s] \in Dead \/ s \in e.broken
    BY <2>4 DEF Dead
  <2> HIDE DEF verdict
  <2>7. PICK limits \in Thresholds(s), years \in Nat \cup {None}, context \in Contexts :
            limits = Limits(e, s) /\ years = e.age[s] /\ context = e.session
    BY <2>2, <2>3
  <2>8. /\ Assessment(limits, years, event, context) \in Verdicts
        /\ event \in Dead => Assessment(limits, years, event, context) = "UNAVAILABLE"
        /\ Assessment(limits, years, event, context) = "HEALTHY" =>
              /\ event \notin Dead /\ InSession(context)
              /\ years \in Nat /\ years <= Widest(s)
    BY AssessmentSound
  <2>9. verdict(s) = Assessment(limits, years, event, context)
    BY <2>5, <2>7
  <2>10. QED BY <2>6, <2>7, <2>8, <2>9
<1> HIDE DEF verdict
<1>5. j \in [Feeds -> Verdicts \cup {None}]
  <2>1. e.judged \in [Feeds -> Verdicts \cup {None}]
    BY DEF Typed, Evidences
  <2>2. QED BY <1>1, <1>4, <2>1
<1>6. /\ g \in Evidences /\ g.judged = j /\ g.active = e.active /\ g.stage = e.stage
      /\ g.session = e.session /\ g.age = e.age /\ g.attached = e.attached /\ g.broken = e.broken
      /\ g.profile = e.profile
  BY <1>2, <1>5 DEF Typed, Evidences
<1>7. Typed(g)
  BY <1>6 DEF Typed
<1>8. ASSUME NEW s \in touched PROVE Fit(g, s, 0) /\ Fit(g, s, 1)
  <2>1. g.judged[s] = verdict(s)
    BY <1>1, <1>6
  <2>2. s \notin e.broken => s \in e.attached
    BY DEF Typed
  <2>3. Widest(s) \in Nat
    BY PolicyConstants
  <2>4. QED BY <1>4, <1>6, <2>1, <2>2, <2>3 DEF Fit
<1>9. ASSUME NEW s \in Feeds \ touched, e.active = "started" PROVE Fit(g, s, slack)
  <2>1. g.judged[s] = e.judged[s]
    BY <1>1, <1>6
  <2>2. QED BY <1>6, <1>9, <2>1 DEF Fit
<1>10. EvidenceKept(g, slack)
  BY <1>6, <1>7, <1>8, <1>9 DEF EvidenceKept
<1>11. touched = Feeds => EvidenceKept(g, 0)
  BY <1>7, <1>8 DEF EvidenceKept
<1>12. QED BY <1>3, <1>6, <1>10, <1>11

(* The lifecycle events of one operation, per stream.                       *)
Told(events) == \A s \in Feeds : events[s] \in Seq(Happenings)

LEMMA HearKeeps ==
    ASSUME NEW e, NEW slack \in {0, 1}, EvidenceKept(e, slack), NEW events, Told(events)
    PROVE  /\ EvidenceKept(Hear(e, events), slack)
           /\ Hear(e, events).active = e.active
           /\ Listens(e) => \A s \in Feeds :
                 Hear(e, events).stage[s] = IF events[s] = <<>> THEN e.stage[s] ELSE Last(events[s])
<1>1. CASE ~Listens(e)
  BY <1>1 DEF Hear
<1>2. CASE Listens(e)
  <2>1. PICK heard : heard = {s \in Feeds : events[s] # <<>>}
    OBVIOUS
  <2>2. PICK st : st = [s \in Feeds |-> IF s \in heard THEN Last(events[s]) ELSE e.stage[s]]
    OBVIOUS
  <2>3. PICK g : g = [e EXCEPT !.stage = st]
    OBVIOUS
  <2>4. Hear(e, events) = JudgeIfStarted(g, heard)
    BY <1>2, <2>1, <2>2, <2>3 DEF Hear
  <2>5. ASSUME NEW s \in heard PROVE Last(events[s]) \in Happenings
    <3>1. events[s] \in Seq(Happenings) /\ events[s] # <<>>
      BY <2>1 DEF Told
    <3>2. QED BY <3>1 DEF Last
  <2>6. st \in [Feeds -> Happenings]
    <3>1. e.stage \in [Feeds -> Happenings]
      BY DEF EvidenceKept, Typed, Evidences
    <3>2. QED BY <2>1, <2>2, <2>5, <3>1
  <2>7. /\ g \in Evidences /\ g.stage = st /\ g.active = e.active /\ g.judged = e.judged
        /\ g.session = e.session /\ g.age = e.age /\ g.attached = e.attached
        /\ g.broken = e.broken /\ g.profile = e.profile
    BY <2>3, <2>6 DEF EvidenceKept, Typed, Evidences
  <2>8. Typed(g) /\ g.active \in {"waiting", "started"}
    BY <1>2, <2>7 DEF EvidenceKept, Typed, Listens
  <2>9. g.active = "started" => \A s \in Feeds \ heard : Fit(g, s, slack)
    BY <2>1, <2>2, <2>7 DEF EvidenceKept, Fit
  <2>10. /\ EvidenceKept(JudgeIfStarted(g, heard), slack)
         /\ JudgeIfStarted(g, heard).active = g.active /\ JudgeIfStarted(g, heard).stage = st
    <3>1. CASE g.active = "started"
      <4>1. heard \in SUBSET Feeds
        BY <2>1
      <4>2. JudgeIfStarted(g, heard) = Judge(g, heard)
        BY <3>1 DEF JudgeIfStarted
      <4>3. QED BY <2>7, <2>8, <2>9, <3>1, <4>1, <4>2, JudgeFits
    <3>2. CASE g.active # "started"
      BY <2>7, <2>8, <3>2 DEF JudgeIfStarted, EvidenceKept
    <3>3. QED BY <3>1, <3>2
  <2>11. \A s \in Feeds : st[s] = IF events[s] = <<>> THEN e.stage[s] ELSE Last(events[s])
    BY <2>1, <2>2
  <2>12. QED BY <1>2, <2>4, <2>7, <2>10, <2>11
<1>3. QED BY <1>1, <1>2

(* An observation.                                                          *)
LEMMA SeenKeeps ==
    ASSUME NEW e, NEW slack \in {0, 1}, EvidenceKept(e, slack), NEW s \in Streams, NEW old \in BOOLEAN,
           NEW g \in Seen(e, s, old)
    PROVE  EvidenceKept(g, slack) /\ g.active = e.active /\ g.stage = e.stage
<1>1. CASE ~Listens(e) \/ s \notin e.attached \/ old
  BY <1>1 DEF Seen
<1>2. CASE Listens(e) /\ s \in e.attached /\ ~old
  <2>1. Typed(e) /\ s \in Feeds /\ e.active \in {"waiting", "started"}
    BY <1>2 DEF EvidenceKept, Typed, Evidences, Listens
  <2>2. PICK l : /\ g = Judge([l EXCEPT !.age[s] = 0], {s})
                 /\ l \in IF Trains(e, s)
                          THEN {[e EXCEPT !.profile[s][e.session] = p] :
                                   p \in Updates(s, e.profile[s][e.session])}
                          ELSE {e}
    BY <1>2 DEF Seen
  <2>3. /\ Typed(l) /\ l.active = e.active /\ l.stage = e.stage /\ l.judged = e.judged
        /\ l.session = e.session /\ l.age = e.age /\ l.attached = e.attached
    <3>1. CASE Trains(e, s)
      <4>1. e.session \in Phases
        BY <3>1 DEF Trains, InSession
      <4>2. PICK p \in Updates(s, e.profile[s][e.session]) :
                l = [e EXCEPT !.profile[s][e.session] = p]
        BY <2>2, <3>1
      <4>3. e.profile[s][e.session] \in Profiles(s)
        BY <2>1, <4>1 DEF Typed
      <4>4. p \in Profiles(s) /\ p \in AnyProfile
        BY <2>1, <4>3, UpdatesAreProfiles DEF Profiles, Thresholds, AnyProfile
      <4>5. PICK q : q = [e.profile[s] EXCEPT ![e.session] = p]
        OBVIOUS
      <4>6. PICK r : r = [e.profile EXCEPT ![s] = q]
        OBVIOUS
      <4>7. e.profile \in [Feeds -> [Phases -> AnyProfile]]
        BY <2>1 DEF Typed, Evidences
      <4>8. q \in [Phases -> AnyProfile] /\ \A phase \in Phases : q[phase] \in Profiles(s)
        BY <2>1, <4>1, <4>4, <4>5, <4>7 DEF Typed
      <4>9. /\ r \in [Feeds -> [Phases -> AnyProfile]]
            /\ \A t \in Feeds : \A phase \in Phases : r[t][phase] \in Profiles(t)
        BY <2>1, <4>6, <4>7, <4>8 DEF Typed
      <4>10. l = [e EXCEPT !.profile = r]
        BY <2>1, <4>2, <4>5, <4>6 DEF Typed, Evidences
      <4>11. /\ l \in Evidences /\ l.profile = r /\ l.active = e.active /\ l.stage = e.stage
             /\ l.judged = e.judged /\ l.session = e.session /\ l.age = e.age
             /\ l.attached = e.attached /\ l.broken = e.broken
        BY <2>1, <4>9, <4>10 DEF Typed, Evidences
      <4>12. QED BY <2>1, <4>9, <4>11 DEF Typed
    <3>2. CASE ~Trains(e, s)
      BY <2>1, <2>2, <3>2
    <3>3. QED BY <3>1, <3>2
  <2>4. PICK ages : ages = [l.age EXCEPT ![s] = 0]
    OBVIOUS
  <2>5. ages \in [Feeds -> Nat \cup {None}] /\ \A t \in Feeds \ {s} : ages[t] = l.age[t]
    BY <2>1, <2>3, <2>4 DEF Typed, Evidences
  <2>6. PICK k : k = [l EXCEPT !.age = ages]
    OBVIOUS
  <2>7. g = Judge(k, {s})
    BY <2>2, <2>4, <2>6
  <2>8. /\ k \in Evidences /\ k.age = ages /\ k.active = l.active /\ k.stage = l.stage
        /\ k.judged = l.judged /\ k.session = l.session /\ k.attached = l.attached
        /\ k.broken = l.broken /\ k.profile = l.profile
    BY <2>3, <2>5, <2>6 DEF Typed, Evidences
  <2>9. Typed(k) /\ k.active # "off"
    BY <2>1, <2>3, <2>8 DEF Typed
  <2>10. k.active = "started" => \A t \in Feeds \ {s} : Fit(k, t, slack)
    BY <2>3, <2>5, <2>8 DEF EvidenceKept, Fit
  <2>11. {s} \in SUBSET Feeds
    BY <2>1
  <2>12. /\ EvidenceKept(Judge(k, {s}), slack)
         /\ Judge(k, {s}).active = k.active /\ Judge(k, {s}).stage = k.stage
    BY <2>9, <2>10, <2>11, JudgeFits
  <2>13. QED BY <2>3, <2>7, <2>8, <2>12
<1>3. QED BY <1>1, <1>2

(* One operation of the coordinator and the events it publishes.            *)
LEMMA LastOfTwo ==
    ASSUME NEW S, NEW a \in Seq(S), NEW b \in Seq(S)
    PROVE  /\ a \o b \in Seq(S)
           /\ a \o b = <<>> <=> a = <<>> /\ b = <<>>
           /\ b # <<>> => Last(a \o b) = Last(b)
           /\ b = <<>> => a \o b = a
<1>1. /\ a \o b \in Seq(S) /\ Len(a \o b) = Len(a) + Len(b)
      /\ Len(a) \in Nat /\ Len(b) \in Nat
      /\ \A i \in 1..(Len(a) + Len(b)) :
            (a \o b)[i] = IF i <= Len(a) THEN a[i] ELSE b[i - Len(a)]
  BY ConcatProperties, LenProperties
<1>2. (a = <<>> <=> Len(a) = 0) /\ (b = <<>> <=> Len(b) = 0) /\ (a \o b = <<>> <=> Len(a \o b) = 0)
  BY <1>1, EmptySeq
<1>3. b # <<>> => Last(a \o b) = Last(b)
  <2>1. SUFFICES ASSUME b # <<>> PROVE Last(a \o b) = Last(b)
    OBVIOUS
  <2>2. PICK n \in Nat, m \in Nat : n = Len(a) /\ m = Len(b) /\ m > 0
    BY <1>1, <1>2, <2>1
  <2>3. n + m \in 1..(n + m) /\ ~(n + m <= n) /\ (n + m) - n = m
    BY <2>2
  <2>4. (a \o b)[n + m] = b[m]
    BY <1>1, <2>2, <2>3
  <2>5. QED BY <1>1, <2>2, <2>4 DEF Last
<1>4. QED BY <1>1, <1>2, <1>3

LEMMA Reconciles ==
    ASSUME NEW c, CoordinatorShape(c), NEW calls, NEW s
    PROVE  /\ Reconciliation(c, 0, calls, s) \in Seq(Happenings)
           /\ CoordinatorShape(Reconciled(c, 0, calls))
           /\ Reconciled(c, 0, calls).demands = c.demands
           /\ s \in DOMAIN Reconciled(c, 0, calls).subs =>
                 \/ /\ Reconciliation(c, 0, calls, s) = <<>>
                    /\ s \in DOMAIN c.subs /\ s \in DOMAIN Desired(c, 0)
                 \/ /\ Reconciliation(c, 0, calls, s) # <<>>
                    /\ Last(Reconciliation(c, 0, calls, s)) = "SUBSCRIBED"
                 \/ s \in Obsolete(c, Desired(c, 0)) /\ <<"unsubscribe", s>> \in calls
<1>1. PICK desired, stopped, started, missing :
          /\ desired = Desired(c, 0) /\ stopped = Unsubscribed(c, desired, calls)
          /\ started = Subscribed(c, desired, calls) /\ missing = Missing(c, desired, calls)
  OBVIOUS
<1>2. PICK a, b :
          /\ a = IF s \in stopped THEN <<"COMPLETED">>
                 ELSE IF s \in Obsolete(c, desired) THEN <<"FAILED">> ELSE <<>>
          /\ b = IF s \in started THEN <<"SUBSCRIBED">>
                 ELSE IF s \in missing THEN <<"FAILED">> ELSE <<>>
  OBVIOUS
<1>3. Reconciliation(c, 0, calls, s) = a \o b
  BY <1>1, <1>2 DEF Reconciliation
<1>4. a \in Seq(Happenings) /\ b \in Seq(Happenings)
  <2>1. /\ <<>> \in Seq(Happenings) /\ <<"COMPLETED">> \in Seq(Happenings)
        /\ <<"FAILED">> \in Seq(Happenings) /\ <<"SUBSCRIBED">> \in Seq(Happenings)
    BY DEF Happenings
  <2>2. QED BY <1>2, <2>1
<1>5. PICK subs : subs = [t \in (DOMAIN c.subs \ stopped) \cup started |->
                             IF t \in Obsolete(c, desired) \ started THEN c.subs[t] ELSE desired[t]]
  OBVIOUS
<1>6. Reconciled(c, 0, calls) = [c EXCEPT !.subs = subs, !.observed = @ \ stopped]
  BY <1>1, <1>5 DEF Reconciled
<1>7. /\ CoordinatorShape(Reconciled(c, 0, calls))
      /\ Reconciled(c, 0, calls).demands = c.demands /\ Reconciled(c, 0, calls).subs = subs
  BY <1>6 DEF CoordinatorShape
<1>8. ASSUME s \in DOMAIN subs
      PROVE  \/ a = <<>> /\ b = <<>> /\ s \in DOMAIN c.subs /\ s \in DOMAIN desired
             \/ b = <<"SUBSCRIBED">>
             \/ s \in Obsolete(c, desired) /\ <<"unsubscribe", s>> \in calls
  <2>1. CASE s \in started
    BY <1>2, <2>1
  <2>2. CASE s \notin started /\ s \in Obsolete(c, desired)
    BY <1>1, <1>5, <1>8, <2>2 DEF Unsubscribed
  <2>3. CASE s \notin started /\ s \notin Obsolete(c, desired)
    <3>1. s \in DOMAIN c.subs /\ s \notin stopped
      BY <1>5, <1>8, <2>3
    <3>2. s \in DOMAIN desired /\ s \notin missing
      BY <1>1, <2>3, <3>1 DEF Obsolete, Missing
    <3>3. QED BY <1>2, <2>3, <3>1, <3>2
  <2>4. QED BY <2>1, <2>2, <2>3
<1>9. a \o b \in Seq(Happenings) /\ (a = <<>> /\ b = <<>> => a \o b = <<>>)
  BY <1>4, LastOfTwo
<1>10. b = <<"SUBSCRIBED">> => a \o b # <<>> /\ Last(a \o b) = "SUBSCRIBED"
  <2>1. SUFFICES ASSUME b = <<"SUBSCRIBED">> PROVE a \o b # <<>> /\ Last(a \o b) = "SUBSCRIBED"
    OBVIOUS
  <2>2. b # <<>> /\ Last(b) = "SUBSCRIBED"
    BY <2>1 DEF Last
  <2>3. QED BY <1>4, <2>2, LastOfTwo
<1>11. QED BY <1>1, <1>3, <1>7, <1>8, <1>9, <1>10

(* What holds between two operations: a stream that is still subscribed and *)
(* whose last event ended a claim is spared.                                *)
Coordinated(c) == CoordinatorShape(c) /\ Range(c.demands) \subseteq Asked

EndsSpared(c, e, exempt) ==
    Listens(e) => \A s \in DOMAIN c.subs \cap Feeds : e.stage[s] \in Dead => s \in exempt

StateKept(state, slack) ==
    /\ Coordinated(state.coordinator) /\ EvidenceKept(state.evidence, slack)
    /\ EndsSpared(state.coordinator, state.evidence, state.spared)

LEMMA Claims ==
    ASSUME NEW c, Coordinated(c), NEW d \in Asked, NEW act \in {"REQUEST", "RELEASE"}
    PROVE  LET claimed == IF act = "REQUEST" THEN Requested(c, d) ELSE Removed(c, {d.id})
           IN  Coordinated(claimed) /\ claimed.subs = c.subs
<1>1. Coordinated(Added(c, d)) /\ Added(c, d).subs = c.subs
  <2>1. PICK f : f = [i \in DOMAIN c.demands \cup {d.id} |-> IF i = d.id THEN d ELSE c.demands[i]]
    OBVIOUS
  <2>2. Added(c, d) = [c EXCEPT !.demands = f]
    BY <2>1 DEF Added
  <2>3. CoordinatorShape(Added(c, d)) /\ Added(c, d).subs = c.subs /\ Added(c, d).demands = f
    BY <2>2 DEF Coordinated, CoordinatorShape
  <2>4. Range(f) \subseteq Asked
    BY <2>1 DEF Coordinated, Range
  <2>5. QED BY <2>3, <2>4 DEF Coordinated
<1>2. Coordinated(Removed(c, {d.id})) /\ Removed(c, {d.id}).subs = c.subs
  <2>1. PICK f : f = Restrict(c.demands, DOMAIN c.demands \ {d.id})
    OBVIOUS
  <2>2. Removed(c, {d.id}) = [c EXCEPT !.demands = f]
    BY <2>1 DEF Removed
  <2>3. /\ CoordinatorShape(Removed(c, {d.id})) /\ Removed(c, {d.id}).subs = c.subs
        /\ Removed(c, {d.id}).demands = f
    BY <2>2 DEF Coordinated, CoordinatorShape
  <2>4. Range(f) \subseteq Asked
    BY <2>1 DEF Coordinated, Range, Restrict
  <2>5. QED BY <2>3, <2>4 DEF Coordinated
<1>3. QED BY <1>1, <1>2 DEF Requested

LEMMA OperationKeeps ==
    ASSUME NEW state, NEW slack \in {0, 1}, StateKept(state, slack), NEW d \in Asked,
           NEW act \in {"REQUEST", "RELEASE"}, NEW calls,
           NEW after, after = Publish(state, Operation(state.coordinator, act, d, calls))
    PROVE  StateKept(after, slack) /\ after.evidence.active = state.evidence.active
<1>1. PICK c, e : c = state.coordinator /\ e = state.evidence
  OBVIOUS
<1>2. PICK claimed : claimed = IF act = "REQUEST" THEN Requested(c, d) ELSE Removed(c, {d.id})
  OBVIOUS
<1>3. Coordinated(c) /\ EvidenceKept(e, slack) /\ EndsSpared(c, e, state.spared)
  BY <1>1 DEF StateKept
<1>4. Coordinated(claimed) /\ claimed.subs = c.subs
  BY <1>2, <1>3, Claims
<1>5. PICK own : own = IF act = "REQUEST" THEN RequestEvents(c, d) ELSE <<"CANCELED">>
  OBVIOUS
<1>6. /\ own \in Seq(Happenings) /\ own # <<>>
      /\ act = "REQUEST" => Last(own) \in {"REQUESTED", "ACCEPTED"}
  <2>1. /\ <<"REQUESTED">> \in Seq(Happenings) /\ <<"REQUESTED", "ACCEPTED">> \in Seq(Happenings)
        /\ <<"CANCELED">> \in Seq(Happenings) /\ <<"REQUESTED">> # <<>>
        /\ <<"REQUESTED", "ACCEPTED">> # <<>> /\ <<"CANCELED">> # <<>>
        /\ Last(<<"REQUESTED">>) = "REQUESTED" /\ Last(<<"REQUESTED", "ACCEPTED">>) = "ACCEPTED"
    BY DEF Happenings, Last
  <2>2. QED BY <1>5, <2>1 DEF RequestEvents
<1>7. PICK next : next = Reconciled(claimed, 0, calls)
  OBVIOUS
<1>8. PICK events : events = [s \in Streams |-> (IF s = d.stream THEN own ELSE <<>>)
                                                 \o Reconciliation(claimed, 0, calls, s)]
  OBVIOUS
<1>9. PICK ended : ended = {s \in Streams :
                        \/ /\ act = "RELEASE" /\ s = d.stream
                           /\ \E f \in Range(claimed.demands) : f.stream = s
                        \/ /\ s \in Obsolete(claimed, Desired(claimed, 0))
                           /\ <<"unsubscribe", s>> \in calls}
  OBVIOUS
<1>10. PICK done : done = [coordinator |-> next, events |-> events, spared |-> ended]
  OBVIOUS
<1>11. Operation(c, act, d, calls) = done
  BY <1>2, <1>5, <1>7, <1>8, <1>9, <1>10 DEF Operation
<1>12. PICK h, exempt :
           /\ h = Hear(e, events)
           /\ exempt = ended \cup {s \in state.spared : events[s] = <<>>}
  OBVIOUS
<1>13. Publish(state, done) = [coordinator |-> next, evidence |-> h, spared |-> exempt]
  BY <1>1, <1>10, <1>12 DEF Publish
<1>14. ASSUME NEW s \in Streams
       PROVE  /\ events[s] \in Seq(Happenings)
              /\ Reconciliation(claimed, 0, calls, s) = <<>> =>
                    events[s] = IF s = d.stream THEN own ELSE <<>>
              /\ Reconciliation(claimed, 0, calls, s) # <<>> =>
                    /\ events[s] # <<>>
                    /\ Last(events[s]) = Last(Reconciliation(claimed, 0, calls, s))
  <2>1. PICK a, b : /\ a = (IF s = d.stream THEN own ELSE <<>>)
                    /\ b = Reconciliation(claimed, 0, calls, s)
    OBVIOUS
  <2>2. a \in Seq(Happenings)
    BY <1>6, <2>1
  <2>3. b \in Seq(Happenings)
    BY <1>4, <2>1, Reconciles DEF Coordinated
  <2>4. events[s] = a \o b
    BY <1>8, <2>1
  <2>5. PICK n \in Seq(Happenings), m \in Seq(Happenings) : n = a /\ m = b
    BY <2>2, <2>3
  <2>6. /\ n \o m \in Seq(Happenings)
        /\ n \o m = <<>> <=> n = <<>> /\ m = <<>>
        /\ m # <<>> => Last(n \o m) = Last(m)
        /\ m = <<>> => n \o m = n
    BY LastOfTwo
  <2>7. events[s] = n \o m
    BY <2>4, <2>5
  <2>8. m = Reconciliation(claimed, 0, calls, s) /\ n = (IF s = d.stream THEN own ELSE <<>>)
    BY <2>1, <2>5
  <2>9. QED BY <2>6, <2>7, <2>8
<1>15. Told(events)
  BY <1>14, EvidenceAssumption DEF Told
<1>16. /\ EvidenceKept(h, slack) /\ h.active = e.active
       /\ Listens(e) => \A s \in Feeds :
             h.stage[s] = IF events[s] = <<>> THEN e.stage[s] ELSE Last(events[s])
  BY <1>3, <1>12, <1>15, HearKeeps
<1>17. Coordinated(next)
  BY <1>4, <1>7, Reconciles DEF Coordinated
<1>18. ASSUME Listens(h), NEW s \in DOMAIN next.subs \cap Feeds, h.stage[s] \in Dead
       PROVE  s \in exempt
  <2>1. Listens(e) /\ s \in Streams
    BY <1>16, <1>18, EvidenceAssumption DEF Listens
  <2>2. h.stage[s] = IF events[s] = <<>> THEN e.stage[s] ELSE Last(events[s])
    BY <1>16, <2>1
  <2>3. PICK r : r = Reconciliation(claimed, 0, calls, s)
    OBVIOUS
  <2>4. \/ r = <<>> /\ s \in DOMAIN c.subs /\ s \in DOMAIN Desired(claimed, 0)
        \/ r # <<>> /\ Last(r) = "SUBSCRIBED"
        \/ s \in Obsolete(claimed, Desired(claimed, 0)) /\ <<"unsubscribe", s>> \in calls
    BY <1>4, <1>7, <1>18, <2>3, Reconciles DEF Coordinated
  <2>5. CASE s \in Obsolete(claimed, Desired(claimed, 0)) /\ <<"unsubscribe", s>> \in calls
    BY <1>9, <1>12, <2>1, <2>5
  <2>6. CASE r # <<>> /\ Last(r) = "SUBSCRIBED"
    <3>1. h.stage[s] = "SUBSCRIBED"
      BY <1>14, <2>1, <2>2, <2>3, <2>6
    <3>2. QED BY <1>18, <3>1 DEF Dead
  <2>7. CASE r = <<>> /\ s \in DOMAIN c.subs /\ s \in DOMAIN Desired(claimed, 0)
    <3>1. events[s] = IF s = d.stream THEN own ELSE <<>>
      BY <1>14, <2>1, <2>3, <2>7
    <3>2. CASE s # d.stream
      <4>1. events[s] = <<>> /\ e.stage[s] \in Dead
        BY <1>18, <2>2, <3>1, <3>2
      <4>2. s \in state.spared
        BY <1>3, <1>18, <2>1, <2>7, <4>1 DEF EndsSpared
      <4>3. QED BY <1>12, <4>1, <4>2
    <3>3. CASE s = d.stream
      <4>1. h.stage[s] = Last(own)
        BY <1>6, <2>2, <3>1, <3>3
      <4>2. act = "RELEASE"
        BY <1>6, <1>18, <4>1 DEF Dead
      <4>3. PICK f \in Current(claimed, 0) : f.stream = s
        BY <2>7 DEF Desired
      <4>4. f \in Range(claimed.demands)
        BY <4>3 DEF Current
      <4>5. QED BY <1>9, <1>12, <2>1, <3>3, <4>2, <4>3, <4>4
    <3>4. QED BY <3>2, <3>3
  <2>8. QED BY <2>4, <2>5, <2>6, <2>7
<1>19. EndsSpared(next, h, exempt)
  BY <1>18 DEF EndsSpared
<1>20. after = Publish(state, done)
  BY <1>1, <1>11
<1>21. /\ after.coordinator = next /\ after.evidence = h /\ after.spared = exempt
  BY <1>13, <1>20
<1>22. QED BY <1>1, <1>16, <1>17, <1>19, <1>21 DEF StateKept

(* Several operations in a row.                                             *)
Begun == [coordinator |-> live, evidence |-> evidence, spared |-> spared]

Going(act, calls, f, ds) ==
    IF ds = {} THEN Begun
    ELSE Publish(f[ds \ {LastId(ds)}],
                 Operation(f[ds \ {LastId(ds)}].coordinator, act, LastId(ds), calls[LastId(ds).id]))

Goes(act, demands, calls, f) == f = [ds \in SUBSET demands |-> Going(act, calls, f, ds)]

LEMMA PerformedGoes ==
    ASSUME NEW act, NEW demands, NEW calls
    PROVE  Performed(act, demands, calls) = (CHOOSE f : Goes(act, demands, calls, f))[demands]
BY DEF Performed, Goes, Going, Begun

LEMMA DemandSets ==
    ASSUME NEW ds \in SUBSET Asked
    PROVE  /\ Cardinality(ds) \in Nat /\ (Cardinality(ds) = 0 <=> ds = {})
           /\ ds # {} => /\ LastId(ds) \in ds /\ ds \ {LastId(ds)} \in SUBSET Asked
                         /\ Cardinality(ds \ {LastId(ds)}) = Cardinality(ds) - 1
<1>1. IsFiniteSet(ds)
  BY EvidenceAssumption, FS_Subset
<1>2. ds # {} => LastId(ds) \in ds
  BY LastIdIsMember
<1>3. \A d \in ds : Cardinality(ds \ {d}) = Cardinality(ds) - 1
  BY <1>1, FS_RemoveElement
<1>4. QED BY <1>1, <1>2, <1>3, FS_CardinalityType, FS_EmptySet

LEMMA GoesExists ==
    ASSUME NEW act, NEW demands \in SUBSET Asked, NEW calls
    PROVE  \E f : Goes(act, demands, calls, f)
<1> DEFINE Made(f, n) == \A ds \in SUBSET demands :
                             Cardinality(ds) <= n => f[ds] = Going(act, calls, f, ds)
           Upto(n) == \E f : Made(f, n)
           N == {n \in Nat : ~Upto(n)}
<1>1. Upto(0)
  <2>1. PICK f : f = [ds \in SUBSET demands |-> Begun]
    OBVIOUS
  <2>2. ASSUME NEW ds \in SUBSET demands, Cardinality(ds) <= 0 PROVE ds = {}
    <3>1. ds \in SUBSET Asked
      OBVIOUS
    <3>2. Cardinality(ds) \in Nat /\ (Cardinality(ds) = 0 <=> ds = {})
      BY <3>1, DemandSets
    <3>3. QED BY <2>2, <3>2
  <2>3. Made(f, 0)
    BY <2>1, <2>2 DEF Going
  <2> HIDE DEF Made
  <2>4. QED BY <2>3
<1>2. ASSUME NEW n \in Nat, Upto(n) PROVE Upto(n + 1)
  <2>1. PICK f : Made(f, n)
    BY <1>2
  <2>2. PICK g : g = [ds \in SUBSET demands |-> Going(act, calls, f, ds)]
    OBVIOUS
  <2>3. ASSUME NEW ds \in SUBSET demands, Cardinality(ds) <= n + 1
        PROVE  g[ds] = Going(act, calls, g, ds)
    <3>1. CASE ds = {}
      BY <2>2, <3>1 DEF Going
    <3>2. CASE ds # {}
      <4>1. PICK rest : rest = ds \ {LastId(ds)}
        OBVIOUS
      <4>2. ds \in SUBSET Asked /\ rest \in SUBSET demands
        BY <4>1
      <4>3. Cardinality(rest) <= n
        <5>1. Cardinality(rest) = Cardinality(ds) - 1 /\ Cardinality(ds) \in Nat
          BY <3>2, <4>1, <4>2, DemandSets
        <5>2. QED BY <2>3, <5>1
      <4>4. f[rest] = Going(act, calls, f, rest) /\ g[rest] = Going(act, calls, f, rest)
        BY <2>1, <2>2, <4>2, <4>3
      <4>5. Going(act, calls, g, ds) = Going(act, calls, f, ds)
        BY <3>2, <4>1, <4>4 DEF Going
      <4>6. QED BY <2>2, <4>5
    <3>3. QED BY <3>1, <3>2
  <2>4. Made(g, n + 1)
    BY <2>3
  <2> HIDE DEF Made
  <2>5. QED BY <2>4
<1>3. N = {}
  <2> SUFFICES ASSUME N # {} PROVE FALSE
    OBVIOUS
  <2> HIDE DEF Upto
  <2>1. PICK n \in N : \A m \in N : n <= m
    <3>1. N \in SUBSET Nat
      OBVIOUS
    <3> HIDE DEF N
    <3>2. QED BY <3>1, Smallest
  <2>2. n \in Nat /\ n # 0
    BY <1>1
  <2>3. n - 1 \in Nat /\ n - 1 \notin N
    BY <2>1, <2>2
  <2>4. Upto(n - 1)
    BY <2>3
  <2>5. Upto((n - 1) + 1)
    BY <1>2, <2>3, <2>4
  <2>6. (n - 1) + 1 = n
    BY <2>2
  <2>7. QED BY <2>5, <2>6
<1>4. PICK n \in Nat : n = Cardinality(demands)
  BY DemandSets
<1>5. PICK f : Made(f, n)
  <2> HIDE DEF Made
  <2>1. QED BY <1>3
<1>6. PICK g : g = [ds \in SUBSET demands |-> f[ds]]
  OBVIOUS
<1>7. ASSUME NEW ds \in SUBSET demands PROVE g[ds] = Going(act, calls, g, ds)
  <2>1. Cardinality(ds) <= n
    <3>1. IsFiniteSet(demands)
      BY EvidenceAssumption, FS_Subset
    <3>2. Cardinality(ds) <= Cardinality(demands)
      BY <3>1, FS_Subset
    <3>3. QED BY <1>4, <3>2
  <2>2. f[ds] = Going(act, calls, f, ds)
    BY <1>5, <2>1
  <2>3. ds \ {LastId(ds)} \in SUBSET demands
    OBVIOUS
  <2>4. QED BY <1>6, <2>2, <2>3 DEF Going
<1>8. Goes(act, demands, calls, g)
  BY <1>6, <1>7 DEF Goes
<1>9. QED BY <1>8

LEMMA PerformedKeeps ==
    ASSUME NEW slack \in {0, 1}, StateKept(Begun, slack), NEW demands \in SUBSET Asked,
           NEW act \in {"REQUEST", "RELEASE"}, NEW calls
    PROVE  /\ StateKept(Performed(act, demands, calls), slack)
           /\ Performed(act, demands, calls).evidence.active = evidence.active
<1>1. PICK f : f = CHOOSE g : Goes(act, demands, calls, g)
  OBVIOUS
<1>2. Goes(act, demands, calls, f)
  BY <1>1, GoesExists
<1> DEFINE Fitting(state) == StateKept(state, slack) /\ state.evidence.active = evidence.active
           N == {n \in Nat : \E ds \in SUBSET demands : Cardinality(ds) = n /\ ~Fitting(f[ds])}
<1>3. N = {}
  <2> SUFFICES ASSUME N # {} PROVE FALSE
    OBVIOUS
  <2> HIDE DEF Fitting
  <2>1. PICK n \in N : \A m \in N : n <= m
    <3>1. N \in SUBSET Nat
      OBVIOUS
    <3> HIDE DEF N
    <3>2. QED BY <3>1, Smallest
  <2>2. PICK ds \in SUBSET demands : Cardinality(ds) = n /\ ~Fitting(f[ds])
    BY <2>1
  <2>3. f[ds] = Going(act, calls, f, ds)
    BY <1>2 DEF Goes
  <2>4. CASE ds = {}
    <3>1. f[ds] = Begun
      BY <2>3, <2>4 DEF Going
    <3>2. Fitting(Begun)
      BY DEF Fitting, Begun
    <3>3. QED BY <2>2, <3>1, <3>2
  <2>5. CASE ds # {}
    <3>1. PICK d, rest : d = LastId(ds) /\ rest = ds \ {d}
      OBVIOUS
    <3>2. /\ ds \in SUBSET Asked /\ rest \in SUBSET demands /\ d \in Asked
          /\ Cardinality(rest) = Cardinality(ds) - 1 /\ Cardinality(ds) \in Nat
          /\ Cardinality(rest) \in Nat
      <4>1. ds \in SUBSET Asked /\ rest \in SUBSET Asked
        BY <3>1
      <4>2. QED BY <2>5, <3>1, <4>1, DemandSets
    <3>3. Cardinality(rest) \notin N
      <4> HIDE DEF N
      <4>1. QED BY <2>1, <2>2, <3>2
    <3>4. Fitting(f[rest])
      BY <3>2, <3>3
    <3>5. PICK state : state = f[rest]
      OBVIOUS
    <3>6. StateKept(state, slack) /\ state.evidence.active = evidence.active
      BY <3>4, <3>5 DEF Fitting
    <3>7. PICK some : some = calls[d.id]
      OBVIOUS
    <3>8. f[ds] = Publish(state, Operation(state.coordinator, act, d, some))
      BY <2>3, <2>5, <3>1, <3>5, <3>7 DEF Going
    <3>9. PICK after : after = Publish(state, Operation(state.coordinator, act, d, some))
      OBVIOUS
    <3>10. StateKept(after, slack) /\ after.evidence.active = state.evidence.active
      <4>1. d \in Asked /\ StateKept(state, slack)
        BY <3>2, <3>6
      <4>3. after = Publish(state, Operation(state.coordinator, act, d, some))
        BY <3>9
      <4> HIDE DEF N
      <4>4. act \in {"REQUEST", "RELEASE"} /\ slack \in {0, 1}
        OBVIOUS
      <4>5. QED BY ONLY <4>1, <4>3, <4>4, OperationKeeps
    <3>11. Fitting(after)
      BY <3>6, <3>10 DEF Fitting
    <3>12. QED BY <2>2, <3>8, <3>9, <3>11
  <2>6. QED BY <2>4, <2>5
<1>4. Cardinality(demands) \in Nat
  BY DemandSets
<1>5. Fitting(f[demands])
  <2> HIDE DEF Fitting
  <2>1. QED BY <1>3, <1>4
<1>6. Performed(act, demands, calls) = f[demands]
  BY <1>1, PerformedGoes
<1>7. QED BY <1>5, <1>6

LEMMA JudgedIfStarted ==
    ASSUME NEW e, Typed(e), e.active \in {"waiting", "started"}, NEW touched \in SUBSET Feeds,
           NEW slack \in {0, 1},
           e.active = "started" => \A s \in Feeds \ touched : Fit(e, s, slack)
    PROVE  /\ EvidenceKept(JudgeIfStarted(e, touched), slack)
           /\ JudgeIfStarted(e, touched).active = e.active
           /\ JudgeIfStarted(e, touched).stage = e.stage
<1>1. CASE e.active = "started"
  <2>1. JudgeIfStarted(e, touched) = Judge(e, touched)
    BY <1>1 DEF JudgeIfStarted
  <2>2. QED BY <1>1, <2>1, JudgeFits
<1>2. CASE e.active # "started"
  BY <1>2 DEF JudgeIfStarted, EvidenceKept
<1>3. QED BY <1>1, <1>2

LEMMA AttachKeeps ==
    ASSUME NEW e \in Evidences, e.active \in {"waiting", "started"}, NEW slack \in {0, 1},
           \A s \in Feeds : \A phase \in Phases : e.profile[s][phase] \in Profiles(s),
           e.broken \cap e.attached = {},
           e.active = "started" => \A s \in Feeds : Fit(e, s, slack),
           Attach(e)
    PROVE  /\ EvidenceKept(evidence', slack) /\ evidence'.active = e.active
           /\ evidence'.stage = e.stage
           /\ UNCHANGED <<gate, pending, live, spared>>
<1>1. PICK declined \in SUBSET (Feeds \ e.attached) :
          LET joined == Feeds \ (e.attached \cup declined)
          IN  Evidence(JudgeIfStarted([e EXCEPT !.attached = @ \cup joined,
                                                !.broken = (@ \cup declined) \ joined],
                                      joined \cap e.broken))
  BY DEF Attach
<1>2. PICK joined : joined = Feeds \ (e.attached \cup declined)
  OBVIOUS
<1>3. PICK g : g = [e EXCEPT !.attached = @ \cup joined, !.broken = (@ \cup declined) \ joined]
  OBVIOUS
<1>4. PICK touched : touched = joined \cap e.broken
  OBVIOUS
<1>5. Evidence(JudgeIfStarted(g, touched))
  BY <1>1, <1>2, <1>3, <1>4
<1>6. /\ g.attached = e.attached \cup joined /\ g.broken = (e.broken \cup declined) \ joined
      /\ g.active = e.active /\ g.stage = e.stage /\ g.session = e.session /\ g.age = e.age
      /\ g.judged = e.judged /\ g.profile = e.profile /\ g \in Evidences
  BY <1>2, <1>3 DEF Evidences
<1>7. g.broken = Feeds \ g.attached
  BY <1>2, <1>6 DEF Evidences
<1>8. Typed(g)
  BY <1>6, <1>7 DEF Typed
<1>9. g.active = "started" => \A s \in Feeds \ touched : Fit(g, s, slack)
  BY <1>6 DEF Fit
<1>10. touched \in SUBSET Feeds
  BY <1>2, <1>4
<1>11. /\ EvidenceKept(JudgeIfStarted(g, touched), slack)
       /\ JudgeIfStarted(g, touched).active = g.active
       /\ JudgeIfStarted(g, touched).stage = g.stage
  BY <1>6, <1>8, <1>9, <1>10, JudgedIfStarted
<1>12. QED BY <1>5, <1>6, <1>11 DEF Evidence

(* The inductive invariant of the evidence.                                 *)
Slack == IF overdue THEN 1 ELSE 0

EInv ==
    /\ overdue \in BOOLEAN
    /\ \A id \in DOMAIN pending : pending[id] \in Asked
    /\ Coordinated(live) /\ EvidenceKept(evidence, Slack) /\ EndsSpared(live, evidence, spared)

LEMMA EvidenceStart == EvidenceInit => EInv
<1> SUFFICES ASSUME EvidenceInit PROVE EInv
  OBVIOUS
<1>1. Coordinated(live)
  BY DEF EvidenceInit, Idle, Coordinated, CoordinatorShape, Range
<1>2. \A id \in DOMAIN pending : pending[id] \in Asked
  BY DEF EvidenceInit
<1>3. evidence \in Evidences
  <2>1. [s \in Feeds |-> [phase \in Phases |-> Unlearned(s)]] \in [Feeds -> [Phases -> AnyProfile]]
    BY PolicyConstants DEF Profiles, Thresholds, AnyProfile
  <2>2. [s \in Feeds |-> "REQUESTED"] \in [Feeds -> Happenings]
    BY DEF Happenings
  <2>3. QED BY <2>1, <2>2 DEF EvidenceInit, Evidences, Contexts
<1>4. Typed(evidence)
  BY <1>3, PolicyConstants DEF EvidenceInit, Typed
<1>5. QED BY <1>1, <1>2, <1>4 DEF EInv, EvidenceInit, EvidenceKept, EndsSpared, Listens

LEMMA PerformPreserves ==
    ASSUME EInv, NEW demands \in SUBSET Asked, NEW act \in {"REQUEST", "RELEASE"},
           PerformAll(act, demands), overdue' = overdue,
           \A id \in DOMAIN pending' : pending'[id] \in Asked
    PROVE  EInv'
<1>1. PICK calls : Perform(act, demands, calls)
  BY DEF PerformAll
<1>2. PICK after : after = Performed(act, demands, calls)
  OBVIOUS
<1>3. live' = after.coordinator /\ evidence' = after.evidence /\ spared' = after.spared
  BY <1>1, <1>2 DEF Perform
<1>4. PICK slack : slack = Slack
  OBVIOUS
<1>5. slack \in {0, 1} /\ StateKept(Begun, slack)
  BY <1>4 DEF EInv, Slack, StateKept, Begun
<1>6. StateKept(after, slack)
  BY <1>2, <1>5, PerformedKeeps
<1>7. slack = Slack'
  BY <1>4 DEF Slack
<1>8. Coordinated(live') /\ EvidenceKept(evidence', slack) /\ EndsSpared(live', evidence', spared')
  BY <1>3, <1>6 DEF StateKept
<1>9. QED BY <1>7, <1>8 DEF EInv

LEMMA AcquisitionPreserves ==
    ASSUME EInv, ReleaseAcquisition \/ LastInstrument \/ StopAcquisition
                 \/ (\E d \in Asked : Demand(d))
                 \/ (\E id \in {d.id : d \in Asked} : Release(id))
    PROVE  EInv'
<1>1. Range(pending) \in SUBSET Asked /\ Range(live.demands) \in SUBSET Asked
  BY DEF EInv, Coordinated, Range
<1>2. ASSUME Opens PROVE EInv'
  <2>1. PerformAll("REQUEST", Range(pending)) /\ overdue' = overdue /\ pending' = <<>>
    BY <1>2 DEF Opens
  <2>2. \A id \in DOMAIN pending' : pending'[id] \in Asked
    BY <2>1
  <2>3. QED BY <1>1, <2>1, <2>2, PerformPreserves
<1>3. CASE ReleaseAcquisition
  <2>1. CASE Opens
    BY <1>2, <2>1
  <2>2. CASE UNCHANGED <<pending, live, evidence, overdue, spared>>
    BY <2>2 DEF EInv, Slack
  <2>3. QED BY <1>3, <2>1, <2>2 DEF ReleaseAcquisition
<1>4. CASE LastInstrument
  BY <1>2, <1>4 DEF LastInstrument
<1>5. CASE StopAcquisition
  <2>1. PerformAll("RELEASE", Range(live.demands)) /\ overdue' = overdue /\ pending' = pending
    BY <1>5 DEF StopAcquisition
  <2>2. \A id \in DOMAIN pending' : pending'[id] \in Asked
    BY <2>1 DEF EInv
  <2>3. QED BY <1>1, <2>1, <2>2, PerformPreserves
<1>6. ASSUME NEW d \in Asked, Demand(d) PROVE EInv'
  <2>1. CASE /\ pending' = [id \in DOMAIN pending \cup {d.id} |->
                             IF id = d.id THEN d ELSE pending[id]]
             /\ UNCHANGED <<gate, live, evidence, overdue, spared>>
    <3>1. \A id \in DOMAIN pending' : pending'[id] \in Asked
      BY <2>1 DEF EInv
    <3>2. QED BY <2>1, <3>1 DEF EInv, Slack
  <2>2. CASE PerformAll("REQUEST", {d}) /\ UNCHANGED <<gate, pending, overdue>>
    <3>1. \A id \in DOMAIN pending' : pending'[id] \in Asked
      BY <2>2 DEF EInv
    <3>2. QED BY <2>2, <3>1, PerformPreserves
  <2>3. QED BY <1>6, <2>1, <2>2 DEF Demand
<1>7. ASSUME NEW id, Release(id) PROVE EInv'
  <2>1. overdue' = overdue /\ pending' = Restrict(pending, DOMAIN pending \ {id})
    BY <1>7 DEF Release
  <2>2. \A i \in DOMAIN pending' : pending'[i] \in Asked
    BY <2>1 DEF EInv, Restrict
  <2>3. CASE id \in DOMAIN live.demands
    <3>1. PerformAll("RELEASE", {live.demands[id]})
      BY <1>7, <2>3 DEF Release
    <3>2. PICK d \in Asked : d = live.demands[id]
      BY <1>1, <2>3 DEF Range
    <3>3. QED BY <2>1, <2>2, <3>1, <3>2, PerformPreserves
  <2>4. CASE id \notin DOMAIN live.demands
    <3>1. UNCHANGED <<live, evidence, spared>>
      BY <1>7, <2>4 DEF Release
    <3>2. QED BY <2>1, <2>2, <3>1 DEF EInv, Slack
  <2>5. QED BY <2>3, <2>4
<1>8. QED BY <1>3, <1>4, <1>5, <1>6, <1>7

LEMMA ObservationPreserves ==
    ASSUME EInv, NEW s \in Streams, NEW old \in BOOLEAN, Observation(s, old)
    PROVE  EInv'
<1>1. PICK hears \in BOOLEAN : hears = (gate = "open" /\ Announces(live, s))
  OBVIOUS
<1>2. PICK events : events = [t \in Streams |-> IF t = s /\ hears THEN <<"ACTIVE">> ELSE <<>>]
  OBVIOUS
<1>3. /\ live' = IF hears THEN Observed(live, s) ELSE live
      /\ \/ evidence' \in Seen(Hear(evidence, events), s, old)
         \/ hears /\ \E e \in Seen(evidence, s, old) : evidence' = Hear(e, events)
      /\ spared' = IF hears THEN spared \ {s} ELSE spared
      /\ pending' = pending /\ overdue' = overdue
  BY <1>1, <1>2 DEF Observation
<1>4. PICK slack \in {0, 1} : slack = Slack /\ slack = Slack'
  BY <1>3 DEF Slack
<1>5. Coordinated(live) /\ EvidenceKept(evidence, slack) /\ EndsSpared(live, evidence, spared)
  BY <1>4 DEF EInv
<1>6. Coordinated(live') /\ (DOMAIN live'.subs) = DOMAIN live.subs
  <2>1. CASE Announces(live, s) /\ hears
    <3>1. live' = [live EXCEPT !.observed = @ \cup {s}]
      BY <1>3, <2>1 DEF Observed
    <3>2. QED BY <1>5, <3>1 DEF Coordinated, CoordinatorShape
  <2>2. CASE ~(Announces(live, s) /\ hears)
    <3>1. live' = live
      BY <1>3, <2>2 DEF Observed
    <3>2. QED BY <1>5, <3>1
  <2>3. QED BY <2>1, <2>2
<1>7. Told(events)
  <2>1. <<>> \in Seq(Happenings) /\ <<"ACTIVE">> \in Seq(Happenings)
    BY DEF Happenings
  <2>2. QED BY <1>2, <2>1, EvidenceAssumption DEF Told
<1>8. Last(<<"ACTIVE">>) = "ACTIVE" /\ <<"ACTIVE">> # <<>>
  BY DEF Last
<1>9. ASSUME NEW e, EvidenceKept(e, slack)
      PROVE  /\ EvidenceKept(Hear(e, events), slack) /\ Hear(e, events).active = e.active
             /\ Listens(e) => \A t \in Feeds : Hear(e, events).stage[t] =
                                     IF t = s /\ hears THEN "ACTIVE" ELSE e.stage[t]
  <2>1. /\ EvidenceKept(Hear(e, events), slack) /\ Hear(e, events).active = e.active
        /\ Listens(e) => \A t \in Feeds : Hear(e, events).stage[t] =
                                IF events[t] = <<>> THEN e.stage[t] ELSE Last(events[t])
    BY <1>7, <1>9, HearKeeps
  <2>2. \A t \in Feeds : events[t] = IF t = s /\ hears THEN <<"ACTIVE">> ELSE <<>>
    BY <1>2, EvidenceAssumption
  <2>3. QED BY <1>8, <2>1, <2>2
<1>10. /\ EvidenceKept(evidence', slack) /\ evidence'.active = evidence.active
       /\ Listens(evidence) => \A t \in Feeds : evidence'.stage[t] =
                                     IF t = s /\ hears THEN "ACTIVE" ELSE evidence.stage[t]
  <2>1. CASE evidence' \in Seen(Hear(evidence, events), s, old)
    <3>1. PICK h : h = Hear(evidence, events)
      OBVIOUS
    <3>2. PICK g \in Seen(h, s, old) : g = evidence'
      BY <2>1, <3>1
    <3>3. /\ EvidenceKept(h, slack) /\ h.active = evidence.active
          /\ Listens(evidence) => \A t \in Feeds : h.stage[t] =
                                        IF t = s /\ hears THEN "ACTIVE" ELSE evidence.stage[t]
      BY <1>5, <1>9, <3>1
    <3>4. EvidenceKept(g, slack) /\ g.active = h.active /\ g.stage = h.stage
      BY <3>3, SeenKeeps
    <3>5. QED BY <3>2, <3>3, <3>4
  <2>2. CASE \E e \in Seen(evidence, s, old) : evidence' = Hear(e, events)
    <3>1. PICK v : v = evidence
      OBVIOUS
    <3>2. PICK e \in Seen(v, s, old) : evidence' = Hear(e, events)
      BY <2>2, <3>1
    <3>3. EvidenceKept(v, slack)
      BY <1>5, <3>1
    <3>4. EvidenceKept(e, slack) /\ e.active = v.active /\ e.stage = v.stage
      BY <3>3, SeenKeeps
    <3>5. /\ EvidenceKept(Hear(e, events), slack) /\ Hear(e, events).active = e.active
          /\ Listens(e) => \A t \in Feeds : Hear(e, events).stage[t] =
                                 IF t = s /\ hears THEN "ACTIVE" ELSE e.stage[t]
      BY <1>9, <3>4
    <3>6. Listens(e) <=> Listens(evidence)
      BY <3>1, <3>4 DEF Listens
    <3>7. QED BY <3>1, <3>2, <3>4, <3>5, <3>6
  <2>3. QED BY <1>3, <2>1, <2>2
<1>11. EndsSpared(live', evidence', spared')
  <2>1. ASSUME Listens(evidence'), NEW t \in (DOMAIN live'.subs) \cap Feeds, evidence'.stage[t] \in Dead
        PROVE  t \in spared'
    <3>1. Listens(evidence) /\ t \in DOMAIN live.subs \cap Feeds
      BY <1>6, <1>10, <2>1 DEF Listens
    <3>2. ~(t = s /\ hears) /\ evidence.stage[t] \in Dead
      BY <1>10, <2>1, <3>1 DEF Dead
    <3>3. QED BY <1>3, <1>5, <3>1, <3>2 DEF EndsSpared
  <2>2. QED BY <2>1 DEF EndsSpared
<1>12. QED BY <1>3, <1>4, <1>6, <1>10, <1>11 DEF EInv

(* The evidence actor's own actions change no subscription and no stage.    *)
LEMMA OwnActionPreserves ==
    ASSUME EInv, overdue' \in BOOLEAN, UNCHANGED <<gate, pending, live, spared>>,
           EvidenceKept(evidence', Slack'), evidence'.stage = evidence.stage,
           Listens(evidence') => Listens(evidence) \/ evidence.active = "off"
    PROVE  EInv'
<1>1. ASSUME Listens(evidence'), NEW s \in (DOMAIN live'.subs) \cap Feeds, evidence'.stage[s] \in Dead
      PROVE  s \in spared'
  <2>1. CASE Listens(evidence)
    BY <1>1, <2>1 DEF EInv, EndsSpared
  <2>2. CASE evidence.active = "off"
    <3>1. evidence.stage[s] = "REQUESTED"
      BY <1>1, <2>2 DEF EInv, EvidenceKept, Typed
    <3>2. QED BY <1>1, <3>1 DEF Dead
  <2>3. QED BY <1>1, <2>1, <2>2
<1>2. EndsSpared(live', evidence', spared')
  BY <1>1 DEF EndsSpared
<1>3. QED BY <1>2 DEF EInv

LEMMA EvidencePreserves ==
    ASSUME EInv, \/ StartEvidence \/ RetryAttachments \/ ReleaseEvidence
                 \/ \E context \in Phases \cup {"CLOSED"} : SessionChanges(context)
                 \/ EvaluateAll \/ EvidenceTick \/ StopEvidence
    PROVE  EInv'
<1>1. PICK e, slack : e = evidence /\ slack \in {0, 1} /\ slack = Slack
  BY DEF Slack
<1>2. EvidenceKept(e, slack) /\ Typed(e) /\ e \in Evidences /\ overdue \in BOOLEAN
  BY <1>1 DEF EInv, EvidenceKept, Typed
<1>3. overdue' = overdue => slack = Slack'
  BY <1>1 DEF Slack
<1>4. CASE StartEvidence
  <2>1. PICK g : g = [e EXCEPT !.active = "waiting"]
    OBVIOUS
  <2>2. Attach(g) /\ e.active = "off" /\ overdue' = overdue
    BY <1>1, <1>4, <2>1 DEF StartEvidence
  <2>3. /\ g \in Evidences /\ g.active = "waiting" /\ g.profile = e.profile /\ g.stage = e.stage
        /\ g.broken = {}
    BY <1>2, <2>1, <2>2 DEF Evidences, Typed
  <2>4. \A s \in Feeds : \A phase \in Phases : g.profile[s][phase] \in Profiles(s)
    BY <1>2, <2>3 DEF Typed
  <2>5. /\ EvidenceKept(evidence', slack) /\ evidence'.stage = g.stage
        /\ UNCHANGED <<gate, pending, live, spared>>
    BY <1>1, <2>2, <2>3, <2>4, AttachKeeps
  <2>6. QED BY <1>1, <1>2, <1>3, <2>2, <2>3, <2>5, OwnActionPreserves
<1>5. CASE RetryAttachments
  <2>1. Attach(e) /\ Listens(e) /\ overdue' = overdue
    BY <1>1, <1>5 DEF RetryAttachments
  <2>2. /\ e.active \in {"waiting", "started"} /\ e.broken \cap e.attached = {}
        /\ \A s \in Feeds : \A phase \in Phases : e.profile[s][phase] \in Profiles(s)
        /\ e.active = "started" => \A s \in Feeds : Fit(e, s, slack)
    BY <1>2, <2>1 DEF EvidenceKept, Typed, Listens
  <2>3. /\ EvidenceKept(evidence', slack) /\ evidence'.stage = e.stage
        /\ UNCHANGED <<gate, pending, live, spared>>
    BY <1>1, <1>2, <2>1, <2>2, AttachKeeps
  <2>4. QED BY <1>1, <1>2, <1>3, <2>1, <2>3, OwnActionPreserves
<1>6. CASE ReleaseEvidence
  <2>1. PICK g : g = [e EXCEPT !.active = "started"]
    OBVIOUS
  <2>2. /\ evidence' = Judge(g, Feeds) /\ UNCHANGED <<gate, pending, live, spared>>
        /\ e.active = "waiting" /\ overdue' = overdue
    BY <1>1, <1>6, <2>1 DEF ReleaseEvidence, Evidence
  <2>3. /\ g \in Evidences /\ g.active = "started" /\ g.profile = e.profile /\ g.stage = e.stage
        /\ g.broken = e.broken /\ g.attached = e.attached
    BY <1>2, <2>1 DEF Evidences
  <2>4. Typed(g)
    BY <1>2, <2>2, <2>3 DEF Typed
  <2>5. EvidenceKept(Judge(g, Feeds), slack) /\ Judge(g, Feeds).stage = g.stage
    <3>1. Feeds \in SUBSET Feeds /\ g.active # "off"
          /\ (g.active = "started" => \A s \in Feeds \ Feeds : Fit(g, s, slack))
      BY <2>3
    <3>2. QED BY <1>1, <2>4, <3>1, JudgeFits
  <2>6. Listens(evidence)
    BY <1>1, <2>2 DEF Listens
  <2>7. QED BY <1>1, <1>2, <1>3, <2>2, <2>3, <2>5, <2>6, OwnActionPreserves
<1>7. ASSUME NEW context \in Phases \cup {"CLOSED"}, SessionChanges(context) PROVE EInv'
  <2>1. PICK g : g = [e EXCEPT !.session = context]
    OBVIOUS
  <2>2. /\ evidence' = JudgeIfStarted(g, Feeds) /\ UNCHANGED <<gate, pending, live, spared>>
        /\ Listens(e) /\ overdue' = overdue
    BY <1>1, <1>7, <2>1 DEF SessionChanges, Evidence
  <2>3. /\ g \in Evidences /\ g.active = e.active /\ g.profile = e.profile /\ g.stage = e.stage
        /\ g.broken = e.broken /\ g.attached = e.attached
    BY <1>2, <2>1 DEF Evidences, Contexts
  <2>4. Typed(g) /\ g.active \in {"waiting", "started"}
    BY <1>2, <2>2, <2>3 DEF Typed, Listens
  <2>5. EvidenceKept(JudgeIfStarted(g, Feeds), slack) /\ JudgeIfStarted(g, Feeds).stage = g.stage
    <3>1. /\ Feeds \in SUBSET Feeds
          /\ g.active = "started" => \A s \in Feeds \ Feeds : Fit(g, s, slack)
      OBVIOUS
    <3>2. QED BY <1>1, <2>4, <3>1, JudgedIfStarted
  <2>6. QED BY <1>1, <1>2, <1>3, <2>2, <2>3, <2>5, OwnActionPreserves
<1>8. CASE EvaluateAll
  <2>1. /\ evidence' = Judge(e, Feeds) /\ UNCHANGED <<gate, pending, live, spared>>
        /\ e.active = "started" /\ overdue' = FALSE
    BY <1>1, <1>8 DEF EvaluateAll, Evidence
  <2>2. EvidenceKept(Judge(e, Feeds), 0) /\ Judge(e, Feeds).stage = e.stage
    <3>1. Feeds \in SUBSET Feeds /\ e.active # "off"
          /\ (e.active = "started" => \A s \in Feeds \ Feeds : Fit(e, s, slack))
      BY <2>1
    <3>2. QED BY <1>2, <3>1, JudgeFits
  <2>3. Slack' = 0 /\ Listens(evidence)
    BY <1>1, <2>1 DEF Slack, Listens
  <2>4. QED BY <1>1, <2>1, <2>2, <2>3, OwnActionPreserves
<1>9. CASE EvidenceTick
  <2>1. PICK ages : ages = [s \in Feeds |-> Older(e.age[s])]
    OBVIOUS
  <2>2. /\ evidence' = [e EXCEPT !.age = ages] /\ UNCHANGED <<gate, pending, live, spared>>
        /\ ~overdue /\ overdue' = (e.active = "started") /\ Listens(e)
    BY <1>1, <1>9, <2>1 DEF EvidenceTick, Evidence
  <2>3. PICK g : g = [e EXCEPT !.age = ages]
    OBVIOUS
  <2>4. /\ ages \in [Feeds -> Nat \cup {None}]
        /\ \A s \in Feeds : e.age[s] \in Nat => ages[s] \in Nat /\ ages[s] <= e.age[s] + 1
    <3>1. ASSUME NEW s \in Feeds
          PROVE  /\ ages[s] \in Nat \cup {None}
                 /\ e.age[s] \in Nat => ages[s] \in Nat /\ ages[s] <= e.age[s] + 1
      <4>1. e.age[s] \in Nat \cup {None} /\ None \notin Nat
        BY <1>2, EvidenceAssumption DEF Evidences
      <4>2. ages[s] = IF e.age[s] = None \/ e.age[s] = Oldest THEN e.age[s] ELSE e.age[s] + 1
        BY <2>1 DEF Older
      <4>3. QED BY <4>1, <4>2
    <3>2. QED BY <2>1, <3>1
  <2>5. /\ g \in Evidences /\ g.active = e.active /\ g.profile = e.profile /\ g.stage = e.stage
        /\ g.broken = e.broken /\ g.attached = e.attached /\ g.age = ages
        /\ g.session = e.session /\ g.judged = e.judged
    BY <1>2, <2>3, <2>4 DEF Evidences
  <2>6. Typed(g)
    BY <1>2, <2>5 DEF Typed
  <2>7. ASSUME g.active = "started", NEW s \in Feeds PROVE Fit(g, s, 1)
    <3>1. slack = 0 /\ Fit(e, s, slack)
      BY <1>1, <1>2, <2>2, <2>5, <2>7 DEF Slack, EvidenceKept
    <3>2. Widest(s) \in Nat
      BY PolicyConstants
    <3>3. e.judged[s] = "HEALTHY" => g.age[s] \in Nat /\ g.age[s] <= Widest(s) + 1
      BY <2>4, <2>5, <3>1, <3>2 DEF Fit
    <3>4. QED BY <2>5, <3>1, <3>3 DEF Fit
  <2>8. EvidenceKept(g, Slack')
    BY <2>2, <2>5, <2>6, <2>7 DEF EvidenceKept, Slack
  <2>9. QED BY <1>1, <2>2, <2>3, <2>5, <2>8, OwnActionPreserves
<1>10. CASE StopEvidence
  <2>1. PICK g : g = [e EXCEPT !.active = "stopped"]
    OBVIOUS
  <2>2. /\ evidence' = g /\ UNCHANGED <<gate, pending, live, spared>>
        /\ Listens(e) /\ overdue' = overdue
    BY <1>1, <1>10, <2>1 DEF StopEvidence, Evidence
  <2>3. /\ g \in Evidences /\ g.active = "stopped" /\ g.profile = e.profile /\ g.stage = e.stage
        /\ g.broken = e.broken /\ g.attached = e.attached
    BY <1>2, <2>1 DEF Evidences
  <2>4. EvidenceKept(g, slack)
    BY <1>2, <2>2, <2>3 DEF EvidenceKept, Typed, Listens
  <2>5. QED BY <1>1, <1>2, <1>3, <2>2, <2>3, <2>4, OwnActionPreserves
<1>11. QED BY <1>4, <1>5, <1>6, <1>7, <1>8, <1>9, <1>10

LEMMA EInvIsEnough == EInv => EvidenceInv
<1> SUFFICES ASSUME EInv PROVE EvidenceInv
  OBVIOUS
<1>1. Slack \in {0, 1} /\ EvidenceKept(evidence, Slack) /\ EndsSpared(live, evidence, spared)
  BY DEF EInv, Slack
<1>2. ASSUME NEW s \in Feeds, Running
      PROVE  /\ Fit(evidence, s, Slack) /\ Widest(s) \in Nat
             /\ None \notin Nat
  BY <1>1, <1>2, PolicyConstants, EvidenceAssumption DEF EvidenceKept, Running
<1>3. HealthyIsRecent
  <2>1. ASSUME NEW s \in Feeds, Running, evidence.judged[s] = "HEALTHY"
        PROVE  /\ InSession(evidence.session) /\ evidence.age[s] # None
               /\ evidence.age[s] <= AtLeast(Policy[s].fresh, Policy[s].maxFresh) + 1
               /\ evidence.stage[s] \notin Dead /\ s \in evidence.attached
    <3>1. /\ InSession(evidence.session) /\ evidence.stage[s] \notin Dead /\ s \in evidence.attached
          /\ evidence.age[s] \in Nat /\ evidence.age[s] <= Widest(s) + Slack
      BY <1>2, <2>1 DEF Fit
    <3>2. evidence.age[s] # None /\ Widest(s) \in Nat
      BY <1>2, <2>1, <3>1
    <3>3. evidence.age[s] <= Widest(s) + 1
      BY <1>1, <3>1, <3>2
    <3>4. QED BY <3>1, <3>2, <3>3 DEF Widest
  <2>2. QED BY <2>1 DEF HealthyIsRecent
<1>4. FailureIsUnavailable
  BY <1>2 DEF Fit, FailureIsUnavailable
<1>5. DeadOnlyIfSpared
  BY <1>1 DEF EndsSpared, DeadOnlyIfSpared
<1>6. QED BY <1>3, <1>4, <1>5 DEF EvidenceInv

(* HEALTHY evidence is recent to within one evaluation interval, a failed   *)
(* stream is UNAVAILABLE, and a stream the provider still delivers is held  *)
(* to have failed only when one of several claims on it ended or its        *)
(* unsubscription failed.                                                   *)
THEOREM EvidenceCorrect == EvidenceSpec => []EvidenceInv
<1>1. EInv /\ [EvidenceNext]_evidenceVars => EInv'
  <2> SUFFICES ASSUME EInv, [EvidenceNext]_evidenceVars PROVE EInv'
    OBVIOUS
  <2>1. CASE \/ ReleaseAcquisition \/ LastInstrument \/ StopAcquisition
             \/ (\E d \in Asked : Demand(d))
             \/ (\E id \in {d.id : d \in Asked} : Release(id))
    BY <2>1, AcquisitionPreserves
  <2>2. ASSUME NEW s \in Streams, NEW old \in BOOLEAN, Observation(s, old) PROVE EInv'
    BY <2>2, ObservationPreserves
  <2>3. CASE \/ StartEvidence \/ RetryAttachments \/ ReleaseEvidence
             \/ \E context \in Phases \cup {"CLOSED"} : SessionChanges(context)
             \/ EvaluateAll \/ EvidenceTick \/ StopEvidence
    BY <2>3, EvidencePreserves
  <2>4. CASE UNCHANGED evidenceVars
    BY <2>4 DEF evidenceVars, EInv, Slack
  <2>5. QED BY <2>1, <2>2, <2>3, <2>4 DEF EvidenceNext
<1>2. QED BY <1>1, EvidenceStart, EInvIsEnough, PTL DEF EvidenceSpec

------------------------------------------------------------------------------
(* The book of entities, for any entities, limits and revisions.            *)

(* A finite set of entities has a first one to evict.                       *)
Dated(b) == \A e \in DOMAIN b : e \in Nat /\ b[e].published \in Int

LEMMA EvictsBeforeOrders ==
    ASSUME NEW b, Dated(b), NEW d \in DOMAIN b, NEW e \in DOMAIN b, NEW o \in DOMAIN b
    PROVE  /\ d # e => EvictsBefore(b, d, e) \/ EvictsBefore(b, e, d)
           /\ EvictsBefore(b, d, e) /\ EvictsBefore(b, e, o) => EvictsBefore(b, d, o)
           /\ ~EvictsBefore(b, d, d)
<1>1. PICK x, y, z : x = b[d].published /\ y = b[e].published /\ z = b[o].published
  OBVIOUS
<1>2. x \in Int /\ y \in Int /\ z \in Int /\ d \in Nat /\ e \in Nat /\ o \in Nat
  BY <1>1 DEF Dated
<1>3. QED BY <1>1, <1>2 DEF EvictsBefore

LEMMA FirstEvictedExists ==
    ASSUME NEW b, Dated(b), NEW among \in SUBSET DOMAIN b, IsFiniteSet(among), among # {}
    PROVE  FirstEvicted(b, among) \in among
<1> DEFINE First(T) == \E e \in T : \A o \in T \ {e} : EvictsBefore(b, e, o)
           Sized(n) == \A T \in SUBSET DOMAIN b :
                           IsFiniteSet(T) /\ Cardinality(T) = n /\ T # {} => First(T)
           N == {n \in Nat : ~Sized(n)}
<1>1. N = {}
  <2> SUFFICES ASSUME N # {} PROVE FALSE
    OBVIOUS
  <2> HIDE DEF Sized
  <2>1. PICK n \in N : \A m \in N : n <= m
    <3>1. N \in SUBSET Nat
      OBVIOUS
    <3> HIDE DEF N
    <3>2. QED BY <3>1, Smallest
  <2>2. n \in Nat /\ ~Sized(n) /\ \A m \in Nat : m < n => Sized(m)
    BY <2>1
  <2> HIDE DEF First
  <2>3. PICK T \in SUBSET DOMAIN b : IsFiniteSet(T) /\ Cardinality(T) = n /\ T # {} /\ ~First(T)
    BY <2>2 DEF Sized
  <2>4. PICK t \in T : TRUE
    BY <2>3
  <2>5. IsFiniteSet(T \ {t}) /\ Cardinality(T \ {t}) = n - 1 /\ T \ {t} \in SUBSET DOMAIN b
    BY <2>3, FS_RemoveElement
  <2>6. n # 0
    BY <2>3, FS_EmptySet
  <2>7. Sized(n - 1)
    BY <2>2, <2>6
  <2>8. T \ {t} # {} => First(T \ {t})
    BY <2>5, <2>7 DEF Sized
  <2>9. CASE T \ {t} = {}
    BY <2>3, <2>9 DEF First
  <2>10. CASE T \ {t} # {}
    <3>1. PICK x \in T \ {t} : \A o \in (T \ {t}) \ {x} : EvictsBefore(b, x, o)
      BY <2>8, <2>10 DEF First
    <3>2. x \in DOMAIN b /\ t \in DOMAIN b /\ x # t
      OBVIOUS
    <3>3. CASE EvictsBefore(b, x, t)
      <4>1. \A o \in T \ {x} : EvictsBefore(b, x, o)
        BY <3>1, <3>3
      <4>2. QED BY <2>3, <4>1 DEF First
    <3>4. CASE EvictsBefore(b, t, x)
      <4>1. ASSUME NEW o \in T \ {t} PROVE EvictsBefore(b, t, o)
        <5>1. o = x \/ EvictsBefore(b, x, o)
          BY <3>1
        <5>2. o \in DOMAIN b
          OBVIOUS
        <5>3. EvictsBefore(b, x, o) => EvictsBefore(b, t, o)
          BY <3>2, <3>4, <5>2, EvictsBeforeOrders
        <5>4. QED BY <3>4, <5>1, <5>3
      <4>2. QED BY <2>3, <4>1 DEF First
    <3>5. QED BY <3>2, <3>3, <3>4, EvictsBeforeOrders
  <2>11. QED BY <2>9, <2>10
<1>2. Cardinality(among) \in Nat
  BY FS_CardinalityType
<1>3. Sized(Cardinality(among))
  BY <1>1, <1>2
<1>4. First(among)
  BY <1>3
<1>5. PICK e \in among : \A o \in among \ {e} : EvictsBefore(b, e, o)
  BY <1>4
<1>6. QED BY <1>5 DEF FirstEvicted

(* What is said of a book depends on its ids and its revisions only.        *)
SameInstrument(ids, id) == {e \in ids : Instrument[e] = Instrument[id]}
SameType(ids, id) == {e \in SameInstrument(ids, id) : EntityType[e] = EntityType[id]}

Scope(ids, id) ==
    CASE Cardinality(SameInstrument(ids, id)) > MaximumPerInstrument -> SameInstrument(ids, id)
      [] /\ Cardinality(SameInstrument(ids, id)) <= MaximumPerInstrument
         /\ Cardinality(SameType(ids, id)) > MaximumPerType -> SameType(ids, id)
      [] /\ Cardinality(SameInstrument(ids, id)) <= MaximumPerInstrument
         /\ Cardinality(SameType(ids, id)) <= MaximumPerType
         /\ Cardinality(ids) > MaximumEntities -> ids
      [] OTHER -> {}

EndedIn(b, among, id) == {e \in among \ {id} : b[e].life \in TerminalLifecycles}

LEMMA RestrictedBook ==
    ASSUME NEW b, NEW ids \in SUBSET DOMAIN b, NEW id
    PROVE  /\ DOMAIN Restrict(b, ids) = ids /\ \A e \in ids : Restrict(b, ids)[e] = b[e]
           /\ ViolatingScope(Restrict(b, ids), id) = Scope(ids, id)
           /\ \A among \in SUBSET ids :
                 EndedAmong(Restrict(b, ids), among, id) = EndedIn(b, among, id)
<1>1. PICK c : c = Restrict(b, ids)
  OBVIOUS
<1>2. DOMAIN c = ids /\ \A e \in ids : c[e] = b[e]
  BY <1>1 DEF Restrict
<1>3. OfInstrument(c, id) = SameInstrument(ids, id) /\ OfType(c, id) = SameType(ids, id)
  BY <1>2 DEF OfInstrument, OfType, SameInstrument, SameType
<1>4. ViolatingScope(c, id) = Scope(ids, id)
  BY <1>2, <1>3 DEF ViolatingScope, Scope
<1>5. ASSUME NEW among \in SUBSET ids PROVE EndedAmong(c, among, id) = EndedIn(b, among, id)
  BY <1>2 DEF EndedAmong, EndedIn
<1>6. QED BY <1>1, <1>2, <1>4, <1>5

(* One round of the loop: a limit is exceeded by the entities of its scope. *)
Limited(ids, id) ==
    /\ Cardinality(SameInstrument(ids, id)) <= MaximumPerInstrument
    /\ Cardinality(SameType(ids, id)) <= MaximumPerType
    /\ Cardinality(ids) <= MaximumEntities

BookShape(b) == DOMAIN b \subseteq Entities /\ Dated(b)

LEMMA ScopeIs ==
    ASSUME NEW ids \in SUBSET Entities, NEW id \in ids
    PROVE  /\ SameInstrument(ids, id) \subseteq ids /\ SameType(ids, id) \subseteq SameInstrument(ids, id)
           /\ id \in SameType(ids, id)
           /\ IsFiniteSet(ids) /\ IsFiniteSet(SameInstrument(ids, id)) /\ IsFiniteSet(SameType(ids, id))
           /\ Cardinality(ids) \in Nat /\ Cardinality(SameInstrument(ids, id)) \in Nat
           /\ Cardinality(SameType(ids, id)) \in Nat
           /\ {MaximumEntities, MaximumPerInstrument, MaximumPerType} \subseteq Nat \ {0}
           /\ Limited(ids, id) <=> Scope(ids, id) = {}
           /\ Scope(ids, id) \subseteq ids
<1>1. /\ SameInstrument(ids, id) \subseteq ids /\ SameType(ids, id) \subseteq SameInstrument(ids, id)
      /\ id \in SameType(ids, id) /\ id \in SameInstrument(ids, id)
  BY DEF SameInstrument, SameType
<1>2. IsFiniteSet(ids) /\ IsFiniteSet(SameInstrument(ids, id)) /\ IsFiniteSet(SameType(ids, id))
  BY <1>1, BookAssumption, FS_Subset
<1>3. /\ Cardinality(ids) \in Nat /\ Cardinality(SameInstrument(ids, id)) \in Nat
      /\ Cardinality(SameType(ids, id)) \in Nat
  BY <1>2, FS_CardinalityType
<1>4. MaximumEntities \in Nat \ {0} /\ MaximumPerInstrument \in Nat \ {0} /\ MaximumPerType \in Nat \ {0}
  BY BookAssumption
<1>5. PICK i \in Nat, t \in Nat, n \in Nat :
          /\ i = Cardinality(SameInstrument(ids, id)) /\ t = Cardinality(SameType(ids, id))
          /\ n = Cardinality(ids)
  BY <1>3
<1>6. CASE i > MaximumPerInstrument
  <2>1. Scope(ids, id) = SameInstrument(ids, id)
    BY <1>4, <1>5, <1>6 DEF Scope
  <2>2. ~Limited(ids, id)
    BY <1>4, <1>5, <1>6 DEF Limited
  <2>3. QED BY <1>1, <1>2, <1>3, <1>4, <2>1, <2>2
<1>7. CASE i <= MaximumPerInstrument /\ t > MaximumPerType
  <2>1. Scope(ids, id) = SameType(ids, id)
    BY <1>4, <1>5, <1>7 DEF Scope
  <2>2. ~Limited(ids, id)
    BY <1>4, <1>5, <1>7 DEF Limited
  <2>3. QED BY <1>1, <1>2, <1>3, <1>4, <2>1, <2>2
<1>8. CASE i <= MaximumPerInstrument /\ t <= MaximumPerType /\ n > MaximumEntities
  <2>1. Scope(ids, id) = ids
    BY <1>4, <1>5, <1>8 DEF Scope
  <2>2. ~Limited(ids, id)
    BY <1>4, <1>5, <1>8 DEF Limited
  <2>3. QED BY <1>1, <1>2, <1>3, <1>4, <2>1, <2>2
<1>9. CASE i <= MaximumPerInstrument /\ t <= MaximumPerType /\ n <= MaximumEntities
  <2>1. Scope(ids, id) = {}
    BY <1>4, <1>5, <1>9 DEF Scope
  <2>2. Limited(ids, id)
    BY <1>5, <1>9 DEF Limited
  <2>3. QED BY <1>1, <1>2, <1>3, <1>4, <2>1, <2>2
<1>10. QED BY <1>4, <1>6, <1>7, <1>8, <1>9

(* The loop, as the equation its recursive function satisfies.              *)
Keeping(b, id, f, ids) ==
    LET view == Restrict(b, ids)
        scope == ViolatingScope(view, id)
    IN  IF scope = {} THEN ids
        ELSE IF EndedAmong(view, scope, id) = {} THEN {}
        ELSE f[ids \ {FirstEvicted(view, EndedAmong(view, scope, id))}]

Keeps(b, id, f) == f = [ids \in SUBSET DOMAIN b |-> Keeping(b, id, f, ids)]

LEMMA EnforcedKeeps ==
    ASSUME NEW b, NEW id
    PROVE  Enforced(b, id) = (CHOOSE f : Keeps(b, id, f))[DOMAIN b]
BY DEF Enforced, Keeps, Keeping

Victim(b, id, ids) == FirstEvicted(Restrict(b, ids), EndedIn(b, Scope(ids, id), id))

Rest(b, id, ids) == ids \ {Victim(b, id, ids)}
Stuck(b, id, ids) == EndedIn(b, Scope(ids, id), id) = {}

LEMMA KeepingIs ==
    ASSUME NEW b, BookShape(b), NEW id, NEW f, NEW ids \in SUBSET DOMAIN b
    PROVE  /\ Keeping(b, id, f, ids) = IF Scope(ids, id) = {} THEN ids
                                       ELSE IF Stuck(b, id, ids) THEN {} ELSE f[Rest(b, id, ids)]
           /\ ~Stuck(b, id, ids) =>
                 /\ Victim(b, id, ids) \in EndedIn(b, Scope(ids, id), id)
                 /\ Rest(b, id, ids) \in SUBSET DOMAIN b
                 /\ Cardinality(ids) \in Nat
                 /\ Cardinality(Rest(b, id, ids)) = Cardinality(ids) - 1
<1>1. PICK view : view = Restrict(b, ids)
  OBVIOUS
<1>2. PICK scope : scope = Scope(ids, id)
  OBVIOUS
<1>3. scope \in SUBSET ids
  BY <1>2 DEF Scope, SameInstrument, SameType
<1>4. PICK ended : ended = EndedIn(b, scope, id)
  OBVIOUS
<1>5. /\ ViolatingScope(view, id) = scope /\ EndedAmong(view, scope, id) = ended
      /\ DOMAIN view = ids /\ \A e \in ids : view[e] = b[e]
  BY <1>1, <1>2, <1>3, <1>4, RestrictedBook
<1>6. Keeping(b, id, f, ids) = IF scope = {} THEN ids ELSE IF ended = {} THEN {}
                               ELSE f[ids \ {FirstEvicted(view, ended)}]
  BY <1>1, <1>5 DEF Keeping
<1>7. ended \in SUBSET ids /\ (ended # {} => scope # {})
  BY <1>3, <1>4 DEF EndedIn
<1>8. IsFiniteSet(ids) /\ IsFiniteSet(ended)
  BY <1>7, BookAssumption, FS_Subset DEF BookShape
<1>9. Dated(view)
  BY <1>5 DEF Dated, BookShape
<1>10. ended # {} => FirstEvicted(view, ended) \in ended
  BY <1>5, <1>7, <1>8, <1>9, FirstEvictedExists
<1>11. Cardinality(ids) \in Nat /\ \A e \in ids : Cardinality(ids \ {e}) = Cardinality(ids) - 1
  BY <1>8, FS_CardinalityType, FS_RemoveElement
<1>12. Victim(b, id, ids) = FirstEvicted(view, ended)
  BY <1>1, <1>2, <1>4 DEF Victim
<1>13. QED BY <1>2, <1>3, <1>4, <1>6, <1>7, <1>10, <1>11, <1>12 DEF Stuck, Rest

LEMMA KeepsExists ==
    ASSUME NEW b, BookShape(b), NEW id
    PROVE  \E f : Keeps(b, id, f)
<1> DEFINE Made(f, n) == \A ids \in SUBSET DOMAIN b :
                             Cardinality(ids) <= n => f[ids] = Keeping(b, id, f, ids)
           Upto(n) == \E f : Made(f, n)
           N == {n \in Nat : ~Upto(n)}
<1>1. ASSUME NEW n \in Nat, NEW f,
             \A ids \in SUBSET DOMAIN b : Cardinality(ids) < n => f[ids] = Keeping(b, id, f, ids)
      PROVE  Upto(n)
  <2>1. PICK g : g = [ids \in SUBSET DOMAIN b |-> Keeping(b, id, f, ids)]
    OBVIOUS
  <2>2. ASSUME NEW ids \in SUBSET DOMAIN b, Cardinality(ids) <= n
        PROVE  g[ids] = Keeping(b, id, g, ids)
    <3>1. /\ Keeping(b, id, f, ids) = IF Scope(ids, id) = {} THEN ids
                                      ELSE IF Stuck(b, id, ids) THEN {} ELSE f[Rest(b, id, ids)]
          /\ ~Stuck(b, id, ids) => /\ Rest(b, id, ids) \in SUBSET DOMAIN b
                                   /\ Cardinality(ids) \in Nat
                                   /\ Cardinality(Rest(b, id, ids)) = Cardinality(ids) - 1
      BY KeepingIs
    <3>2. Keeping(b, id, g, ids) = IF Scope(ids, id) = {} THEN ids
                                   ELSE IF Stuck(b, id, ids) THEN {} ELSE g[Rest(b, id, ids)]
      BY KeepingIs
    <3>3. ~Stuck(b, id, ids) => f[Rest(b, id, ids)] = g[Rest(b, id, ids)]
      BY <1>1, <2>1, <2>2, <3>1
    <3>4. QED BY <2>1, <2>2, <3>1, <3>2, <3>3
  <2>3. Made(g, n)
    BY <2>2
  <2> HIDE DEF Made
  <2>4. QED BY <2>3
<1>2. N = {}
  <2> SUFFICES ASSUME N # {} PROVE FALSE
    OBVIOUS
  <2> HIDE DEF Upto
  <2>1. PICK n \in N : \A m \in N : n <= m
    <3>1. N \in SUBSET Nat
      OBVIOUS
    <3> HIDE DEF N
    <3>2. QED BY <3>1, Smallest
  <2>2. n \in Nat /\ ~Upto(n) /\ \A m \in Nat : m < n => Upto(m)
    BY <2>1
  <2>3. \A ids \in SUBSET DOMAIN b : Cardinality(ids) \in Nat
    BY BookAssumption, FS_Subset, FS_CardinalityType DEF BookShape
  <2>4. CASE n = 0
    <3>1. PICK f : f = b
      OBVIOUS
    <3>2. \A ids \in SUBSET DOMAIN b : Cardinality(ids) < n => f[ids] = Keeping(b, id, f, ids)
      BY <2>3, <2>4
    <3>3. QED BY <1>1, <2>2, <3>2
  <2>5. CASE n # 0
    <3>1. n - 1 \in Nat /\ Upto(n - 1)
      BY <2>2, <2>5
    <3>2. PICK f : Made(f, n - 1)
      BY <3>1 DEF Upto
    <3>3. \A ids \in SUBSET DOMAIN b : Cardinality(ids) < n => f[ids] = Keeping(b, id, f, ids)
      BY <2>2, <2>3, <3>2
    <3>4. QED BY <1>1, <2>2, <3>3
  <2>6. QED BY <2>4, <2>5
<1>3. IsFiniteSet(DOMAIN b)
  BY BookAssumption, FS_Subset DEF BookShape
<1>4. PICK n \in Nat : n = Cardinality(DOMAIN b)
  BY <1>3, FS_CardinalityType
<1>5. PICK f : Made(f, n)
  <2> HIDE DEF Made
  <2>1. QED BY <1>2
<1>6. PICK g : g = [ids \in SUBSET DOMAIN b |-> f[ids]]
  OBVIOUS
<1>7. ASSUME NEW ids \in SUBSET DOMAIN b PROVE g[ids] = Keeping(b, id, g, ids)
  <2>1. Cardinality(ids) <= n
    BY <1>3, <1>4, FS_Subset
  <2>2. f[ids] = Keeping(b, id, f, ids)
    BY <1>5, <2>1
  <2>3. Keeping(b, id, g, ids) = Keeping(b, id, f, ids)
    <3>1. /\ Keeping(b, id, f, ids) = IF Scope(ids, id) = {} THEN ids
                                      ELSE IF Stuck(b, id, ids) THEN {} ELSE f[Rest(b, id, ids)]
          /\ ~Stuck(b, id, ids) => Rest(b, id, ids) \in SUBSET DOMAIN b
      BY KeepingIs
    <3>2. Keeping(b, id, g, ids) = IF Scope(ids, id) = {} THEN ids
                                   ELSE IF Stuck(b, id, ids) THEN {} ELSE g[Rest(b, id, ids)]
      BY KeepingIs
    <3>3. QED BY <1>6, <3>1, <3>2
  <2>4. QED BY <1>6, <2>2, <2>3
<1>8. Keeps(b, id, g)
  BY <1>6, <1>7 DEF Keeps
<1>9. QED BY <1>8

(* What the loop keeps: a fixed point of its equation.                      *)
LEMMA EnforcedUnfolds ==
    ASSUME NEW b, BookShape(b), NEW id
    PROVE  \E f : /\ Enforced(b, id) = f[DOMAIN b]
                  /\ \A ids \in SUBSET DOMAIN b :
                        /\ f[ids] = IF Scope(ids, id) = {} THEN ids
                                    ELSE IF Stuck(b, id, ids) THEN {} ELSE f[Rest(b, id, ids)]
                        /\ ~Stuck(b, id, ids) =>
                              /\ Victim(b, id, ids) \in EndedIn(b, Scope(ids, id), id)
                              /\ Cardinality(ids) \in Nat
                              /\ Cardinality(Rest(b, id, ids)) = Cardinality(ids) - 1
<1>1. PICK f : f = CHOOSE g : Keeps(b, id, g)
  OBVIOUS
<1>2. Keeps(b, id, f)
  BY <1>1, KeepsExists
<1>3. Enforced(b, id) = f[DOMAIN b]
  BY <1>1, EnforcedKeeps
<1>4. ASSUME NEW ids \in SUBSET DOMAIN b
      PROVE  /\ f[ids] = IF Scope(ids, id) = {} THEN ids
                         ELSE IF Stuck(b, id, ids) THEN {} ELSE f[Rest(b, id, ids)]
             /\ ~Stuck(b, id, ids) =>
                   /\ Victim(b, id, ids) \in EndedIn(b, Scope(ids, id), id)
                   /\ Cardinality(ids) \in Nat
                   /\ Cardinality(Rest(b, id, ids)) = Cardinality(ids) - 1
  <2>1. f[ids] = Keeping(b, id, f, ids)
    BY <1>2 DEF Keeps
  <2>2. QED BY <2>1, KeepingIs
<1>5. QED BY <1>3, <1>4

(* The sizes of what an entity leaves behind.                               *)
LEMMA Without ==
    ASSUME NEW ids \in SUBSET Entities, NEW id \in ids, NEW x \in ids, x # id
    PROVE  LET rest == ids \ {x}
           IN  /\ rest \in SUBSET Entities /\ id \in rest
               /\ Cardinality(rest) = Cardinality(ids) - 1
               /\ x \in SameInstrument(ids, id) =>
                     Cardinality(SameInstrument(rest, id)) = Cardinality(SameInstrument(ids, id)) - 1
               /\ x \notin SameInstrument(ids, id) => SameInstrument(rest, id) = SameInstrument(ids, id)
               /\ x \in SameType(ids, id) =>
                     Cardinality(SameType(rest, id)) = Cardinality(SameType(ids, id)) - 1
               /\ x \notin SameType(ids, id) => SameType(rest, id) = SameType(ids, id)
<1>1. PICK rest : rest = ids \ {x}
  OBVIOUS
<1>2. /\ SameInstrument(rest, id) = SameInstrument(ids, id) \ {x}
      /\ SameType(rest, id) = SameType(ids, id) \ {x}
  BY <1>1 DEF SameInstrument, SameType
<1>3. IsFiniteSet(ids) /\ IsFiniteSet(SameInstrument(ids, id)) /\ IsFiniteSet(SameType(ids, id))
  BY ScopeIs
<1>4. rest \in SUBSET Entities /\ id \in rest /\ Cardinality(rest) = Cardinality(ids) - 1
  BY <1>1, <1>3, FS_RemoveElement
<1>5. x \in SameInstrument(ids, id) =>
          Cardinality(SameInstrument(rest, id)) = Cardinality(SameInstrument(ids, id)) - 1
  BY <1>2, <1>3, FS_RemoveElement
<1>6. x \in SameType(ids, id) =>
          Cardinality(SameType(rest, id)) = Cardinality(SameType(ids, id)) - 1
  BY <1>2, <1>3, FS_RemoveElement
<1>7. QED BY <1>1, <1>2, <1>4, <1>5, <1>6

(* A book within its limits has room for one entity more, but for one.      *)
LEMMA OneTooMany ==
    ASSUME NEW ids \in SUBSET Entities, NEW id \in ids, WithinBook(ids \ {id})
    PROVE  /\ Cardinality(ids) <= MaximumEntities + 1
           /\ Cardinality(SameInstrument(ids, id)) <= MaximumPerInstrument + 1
           /\ Cardinality(SameType(ids, id)) <= MaximumPerType + 1
<1>1. /\ IsFiniteSet(ids) /\ IsFiniteSet(SameInstrument(ids, id)) /\ IsFiniteSet(SameType(ids, id))
      /\ id \in SameType(ids, id) /\ SameType(ids, id) \subseteq SameInstrument(ids, id)
      /\ Cardinality(ids) \in Nat /\ Cardinality(SameInstrument(ids, id)) \in Nat
      /\ Cardinality(SameType(ids, id)) \in Nat
  BY ScopeIs
<1>2. MaximumEntities \in Nat /\ MaximumPerInstrument \in Nat \ {0} /\ MaximumPerType \in Nat \ {0}
  BY BookAssumption
<1>3. PICK i, t : i = SameInstrument(ids, id) \ {id} /\ t = SameType(ids, id) \ {id}
  OBVIOUS
<1>4. /\ Cardinality(ids \ {id}) = Cardinality(ids) - 1
      /\ Cardinality(i) = Cardinality(SameInstrument(ids, id)) - 1
      /\ Cardinality(t) = Cardinality(SameType(ids, id)) - 1
  BY <1>1, <1>3, FS_RemoveElement
<1>5. Cardinality(i) <= MaximumPerInstrument
  <2>1. CASE i = {}
    BY <1>2, <2>1, FS_EmptySet
  <2>2. CASE i # {}
    <3>1. PICK e \in i : TRUE
      BY <2>2
    <3>2. e \in ids \ {id} /\ i = {o \in ids \ {id} : Instrument[o] = Instrument[e]}
      BY <1>3 DEF SameInstrument
    <3>3. QED BY <3>2 DEF WithinBook
  <2>3. QED BY <2>1, <2>2
<1>6. Cardinality(t) <= MaximumPerType
  <2>1. CASE t = {}
    BY <1>2, <2>1, FS_EmptySet
  <2>2. CASE t # {}
    <3>1. PICK e \in t : TRUE
      BY <2>2
    <3>2. e \in ids \ {id} /\ t = {o \in ids \ {id} : Instrument[o] = Instrument[e]
                                                    /\ EntityType[o] = EntityType[e]}
      BY <1>3 DEF SameInstrument, SameType
    <3>3. QED BY <3>2 DEF WithinBook
  <2>3. QED BY <2>1, <2>2
<1>7. Cardinality(ids \ {id}) <= MaximumEntities
  BY DEF WithinBook
<1>8. QED BY <1>1, <1>2, <1>4, <1>5, <1>6, <1>7

(* A limit that no removal of ended entities can meet.                      *)
Blocked(b, id, ids) ==
    \/ /\ Cardinality(SameInstrument(ids, id)) > MaximumPerInstrument
       /\ EndedIn(b, SameInstrument(ids, id), id) = {}
    \/ /\ Cardinality(SameType(ids, id)) > MaximumPerType
       /\ EndedIn(b, SameType(ids, id), id) = {}
    \/ Cardinality(ids) > MaximumEntities /\ EndedIn(b, ids, id) = {}

LEMMA ScopeCases ==
    ASSUME NEW ids \in SUBSET Entities, NEW id \in ids, ~Limited(ids, id)
    PROVE  \/ /\ Cardinality(SameInstrument(ids, id)) > MaximumPerInstrument
              /\ Scope(ids, id) = SameInstrument(ids, id)
           \/ /\ Cardinality(SameInstrument(ids, id)) <= MaximumPerInstrument
              /\ Cardinality(SameType(ids, id)) > MaximumPerType
              /\ Scope(ids, id) = SameType(ids, id)
           \/ /\ Cardinality(SameInstrument(ids, id)) <= MaximumPerInstrument
              /\ Cardinality(SameType(ids, id)) <= MaximumPerType
              /\ Cardinality(ids) > MaximumEntities
              /\ Scope(ids, id) = ids
<1>1. PICK i, t, n :
          /\ i = Cardinality(SameInstrument(ids, id)) /\ t = Cardinality(SameType(ids, id))
          /\ n = Cardinality(ids)
  OBVIOUS
<1>2. i \in Nat /\ t \in Nat /\ n \in Nat
  BY <1>1, ScopeIs
<1>3. MaximumEntities \in Nat /\ MaximumPerInstrument \in Nat /\ MaximumPerType \in Nat
  BY BookAssumption
<1>4. CASE i > MaximumPerInstrument
  <2>1. Scope(ids, id) = SameInstrument(ids, id)
    BY <1>1, <1>2, <1>3, <1>4 DEF Scope
  <2>2. QED BY <1>1, <1>4, <2>1
<1>5. CASE i <= MaximumPerInstrument /\ t > MaximumPerType
  <2>1. Scope(ids, id) = SameType(ids, id)
    BY <1>1, <1>2, <1>3, <1>5 DEF Scope
  <2>2. QED BY <1>1, <1>5, <2>1
<1>6. CASE i <= MaximumPerInstrument /\ t <= MaximumPerType
  <2>1. n > MaximumEntities
    BY <1>1, <1>2, <1>3, <1>6 DEF Limited
  <2>2. Scope(ids, id) = ids
    BY <1>1, <1>2, <1>3, <1>6, <2>1 DEF Scope
  <2>3. QED BY <1>1, <1>6, <2>1, <2>2
<1>7. QED BY <1>2, <1>3, <1>4, <1>5, <1>6

LEMMA StuckIsBlocked ==
    ASSUME NEW b, NEW ids \in SUBSET Entities, NEW id \in ids, ~Limited(ids, id), Stuck(b, id, ids)
    PROVE  Blocked(b, id, ids)
<1>1. EndedIn(b, Scope(ids, id), id) = {}
  BY DEF Stuck
<1>2. QED BY <1>1, ScopeCases DEF Blocked

(* A removal leaves at most one limit exceeded, and only by the types.      *)
NearLimits(ids, id) ==
    /\ Cardinality(ids) <= MaximumEntities + 1
    /\ Cardinality(SameInstrument(ids, id)) <= MaximumPerInstrument + 1
    /\ Cardinality(SameType(ids, id)) <= MaximumPerType + 1

LEMMA RoundShrinks ==
    ASSUME NEW b, NEW ids \in SUBSET Entities, NEW id \in ids, ~Limited(ids, id), NearLimits(ids, id),
           NEW x \in EndedIn(b, Scope(ids, id), id), NEW rest, rest = ids \ {x}
    PROVE  /\ x \in EndedIn(b, ids, id) /\ rest \in SUBSET Entities /\ id \in rest
           /\ NearLimits(rest, id)
           /\ ~Limited(rest, id) =>
                 /\ Cardinality(SameInstrument(ids, id)) > MaximumPerInstrument
                 /\ Cardinality(SameInstrument(rest, id)) <= MaximumPerInstrument
                 /\ Cardinality(rest) <= MaximumEntities
                 /\ Cardinality(SameType(rest, id)) > MaximumPerType
                 /\ SameType(rest, id) = SameType(ids, id)
<1>1. /\ x # id /\ x \in Scope(ids, id) /\ b[x].life \in TerminalLifecycles
      /\ Scope(ids, id) \subseteq ids /\ SameType(ids, id) \subseteq SameInstrument(ids, id)
  BY ScopeIs DEF EndedIn
<1>2. x \in ids
  BY <1>1
<1>3. PICK i \in Nat, t \in Nat, n \in Nat :
          /\ i = Cardinality(SameInstrument(ids, id)) /\ t = Cardinality(SameType(ids, id))
          /\ n = Cardinality(ids)
  BY ScopeIs
<1>4. /\ rest \in SUBSET Entities /\ id \in rest /\ Cardinality(rest) = Cardinality(ids) - 1
      /\ x \in SameInstrument(ids, id) =>
            Cardinality(SameInstrument(rest, id)) = Cardinality(SameInstrument(ids, id)) - 1
      /\ x \notin SameInstrument(ids, id) => SameInstrument(rest, id) = SameInstrument(ids, id)
      /\ x \in SameType(ids, id) =>
            Cardinality(SameType(rest, id)) = Cardinality(SameType(ids, id)) - 1
      /\ x \notin SameType(ids, id) => SameType(rest, id) = SameType(ids, id)
  BY <1>1, <1>2, Without
<1>5. PICK j \in Nat, u \in Nat, m \in Nat :
          /\ j = Cardinality(SameInstrument(rest, id)) /\ u = Cardinality(SameType(rest, id))
          /\ m = Cardinality(rest)
  BY <1>4, ScopeIs
<1>6. /\ m = n - 1
      /\ x \in SameInstrument(ids, id) => j = i - 1
      /\ x \notin SameInstrument(ids, id) => j = i
      /\ x \in SameType(ids, id) => u = t - 1
      /\ x \notin SameType(ids, id) => u = t /\ SameType(rest, id) = SameType(ids, id)
  BY <1>3, <1>4, <1>5
<1>7. MaximumEntities \in Nat /\ MaximumPerInstrument \in Nat /\ MaximumPerType \in Nat
  BY BookAssumption
<1>8. n <= MaximumEntities + 1 /\ i <= MaximumPerInstrument + 1 /\ t <= MaximumPerType + 1
  BY <1>3 DEF NearLimits
<1>9. m <= MaximumEntities /\ j <= i /\ u <= t
  BY <1>6, <1>7, <1>8
<1>10. Limited(rest, id) <=> j <= MaximumPerInstrument /\ u <= MaximumPerType
  BY <1>5, <1>9 DEF Limited
<1>11. NearLimits(rest, id)
  BY <1>5, <1>7, <1>8, <1>9 DEF NearLimits
<1>12. \/ i > MaximumPerInstrument /\ x \in SameInstrument(ids, id)
       \/ i <= MaximumPerInstrument /\ t > MaximumPerType /\ x \in SameType(ids, id)
       \/ i <= MaximumPerInstrument /\ t <= MaximumPerType
  BY <1>1, <1>3, ScopeCases
<1>13. ~Limited(rest, id) =>
          /\ i > MaximumPerInstrument /\ j <= MaximumPerInstrument
          /\ u > MaximumPerType /\ SameType(rest, id) = SameType(ids, id)
  BY <1>6, <1>7, <1>8, <1>9, <1>10, <1>12
<1>14. x \in EndedIn(b, ids, id)
  BY <1>1, <1>2 DEF EndedIn
<1>15. QED BY <1>3, <1>4, <1>5, <1>9, <1>11, <1>13, <1>14

LEMMA AtMostTwo ==
    ASSUME NEW x, NEW y
    PROVE  Cardinality({x}) <= 2 /\ Cardinality({x, y}) <= 2
<1>1. IsFiniteSet({x}) /\ Cardinality({x}) = 1
  BY FS_Singleton
<1>2. {x, y} = {x} \cup {y}
  OBVIOUS
<1>3. Cardinality({x} \cup {y}) = IF y \in {x} THEN Cardinality({x}) ELSE Cardinality({x}) + 1
  BY <1>1, FS_AddElement
<1>4. QED BY <1>1, <1>2, <1>3

LEMMA EnforcedOutcome ==
    ASSUME NEW b, BookShape(b), NEW id \in DOMAIN b, WithinBook(DOMAIN b \ {id})
    PROVE  \/ Enforced(b, id) = {} /\ Blocked(b, id, DOMAIN b)
           \/ \E gone \in SUBSET EndedIn(b, DOMAIN b, id) :
                 /\ Enforced(b, id) = DOMAIN b \ gone /\ Cardinality(gone) <= 2
                 /\ Limited(DOMAIN b \ gone, id)
                 /\ gone # {} => ~Limited(DOMAIN b, id)
<1>1. PICK f : /\ Enforced(b, id) = f[DOMAIN b]
               /\ \A ids \in SUBSET DOMAIN b :
                        /\ f[ids] = IF Scope(ids, id) = {} THEN ids
                                    ELSE IF Stuck(b, id, ids) THEN {} ELSE f[Rest(b, id, ids)]
                        /\ ~Stuck(b, id, ids) =>
                              /\ Victim(b, id, ids) \in EndedIn(b, Scope(ids, id), id)
                              /\ Cardinality(ids) \in Nat
                              /\ Cardinality(Rest(b, id, ids)) = Cardinality(ids) - 1
  BY EnforcedUnfolds
<1>2. PICK all : all = DOMAIN b
  OBVIOUS
<1>3. all \in SUBSET Entities /\ id \in all /\ NearLimits(all, id)
  BY <1>2, OneTooMany DEF BookShape, NearLimits
<1>4. ASSUME NEW ids \in SUBSET all, id \in ids
      PROVE  /\ Limited(ids, id) => f[ids] = ids
             /\ ~Limited(ids, id) /\ Stuck(b, id, ids) => f[ids] = {}
             /\ ~Limited(ids, id) /\ ~Stuck(b, id, ids) =>
                   \E x \in EndedIn(b, Scope(ids, id), id) : f[ids] = f[ids \ {x}]
  <2>1. Limited(ids, id) <=> Scope(ids, id) = {}
    BY <1>3, <1>4, ScopeIs
  <2>2. QED BY <1>1, <1>2, <1>4, <2>1 DEF Rest
<1>5. CASE Limited(all, id)
  <2>1. f[all] = all
    BY <1>3, <1>4, <1>5
  <2>2. PICK gone : gone = {}
    OBVIOUS
  <2>3. Cardinality(gone) <= 2 /\ all \ gone = all
    BY <2>2, FS_EmptySet
  <2>4. QED BY <1>1, <1>2, <1>5, <2>1, <2>2, <2>3
<1>6. CASE ~Limited(all, id) /\ Stuck(b, id, all)
  <2>1. f[all] = {}
    BY <1>3, <1>4, <1>6
  <2>2. Blocked(b, id, all)
    BY <1>3, <1>6, StuckIsBlocked
  <2>3. QED BY <1>1, <1>2, <2>1, <2>2
<1>7. CASE ~Limited(all, id) /\ ~Stuck(b, id, all)
  <2>1. PICK x \in EndedIn(b, Scope(all, id), id) : f[all] = f[all \ {x}]
    BY <1>3, <1>4, <1>7
  <2>2. PICK rest : rest = all \ {x}
    OBVIOUS
  <2>3. /\ x \in EndedIn(b, all, id) /\ rest \in SUBSET Entities /\ id \in rest
        /\ NearLimits(rest, id)
        /\ ~Limited(rest, id) =>
              /\ Cardinality(SameInstrument(rest, id)) <= MaximumPerInstrument
              /\ Cardinality(rest) <= MaximumEntities
              /\ Cardinality(SameType(rest, id)) > MaximumPerType
              /\ SameType(rest, id) = SameType(all, id)
    BY <1>3, <1>7, <2>2, RoundShrinks
  <2>4. rest \in SUBSET all
    BY <2>2
  <2>5. CASE Limited(rest, id)
    <3>1. f[all] = rest
      BY <1>4, <2>1, <2>2, <2>3, <2>4, <2>5
    <3>2. PICK gone : gone = {x}
      OBVIOUS
    <3>3. Cardinality(gone) <= 2
      BY <3>2, AtMostTwo
    <3>4. gone \in SUBSET EndedIn(b, all, id) /\ all \ gone = rest
      BY <2>2, <2>3, <3>2
    <3>5. QED BY <1>1, <1>2, <1>7, <2>5, <3>1, <3>3, <3>4
  <2>6. CASE ~Limited(rest, id) /\ Stuck(b, id, rest)
    <3>1. f[all] = {}
      BY <1>4, <2>1, <2>2, <2>3, <2>4, <2>6
    <3>2. Scope(rest, id) = SameType(rest, id)
      <4>1. /\ Cardinality(SameInstrument(rest, id)) \in Nat /\ MaximumPerInstrument \in Nat
            /\ Cardinality(SameType(rest, id)) \in Nat /\ MaximumPerType \in Nat
        BY <2>3, ScopeIs, BookAssumption
      <4>2. QED BY <2>3, <2>6, <4>1, ScopeCases
    <3>3. Cardinality(SameType(all, id)) > MaximumPerType /\ EndedIn(b, SameType(all, id), id) = {}
      BY <2>3, <2>6, <3>2 DEF Stuck
    <3>4. Blocked(b, id, all)
      BY <3>3 DEF Blocked
    <3>5. QED BY <1>1, <1>2, <3>1, <3>4
  <2>7. CASE ~Limited(rest, id) /\ ~Stuck(b, id, rest)
    <3>1. PICK y \in EndedIn(b, Scope(rest, id), id) : f[rest] = f[rest \ {y}]
      BY <1>4, <2>3, <2>4, <2>7
    <3>2. PICK final : final = rest \ {y}
      OBVIOUS
    <3>3. /\ y \in EndedIn(b, rest, id) /\ final \in SUBSET Entities /\ id \in final
          /\ ~Limited(final, id) => Cardinality(SameInstrument(rest, id)) > MaximumPerInstrument
      BY <2>3, <2>7, <3>2, RoundShrinks
    <3>4. Limited(final, id)
      <4>1. Cardinality(SameInstrument(rest, id)) \in Nat /\ MaximumPerInstrument \in Nat
        BY <2>3, ScopeIs, BookAssumption
      <4>2. QED BY <2>3, <2>7, <3>3, <4>1
    <3>5. f[all] = final
      <4>1. final \in SUBSET all
        BY <2>4, <3>2
      <4>2. f[final] = final
        BY <1>4, <3>3, <3>4, <4>1
      <4>3. QED BY <2>1, <2>2, <3>1, <3>2, <4>2
    <3>6. PICK gone : gone = {x, y}
      OBVIOUS
    <3>7. Cardinality(gone) <= 2
      BY <3>6, AtMostTwo
    <3>8. gone \in SUBSET EndedIn(b, all, id) /\ all \ gone = final
      BY <2>2, <2>3, <2>4, <3>2, <3>3, <3>6 DEF EndedIn
    <3>9. QED BY <1>1, <1>2, <1>7, <3>4, <3>5, <3>7, <3>8
  <2>8. QED BY <2>5, <2>6, <2>7
<1>8. QED BY <1>5, <1>6, <1>7

(* Limits are not exceeded by fewer.                                        *)
LEMMA FewerFit ==
    ASSUME NEW ids \in SUBSET Entities, WithinBook(ids), NEW fewer \in SUBSET ids
    PROVE  WithinBook(fewer)
<1>1. IsFiniteSet(ids) /\ {MaximumEntities, MaximumPerInstrument, MaximumPerType} \subseteq Nat
  BY BookAssumption, FS_Subset
<1>2. \A s \in SUBSET ids : /\ IsFiniteSet(s) /\ Cardinality(s) \in Nat
                            /\ \A u \in SUBSET s : Cardinality(u) <= Cardinality(s) /\ Cardinality(u) \in Nat
  BY <1>1, FS_Subset, FS_CardinalityType
<1>3. Cardinality(fewer) <= MaximumEntities
  <2>1. Cardinality(fewer) <= Cardinality(ids) /\ Cardinality(ids) <= MaximumEntities
        /\ Cardinality(ids) \in Nat /\ Cardinality(fewer) \in Nat
    BY <1>2 DEF WithinBook
  <2>2. QED BY <1>1, <2>1
<1>4. ASSUME NEW e \in fewer
      PROVE  /\ Cardinality({o \in fewer : Instrument[o] = Instrument[e]}) <= MaximumPerInstrument
             /\ Cardinality({o \in fewer : Instrument[o] = Instrument[e]
                                           /\ EntityType[o] = EntityType[e]}) <= MaximumPerType
  <2>1. PICK i, j : /\ i = {o \in fewer : Instrument[o] = Instrument[e]}
                    /\ j = {o \in ids : Instrument[o] = Instrument[e]}
    OBVIOUS
  <2>2. PICK t, u : /\ t = {o \in fewer : Instrument[o] = Instrument[e] /\ EntityType[o] = EntityType[e]}
                    /\ u = {o \in ids : Instrument[o] = Instrument[e] /\ EntityType[o] = EntityType[e]}
    OBVIOUS
  <2>3. i \in SUBSET j /\ j \in SUBSET ids /\ t \in SUBSET u /\ u \in SUBSET ids /\ e \in ids
    BY <2>1, <2>2
  <2>4. /\ Cardinality(i) <= Cardinality(j) /\ Cardinality(i) \in Nat /\ Cardinality(j) \in Nat
        /\ Cardinality(t) <= Cardinality(u) /\ Cardinality(t) \in Nat /\ Cardinality(u) \in Nat
    BY <1>2, <2>3
  <2>5. Cardinality(j) <= MaximumPerInstrument /\ Cardinality(u) <= MaximumPerType
    BY <2>1, <2>2, <2>3 DEF WithinBook
  <2>6. QED BY <1>1, <2>1, <2>2, <2>4, <2>5
<1>5. QED BY <1>3, <1>4 DEF WithinBook

(* The limits that concern the new entity are all that can be exceeded.     *)
LEMMA LimitedFits ==
    ASSUME NEW ids \in SUBSET Entities, NEW id \in ids, WithinBook(ids \ {id})
    PROVE  WithinBook(ids) <=> Limited(ids, id)
<1>1. ASSUME WithinBook(ids) PROVE Limited(ids, id)
  <2>1. /\ SameInstrument(ids, id) = {o \in ids : Instrument[o] = Instrument[id]}
        /\ SameType(ids, id) = {o \in ids : Instrument[o] = Instrument[id] /\ EntityType[o] = EntityType[id]}
    BY DEF SameInstrument, SameType
  <2>2. QED BY <1>1, <2>1 DEF WithinBook, Limited
<1>2. ASSUME Limited(ids, id) PROVE WithinBook(ids)
  <2>1. Cardinality(ids) <= MaximumEntities
    BY <1>2 DEF Limited
  <2>2. ASSUME NEW e \in ids
        PROVE  /\ Cardinality({o \in ids : Instrument[o] = Instrument[e]}) <= MaximumPerInstrument
               /\ Cardinality({o \in ids : Instrument[o] = Instrument[e]
                                           /\ EntityType[o] = EntityType[e]}) <= MaximumPerType
    <3>1. PICK i, t : /\ i = {o \in ids : Instrument[o] = Instrument[e]}
                      /\ t = {o \in ids : Instrument[o] = Instrument[e] /\ EntityType[o] = EntityType[e]}
      OBVIOUS
    <3>2. Cardinality(i) <= MaximumPerInstrument
      <4>1. CASE Instrument[e] = Instrument[id]
        <5>1. i = SameInstrument(ids, id)
          BY <3>1, <4>1 DEF SameInstrument
        <5>2. QED BY <1>2, <5>1 DEF Limited
      <4>2. CASE Instrument[e] # Instrument[id]
        <5>1. e \in ids \ {id} /\ i = {o \in ids \ {id} : Instrument[o] = Instrument[e]}
          BY <3>1, <4>2
        <5>2. QED BY <5>1 DEF WithinBook
      <4>3. QED BY <4>1, <4>2
    <3>3. Cardinality(t) <= MaximumPerType
      <4>1. CASE Instrument[e] = Instrument[id] /\ EntityType[e] = EntityType[id]
        <5>1. t = SameType(ids, id)
          BY <3>1, <4>1 DEF SameInstrument, SameType
        <5>2. QED BY <1>2, <5>1 DEF Limited
      <4>2. CASE ~(Instrument[e] = Instrument[id] /\ EntityType[e] = EntityType[id])
        <5>1. e \in ids \ {id} /\ t = {o \in ids \ {id} : Instrument[o] = Instrument[e]
                                                        /\ EntityType[o] = EntityType[e]}
          BY <3>1, <4>2
        <5>2. QED BY <5>1 DEF WithinBook
      <4>3. QED BY <4>1, <4>2
    <3>4. QED BY <3>1, <3>2, <3>3
  <2>3. QED BY <2>1, <2>2 DEF WithinBook
<1>3. QED BY <1>1, <1>2

(* A limit that is blocked stays exceeded whatever ended entities go.       *)
LEMMA BlockedStays ==
    ASSUME NEW b, DOMAIN b \in SUBSET Entities, NEW id \in DOMAIN b, Blocked(b, id, DOMAIN b),
           NEW gone \in SUBSET EndedIn(b, DOMAIN b, id)
    PROVE  ~WithinBook(DOMAIN b \ gone)
<1>1. PICK all, rest : all = DOMAIN b /\ rest = all \ gone
  OBVIOUS
<1>2. id \in rest /\ id \in all /\ rest \in SUBSET Entities /\ all \in SUBSET Entities
  BY <1>1 DEF EndedIn
<1>3. /\ Cardinality(SameInstrument(all, id)) \in Nat /\ Cardinality(SameType(all, id)) \in Nat
      /\ Cardinality(all) \in Nat
      /\ MaximumEntities \in Nat /\ MaximumPerInstrument \in Nat /\ MaximumPerType \in Nat
  BY <1>2, ScopeIs, BookAssumption
<1>4. /\ SameInstrument(rest, id) = {o \in rest : Instrument[o] = Instrument[id]}
      /\ SameType(rest, id) = {o \in rest : Instrument[o] = Instrument[id] /\ EntityType[o] = EntityType[id]}
  BY DEF SameInstrument, SameType
<1>5. WithinBook(rest) => /\ Cardinality(SameInstrument(rest, id)) <= MaximumPerInstrument
                          /\ Cardinality(SameType(rest, id)) <= MaximumPerType
                          /\ Cardinality(rest) <= MaximumEntities
  BY <1>2, <1>4 DEF WithinBook
<1>6. ASSUME NEW among \in SUBSET all, EndedIn(b, among, id) = {} PROVE among \subseteq rest
  BY <1>1, <1>6 DEF EndedIn
<1>7. CASE /\ Cardinality(SameInstrument(all, id)) > MaximumPerInstrument
           /\ EndedIn(b, SameInstrument(all, id), id) = {}
  <2>1. SameInstrument(all, id) \subseteq rest
    BY <1>6, <1>7 DEF SameInstrument
  <2>2. SameInstrument(rest, id) = SameInstrument(all, id)
    BY <1>1, <2>1 DEF SameInstrument
  <2>3. QED BY <1>1, <1>3, <1>5, <1>7, <2>2
<1>8. CASE /\ Cardinality(SameType(all, id)) > MaximumPerType
           /\ EndedIn(b, SameType(all, id), id) = {}
  <2>1. SameType(all, id) \subseteq rest
    BY <1>6, <1>8 DEF SameInstrument, SameType
  <2>2. SameType(rest, id) = SameType(all, id)
    BY <1>1, <2>1 DEF SameInstrument, SameType
  <2>3. QED BY <1>1, <1>3, <1>5, <1>8, <2>2
<1>9. CASE Cardinality(all) > MaximumEntities /\ EndedIn(b, all, id) = {}
  <2>1. rest = all
    BY <1>1, <1>6, <1>9
  <2>2. QED BY <1>1, <1>3, <1>5, <1>9, <2>1
<1>10. QED BY <1>1, <1>7, <1>8, <1>9 DEF Blocked

(* The inductive invariant of the book.                                     *)
BookKept ==
    /\ DOMAIN book \subseteq Entities
    /\ \A e \in DOMAIN book : book[e] \in Proposed /\ book[e].id = e

BInv == BookKept /\ BookFits /\ LiveKept

LEMMA EnteredBook ==
    ASSUME BInv, NEW r \in Proposed
    PROVE  /\ DOMAIN Entered(book, r) = DOMAIN book \cup {r.id}
           /\ Entered(book, r)[r.id] = r
           /\ \A e \in DOMAIN book \ {r.id} : Entered(book, r)[e] = book[e]
           /\ BookShape(Entered(book, r))
           /\ \A e \in DOMAIN Entered(book, r) :
                 Entered(book, r)[e] \in Proposed /\ Entered(book, r)[e].id = e
<1>1. PICK b : b = Entered(book, r)
  OBVIOUS
<1>2. /\ DOMAIN b = DOMAIN book \cup {r.id} /\ b[r.id] = r
      /\ \A e \in DOMAIN book \ {r.id} : b[e] = book[e]
  BY <1>1 DEF Entered
<1>3. r.id \in Entities /\ \A p \in Proposed : p.published \in Int
  BY BookAssumption DEF Constructible
<1>4. \A e \in DOMAIN b : b[e] \in Proposed /\ b[e].id = e
  BY <1>2 DEF BInv, BookKept
<1>5. BookShape(b)
  BY <1>2, <1>3, <1>4, BookAssumption DEF BookShape, Dated, BInv, BookKept
<1>6. QED BY <1>1, <1>2, <1>4, <1>5

(* What becomes of a new entity.                                            *)
Decided(id, all, ended, kept) ==
    /\ kept = {} <=> ~\E gone \in SUBSET ended : WithinBook(all \ gone)
    /\ kept # {} => /\ WithinBook(kept) /\ all \ kept \subseteq ended
                    /\ kept \subseteq all /\ id \in kept
                    /\ Cardinality(all \ kept) <= 2
                    /\ WithinBook(all) => kept = all

LEMMA NewEntity ==
    ASSUME BInv, NEW r \in Proposed, r.id \notin DOMAIN book,
           NEW all, all = DOMAIN book \cup {r.id},
           NEW ended, ended = EndedAmong(book, DOMAIN book, r.id),
           NEW kept, kept = Enforced(Entered(book, r), r.id)
    PROVE  Decided(r.id, all, ended, kept)
<1>1. PICK id, b : id = r.id /\ b = Entered(book, r)
  OBVIOUS
<1>2. /\ DOMAIN b = all /\ id \in all /\ BookShape(b) /\ all \in SUBSET Entities
      /\ \A e \in DOMAIN book : b[e] = book[e]
  BY <1>1, EnteredBook DEF BookShape
<1>3. all \ {id} = DOMAIN book /\ WithinBook(all \ {id})
  BY <1>1 DEF BInv, BookFits
<1>4. ended = EndedIn(b, all, id)
  BY <1>1, <1>2, <1>3 DEF EndedAmong, EndedIn
<1>5. \/ kept = {} /\ Blocked(b, id, all)
      \/ \E gone \in SUBSET ended :
            /\ kept = all \ gone /\ Cardinality(gone) <= 2 /\ Limited(all \ gone, id)
            /\ gone # {} => ~Limited(all, id)
  <2>1. id \in DOMAIN b /\ WithinBook(DOMAIN b \ {id})
    BY <1>2, <1>3
  <2>2. \/ Enforced(b, id) = {} /\ Blocked(b, id, DOMAIN b)
        \/ \E gone \in SUBSET EndedIn(b, DOMAIN b, id) :
              /\ Enforced(b, id) = DOMAIN b \ gone /\ Cardinality(gone) <= 2
              /\ Limited(DOMAIN b \ gone, id)
              /\ gone # {} => ~Limited(DOMAIN b, id)
    BY <1>2, <2>1, EnforcedOutcome
  <2>3. kept = Enforced(b, id)
    BY <1>1
  <2>4. QED BY <1>2, <1>4, <2>2, <2>3
<1>6. CASE kept = {} /\ Blocked(b, id, all)
  <2>1. \A gone \in SUBSET ended : ~WithinBook(all \ gone)
    BY <1>2, <1>4, <1>6, BlockedStays
  <2>2. QED BY <1>6, <2>1 DEF Decided
<1>7. ASSUME NEW gone \in SUBSET ended, kept = all \ gone, Cardinality(gone) <= 2,
             Limited(all \ gone, id), gone # {} => ~Limited(all, id)
      PROVE  /\ kept # {} /\ WithinBook(kept) /\ all \ kept \subseteq ended
             /\ kept \subseteq all /\ id \in kept
             /\ Cardinality(all \ kept) <= 2
             /\ WithinBook(all) => kept = all
  <2>1. gone \subseteq all /\ id \notin gone
    BY <1>4 DEF EndedIn
  <2>2. id \in kept /\ all \ kept = gone /\ kept \in SUBSET Entities
    BY <1>2, <1>7, <2>1
  <2>3. WithinBook(kept \ {id})
    <3>1. kept \ {id} \in SUBSET (all \ {id}) /\ all \ {id} \in SUBSET Entities
      BY <1>2, <1>7
    <3>2. QED BY <1>3, <3>1, FewerFit
  <2>4. WithinBook(kept)
    BY <1>7, <2>2, <2>3, LimitedFits
  <2>5. WithinBook(all) => gone = {}
    BY <1>2, <1>3, <1>7, LimitedFits
  <2>6. QED BY <1>7, <2>2, <2>4, <2>5
<1>8. CASE kept # {}
  <2>1. PICK gone \in SUBSET ended :
            /\ kept = all \ gone /\ Cardinality(gone) <= 2 /\ Limited(all \ gone, id)
            /\ gone # {} => ~Limited(all, id)
    BY <1>5, <1>8
  <2>2. /\ WithinBook(kept) /\ all \ kept \subseteq ended /\ kept \subseteq all /\ id \in kept
        /\ Cardinality(all \ kept) <= 2
        /\ WithinBook(all) => kept = all
    BY <1>7, <2>1
  <2>3. QED BY <1>1, <1>8, <2>1, <2>2 DEF Decided
<1>9. CASE kept = {}
  <2>1. ~\E gone \in SUBSET ended :
            /\ kept = all \ gone /\ Cardinality(gone) <= 2 /\ Limited(all \ gone, id)
            /\ gone # {} => ~Limited(all, id)
    BY <1>7, <1>9
  <2>2. QED BY <1>5, <1>6, <2>1
<1>10. QED BY <1>8, <1>9

LEMMA BookStart == BookInit => BInv
<1> SUFFICES ASSUME BookInit PROVE BInv
  OBVIOUS
<1>1. DOMAIN book = {} /\ owed = {}
  BY DEF BookInit
<1>2. Cardinality({}) = 0 /\ MaximumEntities \in Nat
  BY FS_EmptySet, BookAssumption
<1>3. BookFits
  BY <1>1, <1>2 DEF BookFits, WithinBook
<1>4. QED BY <1>1, <1>3 DEF BInv, BookKept, LiveKept

LEMMA BookStep == BInv /\ [BookNext]_bookVars => BInv'
<1> SUFFICES ASSUME BInv, [BookNext]_bookVars PROVE BInv'
  OBVIOUS
<1>1. ASSUME NEW r \in Proposed, Admit(r) PROVE BInv'
  <2>1. PICK b : b = Entered(book, r)
    OBVIOUS
  <2>2. /\ DOMAIN b = DOMAIN book \cup {r.id} /\ b[r.id] = r
        /\ \A e \in DOMAIN book \ {r.id} : b[e] = book[e]
        /\ \A e \in DOMAIN b : b[e] \in Proposed /\ b[e].id = e
        /\ DOMAIN b \subseteq Entities
    BY <2>1, EnteredBook DEF BookShape
  <2>3. ASSUME NEW kept \in SUBSET DOMAIN b, r.id \in kept, WithinBook(kept),
               \A e \in (DOMAIN b) \ kept : book[e].life \in TerminalLifecycles /\ e \in DOMAIN book,
               NEW c, DOMAIN c = kept, \A e \in kept : c[e] = b[e], SetBook(c, r)
        PROVE  BInv'
    <3>1. book' = c /\ owed' = IF r.life \in TerminalLifecycles THEN owed \ {r.id} ELSE owed \cup {r.id}
      BY <2>3 DEF SetBook
    <3>2. BookKept'
      BY <2>2, <2>3, <3>1 DEF BookKept
    <3>3. BookFits'
      BY <2>3, <3>1 DEF BookFits
    <3>4. owed' = {e \in kept : c[e].life \notin TerminalLifecycles}
      <4>1. ASSUME NEW e PROVE e \in owed' <=> e \in kept /\ c[e].life \notin TerminalLifecycles
        <5>1. CASE e = r.id
          BY <2>2, <2>3, <3>1, <5>1
        <5>2. CASE e # r.id
          <6>1. e \in owed' <=> e \in DOMAIN book /\ book[e].life \notin TerminalLifecycles
            BY <3>1, <5>2 DEF BInv, LiveKept
          <6>2. e \in DOMAIN book <=> e \in DOMAIN b
            BY <2>2, <5>2
          <6>3. e \in kept => c[e] = book[e] /\ e \in DOMAIN b
            BY <2>2, <2>3, <5>2
          <6>4. e \in DOMAIN b /\ e \notin kept => book[e].life \in TerminalLifecycles
            BY <2>3
          <6>5. QED BY <6>1, <6>2, <6>3, <6>4
        <5>3. QED BY <5>1, <5>2
      <4>2. QED BY <4>1
    <3>5. LiveKept'
      BY <2>3, <3>1, <3>4 DEF LiveKept
    <3>6. QED BY <3>2, <3>3, <3>5 DEF BInv
  <2>4. CASE r.id \in DOMAIN book /\ SetBook(b, r)
    <3>1. DOMAIN b = DOMAIN book /\ WithinBook(DOMAIN b)
      BY <2>2, <2>4 DEF BInv, BookFits
    <3>2. PICK kept : kept = DOMAIN b
      OBVIOUS
    <3>3. kept \in SUBSET DOMAIN b /\ r.id \in kept /\ WithinBook(kept) /\ (DOMAIN b) \ kept = {}
      BY <2>2, <3>1, <3>2
    <3>4. QED BY <2>3, <2>4, <3>2, <3>3
  <2>5. CASE /\ r.id \notin DOMAIN book
             /\ LET kept == Enforced(Entered(book, r), r.id)
                IN  kept # {} /\ SetBook(Restrict(Entered(book, r), kept), r)
    <3>1. PICK kept : kept = Enforced(Entered(book, r), r.id)
      OBVIOUS
    <3>2. kept # {} /\ SetBook(Restrict(b, kept), r)
      BY <2>1, <2>5, <3>1
    <3>3. PICK all, ended : all = DOMAIN book \cup {r.id} /\ ended = EndedAmong(book, DOMAIN book, r.id)
      OBVIOUS
    <3>4. /\ WithinBook(kept) /\ all \ kept \subseteq ended /\ kept \subseteq all /\ r.id \in kept
      <4>1. r.id \notin DOMAIN book
        BY <2>5
      <4>2. Decided(r.id, all, ended, kept)
        BY <3>1, <3>3, <4>1, NewEntity
      <4>3. QED BY <3>2, <4>2 DEF Decided
    <3>5. all = DOMAIN b /\ kept \in SUBSET DOMAIN b
      BY <2>2, <3>3, <3>4
    <3>6. \A e \in (DOMAIN b) \ kept : book[e].life \in TerminalLifecycles /\ e \in DOMAIN book
      BY <3>3, <3>4, <3>5 DEF EndedAmong
    <3>7. PICK c : c = Restrict(b, kept)
      OBVIOUS
    <3>8. DOMAIN c = kept /\ \A e \in kept : c[e] = b[e]
      BY <3>7 DEF Restrict
    <3>9. SetBook(c, r)
      BY <3>2, <3>7
    <3>10. QED BY <2>3, <3>4, <3>5, <3>6, <3>8, <3>9
  <2>6. QED BY <1>1, <2>1, <2>4, <2>5 DEF Admit
<1>2. ASSUME NEW before, NEW maximum, Prune(before, maximum) PROVE BInv'
  <2>1. PICK removed \in SUBSET Prunable(before) :
            book' = Restrict(book, DOMAIN book \ removed) /\ owed' = owed
    BY <1>2 DEF Prune
  <2>2. /\ DOMAIN book' = DOMAIN book \ removed /\ \A e \in DOMAIN book' : book'[e] = book[e]
        /\ \A e \in removed : book[e].life \in TerminalLifecycles
    BY <2>1 DEF Restrict, Prunable
  <2>3. BookKept'
    BY <2>2 DEF BInv, BookKept
  <2>4. WithinBook(DOMAIN book \ removed)
    <3>1. DOMAIN book \in SUBSET Entities /\ WithinBook(DOMAIN book)
          /\ DOMAIN book \ removed \in SUBSET DOMAIN book
      BY DEF BInv, BookKept, BookFits
    <3>2. QED BY <3>1, FewerFit
  <2>5. BookFits'
    BY <2>2, <2>4 DEF BookFits
  <2>6. LiveKept'
    <3>1. owed' = {e \in DOMAIN book : book[e].life \notin TerminalLifecycles}
      BY <2>1 DEF BInv, LiveKept
    <3>2. owed' = {e \in DOMAIN book' : book'[e].life \notin TerminalLifecycles}
      BY <2>2, <3>1
    <3>3. QED BY <3>2 DEF LiveKept
  <2>7. QED BY <2>3, <2>5, <2>6 DEF BInv
<1>3. CASE UNCHANGED bookVars
  BY <1>3 DEF bookVars, BInv, BookKept, BookFits, LiveKept
<1>4. QED BY <1>1, <1>2, <1>3 DEF BookNext

(* After any admissions, evictions and removals every limit holds, nothing  *)
(* is given up before its lifecycle ended, and a new entity is refused for  *)
(* capacity exactly when no removal of ended entities could make room.      *)
THEOREM BookCorrect == BookSpec => []BookInv
<1>1. BInv => BookInv
  <2> SUFFICES ASSUME BInv PROVE BookInv
    OBVIOUS
  <2>1. ASSUME NEW id \in Entities \ DOMAIN book, NEW r \in {p \in Proposed : p.id = id}
        PROVE  LET all == DOMAIN book \cup {id}
                   ended == EndedAmong(book, DOMAIN book, id)
                   kept == Enforced(Entered(book, r), id)
               IN  /\ kept = {} <=> ~\E gone \in SUBSET ended : WithinBook(all \ gone)
                   /\ kept # {} => /\ WithinBook(kept) /\ all \ kept \subseteq ended
                                   /\ Cardinality(all \ kept) <= 2
                                   /\ WithinBook(all) => kept = all
    <3>1. r \in Proposed /\ r.id = id /\ r.id \notin DOMAIN book
      OBVIOUS
    <3>2. PICK all, ended, kept : /\ all = DOMAIN book \cup {r.id}
                                  /\ ended = EndedAmong(book, DOMAIN book, r.id)
                                  /\ kept = Enforced(Entered(book, r), r.id)
      OBVIOUS
    <3>3. Decided(r.id, all, ended, kept)
      BY <3>1, <3>2, NewEntity
    <3>4. QED BY <3>1, <3>2, <3>3 DEF Decided
  <2>2. RefusalIsReal
    BY <2>1 DEF RefusalIsReal
  <2>3. QED BY <2>2 DEF BInv, BookInv
<1>2. QED BY <1>1, BookStart, BookStep, PTL DEF BookSpec

(* The books that a run keeps side by side, for any subjects, entities,     *)
(* contents, lifecycles and limits.                                         *)
THEOREM RevisionsCorrect == BookSpec /\ AdmissionSpec => []RevisionsInv
BY BookCorrect, AdmissionCorrect, PTL DEF RevisionsInv
=============================================================================
