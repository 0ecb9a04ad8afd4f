---------------------------- MODULE BarValidation ----------------------------
(* _validate_historical_batch: the bars a provider returned for a requested *)
(* span of one series, judged as a batch.  An observation is a record       *)
(*   series     its series identity                                         *)
(*   start      of its interval, of the same length in every series here    *)
(*   missing    the constituent slots it was built without                  *)
(*   revision   of the source                                               *)
(*   prices     prices and volume                                           *)
(*   lineage    the entries of where it comes from                          *)
(*   references its evidence, besides what the entries refer to             *)
(* The loop over the batch is a step per observation, and the result is     *)
(* what it would be if the batch ended there.                               *)
EXTENDS Integers, FiniteSets, Sequences, Functions

CONSTANTS
    Series,                      \* the identity that is asked for
    Interval, Slots,             \* of that series: its length, and the slots of a bar
    RequestedStart, RequestedEnd, MaximumRaw,
    MaximumLineage,              \* entries a payload may carry
    MaximumReferences,           \* references to evidence a payload may carry
    EntryReferences,             \* those of each lineage entry, of the provider's observation too
    ForeignEntries,              \* lineage that is live, or of another input
    Received                     \* observations that a batch may hold

ExpectedStarts ==
    {t \in RequestedStart..RequestedEnd - 1 : (t - RequestedStart) % Interval = 0}

(* The constructor of _HistoricalBarObservation: some constituent was       *)
(* received, and the missing ones are slots of the bar.                     *)
ObservationValid(o) ==
    /\ o = [series |-> o.series, start |-> o.start, missing |-> o.missing,
            revision |-> o.revision, prices |-> o.prices, lineage |-> o.lineage,
            references |-> o.references]
    /\ o.start \in Nat \ {0} /\ o.revision \in Nat \ {0}
    /\ o.missing \subseteq Slots /\ o.missing # Slots
    /\ IsFiniteSet(o.lineage) /\ o.lineage # {} /\ Cardinality(o.lineage) <= MaximumLineage
    /\ IsFiniteSet(o.references) /\ Cardinality(o.references) <= MaximumReferences

(* The constructor of _HistoricalValidationRequest.                         *)
ASSUME RequestAssumption ==
    /\ Interval \in Nat \ {0} /\ RequestedStart \in Nat \ {0}
    /\ RequestedEnd \in Nat /\ {MaximumRaw, MaximumLineage, MaximumReferences} \subseteq Nat
    /\ RequestedEnd > RequestedStart /\ (RequestedEnd - RequestedStart) % Interval = 0
    /\ MaximumRaw >= Cardinality(ExpectedStarts)
    /\ \A o \in Received : ObservationValid(o)
    /\ \A o \in Received : \A e \in o.lineage : IsFiniteSet(EntryReferences[e])

VARIABLES
    retained,     \* the observation of each key: its series and the start of its interval
    duplicates, conflicting, reasons,
    raised,       \* merged lineage or references exceeded their bound
    batch         \* the observations taken, in order

validationVars == <<retained, duplicates, conflicting, reasons, raised, batch>>

------------------------------------------------------------------------------
(* completion_state, of which health and fidelity of an observation are     *)
(* functions.                                                               *)
Partial(o) == o.missing # {}

Key(o) == <<o.series, o.start>>

(* Fault: constituents are no part of what makes two observations equal.    *)
EquivalentInPrices(a, b) == a.revision = b.revision /\ a.prices = b.prices
Equivalent(a, b) ==
    a.missing = b.missing /\ a.revision = b.revision /\ a.prices = b.prices

(* What the loop finds wrong with an observation by itself and after the    *)
(* one before it.                                                           *)
Faults(o) ==
    {reason \in {"IDENTITY_MISMATCH", "REVISION_REJECTED",
                 "OUTSIDE_REQUEST_BOUNDS", "ORDERING_INVALID"} :
        CASE reason = "IDENTITY_MISMATCH" ->
                o.series # Series \/ o.lineage \cap ForeignEntries # {}
          [] reason = "REVISION_REJECTED" -> o.revision # 1
          [] reason = "OUTSIDE_REQUEST_BOUNDS" ->
                o.start < RequestedStart \/ o.start + Interval > RequestedEnd
          [] reason = "ORDERING_INVALID" ->
                batch # <<>> /\ o.start < batch[Len(batch)].start}

ValidationInit ==
    /\ retained = [k \in {} |-> 0] /\ duplicates = 0 /\ conflicting = 0
    /\ reasons = {} /\ raised = FALSE /\ batch = <<>>

TakeNew(o) ==
    /\ Key(o) \notin DOMAIN retained
    /\ retained' = [k \in DOMAIN retained \cup {Key(o)} |->
                       IF k = Key(o) THEN o ELSE retained[k]]
    /\ reasons' = reasons \cup Faults(o)
    /\ UNCHANGED <<duplicates, conflicting, raised>>

(* _merge_duplicate_observations keeps the first with the lineage and the   *)
(* references of both; either may be too many.                              *)
TakeDuplicate(o) ==
    /\ Key(o) \in DOMAIN retained /\ Equivalent(retained[Key(o)], o)
    /\ duplicates' = duplicates + 1
    /\ reasons' = reasons \cup Faults(o)
    /\ retained' = [retained EXCEPT ![Key(o)].lineage = @ \cup o.lineage,
                                    ![Key(o)].references = @ \cup o.references]
    /\ raised' = (\/ Cardinality(retained'[Key(o)].lineage) > MaximumLineage
                  \/ Cardinality(retained'[Key(o)].references) > MaximumReferences)
    /\ UNCHANGED conflicting

TakeConflict(o) ==
    /\ Key(o) \in DOMAIN retained /\ ~Equivalent(retained[Key(o)], o)
    /\ conflicting' = conflicting + 1
    /\ reasons' = reasons \cup Faults(o) \cup {"UNEQUAL_INTERVAL_CONFLICT"}
    /\ UNCHANGED <<retained, duplicates, raised>>

ValidationNext ==
    \E o \in Received :
        /\ raised = FALSE /\ Len(batch) < MaximumRaw
        /\ batch' = Append(batch, o)
        /\ TakeNew(o) \/ TakeDuplicate(o) \/ TakeConflict(o)

ValidationSpec == ValidationInit /\ [][ValidationNext]_validationVars

------------------------------------------------------------------------------
Ordered == {retained[k] : k \in DOMAIN retained}

MissingStarts == ExpectedStarts \ {o.start : o \in Ordered}

AllReasons ==
    reasons \cup (IF MissingStarts # {} THEN {"MISSING_INTERVALS"} ELSE {})
            \cup (IF \E o \in Ordered : Partial(o) THEN {"PARTIAL_OBSERVATION"} ELSE {})
            \cup (IF batch = <<>> THEN {"EMPTY_BATCH"} ELSE {})

(* Every reason the loop records rejects the batch; those added after it    *)
(* make it partial.                                                         *)
Disposition ==
    IF reasons # {} THEN "REJECTED" ELSE IF AllReasons # {} THEN "PARTIAL" ELSE "COMPLETE"

Usable == IF Disposition = "REJECTED" THEN {} ELSE Ordered

Lineage == UNION {o.lineage : o \in Ordered}

(* The references of observations, and those of the entries they carry too. *)
Own(observations) == UNION {o.references : o \in observations}
ReferencesOf(observations) ==
    Own(observations)
    \cup UNION {EntryReferences[e] : e \in UNION {o.lineage : o \in observations}}

References == ReferencesOf(Ordered)

(* The constructor of _HistoricalValidationResult: what can fail in it.     *)
ResultConstructed ==
    /\ Len(batch) = Cardinality(DOMAIN retained) + duplicates + conflicting
    /\ \A o \in Usable : o.series = Series /\ o.start >= RequestedStart
                         /\ o.start + Interval <= RequestedEnd
    /\ Disposition # "REJECTED" => Cardinality(Usable) = Cardinality(DOMAIN retained)
    /\ Disposition = "COMPLETE" =>
          /\ Cardinality(DOMAIN retained) = Cardinality(ExpectedStarts)
          /\ conflicting = 0
    /\ Disposition # "COMPLETE" => AllReasons # {}

(* The validator returns a result rather than raise.                        *)
Returns ==
    /\ ~raised
    /\ Cardinality(Lineage) <= MaximumLineage /\ Cardinality(References) <= MaximumReferences
    /\ ResultConstructed

------------------------------------------------------------------------------
Taken == {batch[i] : i \in DOMAIN batch}

(* What the batch as a whole must be to be of use: bars of the series, of   *)
(* the expected historical input and first revision, within the request and *)
(* in order, any two of the same interval alike but for where they are from. *)
Sound ==
    /\ \A o \in Taken : /\ o.series = Series /\ o.lineage \cap ForeignEntries = {}
                        /\ o.revision = 1
                        /\ o.start \in RequestedStart..RequestedEnd - Interval
    /\ \A i, j \in DOMAIN batch : i < j => batch[i].start <= batch[j].start
    /\ \A o, p \in Taken : o.start = p.start =>
          [o EXCEPT !.lineage = {}, !.references = {}]
              = [p EXCEPT !.lineage = {}, !.references = {}]

(* The disposition does not depend on how the loop met the observations: a  *)
(* batch is rejected exactly if it is not sound, and complete exactly if it *)
(* also has a whole bar for every interval.                                 *)
JudgedAsAWhole ==
    ~raised =>
        /\ Disposition # "REJECTED" <=> Sound
        /\ Disposition = "COMPLETE" <=>
              /\ Sound
              /\ \A t \in ExpectedStarts : \E o \in Taken : o.start = t
              /\ \A o \in Taken : ~Partial(o)

TakenLineage == UNION {o.lineage : o \in Taken}

(* Merging duplicates loses neither lineage nor a reference of a batch that *)
(* is used.                                                                 *)
LineageKept ==
    Disposition # "REJECTED" => Lineage = TakenLineage /\ References = ReferencesOf(Taken)

(* What the batch as a whole carries fits into a payload.                   *)
Carried ==
    /\ Cardinality(TakenLineage) <= MaximumLineage
    /\ Cardinality(ReferencesOf(Taken)) <= MaximumReferences

(* A complete batch with a bar besides that starts between the intervals of *)
(* the request, which nothing before the result's constructor looks for.    *)
ExtraBars == Disposition = "COMPLETE" /\ \E o \in Taken : o.start \notin ExpectedStarts

(* Whether the validator returns or raises does not depend on how the loop  *)
(* met the observations either.  It returns for every batch that fits into  *)
(* a payload and is not complete with extra bars, and of the batches it     *)
(* does not reject for no other: that duplicates are merged one at a time   *)
(* raises for no batch that fits as a whole, and lets no other through.     *)
RaisesAsAWhole ==
    /\ Carried /\ ~ExtraBars => Returns
    /\ Returns /\ Disposition # "REJECTED" => Carried /\ ~ExtraBars

ValidationInv == JudgedAsAWhole /\ LineageKept /\ RaisesAsAWhole
=============================================================================
