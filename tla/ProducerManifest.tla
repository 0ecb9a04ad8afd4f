-------------------------- MODULE ProducerManifest --------------------------
(* _ProducerManifestV1: who produces which bar series and metric, and what  *)
(* its constructor refuses.  A manifest is a record of                      *)
(*   instances   a sequence of [actor, series], the series a sequence       *)
(*   bars        of each series: its [producer, activation]                 *)
(*   metrics     of each claim: its [subject, inputs, needs, activation],   *)
(*               the inputs series and the needs claims                     *)
(* Sorting, digests and the fields a claim must share with its subject, its *)
(* series and the manifest are left out: a claim of the model agrees.       *)
EXTENDS Integers, FiniteSets, Sequences, SequencesExt

CONSTANTS
    MaximumSeriesPerInstance, MaximumTotalSeries,
    Manifests      \* the manifests that are offered

(* Claims are numbered in the order of their ids.                           *)
ASSUME ManifestAssumption ==
    /\ MaximumSeriesPerInstance \in Nat
    /\ \A m \in Manifests :
          /\ DOMAIN m.metrics \in SUBSET Nat /\ IsFiniteSet(DOMAIN m.metrics)
          /\ m.instances \in Seq([actor : STRING, series : Seq(STRING)])

VARIABLE manifest

------------------------------------------------------------------------------
EnabledSeries(m) == {s \in DOMAIN m.bars : m.bars[s].activation = "ENABLED"}

AssignedTo(m, s) == {i \in DOMAIN m.instances : s \in ToSet(m.instances[i].series)}

(* The constructor of _FoundationInstanceAssignment.                        *)
WellAssigned(instance) ==
    /\ Len(instance.series) \in 1..MaximumSeriesPerInstance
    /\ Cardinality(ToSet(instance.series)) = Len(instance.series)

(* _validate_assignments                                                    *)
AssignmentsValid(m) ==
    /\ \A i \in DOMAIN m.instances : WellAssigned(m.instances[i])
    /\ \A i, j \in DOMAIN m.instances :
          m.instances[i].actor = m.instances[j].actor => i = j
    /\ Cardinality(EnabledSeries(m)) <= MaximumTotalSeries
    /\ \A i \in DOMAIN m.instances : ToSet(m.instances[i].series) \subseteq EnabledSeries(m)
    /\ \A s \in UNION {ToSet(m.instances[i].series) : i \in DOMAIN m.instances} :
          Cardinality(AssignedTo(m, s)) = 1
    /\ \A s \in EnabledSeries(m) :
          \E i \in AssignedTo(m, s) : m.instances[i].actor = m.bars[s].producer

(* Visiting claims depth first, each once, in the order of their ids: what  *)
(* visiting those of t[3] does while the claims of t[1] are being visited   *)
(* and those of t[2] have been.                                             *)
Visit(metrics) ==
    LET Claims == SUBSET DOMAIN metrics
        visit[t \in Claims \X Claims \X Claims] ==
            IF t[3] = {} THEN [cyclic |-> FALSE, done |-> t[2]]
            ELSE LET c == Min(t[3])
                     one == IF c \in t[1] THEN [cyclic |-> TRUE, done |-> t[2]]
                            ELSE IF c \in t[2] THEN [cyclic |-> FALSE, done |-> t[2]]
                            ELSE LET below == visit[<<t[1] \cup {c}, t[2], metrics[c].needs>>]
                                 IN  IF below.cyclic THEN below
                                     ELSE [cyclic |-> FALSE, done |-> below.done \cup {c}]
                 IN  IF one.cyclic THEN one ELSE visit[<<t[1], one.done, t[3] \ {c}>>]
    IN  visit

(* Fault: only the first claim is visited.                                  *)
AcyclicFromFirst(metrics) ==
    DOMAIN metrics = {} \/ ~Visit(metrics)[<<{}, {}, {Min(DOMAIN metrics)}>>].cyclic

(* _reject_dependency_cycles: every claim is visited, in the order of ids.  *)
Acyclic(metrics) == ~Visit(metrics)[<<{}, {}, DOMAIN metrics>>].cyclic

(* _validate_metric_claims: an unknown dependency is refused after the      *)
(* activation of the known ones, and the cycles last.                       *)
ClaimsValid(m) ==
    /\ \A c \in DOMAIN m.metrics :
          m.metrics[c].activation # "DISABLED" => m.metrics[c].inputs \subseteq EnabledSeries(m)
    /\ \A c, d \in DOMAIN m.metrics :
          m.metrics[c].activation = "ENABLED" /\ m.metrics[d].activation = "ENABLED"
          /\ m.metrics[c].subject = m.metrics[d].subject => c = d
    /\ \A c \in DOMAIN m.metrics : m.metrics[c].activation = "ENABLED" =>
          \A d \in m.metrics[c].needs \cap DOMAIN m.metrics : m.metrics[d].activation = "ENABLED"
    /\ \A c \in DOMAIN m.metrics : m.metrics[c].needs \subseteq DOMAIN m.metrics
    /\ Acyclic(m.metrics)

Constructed(m) == AssignmentsValid(m) /\ ClaimsValid(m)

ManifestInit == manifest \in Manifests

------------------------------------------------------------------------------
(* Claims that wait for one another in a circle: a set in which each needs  *)
(* another of the set.                                                      *)
Circular(metrics) ==
    \E circle \in (SUBSET DOMAIN metrics) \ {{}} :
        \A c \in circle : metrics[c].needs \cap circle # {}

(* What a claim needs, and all that those need.                             *)
Needed(metrics, c) ==
    LET grown[n \in 0..Cardinality(DOMAIN metrics)] ==
            IF n = 0 THEN {c}
            ELSE grown[n - 1] \cup UNION {metrics[d].needs : d \in grown[n - 1]}
    IN  grown[Cardinality(DOMAIN metrics)]

(* The visit that remembers what it has done refuses a manifest for its     *)
(* dependencies exactly if some claims need one another in a circle.        *)
VisitFindsCircles ==
    (\A c \in DOMAIN manifest.metrics : manifest.metrics[c].needs \subseteq DOMAIN manifest.metrics)
    => (Acyclic(manifest.metrics) <=> ~Circular(manifest.metrics))

(* Every enabled metric of a constructed manifest can be computed: all that *)
(* it needs, directly or not, is enabled, in an order without circles, and  *)
(* draws on series of which each has one actor, the one its claim names,    *)
(* with no more series than it may own.                                     *)
EnabledIsComputable ==
    Constructed(manifest) =>
        \A c \in {d \in DOMAIN manifest.metrics : manifest.metrics[d].activation = "ENABLED"} :
            \A d \in Needed(manifest.metrics, c) :
                /\ manifest.metrics[d].activation = "ENABLED"
                /\ \A s \in manifest.metrics[d].inputs :
                      \E i \in DOMAIN manifest.instances :
                          /\ AssignedTo(manifest, s) = {i}
                          /\ manifest.instances[i].actor = manifest.bars[s].producer
                          /\ Len(manifest.instances[i].series) <= MaximumSeriesPerInstance

ManifestInv == VisitFindsCircles /\ EnabledIsComputable
=============================================================================
