---------------------------- MODULE RunStart_proofs ----------------------------
(* The start of a run: what a loaded configuration guarantees, for every    *)
(* configuration and every interval between observations that may be        *)
(* learned; what a manifest that is constructed guarantees, whatever its    *)
(* claims need of one another; and the life of the run, for any number of   *)
(* signals at any moment.                                                   *)
EXTENDS Declarations, RunLifecycle, FiniteSetTheorems, WellFoundedInduction, TLAPS

------------------------------------------------------------------------------
(* Thresholds.                                                              *)

LEMMA BoundedBetween ==
    ASSUME NEW value \in Nat, NEW low \in Nat, NEW high \in Nat, low <= high
    PROVE  /\ Bounded(value, low, high) \in Nat
           /\ low <= Bounded(value, low, high) /\ Bounded(value, low, high) <= high
BY DEF Bounded

LEMMA SpreadIsNat ==
    ASSUME NEW mean \in Nat, NEW sigma \in Nat, NEW deviation \in Nat
    PROVE  mean + sigma * deviation \in Nat
OBVIOUS

(* max of the policy's least age and one more than the age before it keeps  *)
(* the ages apart, and never exceeds the policy's greatest age.             *)
LEMMA AdaptiveRises ==
    ASSUME NEW p, Loads(p), NEW mean \in Nat, NEW deviation \in Nat
    PROVE  /\ Rising(Adaptive(p, mean, deviation))
           /\ Adaptive(p, mean, deviation).unavailable <= p.maxUnavailable
<1> DEFINE early == mean + p.sigmaFresh * deviation
           later == mean + p.sigmaStale * deviation
           latest == mean + p.sigmaUnavailable * deviation
           fresh == Bounded(early, p.minFresh, p.maxFresh)
           stale == Bounded(later, AtLeast(p.minStale, fresh + 1), p.maxStale)
           unavailable == Bounded(latest, AtLeast(p.minUnavailable, stale + 1), p.maxUnavailable)
<1>1. early \in Nat /\ later \in Nat /\ latest \in Nat
  BY SpreadIsNat DEF Loads
<1>2. /\ p.minFresh \in Nat \ {0} /\ p.minStale \in Nat /\ p.minUnavailable \in Nat
      /\ p.maxFresh \in Nat /\ p.maxStale \in Nat /\ p.maxUnavailable \in Nat
      /\ p.maxFresh < p.maxStale /\ p.maxStale < p.maxUnavailable
      /\ p.minFresh <= p.maxFresh /\ p.minStale <= p.maxStale
      /\ p.minUnavailable <= p.maxUnavailable
  BY DEF Loads
<1> HIDE DEF early, later, latest
<1>3. fresh \in Nat /\ p.minFresh <= fresh /\ fresh <= p.maxFresh
  BY <1>1, <1>2, BoundedBetween
<1> HIDE DEF fresh
<1>4. /\ AtLeast(p.minStale, fresh + 1) \in Nat
      /\ fresh < AtLeast(p.minStale, fresh + 1)
      /\ AtLeast(p.minStale, fresh + 1) <= p.maxStale
  BY <1>2, <1>3 DEF AtLeast
<1>5. stale \in Nat /\ AtLeast(p.minStale, fresh + 1) <= stale /\ stale <= p.maxStale
  BY <1>1, <1>2, <1>4, BoundedBetween
<1>6. fresh < stale
  BY <1>3, <1>4, <1>5
<1> HIDE DEF stale
<1>7. /\ AtLeast(p.minUnavailable, stale + 1) \in Nat
      /\ stale < AtLeast(p.minUnavailable, stale + 1)
      /\ AtLeast(p.minUnavailable, stale + 1) <= p.maxUnavailable
  BY <1>2, <1>5 DEF AtLeast
<1>8. /\ unavailable \in Nat /\ unavailable <= p.maxUnavailable
      /\ AtLeast(p.minUnavailable, stale + 1) <= unavailable
  BY <1>1, <1>2, <1>7, BoundedBetween
<1>9. stale < unavailable
  BY <1>5, <1>7, <1>8
<1>10. /\ Adaptive(p, mean, deviation).fresh = fresh
       /\ Adaptive(p, mean, deviation).stale = stale
       /\ Adaptive(p, mean, deviation).unavailable = unavailable
  BY DEF Adaptive, early, later, latest, fresh, stale
<1>11. 0 < fresh
  BY <1>2, <1>3
<1>12. QED BY <1>6, <1>8, <1>9, <1>10, <1>11 DEF Rising

LEMMA EvidenceServes ==
    ASSUME NEW v, EvidenceHealthLoads(v)
    PROVE  EvidenceServed(v)
<1> SUFFICES ASSUME NEW i \in DOMAIN v.policies
             PROVE  /\ Rising(Fixed(v.policies[i].limits))
                    /\ LearnedRises(v.policies[i].limits)
  BY DEF EvidenceServed
<1>1. Loads(v.policies[i].limits)
  BY DEF EvidenceHealthLoads
<1>2. Rising(Fixed(v.policies[i].limits))
  BY <1>1 DEF Loads, Rising, Fixed
<1>3. LearnedRises(v.policies[i].limits)
  BY <1>1, AdaptiveRises, ConfigurationAssumption DEF LearnedRises
<1>4. QED BY <1>2, <1>3

------------------------------------------------------------------------------
(* Calendars.                                                               *)

(* As many corrections are found in the catalog as a calendar names.        *)
LEMMA CorrectionsFound ==
    ASSUME NEW names \in Seq(STRING), Distinct(names), NEW corrections,
           \A i, j \in DOMAIN corrections : corrections[i].id = corrections[j].id => i = j,
           Members(names) \subseteq {corrections[i].id : i \in DOMAIN corrections}
    PROVE  Cardinality({i \in DOMAIN corrections : corrections[i].id \in Members(names)})
               = Len(names)
<1> DEFINE found == {i \in DOMAIN corrections : corrections[i].id \in Members(names)}
           f == [k \in 1..Len(names) |->
                    CHOOSE i \in DOMAIN corrections : corrections[i].id = names[k]]
<1>1. DOMAIN names = 1..Len(names) /\ Len(names) \in Nat
  OBVIOUS
<1>2. \A k \in 1..Len(names) :
          /\ f[k] \in DOMAIN corrections /\ corrections[f[k]].id = names[k]
  <2> SUFFICES ASSUME NEW k \in 1..Len(names)
               PROVE  f[k] \in DOMAIN corrections /\ corrections[f[k]].id = names[k]
    OBVIOUS
  <2>1. names[k] \in Members(names)
    BY <1>1 DEF Members
  <2>2. \E i \in DOMAIN corrections : corrections[i].id = names[k]
    BY <2>1
  <2>3. QED BY <2>2
<1>3. f \in [1..Len(names) -> found]
  BY <1>1, <1>2 DEF Members
<1>4. ASSUME NEW j \in 1..Len(names), NEW k \in 1..Len(names), f[j] = f[k]
      PROVE  j = k
  <2>1. names[j] = names[k]
    BY <1>2, <1>4
  <2>2. QED BY <1>1, <2>1 DEF Distinct
<1>5. ASSUME NEW i \in found PROVE \E k \in 1..Len(names) : f[k] = i
  <2>1. PICK k \in 1..Len(names) : corrections[i].id = names[k]
    BY <1>1 DEF Members
  <2>2. QED BY <1>2, <2>1
<1>6. f \in Bijection(1..Len(names), found)
  <2> HIDE DEF f, found
  <2>1. f \in Injection(1..Len(names), found)
    BY <1>3, <1>4 DEF Injection, IsInjective
  <2>2. f \in Surjection(1..Len(names), found)
    BY <1>3, <1>5 DEF Surjection
  <2>3. QED BY <2>1, <2>2 DEF Bijection
<1>7. ExistsBijection(1..Len(names), found)
  BY <1>6 DEF ExistsBijection
<1>8. IsFiniteSet(1..Len(names)) /\ Cardinality(1..Len(names)) = Len(names)
  <2> HIDE DEF f, found
  <2>1. 1 \in Int /\ Len(names) \in Int
    BY <1>1
  <2>2. /\ IsFiniteSet(1..Len(names))
        /\ Cardinality(1..Len(names)) = IF 1 > Len(names) THEN 0 ELSE Len(names) - 1 + 1
    BY <2>1, FS_Interval
  <2>3. QED BY <1>1, <2>2
<1>9. QED BY <1>7, <1>8, FS_Bijection

LEMMA CalendarServes ==
    ASSUME NEW calendar, NEW catalog, CalendarLoads(calendar, catalog),
           CorrectionsLoad(catalog.corrections, catalog.sources)
    PROVE  CalendarServed(calendar, catalog)
<1> DEFINE boundaries == {calendar.phases[i].from : i \in DOMAIN calendar.phases}
                         \cup {calendar.phases[i].to : i \in DOMAIN calendar.phases}
           used == {b.value : b \in {x \in boundaries : x.kind = "schedule_boundary"}}
           corrections == {i \in DOMAIN catalog.corrections :
                              catalog.corrections[i].id \in Members(calendar.corrections)}
<1>1. calendar.columns \in Seq(STRING) /\ calendar.columns # <<>>
  BY DEF CalendarLoads, UniqueStrings
<1>2. 1 \in DOMAIN calendar.columns /\ Len(calendar.columns) \in DOMAIN calendar.columns
  BY <1>1
<1>3. {"market_open", "market_close"} \subseteq Members(calendar.columns)
  BY <1>2 DEF CalendarLoads, Members
<1>4. used \subseteq Members(calendar.columns)
  BY DEF CalendarLoads, BoundaryAdmitted
<1>5. Members(calendar.columns) \subseteq MarketTimes[calendar.provider]
  BY DEF CalendarLoads
<1>6. {"break_start", "break_end"} \cap Members(calendar.columns)
          \in {{}, {"break_start", "break_end"}}
  <2>1. "break_start" \in Members(calendar.columns) <=> "break_end" \in Members(calendar.columns)
    BY DEF CalendarLoads
  <2>2. CASE "break_start" \in Members(calendar.columns)
    <3>1. {"break_start", "break_end"} \cap Members(calendar.columns)
              = {"break_start", "break_end"}
      BY <2>1, <2>2
    <3>2. QED BY <3>1
  <2>3. CASE "break_start" \notin Members(calendar.columns)
    <3>1. {"break_start", "break_end"} \cap Members(calendar.columns) = {}
      BY <2>1, <2>3
    <3>2. QED BY <3>1
  <2>4. QED BY <2>2, <2>3
<1>7. Cardinality(corrections) = Len(calendar.corrections)
  BY CorrectionsFound DEF CalendarLoads, CorrectionsLoad, UniqueStrings
<1>8. \A i \in corrections :
          \E j \in DOMAIN catalog.sources : catalog.sources[j].id = catalog.corrections[i].source
  BY DEF CorrectionsLoad
<1>9. \A i \in DOMAIN calendar.phases : calendar.phases[i].name \notin {"CLOSED", "BREAK"}
  BY DEF CalendarLoads, PhasesLoad
<1>10. QED BY <1>3, <1>4, <1>5, <1>6, <1>7, <1>8, <1>9 DEF CalendarServed

LEMMA CalendarsServe ==
    ASSUME NEW v, SessionsLoad(v)
    PROVE  CalendarsServed(v)
<1> SUFFICES ASSUME NEW i \in DOMAIN v.calendar_ids
             PROVE  \E j \in DOMAIN v.calendar_catalog.calendars :
                        /\ v.calendar_catalog.calendars[j].id = v.calendar_ids[i]
                        /\ CalendarServed(v.calendar_catalog.calendars[j], v.calendar_catalog)
  BY DEF CalendarsServed
<1>1. PICK j \in DOMAIN v.calendar_catalog.calendars :
          v.calendar_catalog.calendars[j].id = v.calendar_ids[i]
  BY DEF SessionsLoad, Members
<1>2. /\ CalendarLoads(v.calendar_catalog.calendars[j], v.calendar_catalog)
      /\ CorrectionsLoad(v.calendar_catalog.corrections, v.calendar_catalog.sources)
  BY DEF SessionsLoad, CatalogLoads
<1>3. QED BY <1>1, <1>2, CalendarServes

------------------------------------------------------------------------------
(* Counts.                                                                  *)

LEMMA ProjectionServes ==
    ASSUME NEW v, SessionsLoad(v)
    PROVE  ProjectionServed(v)
<1>1. /\ v.projection_lookback_days \in Nat /\ v.projection_lookahead_days \in Nat
      /\ v.maximum_projection_days \in Nat
  BY DEF SessionsLoad, PositiveInt, SessionCounts
<1>2. v.projection_lookback_days + v.projection_lookahead_days + 1 <= v.maximum_projection_days
  BY DEF SessionsLoad, ProjectionFits
<1>3. Len(v.calendar_ids) <= v.maximum_calendars_per_request
  BY DEF SessionsLoad
<1>4. QED BY <1>1, <1>2, <1>3 DEF ProjectionServed, RequestedDays

------------------------------------------------------------------------------
(* Two files.                                                               *)

LEMMA SplitKept ==
    ASSUME NEW operator, NEW policy, Splits(operator, policy)
    PROVE  FilesKept(Assembled(operator, policy), operator, policy)
<1> DEFINE c == Assembled(operator, policy)
<1>1. /\ \A s \in SharedSections : c[s] = Merge(policy[s], operator[s])
      /\ \A s \in PolicySections \ SharedSections : c[s] = policy[s]
      /\ \A s \in {"runtime", "preload_instruments"} : c[s] = operator[s]
  BY DEF Assembled, SharedSections, PolicySections, SectionNames
<1>2. /\ DOMAIN OperatorKeys = SharedSections \cup {"runtime", "preload_instruments"}
      /\ SharedSections \subseteq PolicySections
  BY DEF OperatorKeys, SharedSections, PolicySections, SectionNames
<1>3. \A s \in DOMAIN OperatorKeys : DOMAIN operator[s] = OperatorKeys[s]
  BY DEF Splits, HasKeys
<1>4. \A s \in SharedSections : DOMAIN policy[s] \cap DOMAIN operator[s] = {}
  BY DEF Splits
<1> HIDE DEF c
<1>5. ASSUME NEW s \in DOMAIN OperatorKeys, NEW k \in OperatorKeys[s]
      PROVE  c[s][k] = operator[s][k]
  <2>1. CASE s \in SharedSections
    <3>1. Merge(policy[s], operator[s])[k] = operator[s][k]
      BY <1>3 DEF Merge
    <3>2. QED BY <1>1, <2>1, <3>1
  <2>2. CASE s \in {"runtime", "preload_instruments"}
    BY <1>1, <2>2
  <2>3. QED BY <1>2, <2>1, <2>2
<1>6. ASSUME NEW s \in PolicySections, NEW k \in DOMAIN policy[s]
      PROVE  c[s][k] = policy[s][k] /\ (s \in SharedSections => k \notin OperatorKeys[s])
  <2>1. CASE s \in SharedSections
    <3>1. k \notin DOMAIN operator[s]
      BY <1>4, <2>1
    <3>2. Merge(policy[s], operator[s])[k] = policy[s][k]
      BY <3>1 DEF Merge
    <3>3. QED BY <1>1, <1>2, <1>3, <2>1, <3>1, <3>2
  <2>2. CASE s \notin SharedSections
    BY <1>1, <2>2
  <2>3. QED BY <2>1, <2>2
<1>7. ASSUME NEW s \in SharedSections, NEW k \in DOMAIN c[s]
      PROVE  k \in OperatorKeys[s] \/ k \in DOMAIN policy[s]
  <2>1. DOMAIN Merge(policy[s], operator[s]) = DOMAIN policy[s] \cup DOMAIN operator[s]
    BY DEF Merge
  <2>2. QED BY <1>1, <1>2, <1>3, <2>1
<1>8. QED BY <1>5, <1>6, <1>7 DEF FilesKept, c

------------------------------------------------------------------------------
(* Whatever configuration load_system_config lets through, in one file or   *)
(* in two: projection requests are not refused for their size, calendars    *)
(* have all their columns, corrections and sources, thresholds are in order *)
(* whatever is learned, and of two files each decides the keys that are its *)
(* own, and no other.                                                       *)
THEOREM LoadedServes == ConfigurationInv
<1> DEFINE c == Loaded(configuration)
<1> SUFFICES ASSUME LoadSystemConfig(configuration)
             PROVE  /\ ProjectionServed(c.sessions) /\ CalendarsServed(c.sessions)
                    /\ EvidenceServed(c.evidence_health)
                    /\ configuration.policy # NoFile =>
                          FilesKept(c, configuration.file, configuration.policy)
  BY DEF ConfigurationInv
<1>1. ConfigurationLoads(c)
  BY DEF LoadSystemConfig
<1>2. ASSUME configuration.policy # NoFile
      PROVE  FilesKept(c, configuration.file, configuration.policy)
  BY <1>2, SplitKept DEF LoadSystemConfig, Loaded
<1> HIDE DEF c
<1>3. ProjectionServed(c.sessions) /\ CalendarsServed(c.sessions)
  BY <1>1, ProjectionServes, CalendarsServe DEF ConfigurationLoads
<1>4. EvidenceServed(c.evidence_health)
  BY <1>1, EvidenceServes DEF ConfigurationLoads
<1>5. QED BY <1>2, <1>3, <1>4

------------------------------------------------------------------------------
(* Manifests.                                                               *)

(* A nonempty set of naturals has a least element.                          *)
LEMMA Smallest ==
    ASSUME NEW N \in SUBSET Nat, N # {}
    PROVE  \E n \in N : \A m \in N : n <= m
<1>1. PICK n \in N : \A m \in N : <<m, n>> \notin OpToRel(<, Nat)
  BY NatLessThanWellFounded, WFMin
<1>2. ASSUME NEW m \in N PROVE n <= m
  <2>1. m \in Nat /\ n \in Nat /\ <<m, n>> \in Nat \X Nat
    OBVIOUS
  <2>2. m < n => <<m, n>> \in OpToRel(<, Nat)
    BY <2>1 DEF OpToRel
  <2>3. ~(m < n)
    BY <1>1, <2>2, Zenon
  <2>4. QED BY <2>1, <2>3
<1>3. QED BY <1>2

(* The claims of a manifest whose dependencies are all declared.            *)
Declared(metrics) ==
    /\ DOMAIN metrics \in SUBSET Nat /\ IsFiniteSet(DOMAIN metrics)
    /\ \A c \in DOMAIN metrics : metrics[c].needs \subseteq DOMAIN metrics

LEMMA LeastClaim ==
    ASSUME NEW S \in SUBSET Nat, S # {}
    PROVE  Min(S) \in S
<1>1. PICK n \in S : \A m \in S : n <= m
  BY Smallest
<1>2. QED BY <1>1 DEF Min

------------------------------------------------------------------------------
(* The visit of Visit(metrics), with the function it calls named.           *)
One(metrics, f, path, done, c) ==
    IF c \in path THEN [cyclic |-> TRUE, done |-> done]
    ELSE IF c \in done THEN [cyclic |-> FALSE, done |-> done]
    ELSE IF f[<<path \cup {c}, done, metrics[c].needs>>].cyclic
         THEN f[<<path \cup {c}, done, metrics[c].needs>>]
    ELSE [cyclic |-> FALSE,
          done |-> f[<<path \cup {c}, done, metrics[c].needs>>].done \cup {c}]

Visiting(metrics, f, path, done, todo) ==
    IF todo = {} THEN [cyclic |-> FALSE, done |-> done]
    ELSE IF One(metrics, f, path, done, Min(todo)).cyclic
         THEN One(metrics, f, path, done, Min(todo))
    ELSE f[<<path, One(metrics, f, path, done, Min(todo)).done, todo \ {Min(todo)}>>]

Calls(D) == (SUBSET D) \X (SUBSET D) \X (SUBSET D)
Visited(D) == [cyclic : BOOLEAN, done : SUBSET D]

Visits(metrics, f) ==
    f = [t \in Calls(DOMAIN metrics) |-> Visiting(metrics, f, t[1], t[2], t[3])]

LEMMA VisitVisits ==
    ASSUME NEW metrics
    PROVE  Visit(metrics) = CHOOSE f : Visits(metrics, f)
BY DEF Visit, Visits, Visiting, One, Calls

(* What is left to visit: fewer claims off the path, or as many and fewer   *)
(* of those to be visited next.                                             *)
Left(D, path, todo) ==
    Cardinality(D \ path) * (Cardinality(D) + 1) + Cardinality(todo)

LEMMA LeftFalls ==
    ASSUME NEW metrics, Declared(metrics),
           NEW path \in SUBSET DOMAIN metrics, NEW todo \in SUBSET DOMAIN metrics
    PROVE  /\ Left(DOMAIN metrics, path, todo) \in Nat
           /\ Left(DOMAIN metrics, path, todo) < (Cardinality(DOMAIN metrics) + 1)
                                                 * (Cardinality(DOMAIN metrics) + 1)
           /\ todo # {} =>
                 /\ Min(todo) \in todo
                 /\ todo \ {Min(todo)} \in SUBSET DOMAIN metrics
                 /\ Left(DOMAIN metrics, path, todo \ {Min(todo)})
                       < Left(DOMAIN metrics, path, todo)
                 /\ Min(todo) \notin path =>
                       /\ path \cup {Min(todo)} \in SUBSET DOMAIN metrics
                       /\ metrics[Min(todo)].needs \in SUBSET DOMAIN metrics
                       /\ Left(DOMAIN metrics, path \cup {Min(todo)}, metrics[Min(todo)].needs)
                             < Left(DOMAIN metrics, path, todo)
<1>1. PICK D : D = DOMAIN metrics
  OBVIOUS
<1>2. D \in SUBSET Nat /\ IsFiniteSet(D) /\ \A c \in D : metrics[c].needs \in SUBSET D
  BY <1>1 DEF Declared
<1>3. \A S \in SUBSET D :
         /\ IsFiniteSet(S) /\ Cardinality(S) \in Nat /\ Cardinality(S) <= Cardinality(D)
         /\ \A x \in S : Cardinality(S \ {x}) = Cardinality(S) - 1
  BY <1>2, FS_Subset, FS_CardinalityType, FS_RemoveElement
<1>4. PICK n, a, b : n = Cardinality(D) /\ a = Cardinality(D \ path) /\ b = Cardinality(todo)
  OBVIOUS
<1>5. n \in Nat /\ a \in Nat /\ b \in Nat /\ a <= n /\ b <= n
  BY <1>1, <1>3, <1>4
<1>6. Left(D, path, todo) = a * (n + 1) + b
  BY <1>4 DEF Left
<1>7. a * (n + 1) + b \in Nat /\ a * (n + 1) + b < (n + 1) * (n + 1)
  <2>1. a * (n + 1) \in Nat /\ n * (n + 1) \in Nat /\ a * (n + 1) <= n * (n + 1)
    BY <1>5
  <2>2. (n + 1) * (n + 1) = n * (n + 1) + n + 1
    BY <1>5
  <2>3. QED BY <1>5, <2>1, <2>2
<1>8. ASSUME todo # {}
      PROVE  /\ Min(todo) \in todo
             /\ todo \ {Min(todo)} \in SUBSET D
             /\ Left(D, path, todo \ {Min(todo)}) < Left(D, path, todo)
             /\ Min(todo) \notin path =>
                   /\ path \cup {Min(todo)} \in SUBSET D
                   /\ metrics[Min(todo)].needs \in SUBSET D
                   /\ Left(D, path \cup {Min(todo)}, metrics[Min(todo)].needs)
                         < Left(D, path, todo)
  <2>1. PICK c : c = Min(todo)
    OBVIOUS
  <2>2. c \in todo /\ c \in D
    BY <1>1, <1>2, <1>8, <2>1, LeastClaim
  <2>3. Cardinality(todo \ {c}) = b - 1
    BY <1>1, <1>3, <1>4, <2>2
  <2>4. Left(D, path, todo \ {c}) = a * (n + 1) + (b - 1)
    BY <1>4, <2>3 DEF Left
  <2>5. a * (n + 1) + (b - 1) < a * (n + 1) + b
    BY <1>5
  <2>6. ASSUME c \notin path
        PROVE  Left(D, path \cup {c}, metrics[c].needs) < a * (n + 1) + b
    <3>1. D \ (path \cup {c}) = (D \ path) \ {c} /\ c \in D \ path
      BY <2>2, <2>6
    <3>2. Cardinality(D \ (path \cup {c})) = a - 1
      BY <1>3, <1>4, <3>1
    <3>3. PICK m : m = Cardinality(metrics[c].needs)
      OBVIOUS
    <3>4. m \in Nat /\ m <= n
      BY <1>2, <1>3, <1>4, <2>2, <3>3
    <3>5. Left(D, path \cup {c}, metrics[c].needs) = (a - 1) * (n + 1) + m
      BY <1>4, <3>2, <3>3 DEF Left
    <3>6. (a - 1) * (n + 1) = a * (n + 1) - (n + 1) /\ a * (n + 1) \in Nat
      BY <1>5
    <3>7. QED BY <1>5, <3>4, <3>5, <3>6
  <2>7. QED BY <1>1, <1>2, <1>6, <2>1, <2>2, <2>4, <2>5, <2>6
<1>9. QED BY <1>1, <1>4, <1>6, <1>7, <1>8

(* A call depends on calls with less left only, and what it returns has the *)
(* type of what they return.                                                *)
LEMMA VisitingTyped ==
    ASSUME NEW metrics, Declared(metrics),
           NEW f \in [Calls(DOMAIN metrics) -> Visited(DOMAIN metrics)],
           NEW path \in SUBSET DOMAIN metrics, NEW done \in SUBSET DOMAIN metrics,
           NEW todo \in SUBSET DOMAIN metrics
    PROVE  /\ todo # {} =>
                 One(metrics, f, path, done, Min(todo)) \in Visited(DOMAIN metrics)
           /\ Visiting(metrics, f, path, done, todo) \in Visited(DOMAIN metrics)
<1>1. PICK D : D = DOMAIN metrics
  OBVIOUS
<1>2. PICK c : c = Min(todo)
  OBVIOUS
<1>3. todo # {} => c \in D /\ todo \ {c} \in SUBSET D
                   /\ (c \notin path => /\ path \cup {c} \in SUBSET D
                                        /\ metrics[c].needs \in SUBSET D)
  BY <1>1, <1>2, LeftFalls
<1>4. \A p, d, s \in SUBSET D : f[<<p, d, s>>] \in Visited(D)
  BY <1>1 DEF Calls
<1>5. ASSUME todo # {} PROVE One(metrics, f, path, done, c) \in Visited(D)
  <2>1. PICK below : below = f[<<path \cup {c}, done, metrics[c].needs>>]
    OBVIOUS
  <2>2. c \notin path => below \in Visited(D)
    BY <1>1, <1>3, <1>4, <1>5, <2>1
  <2>3. c \notin path => below.done \cup {c} \in SUBSET D
    BY <1>3, <1>5, <2>2 DEF Visited
  <2>4. QED BY <1>1, <2>1, <2>2, <2>3 DEF One, Visited
<1>6. PICK one : one = One(metrics, f, path, done, c)
  OBVIOUS
<1>7. todo # {} => f[<<path, one.done, todo \ {c}>>] \in Visited(D)
  BY <1>1, <1>3, <1>4, <1>5, <1>6 DEF Visited
<1>8. [cyclic |-> FALSE, done |-> done] \in Visited(D)
  BY <1>1 DEF Visited
<1>9. Visiting(metrics, f, path, done, todo) \in Visited(D)
  BY <1>2, <1>5, <1>6, <1>7, <1>8 DEF Visiting
<1>10. QED BY <1>1, <1>2, <1>5, <1>9

LEMMA VisitingAgrees ==
    ASSUME NEW metrics, Declared(metrics),
           NEW f \in [Calls(DOMAIN metrics) -> Visited(DOMAIN metrics)],
           NEW g,
           NEW path \in SUBSET DOMAIN metrics, NEW done \in SUBSET DOMAIN metrics,
           NEW todo \in SUBSET DOMAIN metrics,
           \A p, d, s \in SUBSET DOMAIN metrics :
              Left(DOMAIN metrics, p, s) < Left(DOMAIN metrics, path, todo)
                 => g[<<p, d, s>>] = f[<<p, d, s>>]
    PROVE  Visiting(metrics, g, path, done, todo) = Visiting(metrics, f, path, done, todo)
<1>1. CASE todo = {}
  BY <1>1 DEF Visiting
<1>2. CASE todo # {}
  <2>1. PICK c : c = Min(todo)
    OBVIOUS
  <2>2. PICK D : D = DOMAIN metrics
    OBVIOUS
  <2>3. c \notin path => g[<<path \cup {c}, done, metrics[c].needs>>]
                            = f[<<path \cup {c}, done, metrics[c].needs>>]
    <3>1. c \notin path =>
             /\ path \cup {c} \in SUBSET D /\ metrics[c].needs \in SUBSET D
             /\ Left(D, path \cup {c}, metrics[c].needs) < Left(D, path, todo)
      BY <1>2, <2>1, <2>2, LeftFalls
    <3>2. QED BY <2>2, <3>1
  <2>4. One(metrics, g, path, done, c) = One(metrics, f, path, done, c)
    BY <2>3 DEF One
  <2>5. PICK one : one = One(metrics, f, path, done, c)
    OBVIOUS
  <2>6. one.done \in SUBSET D
    BY <1>2, <2>1, <2>2, <2>5, VisitingTyped DEF Visited
  <2>7. todo \ {c} \in SUBSET D /\ Left(D, path, todo \ {c}) < Left(D, path, todo)
    BY <1>2, <2>1, <2>2, LeftFalls
  <2>8. g[<<path, one.done, todo \ {c}>>] = f[<<path, one.done, todo \ {c}>>]
    BY <2>2, <2>6, <2>7
  <2>9. QED BY <1>2, <2>1, <2>4, <2>5, <2>8 DEF Visiting
<1>3. QED BY <1>1, <1>2

(* The visit exists: it is reached by correcting, as often as there can be  *)
(* something left, what calls with less left have returned.                 *)
Upto(metrics, n) ==
    \E f \in [Calls(DOMAIN metrics) -> Visited(DOMAIN metrics)] :
        \A p, d, s \in SUBSET DOMAIN metrics :
            Left(DOMAIN metrics, p, s) < n
               => f[<<p, d, s>>] = Visiting(metrics, f, p, d, s)

LEMMA UptoNext ==
    ASSUME NEW metrics, Declared(metrics), NEW n \in Nat, Upto(metrics, n)
    PROVE  Upto(metrics, n + 1)
<1>1. PICK D : D = DOMAIN metrics
  OBVIOUS
<1>2. PICK f \in [Calls(D) -> Visited(D)] :
         \A p, d, s \in SUBSET D :
            Left(D, p, s) < n => f[<<p, d, s>>] = Visiting(metrics, f, p, d, s)
  BY <1>1 DEF Upto
<1>3. PICK g : g = [t \in Calls(D) |-> Visiting(metrics, f, t[1], t[2], t[3])]
  OBVIOUS
<1>4. \A p, d, s \in SUBSET D : <<p, d, s>> \in Calls(D)
  BY DEF Calls
<1>5. \A p, d, s \in SUBSET D : g[<<p, d, s>>] = Visiting(metrics, f, p, d, s)
  BY <1>3, <1>4
<1>6. g \in [Calls(D) -> Visited(D)]
  <2>1. ASSUME NEW t \in Calls(D)
        PROVE  Visiting(metrics, f, t[1], t[2], t[3]) \in Visited(D)
    <3>1. t[1] \in SUBSET D /\ t[2] \in SUBSET D /\ t[3] \in SUBSET D
      BY DEF Calls
    <3>2. QED BY <1>1, <3>1, VisitingTyped
  <2>2. QED BY <1>3, <2>1
<1>7. ASSUME NEW p \in SUBSET D, NEW d \in SUBSET D, NEW s \in SUBSET D, Left(D, p, s) < n + 1
      PROVE  g[<<p, d, s>>] = Visiting(metrics, g, p, d, s)
  <2>1. ASSUME NEW q \in SUBSET D, NEW e \in SUBSET D, NEW r \in SUBSET D,
               Left(D, q, r) < Left(D, p, s)
        PROVE  g[<<q, e, r>>] = f[<<q, e, r>>]
    <3>1. Left(D, q, r) \in Nat /\ Left(D, p, s) \in Nat
      BY <1>1, LeftFalls
    <3>2. Left(D, q, r) < n
      BY <1>7, <2>1, <3>1
    <3>3. QED BY <1>2, <1>5, <3>2
  <2>2. Visiting(metrics, g, p, d, s) = Visiting(metrics, f, p, d, s)
    BY <1>1, <2>1, VisitingAgrees
  <2>3. QED BY <1>5, <2>2
<1>8. QED BY <1>1, <1>6, <1>7 DEF Upto

LEMMA VisitExists ==
    ASSUME NEW metrics, Declared(metrics)
    PROVE  \E f : Visits(metrics, f)
<1> DEFINE N == {n \in Nat : ~Upto(metrics, n)}
<1>1. Upto(metrics, 0)
  <2>1. PICK f : f = [t \in Calls(DOMAIN metrics) |-> [cyclic |-> FALSE, done |-> {}]]
    OBVIOUS
  <2>2. f \in [Calls(DOMAIN metrics) -> Visited(DOMAIN metrics)]
    BY <2>1 DEF Visited
  <2>3. ASSUME NEW p \in SUBSET DOMAIN metrics, NEW s \in SUBSET DOMAIN metrics
        PROVE  ~(Left(DOMAIN metrics, p, s) < 0)
    <3>1. Left(DOMAIN metrics, p, s) \in Nat
      BY LeftFalls
    <3>2. QED BY <3>1
  <2>4. QED BY <2>2, <2>3 DEF Upto
<1>2. N = {}
  <2> SUFFICES ASSUME N # {} PROVE FALSE
    OBVIOUS
  <2>1. PICK n \in N : \A m \in N : n <= m
    <3>1. N \in SUBSET Nat
      OBVIOUS
    <3> HIDE DEF N
    <3>2. QED BY <3>1, Smallest
  <2>2. n \in Nat /\ n # 0
    BY <1>1
  <2>3. n - 1 \in Nat /\ n - 1 \notin N
    BY <2>1, <2>2
  <2>4. Upto(metrics, n - 1)
    BY <2>3
  <2>5. Upto(metrics, (n - 1) + 1)
    BY <2>3, <2>4, UptoNext
  <2>6. (n - 1) + 1 = n
    BY <2>2
  <2>7. QED BY <2>1, <2>5, <2>6
<1>3. PICK D : D = DOMAIN metrics
  OBVIOUS
<1>4. PICK n : n = (Cardinality(D) + 1) * (Cardinality(D) + 1)
  OBVIOUS
<1>5. n \in Nat
  <2>1. Cardinality(D) \in Nat
    BY <1>3, FS_CardinalityType DEF Declared
  <2>2. QED BY <1>4, <2>1
<1>6. Upto(metrics, n)
  BY <1>2, <1>5
<1>7. PICK f \in [Calls(D) -> Visited(D)] :
         \A p, d, s \in SUBSET D :
            Left(D, p, s) < n => f[<<p, d, s>>] = Visiting(metrics, f, p, d, s)
  BY <1>3, <1>6 DEF Upto
<1>8. ASSUME NEW p \in SUBSET D, NEW d \in SUBSET D, NEW s \in SUBSET D
      PROVE  f[<<p, d, s>>] = Visiting(metrics, f, p, d, s)
  <2>1. Left(D, p, s) < n
    BY <1>3, <1>4, LeftFalls
  <2>2. QED BY <1>7, <2>1
<1>9. PICK g : g = [t \in Calls(D) |-> Visiting(metrics, f, t[1], t[2], t[3])]
  OBVIOUS
<1>10. f = g
  <2>1. ASSUME NEW t \in Calls(D) PROVE f[t] = g[t]
    <3>1. /\ t[1] \in SUBSET D /\ t[2] \in SUBSET D /\ t[3] \in SUBSET D
          /\ t = <<t[1], t[2], t[3]>>
      BY DEF Calls
    <3>2. f[<<t[1], t[2], t[3]>>] = Visiting(metrics, f, t[1], t[2], t[3])
      BY <1>8, <3>1
    <3>3. g[t] = Visiting(metrics, f, t[1], t[2], t[3])
      BY <1>9
    <3>4. QED BY <3>1, <3>2, <3>3
  <2>2. f = [t \in Calls(D) |-> f[t]] /\ g = [t \in Calls(D) |-> g[t]]
    BY <1>7, <1>9
  <2>3. QED BY <2>1, <2>2
<1>11. QED BY <1>3, <1>9, <1>10 DEF Visits

LEMMA VisitIs ==
    ASSUME NEW metrics, Declared(metrics),
           NEW path \in SUBSET DOMAIN metrics, NEW done \in SUBSET DOMAIN metrics,
           NEW todo \in SUBSET DOMAIN metrics
    PROVE  Visit(metrics)[<<path, done, todo>>]
              = Visiting(metrics, Visit(metrics), path, done, todo)
<1>1. PICK f : f = Visit(metrics)
  OBVIOUS
<1>2. Visits(metrics, f)
  BY <1>1, VisitVisits, VisitExists
<1>3. <<path, done, todo>> \in Calls(DOMAIN metrics)
  BY DEF Calls
<1>4. f[<<path, done, todo>>] = Visiting(metrics, f, path, done, todo)
  BY <1>2, <1>3 DEF Visits
<1>5. QED BY <1>1, <1>4

------------------------------------------------------------------------------
(* What a visit finds.                                                      *)
Closed(metrics, S) == \A c \in S : metrics[c].needs \subseteq S
NoCircle(metrics, S) ==
    \A circle \in SUBSET S : circle # {} => \E c \in circle : metrics[c].needs \cap circle = {}

(* The claims being visited lead to those to be visited next, and those     *)
(* that have been visited are apart from them, with all that they need.     *)
Begins(metrics, path, done, todo) ==
    /\ path \cap done = {}
    /\ Closed(metrics, done) /\ NoCircle(metrics, done)
    /\ \A p \in path : metrics[p].needs \cap path # {} \/ todo \subseteq metrics[p].needs

Finds(metrics, path, done, todo, r) ==
    /\ r.cyclic = TRUE => Circular(metrics)
    /\ r.cyclic # TRUE =>
          /\ done \subseteq r.done /\ todo \subseteq r.done /\ path \cap r.done = {}
          /\ Closed(metrics, r.done) /\ NoCircle(metrics, r.done)

(* A claim that needs only what has been visited closes no circle.          *)
LEMMA DoneGrows ==
    ASSUME NEW metrics, NEW S, NEW c, Closed(metrics, S), NoCircle(metrics, S),
           c \notin S, metrics[c].needs \subseteq S
    PROVE  Closed(metrics, S \cup {c}) /\ NoCircle(metrics, S \cup {c})
<1>1. Closed(metrics, S \cup {c})
  BY DEF Closed
<1>2. ASSUME NEW circle \in SUBSET (S \cup {c}), circle # {},
             \A x \in circle : metrics[x].needs \cap circle # {}
      PROVE  FALSE
  <2>1. PICK rest : rest = circle \ {c}
    OBVIOUS
  <2>2. rest \in SUBSET S
    BY <2>1
  <2>3. rest # {}
    <3>1. PICK x : x \in circle
      BY <1>2
    <3>2. metrics[x].needs \cap circle # {} /\ metrics[x].needs \subseteq S
      BY <1>2, <3>1 DEF Closed
    <3>3. QED BY <2>1, <3>2
  <2>4. \A x \in rest : metrics[x].needs \cap rest # {}
    <3>1. TAKE x \in rest
    <3>2. metrics[x].needs \cap circle # {} /\ metrics[x].needs \subseteq S
      BY <1>2, <2>1, <2>2 DEF Closed
    <3>3. QED BY <2>1, <3>2
  <2>5. QED BY <2>2, <2>3, <2>4 DEF NoCircle
<1>3. QED BY <1>1, <1>2 DEF NoCircle

(* If what is called with less left finds what it should, so does a call.   *)
LEMMA CallFinds ==
    ASSUME NEW metrics, Declared(metrics), NEW f,
           NEW path \in SUBSET DOMAIN metrics, NEW done \in SUBSET DOMAIN metrics,
           NEW todo \in SUBSET DOMAIN metrics,
           Begins(metrics, path, done, todo),
           \A p, d, s \in SUBSET DOMAIN metrics :
              /\ Left(DOMAIN metrics, p, s) < Left(DOMAIN metrics, path, todo)
              /\ Begins(metrics, p, d, s)
              => /\ f[<<p, d, s>>] \in Visited(DOMAIN metrics)
                 /\ Finds(metrics, p, d, s, f[<<p, d, s>>])
    PROVE  /\ Visiting(metrics, f, path, done, todo) \in Visited(DOMAIN metrics)
           /\ Finds(metrics, path, done, todo, Visiting(metrics, f, path, done, todo))
<1>1. PICK D : D = DOMAIN metrics
  OBVIOUS
<1>2. PICK c, r : c = Min(todo) /\ r = Visiting(metrics, f, path, done, todo)
  OBVIOUS
<1>3. CASE todo = {}
  <2>1. r = [cyclic |-> FALSE, done |-> done]
    BY <1>2, <1>3 DEF Visiting
  <2>2. r \in Visited(D) /\ r.cyclic = FALSE /\ r.done = done
    BY <1>1, <2>1 DEF Visited
  <2>3. Finds(metrics, path, done, todo, r)
    BY <1>3, <2>2 DEF Begins, Finds
  <2>4. QED BY <1>1, <1>2, <2>2, <2>3
<1>4. CASE todo # {}
  <2>1. c \in todo /\ c \in D /\ todo \ {c} \in SUBSET D
        /\ Left(D, path, todo \ {c}) < Left(D, path, todo)
    BY <1>1, <1>2, <1>4, LeftFalls
  <2>2. PICK one : one = One(metrics, f, path, done, c)
    OBVIOUS
  <2>3. /\ one.cyclic = TRUE => r = one
        /\ one.cyclic = FALSE => r = f[<<path, one.done, todo \ {c}>>]
    BY <1>2, <1>4, <2>2 DEF Visiting
  <2>4. ASSUME one \in Visited(D), one.cyclic = TRUE, Circular(metrics)
        PROVE  r \in Visited(D) /\ Finds(metrics, path, done, todo, r)
    BY <2>3, <2>4 DEF Finds
  <2>5. ASSUME one.cyclic = FALSE, one.done \in SUBSET D, done \subseteq one.done,
               c \in one.done, path \cap one.done = {},
               Closed(metrics, one.done), NoCircle(metrics, one.done)
        PROVE  r \in Visited(D) /\ Finds(metrics, path, done, todo, r)
    <3>1. Begins(metrics, path, one.done, todo \ {c})
      BY <2>5 DEF Begins
    <3>2. r \in Visited(D) /\ Finds(metrics, path, one.done, todo \ {c}, r)
      <4>1. PICK d, s : d = one.done /\ s = todo \ {c}
        OBVIOUS
      <4>2. d \in SUBSET D /\ s \in SUBSET D /\ Left(D, path, s) < Left(D, path, todo)
        BY <2>1, <2>5, <4>1
      <4>3. f[<<path, d, s>>] \in Visited(D) /\ Finds(metrics, path, d, s, f[<<path, d, s>>])
        BY <1>1, <3>1, <4>1, <4>2
      <4>4. r = f[<<path, d, s>>]
        BY <2>3, <2>5, <4>1
      <4>5. r \in Visited(D) /\ Finds(metrics, path, d, s, r)
        BY <4>3, <4>4
      <4>6. QED BY <4>1, <4>5, Zenon
    <3>3. CASE r.cyclic = TRUE
      BY <3>2, <3>3 DEF Finds
    <3>4. CASE r.cyclic # TRUE
      <4>1. /\ one.done \subseteq r.done /\ todo \ {c} \subseteq r.done
            /\ path \cap r.done = {}
            /\ Closed(metrics, r.done) /\ NoCircle(metrics, r.done)
        BY <3>2, <3>4 DEF Finds
      <4>2. done \subseteq r.done /\ todo \subseteq r.done
        BY <2>5, <4>1
      <4>3. QED BY <3>2, <3>4, <4>1, <4>2 DEF Finds
    <3>5. QED BY <3>3, <3>4
  <2>6. CASE c \in path
    <3>1. one = [cyclic |-> TRUE, done |-> done]
      BY <2>2, <2>6 DEF One
    <3>2. one \in Visited(D) /\ one.cyclic = TRUE
      BY <1>1, <3>1 DEF Visited
    <3>3. \A p \in path : metrics[p].needs \cap path # {}
      BY <2>1, <2>6 DEF Begins
    <3>4. Circular(metrics)
      BY <2>6, <3>3 DEF Circular
    <3>5. QED BY <1>1, <1>2, <2>4, <3>2, <3>4
  <2>7. CASE c \notin path /\ c \in done
    <3>1. one = [cyclic |-> FALSE, done |-> done]
      BY <2>2, <2>7 DEF One
    <3>2. one.cyclic = FALSE /\ one.done = done
      BY <3>1
    <3>3. r \in Visited(D) /\ Finds(metrics, path, done, todo, r)
      BY <1>1, <2>5, <2>7, <3>2 DEF Begins
    <3>4. QED BY <1>1, <1>2, <3>3
  <2>8. CASE c \notin path /\ c \notin done
    <3>1. PICK below : below = f[<<path \cup {c}, done, metrics[c].needs>>]
      OBVIOUS
    <3>2. /\ path \cup {c} \in SUBSET D /\ metrics[c].needs \in SUBSET D
          /\ Left(D, path \cup {c}, metrics[c].needs) < Left(D, path, todo)
      BY <1>1, <1>2, <1>4, <2>8, LeftFalls
    <3>3. Begins(metrics, path \cup {c}, done, metrics[c].needs)
      BY <2>1, <2>8 DEF Begins
    <3>4. /\ below \in Visited(D)
          /\ Finds(metrics, path \cup {c}, done, metrics[c].needs, below)
      BY <1>1, <3>1, <3>2, <3>3
    <3>5. CASE below.cyclic = TRUE
      <4>1. one = below
        BY <2>2, <2>8, <3>1, <3>5 DEF One
      <4>2. Circular(metrics)
        BY <3>4, <3>5 DEF Finds
      <4>3. QED BY <1>1, <1>2, <2>4, <3>4, <3>5, <4>1, <4>2
    <3>6. CASE below.cyclic = FALSE
      <4>1. one = [cyclic |-> FALSE, done |-> below.done \cup {c}]
        BY <2>2, <2>8, <3>1, <3>6 DEF One
      <4>2. one.cyclic = FALSE /\ one.done = below.done \cup {c}
        BY <4>1
      <4>3. /\ done \subseteq below.done /\ metrics[c].needs \subseteq below.done
            /\ (path \cup {c}) \cap below.done = {}
            /\ Closed(metrics, below.done) /\ NoCircle(metrics, below.done)
        BY <3>4, <3>6 DEF Finds
      <4>4. Closed(metrics, one.done) /\ NoCircle(metrics, one.done)
        BY <4>2, <4>3, DoneGrows
      <4>5. one.done \in SUBSET D
        BY <2>1, <3>4, <4>2 DEF Visited
      <4>6. done \subseteq one.done /\ c \in one.done /\ path \cap one.done = {}
        BY <2>8, <4>2, <4>3
      <4>7. r \in Visited(D) /\ Finds(metrics, path, done, todo, r)
        BY <2>5, <4>2, <4>4, <4>5, <4>6
      <4>8. QED BY <1>1, <1>2, <4>7
    <3>7. QED BY <3>4, <3>5, <3>6 DEF Visited
  <2>9. QED BY <2>6, <2>7, <2>8
<1>5. QED BY <1>3, <1>4

LEMMA VisitFinds ==
    ASSUME NEW metrics, Declared(metrics),
           NEW path \in SUBSET DOMAIN metrics, NEW done \in SUBSET DOMAIN metrics,
           NEW todo \in SUBSET DOMAIN metrics, Begins(metrics, path, done, todo)
    PROVE  /\ Visit(metrics)[<<path, done, todo>>] \in Visited(DOMAIN metrics)
           /\ Finds(metrics, path, done, todo, Visit(metrics)[<<path, done, todo>>])
<1>1. PICK D, f : D = DOMAIN metrics /\ f = Visit(metrics)
  OBVIOUS
<1> DEFINE Good(p, d, s) == Begins(metrics, p, d, s) =>
                               /\ f[<<p, d, s>>] \in Visited(D)
                               /\ Finds(metrics, p, d, s, f[<<p, d, s>>])
           N == {n \in Nat : \E p, d, s \in SUBSET D : Left(D, p, s) = n /\ ~Good(p, d, s)}
<1>2. N = {}
  <2> SUFFICES ASSUME N # {} PROVE FALSE
    OBVIOUS
  <2>1. PICK n \in N : \A m \in N : n <= m
    <3>1. N \in SUBSET Nat
      OBVIOUS
    <3> HIDE DEF N
    <3>2. QED BY <3>1, Smallest
  <2> HIDE DEF Good
  <2>2. PICK p \in SUBSET D, d \in SUBSET D, s \in SUBSET D : Left(D, p, s) = n /\ ~Good(p, d, s)
    BY <2>1
  <2>3. ASSUME NEW q \in SUBSET D, NEW e \in SUBSET D, NEW t \in SUBSET D,
               Left(D, q, t) < Left(D, p, s)
        PROVE  Good(q, e, t)
    <3>1. Left(D, q, t) \in Nat
      BY <1>1, LeftFalls
    <3>2. n \in Nat
      BY <2>1
    <3>3. ~(n <= Left(D, q, t))
      BY <2>2, <2>3, <3>1, <3>2
    <3>4. Left(D, q, t) \notin N
      BY <2>1, <3>3
    <3>5. QED BY <3>1, <3>4
  <2>4. Good(p, d, s)
    <3> SUFFICES ASSUME Begins(metrics, p, d, s)
                 PROVE  /\ f[<<p, d, s>>] \in Visited(D)
                        /\ Finds(metrics, p, d, s, f[<<p, d, s>>])
      BY DEF Good
    <3>1. f[<<p, d, s>>] = Visiting(metrics, f, p, d, s)
      BY <1>1, VisitIs
    <3>2. \A q, e, t \in SUBSET D :
             /\ Left(D, q, t) < Left(D, p, s)
             /\ Begins(metrics, q, e, t)
             => f[<<q, e, t>>] \in Visited(D) /\ Finds(metrics, q, e, t, f[<<q, e, t>>])
      BY <2>3 DEF Good
    <3>3. /\ Visiting(metrics, f, p, d, s) \in Visited(D)
          /\ Finds(metrics, p, d, s, Visiting(metrics, f, p, d, s))
      BY <1>1, <3>2, CallFinds
    <3>4. QED BY <3>1, <3>3
  <2>5. QED BY <2>2, <2>4
<1>3. Left(D, path, todo) \in Nat
  BY <1>1, LeftFalls
<1>4. Good(path, done, todo)
  <2> HIDE DEF Good
  <2>1. QED BY <1>1, <1>2, <1>3
<1>5. QED BY <1>1, <1>4

(* The check that visits each claim once refuses exactly the circles.       *)
LEMMA AcyclicMeans ==
    ASSUME NEW metrics, Declared(metrics)
    PROVE  Acyclic(metrics) <=> ~Circular(metrics)
<1>1. PICK D, r : D = DOMAIN metrics /\ r = Visit(metrics)[<<{}, {}, D>>]
  OBVIOUS
<1>2. Begins(metrics, {}, {}, D)
  BY DEF Begins, Closed, NoCircle
<1>3. r \in Visited(D) /\ Finds(metrics, {}, {}, D, r)
  BY <1>1, <1>2, VisitFinds
<1>4. CASE r.cyclic = TRUE
  <2>1. Circular(metrics)
    BY <1>3, <1>4 DEF Finds
  <2>2. ~Acyclic(metrics)
    BY <1>1, <1>4 DEF Acyclic
  <2>3. QED BY <2>1, <2>2
<1>5. CASE r.cyclic = FALSE
  <2>1. D \subseteq r.done /\ NoCircle(metrics, r.done)
    BY <1>3, <1>5 DEF Finds
  <2>2. ~Circular(metrics)
    BY <1>1, <2>1 DEF Circular, NoCircle
  <2>3. Acyclic(metrics)
    BY <1>1, <1>5 DEF Acyclic
  <2>4. QED BY <2>2, <2>3
<1>6. QED BY <1>3, <1>4, <1>5 DEF Visited

------------------------------------------------------------------------------
(* All that a claim needs.                                                  *)
Growing(metrics, c, f, n) ==
    IF n = 0 THEN {c} ELSE f[n - 1] \cup UNION {metrics[d].needs : d \in f[n - 1]}

Grows(metrics, c, f) ==
    f = [n \in 0..Cardinality(DOMAIN metrics) |-> Growing(metrics, c, f, n)]

LEMMA NeededGrows ==
    ASSUME NEW metrics, NEW c
    PROVE  Needed(metrics, c)
              = (CHOOSE f : Grows(metrics, c, f))[Cardinality(DOMAIN metrics)]
BY DEF Needed, Grows, Growing

GrownUpto(metrics, c, m) ==
    \E f : \A n \in 0..m : f[n] = Growing(metrics, c, f, n)

LEMMA GrowsExists ==
    ASSUME NEW metrics, NEW c, Cardinality(DOMAIN metrics) \in Nat
    PROVE  \E f : Grows(metrics, c, f)
<1> DEFINE N == {m \in Nat : ~GrownUpto(metrics, c, m)}
<1>1. GrownUpto(metrics, c, 0)
  <2>1. PICK f : f = [n \in {0} |-> {c}]
    OBVIOUS
  <2>2. f[0] = {c}
    BY <2>1
  <2>3. \A n \in 0..0 : n = 0
    OBVIOUS
  <2>4. \A n \in 0..0 : f[n] = Growing(metrics, c, f, n)
    BY <2>2, <2>3 DEF Growing
  <2>5. QED BY <2>4 DEF GrownUpto
<1>2. ASSUME NEW m \in Nat, GrownUpto(metrics, c, m) PROVE GrownUpto(metrics, c, m + 1)
  <2>1. PICK f : \A n \in 0..m : f[n] = Growing(metrics, c, f, n)
    BY <1>2 DEF GrownUpto
  <2>2. PICK g : g = [n \in 0..(m + 1) |-> Growing(metrics, c, f, n)]
    OBVIOUS
  <2>3. ASSUME NEW n \in 0..(m + 1) PROVE g[n] = Growing(metrics, c, g, n)
    <3>1. g[n] = Growing(metrics, c, f, n)
      BY <2>2
    <3>2. CASE n = 0
      BY <3>1, <3>2 DEF Growing
    <3>3. CASE n # 0
      <4>1. PICK k : k = n - 1
        OBVIOUS
      <4>2. k \in 0..m /\ k \in 0..(m + 1)
        BY <3>3, <4>1
      <4>3. f[k] = Growing(metrics, c, f, k) /\ g[k] = Growing(metrics, c, f, k)
        BY <2>1, <2>2, <4>2
      <4>4. g[k] = f[k]
        BY <4>3
      <4>5. QED BY <3>1, <3>3, <4>1, <4>4 DEF Growing
    <3>4. QED BY <3>2, <3>3
  <2>4. QED BY <2>3 DEF GrownUpto
<1>3. N = {}
  <2> SUFFICES ASSUME N # {} PROVE FALSE
    OBVIOUS
  <2>1. PICK n \in N : \A m \in N : n <= m
    <3>1. N \in SUBSET Nat
      OBVIOUS
    <3> HIDE DEF N
    <3>2. QED BY <3>1, Smallest
  <2>2. n \in Nat /\ n # 0
    BY <1>1
  <2>3. n - 1 \in Nat /\ n - 1 \notin N
    BY <2>1, <2>2
  <2>4. GrownUpto(metrics, c, n - 1)
    BY <2>3
  <2>5. GrownUpto(metrics, c, (n - 1) + 1)
    BY <1>2, <2>3, <2>4
  <2>6. (n - 1) + 1 = n
    BY <2>2
  <2>7. QED BY <2>1, <2>5, <2>6
<1>4. PICK m : m = Cardinality(DOMAIN metrics)
  OBVIOUS
<1>5. PICK f : \A n \in 0..m : f[n] = Growing(metrics, c, f, n)
  BY <1>3, <1>4 DEF GrownUpto
<1>6. PICK g : g = [n \in 0..m |-> f[n]]
  OBVIOUS
<1>7. ASSUME NEW n \in 0..m PROVE g[n] = Growing(metrics, c, g, n)
  <2>1. g[n] = Growing(metrics, c, f, n)
    BY <1>5, <1>6
  <2>2. n # 0 => n - 1 \in 0..m
    BY <1>4
  <2>3. n # 0 => g[n - 1] = f[n - 1]
    BY <1>6, <2>2
  <2>4. QED BY <2>1, <2>3 DEF Growing
<1>8. g = [n \in 0..m |-> Growing(metrics, c, g, n)]
  <2>1. g = [n \in 0..m |-> g[n]]
    BY <1>6
  <2>2. QED BY <1>7, <2>1
<1>9. QED BY <1>4, <1>8 DEF Grows

(* All that a claim needs has what it has and what is passed on to needs.   *)
LEMMA NeededStays ==
    ASSUME NEW metrics, NEW c, NEW S, Cardinality(DOMAIN metrics) \in Nat,
           c \in S, Closed(metrics, S)
    PROVE  Needed(metrics, c) \subseteq S
<1>1. PICK f : f = CHOOSE g : Grows(metrics, c, g)
  OBVIOUS
<1>2. Grows(metrics, c, f)
  BY <1>1, GrowsExists
<1>3. PICK m : m = Cardinality(DOMAIN metrics)
  OBVIOUS
<1>4. \A n \in 0..m : f[n] = Growing(metrics, c, f, n)
  BY <1>2, <1>3 DEF Grows
<1> DEFINE N == {n \in 0..m : ~(f[n] \subseteq S)}
<1>5. N = {}
  <2> SUFFICES ASSUME N # {} PROVE FALSE
    OBVIOUS
  <2>1. PICK n \in N : \A k \in N : n <= k
    <3>1. N \in SUBSET Nat
      BY <1>3
    <3> HIDE DEF N
    <3>2. QED BY <3>1, Smallest
  <2>2. n \in 0..m /\ ~(f[n] \subseteq S)
    BY <2>1
  <2>3. n # 0
    BY <1>4, <2>2 DEF Growing
  <2>4. n - 1 \in 0..m /\ n - 1 \notin N
    BY <1>3, <2>1, <2>2, <2>3
  <2>5. f[n - 1] \subseteq S
    BY <2>4
  <2>6. f[n] = f[n - 1] \cup UNION {metrics[d].needs : d \in f[n - 1]}
    BY <1>4, <2>2, <2>3 DEF Growing
  <2>7. f[n] \subseteq S
    BY <2>5, <2>6 DEF Closed
  <2>8. QED BY <2>2, <2>7
<1>6. m \in 0..m
  BY <1>3
<1>7. f[m] \subseteq S
  BY <1>5, <1>6
<1>8. QED BY <1>1, <1>3, <1>7, NeededGrows

(* What each enabled series of a constructed manifest has.                  *)
LEMMA SeriesServed ==
    ASSUME NEW m \in Manifests, AssignmentsValid(m), NEW s \in EnabledSeries(m)
    PROVE  \E i \in DOMAIN m.instances :
              /\ AssignedTo(m, s) = {i}
              /\ m.instances[i].actor = m.bars[s].producer
              /\ Len(m.instances[i].series) <= MaximumSeriesPerInstance
<1>1. PICK i \in AssignedTo(m, s) : m.instances[i].actor = m.bars[s].producer
  BY DEF AssignmentsValid
<1>2. i \in DOMAIN m.instances /\ s \in ToSet(m.instances[i].series)
  BY <1>1 DEF AssignedTo
<1>3. s \in UNION {ToSet(m.instances[j].series) : j \in DOMAIN m.instances}
  BY <1>2
<1>4. Cardinality(AssignedTo(m, s)) = 1
  BY <1>3 DEF AssignmentsValid
<1>5. AssignedTo(m, s) = {i}
  <2>1. DOMAIN m.instances = 1..Len(m.instances) /\ Len(m.instances) \in Nat
    BY ManifestAssumption
  <2>2. IsFiniteSet(DOMAIN m.instances)
    <3>1. PICK n \in Int : n = Len(m.instances)
      BY <2>1
    <3>2. 1 \in Int /\ IsFiniteSet(1..n)
      BY FS_Interval
    <3>3. QED BY <2>1, <3>1, <3>2
  <2>3. IsFiniteSet(AssignedTo(m, s))
    BY <2>2, FS_Subset DEF AssignedTo
  <2>4. PICK j : AssignedTo(m, s) = {j}
    BY <1>4, <2>3, FS_Singleton
  <2>5. QED BY <1>1, <2>4
<1>6. WellAssigned(m.instances[i])
  BY <1>2 DEF AssignmentsValid
<1>7. Len(m.instances[i].series) <= MaximumSeriesPerInstance
  BY <1>6, ManifestAssumption DEF WellAssigned
<1>8. QED BY <1>1, <1>2, <1>5, <1>7

(* A manifest that is offered keeps the property of the runs.               *)
LEMMA ManifestHolds ==
    ASSUME manifest \in Manifests
    PROVE  ManifestInv
<1>1. PICK m : m = manifest
  OBVIOUS
<1>2. m \in Manifests /\ DOMAIN m.metrics \in SUBSET Nat /\ IsFiniteSet(DOMAIN m.metrics)
  BY <1>1, ManifestAssumption
<1>3. VisitFindsCircles
  <2> SUFFICES ASSUME \A c \in DOMAIN m.metrics : m.metrics[c].needs \subseteq DOMAIN m.metrics
               PROVE  Acyclic(m.metrics) <=> ~Circular(m.metrics)
    BY <1>1, Zenon DEF VisitFindsCircles
  <2>1. Declared(m.metrics)
    BY <1>2 DEF Declared
  <2>2. QED BY <2>1, AcyclicMeans
<1>4. ASSUME Constructed(m), NEW c \in DOMAIN m.metrics, m.metrics[c].activation = "ENABLED",
             NEW d \in Needed(m.metrics, c)
      PROVE  /\ m.metrics[d].activation = "ENABLED"
             /\ \A s \in m.metrics[d].inputs :
                   \E i \in DOMAIN m.instances :
                       /\ AssignedTo(m, s) = {i}
                       /\ m.instances[i].actor = m.bars[s].producer
                       /\ Len(m.instances[i].series) <= MaximumSeriesPerInstance
  <2>1. PICK S : S = {e \in DOMAIN m.metrics : m.metrics[e].activation = "ENABLED"}
    OBVIOUS
  <2>2. AssignmentsValid(m) /\ ClaimsValid(m)
    BY <1>4 DEF Constructed
  <2>3. Closed(m.metrics, S)
    <3>1. ASSUME NEW e \in S PROVE m.metrics[e].needs \subseteq S
      <4>1. e \in DOMAIN m.metrics /\ m.metrics[e].activation = "ENABLED"
        BY <2>1
      <4>2. m.metrics[e].needs \subseteq DOMAIN m.metrics
        BY <2>2, <4>1 DEF ClaimsValid
      <4>3. \A x \in m.metrics[e].needs \cap DOMAIN m.metrics : m.metrics[x].activation = "ENABLED"
        BY <2>2, <4>1 DEF ClaimsValid
      <4>4. QED BY <2>1, <4>2, <4>3
    <3>2. QED BY <3>1 DEF Closed
  <2>4. Cardinality(DOMAIN m.metrics) \in Nat /\ c \in S
    BY <1>2, <1>4, <2>1, FS_CardinalityType
  <2>5. d \in S
    BY <1>4, <2>3, <2>4, NeededStays
  <2>6. d \in DOMAIN m.metrics /\ m.metrics[d].activation = "ENABLED"
    BY <2>1, <2>5
  <2>7. m.metrics[d].inputs \subseteq EnabledSeries(m)
    BY <2>2, <2>6 DEF ClaimsValid
  <2>8. ASSUME NEW s \in m.metrics[d].inputs
        PROVE  \E i \in DOMAIN m.instances :
                   /\ AssignedTo(m, s) = {i}
                   /\ m.instances[i].actor = m.bars[s].producer
                   /\ Len(m.instances[i].series) <= MaximumSeriesPerInstance
    BY <1>2, <2>2, <2>7, SeriesServed
  <2>9. QED BY <2>6, <2>8
<1>5. EnabledIsComputable
  <2> SUFFICES ASSUME Constructed(m),
                      NEW c \in {d \in DOMAIN m.metrics : m.metrics[d].activation = "ENABLED"},
                      NEW d \in Needed(m.metrics, c)
               PROVE  /\ m.metrics[d].activation = "ENABLED"
                      /\ \A s \in m.metrics[d].inputs :
                            \E i \in DOMAIN m.instances :
                                /\ AssignedTo(m, s) = {i}
                                /\ m.instances[i].actor = m.bars[s].producer
                                /\ Len(m.instances[i].series) <= MaximumSeriesPerInstance
    BY <1>1 DEF EnabledIsComputable
  <2>1. c \in DOMAIN m.metrics /\ m.metrics[c].activation = "ENABLED"
    OBVIOUS
  <2>2. QED BY <1>4, <2>1
<1>6. QED BY <1>3, <1>5 DEF ManifestInv

(* What is offered is a manifest or nothing.                                *)
OfferedKept == manifest # NothingOffered => manifest \in Manifests

(* Every manifest that is constructed can be computed, every circle of      *)
(* dependencies is found, whatever claims need one another, and every       *)
(* configuration that is loaded serves the components.                      *)
THEOREM DeclarationsCorrect == DeclarationsSpec => []DeclarationsInv
<1>1. DeclarationsInit => OfferedKept
  BY DEF DeclarationsInit, ManifestInit, OfferedKept
<1>2. OfferedKept /\ [FALSE]_declaredVars => OfferedKept'
  BY DEF OfferedKept, declaredVars
<1>3. OfferedKept => DeclarationsInv
  BY ManifestHolds, LoadedServes DEF OfferedKept, DeclarationsInv
<1>4. QED BY <1>1, <1>2, <1>3, PTL DEF DeclarationsSpec

------------------------------------------------------------------------------
(* The life of a run.                                                       *)

Wrappers ==
    [at : {"launch", "guard", "wait", "restore", "return"},
     handled : SUBSET {1, 2, 15}, cancelled : {1, 2, 15, NoSignal}, late : BOOLEAN]
Systems ==
    [at : {"idle", "build", "open", "awake", "run", "close", "clean"},
     connected : BOOLEAN, helper : BOOLEAN, error : {"none", "node", "store"}]

(* What the handlers may have been told, and what the row may say, at each  *)
(* point of the command.                                                    *)
Types ==
    /\ command \in {1, 2, 3}
    /\ wrapper \in Wrappers
    /\ group \in SUBSET {"child", "descendant"}
    /\ code \in Int \cup {NoCode}
    /\ system \in Systems
    /\ record \in {"none", "open", "STOPPED", "FAILED"}
    /\ outcome \in [kind : {"going", "returned", "raised", "killed"}, status : Int,
                    error : {"none", "interrupt", "wait", "build", "store", "helper", "node"}]
    /\ forwarded \in BOOLEAN

(* A signal that was forwarded is remembered until the command ends, and a  *)
(* child that is waited for has ended exactly if it has a code.             *)
ChildInv ==
    /\ wrapper.at = "launch" =>
          wrapper.handled = {} /\ wrapper.cancelled = NoSignal /\ "child" \notin group
    /\ wrapper.at # "launch" => command < 3 /\ ("child" \in group <=> code = NoCode)
    /\ wrapper.at \in {"restore", "return"} => code # NoCode
    /\ forwarded => wrapper.cancelled # NoSignal
    /\ command = 3 => wrapper.at = "launch" /\ code = 0
    /\ outcome = Going /\ command < 3 => system.at = "idle"

(* The row of the run, and the error that will be raised, at each step of   *)
(* main.                                                                    *)
RecordInv ==
    /\ command < 3 => system.at = "idle"
    /\ system.at = "idle" => record = "none" /\ system.error = "none"
    /\ system.at = "build" => record = "none" /\ system.error = "none"
    /\ system.at \in {"open", "awake", "run", "close", "clean"} => system.connected
    /\ system.at = "open" => system.error = "none" /\ record \in {"none", "open"}
    /\ system.at = "open" /\ record = "open" => outcome.kind \in {"raised", "killed"}
    /\ system.at \in {"awake", "run"} => system.error = "none" /\ record = "open"
    /\ system.at = "close" => record = "open" /\ system.error \in {"none", "node"}
    /\ system.at = "clean" =>
          \/ system.error = "none" /\ record = "STOPPED"
          \/ system.error = "node" /\ record \in {"open", "FAILED"}
          \/ system.error = "store" /\ record \in {"open", "STOPPED"}
    /\ system.at # "clean" /\ outcome.kind = "raised" => system.error = "none"

LInv == Types /\ ChildInv /\ RecordInv /\ RunInv

LEMMA Signals ==
    /\ Range(ForwardedSignals) = {1, 2, 15}
    /\ Last(ForwardedSignals) = 1
    /\ INT = 2 /\ KILL = 9
    /\ NoCode \notin Int /\ NoSignal \notin Int
<1>1. ForwardedSignals = <<2, 15, 1>>
  BY DEF ForwardedSignals, INT
<1>2. DOMAIN ForwardedSignals = 1..3 /\ Len(ForwardedSignals) = 3
  BY <1>1
<1>3. \A x : x \in Range(ForwardedSignals) <=> \E i \in 1..3 : ForwardedSignals[i] = x
  BY <1>2 DEF Range
<1>4. Range(ForwardedSignals) = {1, 2, 15}
  BY <1>1, <1>3
<1>5. Last(ForwardedSignals) = 1
  BY <1>1, <1>2 DEF Last
<1>6. QED BY <1>4, <1>5, LifecycleAssumption DEF INT, KILL

LEMMA WrapperFields ==
    ASSUME NEW w \in Wrappers
    PROVE  /\ \A p \in {"wait", "restore", "return"} : [w EXCEPT !.at = p] \in Wrappers
           /\ \A s \in {1, 2, 15} :
                  /\ [w EXCEPT !.cancelled = s] \in Wrappers
                  /\ \A p \in {"guard", "wait"} :
                        [w EXCEPT !.handled = @ \cup {s}, !.at = p] \in Wrappers
                  /\ \A p \in {"restore", "return"} :
                        [w EXCEPT !.handled = @ \ {s}, !.at = p] \in Wrappers
           /\ [w EXCEPT !.late = TRUE] \in Wrappers
BY DEF Wrappers

LEMMA SystemFields ==
    ASSUME NEW x \in Systems
    PROVE  /\ \A p \in {"build", "open", "awake", "run", "clean"} :
                  [x EXCEPT !.at = p] \in Systems
           /\ \A p \in {"close", "clean"}, error \in {"none", "node", "store"} :
                  [x EXCEPT !.at = p, !.error = error] \in Systems
BY DEF Systems

LEMMA InitHolds == LifecycleInit => LInv
<1> SUFFICES ASSUME LifecycleInit PROVE LInv
  OBVIOUS
<1>1. system \in [at : {"idle"}, connected : BOOLEAN, helper : BOOLEAN, error : {"none"}]
  BY DEF LifecycleInit
<1>2. Types
  <2>1. wrapper \in Wrappers
    BY DEF LifecycleInit, Unstarted, Wrappers
  <2>2. system \in Systems
    BY <1>1 DEF Systems
  <2>3. outcome \in [kind : {"going", "returned", "raised", "killed"}, status : Int,
                     error : {"none", "interrupt", "wait", "build", "store", "helper", "node"}]
    BY DEF LifecycleInit, Going
  <2>4. forwarded \in BOOLEAN
    BY Zenon DEF LifecycleInit
  <2>5. QED BY <2>1, <2>2, <2>3, <2>4 DEF LifecycleInit, Types
<1>3. ChildInv
  BY <1>1 DEF LifecycleInit, Unstarted, Going, ChildInv
<1>4. RecordInv
  BY <1>1 DEF LifecycleInit, Unstarted, Going, RecordInv
<1>5. RunInv
  BY <1>1 DEF LifecycleInit, Unstarted, Going, RunInv, PrerequisitesHold, CancelledIsOver,
     RecordTells, Returned, Raised
<1>6. QED BY <1>2, <1>3, <1>4, <1>5 DEF LInv

LEMMA LaunchKeeps == LInv /\ Launch => LInv'
<1> SUFFICES ASSUME LInv, Launch PROVE LInv'
  OBVIOUS
<1> USE Signals DEF LInv, Launch, Wrapping, mainVars, childVars,
                    Going, Returned, Raised, KilledOutright
<1>1. Types'
  BY DEF Types, Wrappers, Systems
<1>2. ChildInv'
  BY DEF Types, Wrappers, Systems, ChildInv
<1>3. RecordInv'
  BY DEF Types, Wrappers, Systems, ChildInv, RecordInv
<1>4. RunInv'
  BY DEF Types, Wrappers, Systems, ChildInv, RecordInv, RunInv, PrerequisitesHold,
         CancelledIsOver, RecordTells
<1>5. QED BY <1>1, <1>2, <1>3, <1>4

LEMMA GuardKeeps == LInv /\ Guard => LInv'
<1> SUFFICES ASSUME LInv, Guard PROVE LInv'
  OBVIOUS
<1> USE Signals DEF LInv, Guard, Wrapping, mainVars, childVars,
                    Going, Returned, Raised, KilledOutright
<1>1. Types'
  <2>1. PICK s \in {1, 2, 15} :
           wrapper' = [wrapper EXCEPT !.handled = @ \cup {s},
                                      !.at = IF s = 1 THEN "wait" ELSE wrapper.at]
    OBVIOUS
  <2>2. wrapper' \in Wrappers
    <3> HIDE DEF Guard
    <3>1. wrapper \in Wrappers /\ wrapper.at = "guard"
      BY DEF Types, Guard
    <3>2. CASE s = 1
      <4>1. wrapper' = [wrapper EXCEPT !.handled = @ \cup {s}, !.at = "wait"]
        BY <2>1, <3>2
      <4>2. QED BY <4>1, <3>1, WrapperFields
    <3>3. CASE s # 1
      <4>1. wrapper' = [wrapper EXCEPT !.handled = @ \cup {s}, !.at = "guard"]
        BY <2>1, <3>1, <3>3
      <4>2. QED BY <4>1, <3>1, WrapperFields
    <3>4. QED BY <3>2, <3>3
  <2>3. QED BY <2>2 DEF Types
<1>2. ChildInv'
  BY DEF Types, Wrappers, Systems, ChildInv
<1>3. RecordInv'
  BY DEF Types, Wrappers, Systems, ChildInv, RecordInv
<1>4. RunInv'
  BY DEF Types, Wrappers, Systems, ChildInv, RecordInv, RunInv, PrerequisitesHold,
         CancelledIsOver, RecordTells
<1>5. QED BY <1>1, <1>2, <1>3, <1>4

LEMMA SignalKeeps == LInv /\ Signal => LInv'
<1> SUFFICES ASSUME LInv, Signal PROVE LInv'
  OBVIOUS
<1> USE Signals DEF LInv, Wrapping, mainVars, Going, Raised, KilledOutright
<1>1. PICK s \in {1, 2, 15} : Forward(s) \/ ByDefault(s)
  BY DEF Signal
<1>2. CASE Forward(s) /\ wrapper.cancelled = NoSignal
  <2> USE <1>2 DEF Signal, Forward
  <2>1. wrapper' = [wrapper EXCEPT !.cancelled = s] /\ group' = group /\ code' = code
    OBVIOUS
  <2>2. Types'
    <3>1. wrapper' \in Wrappers
      BY <2>1, WrapperFields DEF Types
    <3>2. QED BY <2>1, <3>1 DEF Types
  <2>3. ChildInv'
    BY <2>1 DEF Types, Wrappers, ChildInv
  <2>4. RecordInv'
    BY <2>1 DEF Types, ChildInv, RecordInv
  <2>5. RunInv'
    BY <2>1 DEF Types, ChildInv, RecordInv, RunInv, PrerequisitesHold, CancelledIsOver, RecordTells, Returned
  <2>6. QED BY <2>2, <2>3, <2>4, <2>5
<1>3. CASE Forward(s) /\ wrapper.cancelled # NoSignal
  <2> USE <1>3 DEF Signal, Forward, KillGroup
  <2>1. wrapper' = wrapper
    OBVIOUS
  <2>2. Types'
    BY <2>1 DEF Types
  <2>3. ChildInv'
    BY <2>1 DEF Types, Wrappers, ChildInv
  <2>4. RecordInv'
    BY <2>1 DEF Types, ChildInv, RecordInv
  <2>5. RunInv'
    BY <2>1 DEF Types, ChildInv, RecordInv, RunInv, PrerequisitesHold, CancelledIsOver, RecordTells, Returned
  <2>6. QED BY <2>2, <2>3, <2>4, <2>5
<1>4. CASE ByDefault(s)
  <2> USE <1>4 DEF Signal, ByDefault
  <2>1. outcome' \in {Raised("interrupt"), KilledOutright} /\ wrapper' = wrapper
    BY DEF Going
  <2>2. Types'
    BY <2>1 DEF Types
  <2>3. ChildInv'
    BY <2>1 DEF Types, ChildInv
  <2>4. RecordInv'
    BY <2>1 DEF Types, ChildInv, RecordInv
  <2>5. RunInv'
    BY <2>1 DEF Types, ChildInv, RecordInv, RunInv, PrerequisitesHold, CancelledIsOver, RecordTells, Returned
  <2>6. QED BY <2>2, <2>3, <2>4, <2>5
<1>5. QED BY <1>1, <1>2, <1>3, <1>4

LEMMA GraceEndsKeeps == LInv /\ GraceEnds => LInv'
<1> SUFFICES ASSUME LInv, GraceEnds PROVE LInv'
  OBVIOUS
<1> USE Signals DEF LInv, GraceEnds, Wrapping, mainVars, childVars,
                    Going, Returned, Raised, KilledOutright
<1>1. Types'
  <2>1. wrapper' \in Wrappers
    BY WrapperFields DEF Types
  <2>2. QED BY <2>1 DEF Types
<1>2. ChildInv'
  BY DEF Types, Wrappers, Systems, ChildInv
<1>3. RecordInv'
  BY DEF Types, Wrappers, Systems, ChildInv, RecordInv
<1>4. RunInv'
  BY DEF Types, Wrappers, Systems, ChildInv, RecordInv, RunInv, PrerequisitesHold,
         CancelledIsOver, RecordTells
<1>5. QED BY <1>1, <1>2, <1>3, <1>4

LEMMA PollPastDeadlineKeeps == LInv /\ PollPastDeadline => LInv'
<1> SUFFICES ASSUME LInv, PollPastDeadline PROVE LInv'
  OBVIOUS
<1> USE Signals DEF LInv, PollPastDeadline, Wrapping, KillGroup, mainVars, childVars,
                    Going, Returned, Raised, KilledOutright
<1>1. Types'
  BY DEF Types, Wrappers, Systems
<1>2. ChildInv'
  BY DEF Types, Wrappers, Systems, ChildInv
<1>3. RecordInv'
  BY DEF Types, Wrappers, Systems, ChildInv, RecordInv
<1>4. RunInv'
  BY DEF Types, Wrappers, Systems, ChildInv, RecordInv, RunInv, PrerequisitesHold,
         CancelledIsOver, RecordTells
<1>5. QED BY <1>1, <1>2, <1>3, <1>4

LEMMA InterruptedKeeps == LInv /\ Interrupted => LInv'
<1> SUFFICES ASSUME LInv, Interrupted PROVE LInv'
  OBVIOUS
<1> USE Signals DEF LInv, Interrupted, Wrapping, KillGroup, mainVars, childVars,
                    Going, Returned, Raised, KilledOutright
<1>1. Types'
  BY DEF Types, Wrappers, Systems
<1>2. ChildInv'
  BY DEF Types, Wrappers, Systems, ChildInv
<1>3. RecordInv'
  BY DEF Types, Wrappers, Systems, ChildInv, RecordInv
<1>4. RunInv'
  BY DEF Types, Wrappers, Systems, ChildInv, RecordInv, RunInv, PrerequisitesHold,
         CancelledIsOver, RecordTells
<1>5. QED BY <1>1, <1>2, <1>3, <1>4

LEMMA ReapKeeps == LInv /\ Reap => LInv'
<1> SUFFICES ASSUME LInv, Reap PROVE LInv'
  OBVIOUS
<1> USE Signals DEF LInv, Reap, Wrapping, mainVars, childVars,
                    Going, Returned, Raised, KilledOutright
<1>1. Types'
  BY DEF Types, Wrappers, Systems
<1>2. ChildInv'
  BY DEF Types, Wrappers, Systems, ChildInv
<1>3. RecordInv'
  BY DEF Types, Wrappers, Systems, ChildInv, RecordInv
<1>4. RunInv'
  BY DEF Types, Wrappers, Systems, ChildInv, RecordInv, RunInv, PrerequisitesHold,
         CancelledIsOver, RecordTells
<1>5. QED BY <1>1, <1>2, <1>3, <1>4

LEMMA RestoreKeeps == LInv /\ Restore => LInv'
<1> SUFFICES ASSUME LInv, Restore PROVE LInv'
  OBVIOUS
<1> USE Signals DEF LInv, Restore, Wrapping, mainVars, childVars,
                    Going, Returned, Raised, KilledOutright
<1>1. Types'
  <2>1. PICK s \in {1, 2, 15} :
           wrapper' = [wrapper EXCEPT !.handled = @ \ {s},
                                      !.at = IF s = 1 THEN "return" ELSE wrapper.at]
    <3>1. wrapper.handled \subseteq {1, 2, 15}
      BY DEF Types, Wrappers
    <3>2. PICK s \in wrapper.handled :
             wrapper' = [wrapper EXCEPT !.handled = @ \ {s},
                                        !.at = IF s = Last(ForwardedSignals) THEN "return" ELSE @]
      BY DEF Restore
    <3>3. s \in {1, 2, 15}
      BY <3>1, <3>2
    <3>4. QED BY <3>2, <3>3
  <2>2. wrapper' \in Wrappers
    <3> HIDE DEF Restore
    <3>1. wrapper \in Wrappers /\ wrapper.at = "restore"
      BY DEF Types, Restore
    <3>2. CASE s = 1
      <4>1. wrapper' = [wrapper EXCEPT !.handled = @ \ {s}, !.at = "return"]
        BY <2>1, <3>2
      <4>2. QED BY <4>1, <3>1, WrapperFields
    <3>3. CASE s # 1
      <4>1. wrapper' = [wrapper EXCEPT !.handled = @ \ {s}, !.at = "restore"]
        BY <2>1, <3>1, <3>3
      <4>2. QED BY <4>1, <3>1, WrapperFields
    <3>4. QED BY <3>2, <3>3
  <2>3. QED BY <2>2 DEF Types
<1>2. ChildInv'
  BY DEF Types, Wrappers, Systems, ChildInv
<1>3. RecordInv'
  BY DEF Types, Wrappers, Systems, ChildInv, RecordInv
<1>4. RunInv'
  BY DEF Types, Wrappers, Systems, ChildInv, RecordInv, RunInv, PrerequisitesHold,
         CancelledIsOver, RecordTells
<1>5. QED BY <1>1, <1>2, <1>3, <1>4

LEMMA ReturnKeeps == LInv /\ Return => LInv'
<1> SUFFICES ASSUME LInv, Return PROVE LInv'
  OBVIOUS
<1> USE Signals DEF LInv, Return, Wrapping, KillGroup, Status, Unstarted, mainVars, childVars,
                    Going, Returned, Raised, KilledOutright
<1>1. Types'
  <2>1. wrapper' \in Wrappers
    <3>1. wrapper' = wrapper \/ wrapper' = Unstarted
      BY DEF Return
    <3>2. Unstarted \in Wrappers
      BY DEF Wrappers
    <3>3. QED BY <3>1, <3>2 DEF Types
  <2>2. system' \in Systems
    <3>1. system' = system \/ system' = [system EXCEPT !.at = "build"]
      OBVIOUS
    <3>2. QED
      <4> HIDE DEF Return
      <4>1. QED BY <3>1, SystemFields DEF Types
  <2>3. group' \in SUBSET {"child", "descendant"} /\ code' \in Int \cup {NoCode}
    BY DEF Types
  <2>4. command' \in {1, 2, 3}
    BY DEF Types
  <2>5. outcome' \in [kind : {"going", "returned", "raised", "killed"}, status : Int,
                      error : {"none", "interrupt", "wait", "build", "store", "helper", "node"}]
    BY DEF Types, Wrappers, ChildInv
  <2>6. QED BY <2>1, <2>2, <2>3, <2>4, <2>5 DEF Types
<1>2. ChildInv'
  BY DEF Types, Wrappers, Systems, ChildInv
<1>3. RecordInv'
  BY DEF Types, Wrappers, Systems, ChildInv, RecordInv
<1>4. RunInv'
  <2>1. PrerequisitesHold'
    BY DEF Types, Wrappers, ChildInv, RunInv, PrerequisitesHold
  <2>2. CancelledIsOver'
    BY DEF Types, Wrappers, ChildInv, RunInv, CancelledIsOver
  <2>3. RecordTells'
    BY DEF Types, Wrappers, Systems, ChildInv, RecordInv, RunInv, RecordTells
  <2>4. QED BY <2>1, <2>2, <2>3 DEF RunInv
<1>5. QED BY <1>1, <1>2, <1>3, <1>4

LEMMA EndChildKeeps == LInv /\ EndChild => LInv'
<1> SUFFICES ASSUME LInv, EndChild PROVE LInv'
  OBVIOUS
<1> USE Signals DEF LInv, EndChild, mainVars, childVars,
                    Going, Returned, Raised, KilledOutright
<1>1. Types'
  BY DEF Types, Wrappers, Systems
<1>2. ChildInv'
  BY DEF Types, Wrappers, Systems, ChildInv
<1>3. RecordInv'
  BY DEF Types, Wrappers, Systems, ChildInv, RecordInv
<1>4. RunInv'
  BY DEF Types, Wrappers, Systems, ChildInv, RecordInv, RunInv, PrerequisitesHold,
         CancelledIsOver, RecordTells
<1>5. QED BY <1>1, <1>2, <1>3, <1>4

LEMMA ForkKeeps == LInv /\ Fork => LInv'
<1> SUFFICES ASSUME LInv, Fork PROVE LInv'
  OBVIOUS
<1> USE Signals DEF LInv, Fork, mainVars, childVars,
                    Going, Returned, Raised, KilledOutright
<1>1. Types'
  BY DEF Types, Wrappers, Systems
<1>2. ChildInv'
  BY DEF Types, Wrappers, Systems, ChildInv
<1>3. RecordInv'
  BY DEF Types, Wrappers, Systems, ChildInv, RecordInv
<1>4. RunInv'
  BY DEF Types, Wrappers, Systems, ChildInv, RecordInv, RunInv, PrerequisitesHold,
         CancelledIsOver, RecordTells
<1>5. QED BY <1>1, <1>2, <1>3, <1>4

LEMMA EndDescendantKeeps == LInv /\ EndDescendant => LInv'
<1> SUFFICES ASSUME LInv, EndDescendant PROVE LInv'
  OBVIOUS
<1> USE Signals DEF LInv, EndDescendant, mainVars, childVars,
                    Going, Returned, Raised, KilledOutright
<1>1. Types'
  BY DEF Types, Wrappers, Systems
<1>2. ChildInv'
  BY DEF Types, Wrappers, Systems, ChildInv
<1>3. RecordInv'
  BY DEF Types, Wrappers, Systems, ChildInv, RecordInv
<1>4. RunInv'
  BY DEF Types, Wrappers, Systems, ChildInv, RecordInv, RunInv, PrerequisitesHold,
         CancelledIsOver, RecordTells
<1>5. QED BY <1>1, <1>2, <1>3, <1>4

LEMMA BuildKeeps == LInv /\ Build => LInv'
<1> SUFFICES ASSUME LInv, Build PROVE LInv'
  OBVIOUS
<1> USE Signals DEF LInv, Build, At, Reach, Fails, mainVars, childVars,
                    Going, Returned, Raised, KilledOutright
<1>1. Types'
  BY DEF Types, Wrappers, Systems
<1>2. ChildInv'
  BY DEF Types, Wrappers, Systems, ChildInv
<1>3. RecordInv'
  BY DEF Types, Wrappers, Systems, ChildInv, RecordInv
<1>4. RunInv'
  BY DEF Types, Wrappers, Systems, ChildInv, RecordInv, RunInv, PrerequisitesHold,
         CancelledIsOver, RecordTells
<1>5. QED BY <1>1, <1>2, <1>3, <1>4

LEMMA StartRunKeeps == LInv /\ StartRun => LInv'
<1> SUFFICES ASSUME LInv, StartRun PROVE LInv'
  OBVIOUS
<1> USE Signals DEF LInv, StartRun, At, Reach, Fails, mainVars, childVars,
                    Going, Returned, Raised, KilledOutright
<1>1. Types'
  BY DEF Types, Wrappers, Systems
<1>2. ChildInv'
  BY DEF Types, Wrappers, Systems, ChildInv
<1>3. RecordInv'
  BY DEF Types, Wrappers, Systems, ChildInv, RecordInv
<1>4. RunInv'
  BY DEF Types, Wrappers, Systems, ChildInv, RecordInv, RunInv, PrerequisitesHold,
         CancelledIsOver, RecordTells
<1>5. QED BY <1>1, <1>2, <1>3, <1>4

LEMMA KeepAwakeKeeps == LInv /\ KeepAwake => LInv'
<1> SUFFICES ASSUME LInv, KeepAwake PROVE LInv'
  OBVIOUS
<1> USE Signals DEF LInv, KeepAwake, At, Reach, Fails, mainVars, childVars,
                    Going, Returned, Raised, KilledOutright
<1>1. Types'
  BY DEF Types, Wrappers, Systems
<1>2. ChildInv'
  BY DEF Types, Wrappers, Systems, ChildInv
<1>3. RecordInv'
  BY DEF Types, Wrappers, Systems, ChildInv, RecordInv
<1>4. RunInv'
  BY DEF Types, Wrappers, Systems, ChildInv, RecordInv, RunInv, PrerequisitesHold,
         CancelledIsOver, RecordTells
<1>5. QED BY <1>1, <1>2, <1>3, <1>4

LEMMA RunNodeKeeps == LInv /\ RunNode => LInv'
<1> SUFFICES ASSUME LInv, RunNode PROVE LInv'
  OBVIOUS
<1> USE Signals DEF LInv, RunNode, At, mainVars, childVars,
                    Going, Returned, Raised, KilledOutright
<1>1. Types'
  <2>1. PICK error \in {"none", "node"} :
           system' = [system EXCEPT !.at = "close", !.error = error]
    BY DEF RunNode
  <2>2. system' \in Systems
    <3> HIDE DEF RunNode
    <3>1. system \in Systems /\ error \in {"none", "node", "store"}
      BY <2>1 DEF Types
    <3>2. QED BY <2>1, <3>1, SystemFields
  <2>3. QED BY <2>2 DEF Types
<1>2. ChildInv'
  BY DEF Types, Wrappers, Systems, ChildInv
<1>3. RecordInv'
  BY DEF Types, Wrappers, Systems, ChildInv, RecordInv
<1>4. RunInv'
  BY DEF Types, Wrappers, Systems, ChildInv, RecordInv, RunInv, PrerequisitesHold,
         CancelledIsOver, RecordTells
<1>5. QED BY <1>1, <1>2, <1>3, <1>4

LEMMA CloseStoppedKeeps == LInv /\ CloseStopped => LInv'
<1> SUFFICES ASSUME LInv, CloseStopped PROVE LInv'
  OBVIOUS
<1> USE Signals DEF LInv, CloseStopped, At, Reach, Close, mainVars, childVars,
                    Going, Returned, Raised, KilledOutright
<1>1. Types'
  <2>1. system' \in Systems
    BY SystemFields DEF Types
  <2>2. QED BY <2>1 DEF Types
<1>2. ChildInv'
  BY DEF Types, Wrappers, Systems, ChildInv
<1>3. RecordInv'
  <2>1. /\ record = "open" /\ system.connected /\ command = 3 /\ system \in Systems
        /\ record' \in {"open", "STOPPED"} /\ system'.at = "clean" /\ system'.connected
        /\ \/ system'.error = "store"
           \/ system'.error = "none" /\ record' = "STOPPED"
    BY DEF Types, Systems, RecordInv
  <2>2. command' = 3 /\ outcome' = outcome
    BY <2>1
  <2>3. QED BY <2>1, <2>2 DEF RecordInv
<1>4. RunInv'
  BY DEF Types, Wrappers, Systems, ChildInv, RecordInv, RunInv, PrerequisitesHold,
         CancelledIsOver, RecordTells
<1>5. QED BY <1>1, <1>2, <1>3, <1>4

LEMMA CloseFailedKeeps == LInv /\ CloseFailed => LInv'
<1> SUFFICES ASSUME LInv, CloseFailed PROVE LInv'
  OBVIOUS
<1> USE Signals DEF LInv, CloseFailed, At, Reach, Close, mainVars, childVars,
                    Going, Returned, Raised, KilledOutright
<1>1. Types'
  BY DEF Types, Wrappers, Systems
<1>2. ChildInv'
  BY DEF Types, Wrappers, Systems, ChildInv
<1>3. RecordInv'
  BY DEF Types, Wrappers, Systems, ChildInv, RecordInv
<1>4. RunInv'
  BY DEF Types, Wrappers, Systems, ChildInv, RecordInv, RunInv, PrerequisitesHold,
         CancelledIsOver, RecordTells
<1>5. QED BY <1>1, <1>2, <1>3, <1>4

LEMMA CleanUpKeeps == LInv /\ CleanUp => LInv'
<1> SUFFICES ASSUME LInv, CleanUp PROVE LInv'
  OBVIOUS
<1> USE Signals DEF LInv, CleanUp, At, mainVars, childVars,
                    Going, Returned, Raised, KilledOutright
<1>1. Types'
  BY DEF Types, Wrappers, Systems
<1>2. ChildInv'
  BY DEF Types, Wrappers, Systems, ChildInv
<1>3. RecordInv'
  BY DEF Types, Wrappers, Systems, ChildInv, RecordInv
<1>4. RunInv'
  BY DEF Types, Wrappers, Systems, ChildInv, RecordInv, RunInv, PrerequisitesHold,
         CancelledIsOver, RecordTells
<1>5. QED BY <1>1, <1>2, <1>3, <1>4

LEMMA KilledKeeps == LInv /\ Killed => LInv'
<1> SUFFICES ASSUME LInv, Killed PROVE LInv'
  OBVIOUS
<1> USE Signals DEF LInv, Killed, mainVars, childVars,
                    Going, Returned, Raised, KilledOutright
<1>1. Types'
  BY DEF Types, Wrappers, Systems
<1>2. ChildInv'
  BY DEF Types, Wrappers, Systems, ChildInv
<1>3. RecordInv'
  BY DEF Types, Wrappers, Systems, ChildInv, RecordInv
<1>4. RunInv'
  BY DEF Types, Wrappers, Systems, ChildInv, RecordInv, RunInv, PrerequisitesHold,
         CancelledIsOver, RecordTells
<1>5. QED BY <1>1, <1>2, <1>3, <1>4

(* Nothing changes.                                                         *)
LEMMA StutterKeeps == LInv /\ UNCHANGED runVars => LInv'
BY DEF runVars, LInv, Types, ChildInv, RecordInv, RunInv, PrerequisitesHold, CancelledIsOver,
       RecordTells, Going, Returned, Raised

LEMMA StepHolds == LInv /\ [LifecycleNext]_runVars => LInv'
BY StutterKeeps,
   LaunchKeeps, GuardKeeps, SignalKeeps, GraceEndsKeeps,
   PollPastDeadlineKeeps, InterruptedKeeps, ReapKeeps, RestoreKeeps,
   ReturnKeeps, EndChildKeeps, ForkKeeps, EndDescendantKeeps,
   BuildKeeps, StartRunKeeps, KeepAwakeKeeps, RunNodeKeeps,
   CloseStoppedKeeps, CloseFailedKeeps, CleanUpKeeps, KilledKeeps
   DEF LifecycleNext

(* However many signals arrive, and at whatever moment: the system is built *)
(* only after both children succeeded uncancelled, a cancelled command      *)
(* leaves no process of its group behind, and the row of the run tells how  *)
(* the run ended.                                                           *)
THEOREM RunCorrect == LifecycleSpec => []RunInv
<1>1. LInv => RunInv
  BY DEF LInv
<1>2. QED BY InitHolds, StepHolds, <1>1, PTL DEF LifecycleSpec

=============================================================================
