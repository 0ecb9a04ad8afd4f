--------------------- MODULE HistoricalAcquisition_proofs ---------------------
(***************************************************************************)
(* Proofs about HistoricalAcquisition, for every set of requests,          *)
(* dependencies and plans, every policy and every provider.                *)
(*                                                                         *)
(* The actor changes its coordinator by the coordinator's own operations   *)
(* only.  Every step of the actor is therefore a step of module            *)
(* HistoricalExecution or leaves its variables alone, and the invariants   *)
(* proved there hold here.                                                 *)
(***************************************************************************)
EXTENDS HistoricalAcquisition, HistoricalExecution_proofs, WellFoundedInduction

(* The types of the actor's own variables.                                 *)
ActorTypes ==
    /\ released \in BOOLEAN /\ missing \in BOOLEAN
    /\ plans \in [Dependencies -> Plan \cup {NoPlan}]
    /\ mode \in {"idle", "starting", "stopping", "stopped"}

-----------------------------------------------------------------------------
(* What the actor does to its coordinator.                                 *)
LEMMA ActorTypesKept == ActorTypes /\ [AcqNext]_acqVars => ActorTypes'
<1> SUFFICES ASSUME ActorTypes, [AcqNext]_acqVars PROVE ActorTypes'
  OBVIOUS
<1>1. CASE ReleaseStartup
  BY <1>1 DEF ActorTypes, ReleaseStartup, StartIfReady
<1>2. CASE OnLastInstrument
  BY <1>2 DEF ActorTypes, OnLastInstrument, StartIfReady
<1>3. CASE \E d \in Dependencies, plan \in Plan : OnPlan(d, plan)
  BY <1>3 DEF ActorTypes, OnPlan, StartIfReady
<1>4. CASE \E d \in Dependencies : StartPlan(d)
  BY <1>4 DEF ActorTypes, StartPlan
<1>5. CASE StartDone
  BY <1>5 DEF ActorTypes, StartDone
<1>6. CASE \E r \in Requests, count \in Counts : OnHistoricalBars(r, count)
  BY <1>6 DEF ActorTypes, OnHistoricalBars, actor
<1>7. CASE AdvanceHistorical \/ PassTime
  BY <1>7 DEF ActorTypes, AdvanceHistorical, PassTime, actor
<1>8. CASE OnStop \/ CancelNext \/ StopDone
  BY <1>8 DEF ActorTypes, OnStop, CancelNext, StopDone
<1>9. CASE UNCHANGED acqVars
  BY <1>9 DEF ActorTypes, acqVars, actor
<1>10. QED BY <1>1, <1>2, <1>3, <1>4, <1>5, <1>6, <1>7, <1>8, <1>9 DEF AcqNext

LEMMA HeldPlans ==
    ASSUME ActorTypes, NEW d \in Held
    PROVE  /\ d \in Dependencies
           /\ plans[d].request \in Requests /\ plans[d].priority \in Priorities
<1>1. d \in Dependencies /\ plans[d] # NoPlan
  BY DEF Held
<1>2. plans[d] \in Plan
  BY <1>1 DEF ActorTypes
<1>3. QED BY <1>1, <1>2 DEF Plan

(* An operation of the actor is one operation of the coordinator or none.  *)
LEMMA ActorUses == ActorTypes /\ [AcqNext]_acqVars => [Next]_vars
<1> SUFFICES ASSUME ActorTypes, [AcqNext]_acqVars PROVE Next \/ UNCHANGED vars
  OBVIOUS
<1>1. CASE ReleaseStartup \/ OnLastInstrument \/ StartDone \/ OnStop \/ StopDone
  BY <1>1 DEF ReleaseStartup, OnLastInstrument, StartDone, OnStop, StopDone
<1>2. CASE \E d \in Dependencies, plan \in Plan : OnPlan(d, plan)
  BY <1>2 DEF OnPlan
<1>3. CASE \E d \in Dependencies : StartPlan(d)
  <2>1. PICK d \in Dependencies : StartPlan(d)
    BY <1>3
  <2>2. d \in Held
    BY <2>1 DEF StartPlan
  <2>3. Enqueue(plans[d].request, {d}, plans[d].priority) \/ UNCHANGED vars
    BY <2>1 DEF StartPlan
  <2>4. QED BY <2>2, <2>3, HeldPlans DEF Next
<1>4. CASE \E r \in Requests, count \in Counts : OnHistoricalBars(r, count)
  <2>1. PICK r \in Requests, count \in Counts : OnHistoricalBars(r, count)
    BY <1>4
  <2>2. UNCHANGED vars \/ Complete(FirstActive, count) \/ Fail(FirstActive, FALSE)
    BY <2>1 DEF OnHistoricalBars
  <2>3. Complete(FirstActive, count) \/ Fail(FirstActive, FALSE) => FirstActive \in Requests
    BY DEF Complete, Fail, In
  <2>4. QED BY <2>2, <2>3 DEF Next
<1>5. CASE AdvanceHistorical \/ PassTime
  BY <1>5 DEF AdvanceHistorical, PassTime, Next
<1>6. CASE CancelNext
  <2>1. UNCHANGED vars \/ (Head(condemned) \in Outstanding(req) /\ Cancel(Head(condemned)))
    BY <1>6 DEF CancelNext
  <2>2. Outstanding(req) \subseteq Requests
    BY DEF Outstanding, In
  <2>3. QED BY <2>1, <2>2 DEF Next
<1>7. CASE UNCHANGED acqVars
  BY <1>7 DEF acqVars, vars
<1>8. QED BY <1>1, <1>2, <1>3, <1>4, <1>5, <1>6, <1>7 DEF AcqNext

LEMMA ActorInit == AcqInit => ActorTypes /\ LaneInv
<1>1. AcqInit => ActorTypes
  BY DEF AcqInit, ActorTypes
<1>2. QED BY <1>1, InitLanes DEF AcqInit

(* What holds of the coordinator whoever uses it, holds in the actor.      *)
LEMMA ActorAlways == AcqSpec => [](ActorTypes /\ LaneInv)
<1>1. ActorTypes /\ LaneInv /\ [AcqNext]_acqVars => ActorTypes' /\ LaneInv'
  BY ActorTypesKept, ActorUses, LanesStep
<1>2. QED BY <1>1, ActorInit, PTL DEF AcqSpec

(* The actor uses its coordinator by its operations only, one at a time:   *)
(* for all plans, answers and orders of them.                              *)
THEOREM ActorRefines == AcqSpec => Init /\ [][Next]_vars
<1>1. AcqInit => Init
  BY DEF AcqInit
<1>2. ActorTypes /\ [AcqNext]_acqVars => [Next]_vars
  BY ActorUses
<1>3. QED BY <1>1, <1>2, ActorAlways, PTL DEF AcqSpec
-----------------------------------------------------------------------------
(* The observations of a set of requests, a sum that the model folds.  A   *)
(* statement about every finite set is proved by its smallest              *)
(* counterexample.                                                         *)
LEMMA Smallest ==
    ASSUME NEW N \in SUBSET Nat, N # {}
    PROVE  \E n \in N : \A m \in N : n <= m
<1>1. PICK n \in N : \A m \in N : <<m, n>> \notin OpToRel(<, Nat)
  BY NatLessThanWellFounded, WFMin
<1>2. ASSUME NEW m \in N PROVE n <= m
  <2>1. m \in Nat /\ n \in Nat /\ <<m, n>> \in Nat \X Nat
    OBVIOUS
  <2>2. m < n => <<m, n>> \in OpToRel(<, Nat)
    BY <2>1 DEF OpToRel
  <2>3. ~(m < n)
    BY <1>1, <2>2, Zenon
  <2>4. QED BY <2>1, <2>3
<1>3. QED BY <1>2

Chosen(s) == CHOOSE x \in s : TRUE

Total(f, s) == IF s = {} THEN 0 ELSE Limit[Chosen(s)] + f[s \ {Chosen(s)}]

Totals(S, f) == f = [s \in SUBSET S |-> Total(f, s)]

Sum(S) == OutstandingObservations(S)

LEMMA SumFolds == ASSUME NEW S PROVE Sum(S) = (CHOOSE f : Totals(S, f))[S]
BY DEF Sum, OutstandingObservations, FoldFunctionOnSet, MapThenFoldSet, Totals, Total, Chosen

LEMMA RequestSets ==
    ASSUME NEW s \in SUBSET Requests
    PROVE  /\ IsFiniteSet(s) /\ Cardinality(s) \in Nat
           /\ Cardinality(s) = 0 <=> s = {}
           /\ \A x \in s : Limit[x] \in Nat /\ Cardinality(s \ {x}) = Cardinality(s) - 1
<1>1. IsFiniteSet(s)
  BY FS_Subset, ExecutionAssumption
<1>2. ASSUME NEW x \in s PROVE Cardinality(s \ {x}) = Cardinality(s) - 1
  BY <1>1, FS_RemoveElement
<1>3. QED BY <1>1, <1>2, FS_CardinalityType, FS_EmptySet, AcquisitionAssumption

(* Totals of sets with at most n elements, given those of smaller sets.    *)
LEMMA TotalsExist == ASSUME NEW S \in SUBSET Requests PROVE \E f \in [SUBSET S -> Nat] : Totals(S, f)
<1> DEFINE Upto(n) == \E f \in [SUBSET S -> Nat] :
                          \A s \in SUBSET S : Cardinality(s) <= n => f[s] = Total(f, s)
           N == {n \in Nat : ~Upto(n)}
<1>1. Upto(0)
  <2> DEFINE f == [s \in SUBSET S |-> 0]
  <2>1. \A s \in SUBSET S : Cardinality(s) <= 0 => s = {}
    BY RequestSets
  <2>2. \A s \in SUBSET S : Cardinality(s) <= 0 => f[s] = Total(f, s)
    BY <2>1 DEF Total
  <2>3. f \in [SUBSET S -> Nat]
    OBVIOUS
  <2> HIDE DEF f
  <2>4. QED BY <2>2, <2>3
<1>2. ASSUME NEW n \in Nat, Upto(n) PROVE Upto(n + 1)
  <2>1. PICK f \in [SUBSET S -> Nat] :
            \A s \in SUBSET S : Cardinality(s) <= n => f[s] = Total(f, s)
    BY <1>2
  <2> DEFINE g == [s \in SUBSET S |-> Total(f, s)]
  <2>2. ASSUME NEW s \in SUBSET S, s # {}
        PROVE  /\ Chosen(s) \in s /\ s \ {Chosen(s)} \in SUBSET S
               /\ Limit[Chosen(s)] \in Nat
               /\ Cardinality(s) \in Nat
               /\ Cardinality(s \ {Chosen(s)}) = Cardinality(s) - 1
    <3>1. Chosen(s) \in s
      BY <2>2 DEF Chosen
    <3>2. QED BY <3>1, RequestSets
  <2>3. g \in [SUBSET S -> Nat]
    <3>1. ASSUME NEW s \in SUBSET S PROVE Total(f, s) \in Nat
      <4>1. CASE s = {}
        BY <4>1 DEF Total
      <4>2. CASE s # {}
        <5>1. f[s \ {Chosen(s)}] \in Nat /\ Limit[Chosen(s)] \in Nat
          BY <2>2, <4>2
        <5>2. QED BY <4>2, <5>1 DEF Total
      <4>3. QED BY <4>1, <4>2
    <3>2. QED BY <3>1
  <2>4. ASSUME NEW s \in SUBSET S, Cardinality(s) <= n + 1
        PROVE  g[s] = Total(g, s)
    <3>1. CASE s = {}
      BY <3>1 DEF Total
    <3>2. CASE s # {}
      <4>1. Cardinality(s \ {Chosen(s)}) <= n
        BY <2>2, <2>4, <3>2
      <4>2. f[s \ {Chosen(s)}] = Total(f, s \ {Chosen(s)})
        BY <2>1, <2>2, <3>2, <4>1
      <4>3. g[s \ {Chosen(s)}] = f[s \ {Chosen(s)}]
        BY <2>2, <3>2, <4>2
      <4>4. QED BY <3>2, <4>3 DEF Total
    <3>3. QED BY <3>1, <3>2
  <2> HIDE DEF g
  <2>5. QED BY <2>3, <2>4
<1>3. N = {}
  <2> SUFFICES ASSUME N # {} PROVE FALSE
    OBVIOUS
  <2> HIDE DEF Upto
  <2>1. PICK n \in N : \A m \in N : n <= m
    <3>1. N \in SUBSET Nat
      OBVIOUS
    <3> HIDE DEF N
    <3>2. QED BY <3>1, Smallest
  <2>2. n \in Nat /\ n # 0
    BY <1>1
  <2>3. n - 1 \in Nat /\ n - 1 \notin N
    BY <2>1, <2>2
  <2>4. Upto(n - 1)
    BY <2>3
  <2>5. Upto((n - 1) + 1)
    BY <1>2, <2>3, <2>4
  <2>6. (n - 1) + 1 = n
    BY <2>2
  <2>7. QED BY <2>5, <2>6
<1>4. Cardinality(S) \in Nat
  BY RequestSets
<1>5. Upto(Cardinality(S))
  BY <1>3, <1>4
<1>6. PICK f \in [SUBSET S -> Nat] :
          \A s \in SUBSET S : Cardinality(s) <= Cardinality(S) => f[s] = Total(f, s)
  BY <1>5
<1>7. \A s \in SUBSET S : Cardinality(s) <= Cardinality(S)
  BY RequestSets, FS_Subset
<1>8. QED BY <1>6, <1>7 DEF Totals

LEMMA TotalsUnique ==
    ASSUME NEW S \in SUBSET Requests, NEW f, NEW g, Totals(S, f), Totals(S, g)
    PROVE  f = g
<1> DEFINE N == {n \in Nat : \E s \in SUBSET S : Cardinality(s) = n /\ f[s] # g[s]}
<1>1. \A s \in SUBSET S : f[s] = Total(f, s) /\ g[s] = Total(g, s)
  BY DEF Totals
<1>2. N = {}
  <2> SUFFICES ASSUME N # {} PROVE FALSE
    OBVIOUS
  <2>1. PICK n \in N : \A m \in N : n <= m
    <3>1. N \in SUBSET Nat
      OBVIOUS
    <3> HIDE DEF N
    <3>2. QED BY <3>1, Smallest
  <2>2. PICK s \in SUBSET S : Cardinality(s) = n /\ f[s] # g[s]
    OBVIOUS
  <2>3. s # {}
    BY <1>1, <2>2 DEF Total
  <2>4. Chosen(s) \in s
    BY <2>3 DEF Chosen
  <2>5. Cardinality(s \ {Chosen(s)}) = n - 1 /\ n \in Nat /\ n - 1 \in Nat
    BY <2>2, <2>3, <2>4, RequestSets
  <2>6. n - 1 \notin N
    BY <2>1, <2>5
  <2>7. f[s \ {Chosen(s)}] = g[s \ {Chosen(s)}]
    BY <2>5, <2>6
  <2>8. QED BY <1>1, <2>2, <2>3, <2>7 DEF Total
<1>3. ASSUME NEW s \in SUBSET S PROVE f[s] = g[s]
  BY <1>2, RequestSets
<1>4. QED BY <1>3 DEF Totals

(* The sum is taken in any order.                                          *)
LEMMA SumTotals ==
    ASSUME NEW S \in SUBSET Requests
    PROVE  /\ Sum(S) \in Nat
           /\ S = {} => Sum(S) = 0
           /\ S # {} => Sum(S) = Limit[Chosen(S)] + Sum(S \ {Chosen(S)})
<1>1. PICK f \in [SUBSET S -> Nat] : Totals(S, f)
  BY TotalsExist
<1>2. ASSUME NEW T \in SUBSET S PROVE Sum(T) = f[T]
  <2> DEFINE h == [s \in SUBSET T |-> f[s]]
             g == CHOOSE k : Totals(T, k)
  <2>1. ASSUME NEW s \in SUBSET T PROVE h[s] = Total(h, s)
    <3>1. f[s] = Total(f, s)
      BY <1>1 DEF Totals
    <3>2. s \ {Chosen(s)} \in SUBSET T
      OBVIOUS
    <3>3. QED BY <3>1, <3>2 DEF Total
  <2>2. Totals(T, h)
    BY <2>1 DEF Totals
  <2>3. Totals(T, g)
    BY <2>2
  <2>4. T \in SUBSET Requests
    OBVIOUS
  <2> HIDE DEF h, g
  <2>5. h = g
    BY <2>2, <2>3, <2>4, TotalsUnique
  <2>6. Sum(T) = g[T]
    BY SumFolds DEF g
  <2>7. QED BY <2>5, <2>6 DEF h
<1>3. f[S] = Total(f, S) /\ Sum(S) = f[S] /\ Sum(S \ {Chosen(S)}) = f[S \ {Chosen(S)}]
  BY <1>1, <1>2 DEF Totals
<1>4. QED BY <1>1, <1>3 DEF Total

LEMMA SumWithout ==
    ASSUME NEW S \in SUBSET Requests, NEW x \in S
    PROVE  Sum(S) = Limit[x] + Sum(S \ {x})
<1> DEFINE N == {n \in Nat : \E s \in SUBSET Requests : \E y \in s :
                     Cardinality(s) = n /\ Sum(s) # Limit[y] + Sum(s \ {y})}
<1>1. N = {}
  <2> SUFFICES ASSUME N # {} PROVE FALSE
    OBVIOUS
  <2>1. PICK n \in N : \A m \in N : n <= m
    <3>1. N \in SUBSET Nat
      OBVIOUS
    <3> HIDE DEF N
    <3>2. QED BY <3>1, Smallest
  <2>a. PICK s \in SUBSET Requests : \E y \in s :
            Cardinality(s) = n /\ Sum(s) # Limit[y] + Sum(s \ {y})
    OBVIOUS
  <2>2. PICK y \in s : Cardinality(s) = n /\ Sum(s) # Limit[y] + Sum(s \ {y})
    BY <2>a
  <2> DEFINE c == Chosen(s)
             rest == (s \ {c}) \ {y}
  <2>3. c \in s /\ Sum(s) = Limit[c] + Sum(s \ {c}) /\ c # y
    BY <2>2, SumTotals DEF Chosen
  <2>4. /\ Cardinality(s \ {c}) = n - 1 /\ Cardinality(s \ {y}) = n - 1
        /\ n \in Nat /\ n - 1 \in Nat
    BY <2>2, <2>3, RequestSets
  <2>5. n - 1 \notin N
    <3> HIDE DEF N
    <3>1. QED BY <2>1, <2>4
  <2>b. \A t \in SUBSET Requests : \A z \in t :
            Cardinality(t) = n - 1 => Sum(t) = Limit[z] + Sum(t \ {z})
    BY <2>4, <2>5
  <2>6. /\ s \ {c} \in SUBSET Requests /\ s \ {y} \in SUBSET Requests
        /\ y \in s \ {c} /\ c \in s \ {y}
        /\ (s \ {y}) \ {c} = rest
    BY <2>3
  <2> HIDE DEF c, rest
  <2>7. Sum(s \ {c}) = Limit[y] + Sum(rest) /\ Sum(s \ {y}) = Limit[c] + Sum(rest)
    BY <2>4, <2>6, <2>b DEF rest
  <2>8. Limit[c] \in Nat /\ Limit[y] \in Nat
    BY <2>3, RequestSets
  <2>9. Sum(rest) \in Nat
    BY <2>6, SumTotals DEF rest
  <2>10. QED BY <2>2, <2>3, <2>7, <2>8, <2>9
<1>2. Cardinality(S) \in Nat
  BY RequestSets
<1>3. QED BY <1>1, <1>2

LEMMA SumMonotone ==
    ASSUME NEW S \in SUBSET Requests, NEW T \in SUBSET S
    PROVE  Sum(T) <= Sum(S)
<1> DEFINE N == {n \in Nat : \E s \in SUBSET Requests : \E t \in SUBSET s :
                     Cardinality(s) = n /\ ~(Sum(t) <= Sum(s))}
<1>1. N = {}
  <2> SUFFICES ASSUME N # {} PROVE FALSE
    OBVIOUS
  <2>1. PICK n \in N : \A m \in N : n <= m
    <3>1. N \in SUBSET Nat
      OBVIOUS
    <3> HIDE DEF N
    <3>2. QED BY <3>1, Smallest
  <2>a. PICK s \in SUBSET Requests : \E t \in SUBSET s :
            Cardinality(s) = n /\ ~(Sum(t) <= Sum(s))
    OBVIOUS
  <2>2. PICK t \in SUBSET s : Cardinality(s) = n /\ ~(Sum(t) <= Sum(s))
    BY <2>a
  <2>3. Sum(t) \in Nat /\ Sum(s) \in Nat
    BY SumTotals
  <2>4. PICK x \in s : x \notin t
    BY <2>2, <2>3
  <2>5. Cardinality(s \ {x}) = n - 1 /\ n \in Nat /\ n - 1 \in Nat
    BY <2>2, RequestSets
  <2>6. n - 1 \notin N
    BY <2>1, <2>5
  <2>7. s \ {x} \in SUBSET Requests /\ t \in SUBSET (s \ {x})
    BY <2>4
  <2>8. Sum(t) <= Sum(s \ {x})
    BY <2>5, <2>6, <2>7
  <2>9. Sum(s) = Limit[x] + Sum(s \ {x}) /\ Limit[x] \in Nat /\ Sum(s \ {x}) \in Nat
    BY <2>7, SumWithout, RequestSets, SumTotals
  <2>10. QED BY <2>2, <2>3, <2>8, <2>9
<1>2. Cardinality(S) \in Nat
  BY RequestSets
<1>3. QED BY <1>1, <1>2
-----------------------------------------------------------------------------
(* What the operations of the coordinator make of its queue and its lanes. *)
LEMMA WorkShrinks ==
    ASSUME IInv, NEW r \in Requests, NEW count, NEW retryable \in BOOLEAN,
           Advance \/ Complete(r, count) \/ Fail(r, retryable) \/ Cancel(r)
    PROVE  Outstanding(req') \subseteq Outstanding(req)
<1>1. req \in [Requests -> Entry]
  BY DEF IInv, Consistent
<1>2. ASSUME NEW table \in [Requests -> Entry], Dispatch(table),
             \A q \in Requests : table[q].place \in {"pending", "active"}
                                 => req[q].place \in {"pending", "active"}
      PROVE  Outstanding(req') \subseteq Outstanding(req)
  <2>1. Outstanding(table) \subseteq Outstanding(req)
    BY <1>2 DEF Outstanding, In
  <2>2. QED BY <1>2, <2>1, DispatchPlaces
<1>3. CASE Advance
  <2> DEFINE table == [q \in Requests |-> IF q \in Expired
                                          THEN RetriedOrFinished(req[q], "EXPIRED")
                                          ELSE req[q]]
  <2>1. Dispatch(table) /\ "EXPIRED" \in Endings
    BY <1>3 DEF Advance, Endings
  <2>2. table \in [Requests -> Entry]
    BY <1>1, <2>1, EntryTypes
  <2>3. \A q \in Requests : table[q].place \in {"pending", "active"}
                            => req[q].place \in {"pending", "active"}
    BY DEF Expired, In
  <2> HIDE DEF table
  <2>4. QED BY <1>2, <2>1, <2>2, <2>3
<1>4. CASE Complete(r, count) \/ Cancel(r) \/ Fail(r, retryable)
  <2>1. PICK e \in Entry : Dispatch([req EXCEPT ![r] = e]) /\ r \in Outstanding(req)
    <3>1. "COMPLETED" \in Endings /\ "CANCELED" \in Endings /\ "FAILED" \in Endings
      BY DEF Endings
    <3>2. CASE Complete(r, count)
      BY <3>1, <3>2, EntryTypes DEF Complete, Outstanding
    <3>3. CASE Cancel(r)
      BY <3>1, <3>3, EntryTypes DEF Cancel
    <3>4. CASE Fail(r, retryable)
      <4>1. req[r] \in Entry
        BY <1>1
      <4>2. QED BY <3>1, <3>4, <4>1, EntryTypes DEF Fail, Outstanding
    <3>5. QED BY <1>4, <3>2, <3>3, <3>4
  <2> DEFINE table == [req EXCEPT ![r] = e]
  <2>2. table \in [Requests -> Entry] /\ Dispatch(table)
    BY <1>1, <2>1
  <2>3. \A q \in Requests : q # r => table[q] = req[q]
    BY <1>1
  <2>4. req[r].place \in {"pending", "active"}
    BY <2>1 DEF Outstanding, In
  <2> HIDE DEF table
  <2>5. QED BY <1>2, <2>2, <2>3, <2>4
<1>5. QED BY <1>3, <1>4

LEMMA EnqueueGrows ==
    ASSUME IInv, NEW r \in Requests, NEW d \in Dependencies, NEW priority \in Priorities,
           Enqueue(r, {d}, priority)
    PROVE  Outstanding(req') \subseteq Outstanding(req) \cup {r}
<1>1. req \in [Requests -> Entry] /\ {d} \in SUBSET Dependencies
  BY DEF IInv, Consistent
<1>2. PICK e \in Entry : Dispatch([req EXCEPT ![r] = e])
  <2>1. req[r] \in Entry
    BY <1>1
  <2>2. QED BY <1>1, <2>1, EntryTypes DEF Enqueue
<1> DEFINE table == [req EXCEPT ![r] = e]
<1>3. table \in [Requests -> Entry] /\ Dispatch(table)
  BY <1>1, <1>2
<1>4. \A q \in Requests : q # r => table[q] = req[q]
  BY <1>1
<1> HIDE DEF table
<1>5. Outstanding(table) \subseteq Outstanding(req) \cup {r}
  BY <1>4 DEF Outstanding, In
<1>6. QED BY <1>3, <1>5, DispatchPlaces

(* Nothing but a plan that fits adds to what is queued or in flight.       *)
LEMMA ActorWork ==
    ASSUME ActorTypes, IInv, [AcqNext]_acqVars
    PROVE  \/ Outstanding(req') \subseteq Outstanding(req)
           \/ \E d \in Held :
                 /\ mode = "starting" /\ WithinLimits(plans[d].request)
                 /\ Outstanding(req') \subseteq Outstanding(req) \cup {plans[d].request}
<1>1. CASE ReleaseStartup \/ OnLastInstrument \/ StartDone \/ OnStop \/ StopDone
  BY <1>1 DEF ReleaseStartup, OnLastInstrument, StartDone, OnStop, StopDone, vars,
     Outstanding, In
<1>2. CASE \E d \in Dependencies, plan \in Plan : OnPlan(d, plan)
  BY <1>2 DEF OnPlan, vars, Outstanding, In
<1>3. CASE \E d \in Dependencies : StartPlan(d)
  <2>1. PICK d \in Dependencies : StartPlan(d)
    BY <1>3
  <2>2. d \in Held /\ mode = "starting"
    BY <2>1 DEF StartPlan
  <2>3. CASE WithinLimits(plans[d].request) /\ Enqueueable(plans[d].request)
    <3>1. Enqueue(plans[d].request, {d}, plans[d].priority)
      BY <2>1, <2>3 DEF StartPlan
    <3>2. QED BY <2>2, <2>3, <3>1, HeldPlans, EnqueueGrows
  <2>4. CASE ~(WithinLimits(plans[d].request) /\ Enqueueable(plans[d].request))
    BY <2>1, <2>4 DEF StartPlan, vars, Outstanding, In
  <2>5. QED BY <2>3, <2>4
<1>4. CASE \E r \in Requests, count \in Counts : OnHistoricalBars(r, count)
  <2>1. PICK r \in Requests, count \in Counts : OnHistoricalBars(r, count)
    BY <1>4
  <2>2. UNCHANGED vars \/ Complete(FirstActive, count) \/ Fail(FirstActive, FALSE)
    BY <2>1 DEF OnHistoricalBars
  <2>3. Complete(FirstActive, count) \/ Fail(FirstActive, FALSE) => FirstActive \in Requests
    BY DEF Complete, Fail, In
  <2>4. CASE UNCHANGED vars
    BY <2>4 DEF vars, Outstanding, In
  <2>5. FALSE \in BOOLEAN
    OBVIOUS
  <2>6. QED BY <2>2, <2>3, <2>4, <2>5, WorkShrinks
<1>5. CASE AdvanceHistorical
  <2>1. Advance
    BY <1>5 DEF AdvanceHistorical
  <2>2. CASE Requests = {}
    BY <2>2 DEF Outstanding, In
  <2>3. CASE Requests # {}
    BY <2>1, <2>3, WorkShrinks
  <2>4. QED BY <2>2, <2>3
<1>6. CASE PassTime
  BY <1>6, TickPlaces DEF PassTime
<1>7. CASE CancelNext
  <2>1. UNCHANGED vars \/ (Head(condemned) \in Outstanding(req) /\ Cancel(Head(condemned)))
    BY <1>7 DEF CancelNext
  <2>2. Outstanding(req) \subseteq Requests
    BY DEF Outstanding, In
  <2>3. CASE UNCHANGED vars
    BY <2>3 DEF vars, Outstanding, In
  <2>4. QED BY <2>1, <2>2, <2>3, WorkShrinks
<1>8. CASE UNCHANGED acqVars
  BY <1>8 DEF acqVars, vars, Outstanding, In
<1>9. QED BY <1>1, <1>2, <1>3, <1>4, <1>5, <1>6, <1>7, <1>8 DEF AcqNext

-----------------------------------------------------------------------------
(* The budget.                                                             *)
LEMMA BudgetKept ==
    ASSUME ActorTypes, IInv, ObservationsBudgeted, [AcqNext]_acqVars
    PROVE  Sum(Outstanding(req')) <= MaxObservations
<1>1. /\ Outstanding(req) \in SUBSET Requests /\ Outstanding(req') \in SUBSET Requests
      /\ MaxObservations \in Nat
  BY AcquisitionAssumption DEF Outstanding, In
<1>2. /\ Sum(Outstanding(req)) <= MaxObservations
      /\ Sum(Outstanding(req)) \in Nat /\ Sum(Outstanding(req')) \in Nat
  BY <1>1, SumTotals DEF ObservationsBudgeted, Sum
<1>3. CASE Outstanding(req') \subseteq Outstanding(req)
  <2>1. Sum(Outstanding(req')) <= Sum(Outstanding(req))
    BY <1>1, <1>3, SumMonotone
  <2>2. QED BY <1>1, <1>2, <2>1
<1>4. CASE \E d \in Held :
              /\ mode = "starting" /\ WithinLimits(plans[d].request)
              /\ Outstanding(req') \subseteq Outstanding(req) \cup {plans[d].request}
  <2>1. PICK d \in Held :
              /\ WithinLimits(plans[d].request)
              /\ Outstanding(req') \subseteq Outstanding(req) \cup {plans[d].request}
    BY <1>4
  <2> DEFINE r == plans[d].request
             with == Outstanding(req) \cup {r}
  <2>2. r \in Requests
    BY HeldPlans
  <2>3. CASE r \in Outstanding(req)
    BY <1>3, <2>1, <2>3
  <2>4. CASE r \notin Outstanding(req)
    <3>1. Sum(Outstanding(req)) + Limit[r] <= MaxObservations
      BY <2>1, <2>4 DEF WithinLimits, Sum
    <3>2. with \in SUBSET Requests /\ r \in with /\ with \ {r} = Outstanding(req)
      BY <1>1, <2>2, <2>4
    <3>3. Outstanding(req') \in SUBSET with
      BY <2>1
    <3> HIDE DEF with, r
    <3>4. Sum(with) = Limit[r] + Sum(Outstanding(req)) /\ Sum(with) \in Nat
      BY <3>2, SumWithout, SumTotals
    <3>5. Sum(Outstanding(req')) <= Sum(with)
      BY <3>2, <3>3, SumMonotone
    <3>6. Limit[r] \in Nat
      BY <2>2, AcquisitionAssumption
    <3>7. QED BY <1>1, <1>2, <3>1, <3>4, <3>5, <3>6
  <2>5. QED BY <2>3, <2>4
<1>5. QED BY <1>3, <1>4, ActorWork

(* The observations of all requests queued or in flight stay within the    *)
(* budget, for any limits, plans and histories.                            *)
THEOREM BudgetCorrect == AcqSpec => []ObservationsBudgeted
<1>1. AcqInit => ObservationsBudgeted
  <2> SUFFICES ASSUME AcqInit PROVE ObservationsBudgeted
    OBVIOUS
  <2>1. Outstanding(req) = {}
    BY DEF AcqInit, Init, Absent, Outstanding, In
  <2>2. Sum({}) = 0
    BY SumTotals
  <2>3. QED BY <2>1, <2>2, AcquisitionAssumption DEF ObservationsBudgeted, Sum
<1>2. ActorTypes /\ LaneInv /\ ObservationsBudgeted /\ [AcqNext]_acqVars
          => ObservationsBudgeted'
  BY BudgetKept DEF LaneInv, ObservationsBudgeted, Sum, Outstanding, In
<1>3. QED BY <1>1, <1>2, ActorAlways, PTL DEF AcqSpec
-----------------------------------------------------------------------------
(* The startup gate.                                                       *)
GateInv == StartupGate /\ (mode = "starting" => Ready)

LEMMA GateKept ==
    ASSUME ActorTypes, IInv, GateInv, [AcqNext]_acqVars
    PROVE  GateInv'
<1> USE DEF GateInv, StartupGate, Ready
<1>1. CASE ReleaseStartup
  BY <1>1 DEF ReleaseStartup, StartIfReady, vars, Outstanding, In
<1>2. CASE OnLastInstrument
  BY <1>2 DEF OnLastInstrument, StartIfReady, vars, Outstanding, In
<1>3. CASE \E d \in Dependencies, plan \in Plan : OnPlan(d, plan)
  BY <1>3 DEF OnPlan, StartIfReady, vars, Outstanding, In
<1>4. CASE \E d \in Dependencies : StartPlan(d)
  BY <1>4 DEF StartPlan
<1>5. CASE StartDone
  BY <1>5 DEF StartDone, vars, Outstanding, In, Held
<1>6. CASE OnStop \/ StopDone
  BY <1>6 DEF OnStop, StopDone, vars, Outstanding, In
<1>7. CASE \/ \E r \in Requests, count \in Counts : OnHistoricalBars(r, count)
           \/ AdvanceHistorical
           \/ PassTime
  <2>1. /\ mode = "idle" /\ UNCHANGED actor
        /\ UNCHANGED vars \/ Advance \/ Tick \/ In(req, "active") # {}
    BY <1>7 DEF OnHistoricalBars, AdvanceHistorical, PassTime
  <2>2. released' = released /\ missing' = missing /\ plans' = plans /\ mode' = mode
    BY <2>1 DEF actor
  <2>3. Held' = Held
    BY <2>2 DEF Held
  <2>4. CASE Ready
    BY <2>2, <2>3, <2>4
  <2>5. CASE ~Ready
    <3>1. attached = {} /\ Outstanding(req) = {}
      BY <2>5
    <3>2. UNCHANGED vars \/ Advance \/ Tick
      BY <2>1, <3>1 DEF Outstanding
    <3>3. attached' = attached
      BY <3>2 DEF vars, Advance, Tick
    <3>4. Outstanding(req') = {}
      BY <2>1, <3>1, ActorWork DEF Held
    <3>5. Outstanding(req)' = Outstanding(req')
      BY DEF Outstanding, In
    <3>6. QED BY <2>2, <2>5, <3>1, <3>3, <3>4, <3>5
  <2>6. QED BY <2>4, <2>5
<1>8. CASE CancelNext
  <2>1. /\ mode = "stopping" /\ mode' = mode /\ released' = released /\ missing' = missing
        /\ Head(condemned) \notin Outstanding(req) => UNCHANGED vars
    BY <1>8 DEF CancelNext
  <2>2. CASE Ready
    BY <2>1, <2>2
  <2>3. CASE ~Ready
    BY <2>1, <2>3 DEF vars, Outstanding, In
  <2>4. QED BY <2>2, <2>3
<1>9. CASE UNCHANGED acqVars
  BY <1>9 DEF acqVars, actor, vars, Outstanding, In, Held
<1>10. QED BY <1>1, <1>2, <1>3, <1>4, <1>5, <1>6, <1>7, <1>8, <1>9 DEF AcqNext

(* Nothing reaches the coordinator before persistence is ready and every   *)
(* instrument is known, and then no plan is left waiting: in any order of  *)
(* announcements, definitions and plans.                                   *)
THEOREM GateCorrect == AcqSpec => []StartupGate
<1>1. AcqInit => GateInv
  BY DEF AcqInit, Init, Absent, GateInv, StartupGate, Ready, Outstanding, In, Held
<1>2. ActorTypes /\ LaneInv /\ GateInv /\ [AcqNext]_acqVars => GateInv'
  BY GateKept DEF LaneInv
<1>3. GateInv => StartupGate
  BY DEF GateInv
<1>4. QED BY <1>1, <1>2, <1>3, ActorAlways, PTL DEF AcqSpec

-----------------------------------------------------------------------------
(* The shutdown loop.                                                      *)

(* A sorted sequence of identities holds each of them.                     *)
LEMMA SortedIdsHold ==
    ASSUME NEW ids \in SUBSET Requests
    PROVE  /\ SortedIds(ids) \in Seq(ids) /\ Len(SortedIds(ids)) = Cardinality(ids)
           /\ \A r \in ids : \E i \in 1..Cardinality(ids) : SortedIds(ids)[i] = r
<1> DEFINE n == Cardinality(ids)
           below(r) == {s \in ids : IdRank[s] < IdRank[r]}
           f == [r \in ids |-> Position(ids, r)]
<1>1. IsFiniteSet(ids) /\ n \in Nat
  BY RequestSets
<1>a. \A r \in ids : IdRank[r] \in Nat
  BY ExecutionAssumption
<1>2. ASSUME NEW r \in ids
      PROVE  /\ below(r) \in SUBSET Requests /\ r \notin below(r)
             /\ Cardinality(below(r)) \in Nat
             /\ Position(ids, r) = 1 + Cardinality(below(r))
             /\ Position(ids, r) \in 1..n
  <2>1. below(r) \in SUBSET (ids \ {r}) /\ ids \ {r} \in SUBSET Requests
    BY <1>a
  <2>2. Cardinality(ids \ {r}) = n - 1 /\ IsFiniteSet(ids \ {r})
    BY RequestSets
  <2>3. Position(ids, r) = 1 + Cardinality(below(r))
    BY DEF Position
  <2> HIDE DEF below, n
  <2>4. Cardinality(below(r)) <= n - 1 /\ Cardinality(below(r)) \in Nat
    BY <2>1, <2>2, FS_Subset, RequestSets
  <2>5. QED BY <1>1, <2>1, <2>3, <2>4
<1>3. ASSUME NEW r \in ids, NEW s \in ids, IdRank[r] < IdRank[s]
      PROVE  Position(ids, r) < Position(ids, s)
  <2>1. r \in below(s) /\ \A q \in below(r) : q \in below(s) /\ q # r
    BY <1>a, <1>3
  <2>2. below(r) \in SUBSET (below(s) \ {r})
    BY <2>1
  <2> HIDE DEF below, n
  <2>3. /\ Cardinality(below(s) \ {r}) = Cardinality(below(s)) - 1
        /\ IsFiniteSet(below(s) \ {r})
    BY <1>2, <2>1, RequestSets
  <2>4. Cardinality(below(r)) <= Cardinality(below(s)) - 1
    BY <2>2, <2>3, FS_Subset
  <2>5. QED BY <1>2, <2>4
<1>4. ASSUME NEW r \in ids, NEW s \in ids, Position(ids, r) = Position(ids, s)
      PROVE  r = s
  <2> HIDE DEF below, n
  <2>1. Position(ids, r) \in Nat /\ Position(ids, s) \in Nat
    BY <1>1, <1>2
  <2>2. ~(IdRank[r] < IdRank[s]) /\ ~(IdRank[s] < IdRank[r])
    BY <1>3, <1>4, <2>1
  <2>3. IdRank[r] = IdRank[s]
    BY <1>a, <2>2
  <2>4. QED BY <2>3, ExecutionAssumption
<1>5. f \in Injection(ids, 1..n)
  <2>1. \A r \in ids : Position(ids, r) \in 1..n
    BY <1>2
  <2>2. f \in [ids -> 1..n]
    BY <2>1
  <2>3. \A r, s \in DOMAIN f : f[r] = f[s] => r = s
    BY <1>4
  <2>4. QED BY <2>2, <2>3 DEF Injection, IsInjective
<1>6. IsFiniteSet(1..n) /\ Cardinality(1..n) = n
  BY <1>1, FS_Interval
<1>7. f \in Surjection(ids, 1..n)
  <2> HIDE DEF f
  <2>1. QED BY <1>1, <1>5, <1>6, FS_Injection
<1>8. ASSUME NEW i \in 1..n
      PROVE  /\ SortedIds(ids)[i] \in ids
             /\ \A r \in ids : Position(ids, r) = i => SortedIds(ids)[i] = r
  <2>1. \E r \in ids : Position(ids, r) = i
    BY <1>7 DEF Surjection
  <2>2. SortedIds(ids)[i] = CHOOSE r \in ids : Position(ids, r) = i
    BY DEF SortedIds
  <2>3. SortedIds(ids)[i] \in ids /\ Position(ids, SortedIds(ids)[i]) = i
    BY <2>1, <2>2
  <2>4. QED BY <1>4, <2>3
<1>9. SortedIds(ids) \in [1..n -> ids]
  BY <1>8 DEF SortedIds
<1>10. SortedIds(ids) \in Seq(ids) /\ Len(SortedIds(ids)) = n
  BY <1>1, <1>9
<1>11. \A r \in ids : Position(ids, r) \in 1..n
  BY <1>2
<1>12. QED BY <1>8, <1>10, <1>11

Listed(seq, r) == \E i \in 1..Len(seq) : seq[i] = r

LEMMA CondemnedHold ==
    /\ Condemned \in Seq(Requests)
    /\ \A r \in Outstanding(req) : Listed(Condemned, r)
<1> DEFINE p == SortedIds(In(req, "pending"))
           a == SortedIds(In(req, "active"))
<1>1. In(req, "pending") \in SUBSET Requests /\ In(req, "active") \in SUBSET Requests
  BY DEF In
<1>2. p \in Seq(Requests) /\ \A r \in In(req, "pending") : Listed(p, r)
  BY <1>1, SortedIdsHold DEF Listed
<1>3. a \in Seq(Requests) /\ \A r \in In(req, "active") : Listed(a, r)
  BY <1>1, SortedIdsHold DEF Listed
<1>4. Condemned = p \o a
  BY DEF Condemned
<1> HIDE DEF p, a
<1>5. Condemned \in Seq(Requests) /\ Len(Condemned) = Len(p) + Len(a)
  BY <1>2, <1>3, <1>4
<1>6. ASSUME NEW r \in In(req, "pending") PROVE Listed(Condemned, r)
  <2>1. PICK i \in 1..Len(p) : p[i] = r
    BY <1>2, <1>6 DEF Listed
  <2>2. i \in 1..Len(Condemned) /\ Condemned[i] = p[i]
    BY <1>2, <1>3, <1>4, <1>5
  <2>3. QED BY <2>1, <2>2 DEF Listed
<1>7. ASSUME NEW r \in In(req, "active") PROVE Listed(Condemned, r)
  <2>1. PICK i \in 1..Len(a) : a[i] = r
    BY <1>3, <1>7 DEF Listed
  <2>2. Len(p) + i \in 1..Len(Condemned) /\ Condemned[Len(p) + i] = a[i]
    BY <1>2, <1>3, <1>4, <1>5
  <2>3. QED BY <2>1, <2>2 DEF Listed
<1>8. QED BY <1>5, <1>6, <1>7 DEF Outstanding

(* What is still queued or in flight is still to be cancelled.             *)
StopInv ==
    /\ condemned \in Seq(Requests)
    /\ mode = "stopping" => \A r \in Outstanding(req) : Listed(condemned, r)
    /\ StoppedLeavesNothing

LEMMA StopKept ==
    ASSUME ActorTypes, IInv, StopInv, [AcqNext]_acqVars
    PROVE  StopInv'
<1>1. CASE ReleaseStartup \/ OnLastInstrument \/ StartDone
  BY <1>1 DEF ReleaseStartup, OnLastInstrument, StartDone, StartIfReady,
     StopInv, StoppedLeavesNothing
<1>2. CASE \E d \in Dependencies, plan \in Plan : OnPlan(d, plan)
  BY <1>2 DEF OnPlan, StartIfReady, StopInv, StoppedLeavesNothing
<1>3. CASE \E d \in Dependencies : StartPlan(d)
  BY <1>3 DEF StartPlan, StopInv, StoppedLeavesNothing
<1>4. CASE \/ \E r \in Requests, count \in Counts : OnHistoricalBars(r, count)
           \/ AdvanceHistorical
           \/ PassTime
  BY <1>4 DEF OnHistoricalBars, AdvanceHistorical, PassTime, actor,
     StopInv, StoppedLeavesNothing
<1>5. CASE OnStop
  <2>1. mode' = "stopping" /\ condemned' = Condemned /\ req' = req
    BY <1>5 DEF OnStop, vars
  <2>2. Outstanding(req)' = Outstanding(req)
    BY <2>1 DEF Outstanding, In
  <2>3. QED BY <2>1, <2>2, CondemnedHold DEF StopInv, StoppedLeavesNothing, Listed
<1>6. CASE CancelNext
  <2> DEFINE h == Head(condemned)
  <2>1. /\ condemned \in Seq(Requests) /\ condemned # <<>>
        /\ condemned' = Tail(condemned) /\ mode = "stopping" /\ mode' = "stopping"
    BY <1>6 DEF CancelNext, StopInv
  <2>2. condemned' \in Seq(Requests)
    BY <2>1
  <2>3. Outstanding(req') \subseteq Outstanding(req) \ {h}
    <3>1. CASE h \in Outstanding(req)
      <4>1. Cancel(h) /\ h \in Requests
        BY <1>6, <3>1 DEF CancelNext, Outstanding, In
      <4>2. /\ req \in [Requests -> Entry] /\ "CANCELED" \in Endings
            /\ Dispatch([req EXCEPT ![h] = Finished("CANCELED")])
        BY <4>1 DEF Cancel, IInv, Consistent, Endings
      <4> DEFINE table == [req EXCEPT ![h] = Finished("CANCELED")]
      <4>3. table \in [Requests -> Entry] /\ table[h].place = "terminal"
        BY <4>1, <4>2, EntryTypes DEF Finished
      <4> HIDE DEF table
      <4>4. req'[h].place = "terminal"
        BY <4>1, <4>2, <4>3, DispatchPlaces DEF table
      <4>5. Outstanding(req') \subseteq Outstanding(req)
        BY <4>1, WorkShrinks
      <4>6. QED BY <4>4, <4>5 DEF Outstanding, In
    <3>2. CASE h \notin Outstanding(req)
      BY <1>6, <3>2 DEF CancelNext, vars, Outstanding, In
    <3>3. QED BY <3>1, <3>2
  <2>4. ASSUME NEW r \in Outstanding(req') PROVE Listed(condemned', r)
    <3>1. r \in Outstanding(req) /\ r # h
      BY <2>3, <2>4
    <3>2. PICK i \in 1..Len(condemned) : condemned[i] = r
      BY <2>1, <3>1 DEF StopInv, Listed
    <3>3. i # 1
      BY <2>1, <3>1, <3>2
    <3>4. /\ i - 1 \in 1..Len(condemned') /\ condemned'[i - 1] = condemned[i]
      BY <2>1, <3>2, <3>3
    <3>5. QED BY <3>2, <3>4 DEF Listed
  <2>5. Outstanding(req)' = Outstanding(req')
    BY DEF Outstanding, In
  <2>6. QED BY <2>1, <2>2, <2>4, <2>5 DEF StopInv, StoppedLeavesNothing, Listed
<1>7. CASE StopDone
  <2>1. mode = "stopping" /\ condemned = <<>> /\ mode' = "stopped"
        /\ condemned' = condemned /\ req' = req
    BY <1>7 DEF StopDone, vars
  <2>2. Outstanding(req)' = Outstanding(req)
    BY <2>1 DEF Outstanding, In
  <2>3. Outstanding(req) = {}
    BY <2>1 DEF StopInv, Listed
  <2>4. QED BY <2>1, <2>2, <2>3 DEF StopInv, StoppedLeavesNothing
<1>8. CASE UNCHANGED acqVars
  BY <1>8 DEF acqVars, actor, vars, StopInv, StoppedLeavesNothing, Outstanding, In, Listed
<1>9. QED BY <1>1, <1>2, <1>3, <1>4, <1>5, <1>6, <1>7, <1>8 DEF AcqNext

LEMMA StopAlways == AcqSpec => []StopInv
<1>1. AcqInit => StopInv
  BY DEF AcqInit, StopInv, StoppedLeavesNothing
<1>2. ActorTypes /\ LaneInv /\ StopInv /\ [AcqNext]_acqVars => StopInv'
  BY StopKept DEF LaneInv
<1>3. QED BY <1>1, <1>2, ActorAlways, PTL DEF AcqSpec

(* Although its cancellations may submit other requests, the shutdown loop *)
(* leaves none: it walks every identity that was there when it began, and  *)
(* a cancellation makes no new one.                                        *)
THEOREM StopCorrect == AcqSpec => []StoppedLeavesNothing
<1>1. StopInv => StoppedLeavesNothing
  BY DEF StopInv
<1>2. QED BY <1>1, StopAlways, PTL
-----------------------------------------------------------------------------
(* The answers on their way.  An entry shows how often its request has     *)
(* been submitted at most; what has ended, or been refused, may have been  *)
(* submitted less often.                                                   *)
Submissions(e) ==
    CASE e.place = "absent"  -> 0
      [] e.place = "pending" -> e.attempt - 1
      [] e.place = "active"  -> e.attempt
      [] OTHER -> MaxAttempts

(* One more when the request goes into flight, and never less.             *)
Counted(e, f) ==
    Submissions(e) + (IF e.place # "active" /\ f.place = "active" THEN 1 ELSE 0)
        <= Submissions(f)

LEMMA SubmissionsBounded ==
    ASSUME NEW e \in Entry PROVE Submissions(e) \in Int /\ Submissions(e) <= MaxAttempts
<1>1. e.attempt \in 0..MaxAttempts /\ MaxAttempts \in Nat
  BY ExecutionAssumption DEF Entry
<1>2. QED BY <1>1 DEF Submissions

LEMMA EntryCounts ==
    ASSUME NEW e \in Entry
    PROVE  /\ Counted(e, e)
           /\ Counted(e, Elapsed(e))
           /\ \A ending \in Endings : Counted(e, Finished(ending))
           /\ e.place \in {"pending", "active"} =>
                  \A ending \in Endings : Counted(e, RetriedOrFinished(e, ending))
           /\ e.place = "pending" => Counted(e, Submitted(e))
<1>1. /\ e.attempt \in 0..MaxAttempts /\ MaxAttempts \in Nat
      /\ Submissions(e) \in Int /\ Submissions(e) <= MaxAttempts
  BY SubmissionsBounded, ExecutionAssumption DEF Entry
<1>2. Counted(e, e)
  BY <1>1 DEF Counted
<1>3. Elapsed(e).place = e.place /\ Elapsed(e).attempt = e.attempt
  BY DEF Elapsed, Entry
<1>4. Counted(e, Elapsed(e))
  BY <1>1, <1>3 DEF Counted, Submissions
<1>5. ASSUME NEW ending \in Endings PROVE Counted(e, Finished(ending))
  <2>1. Submissions(Finished(ending)) = MaxAttempts /\ Finished(ending).place # "active"
    BY DEF Submissions, Finished
  <2>2. QED BY <1>1, <2>1 DEF Counted
<1>6. ASSUME NEW ending \in Endings, e.place \in {"pending", "active"}
      PROVE  Counted(e, RetriedOrFinished(e, ending))
  <2>1. CASE e.attempt >= MaxAttempts
    BY <1>5, <2>1 DEF RetriedOrFinished
  <2>2. CASE ~(e.attempt >= MaxAttempts)
    <3> DEFINE f == RetriedOrFinished(e, ending)
    <3>1. f.place = "pending" /\ f.attempt = e.attempt + 1
      BY <2>2 DEF RetriedOrFinished, Entry
    <3> HIDE DEF f
    <3>2. Submissions(f) = e.attempt /\ Submissions(e) <= e.attempt
      BY <1>1, <1>6, <3>1 DEF Submissions
    <3>3. Counted(e, f)
      BY <1>1, <3>1, <3>2 DEF Counted
    <3>4. QED BY <3>3 DEF f
  <2>3. QED BY <2>1, <2>2
<1>7. ASSUME e.place = "pending" PROVE Counted(e, Submitted(e))
  <2>1. Submitted(e).place = "active" /\ Submitted(e).attempt = e.attempt
    BY DEF Submitted, Entry
  <2>2. QED BY <1>1, <1>7, <2>1 DEF Counted, Submissions
<1>8. QED BY <1>2, <1>4, <1>5, <1>6, <1>7

(* An operation counts every request it puts in flight, when what it       *)
(* rewrites before it dispatches puts none there.                          *)
LEMMA RewriteCounts ==
    ASSUME req \in [Requests -> Entry], NEW table \in [Requests -> Entry], Dispatch(table),
           \A r \in Requests : /\ Counted(req[r], table[r])
                               /\ table[r].place = "active" => req[r].place = "active"
    PROVE  \A r \in Requests : Counted(req[r], req'[r])
<1> SUFFICES ASSUME NEW r \in Requests PROVE Counted(req[r], req'[r])
  OBVIOUS
<1>1. /\ table[r] \in Entry /\ req[r] \in Entry /\ req'[r] \in Entry /\ "REFUSED" \in Endings
      /\ Counted(req[r], table[r]) /\ (table[r].place = "active" => req[r].place = "active")
  BY DispatchEffect DEF Endings
<1>2. \/ req'[r] = table[r]
      \/ Counted(table[r], req'[r]) /\ table[r].place = "pending"
  BY <1>1, DispatchEffect, EntryCounts
<1>3. CASE req'[r] = table[r]
  BY <1>1, <1>3
<1>4. CASE Counted(table[r], req'[r]) /\ table[r].place = "pending"
  <2>1. /\ Submissions(req[r]) \in Int /\ Submissions(table[r]) \in Int
        /\ Submissions(req'[r]) \in Int
    BY <1>1, SubmissionsBounded
  <2>2. Submissions(req[r]) <= Submissions(table[r])
    BY <1>1, <1>4, <2>1 DEF Counted
  <2>3. Submissions(table[r]) + (IF req'[r].place = "active" THEN 1 ELSE 0)
            <= Submissions(req'[r])
    BY <1>4 DEF Counted
  <2>4. QED BY <2>1, <2>2, <2>3 DEF Counted
<1>5. QED BY <1>2, <1>3, <1>4

(* Of an operation that rewrites one entry.                                *)
LEMMA OneRewritten ==
    ASSUME req \in [Requests -> Entry], NEW r \in Requests, NEW e \in Entry,
           Counted(req[r], e), e.place = "active" => req[r].place = "active",
           Dispatch([req EXCEPT ![r] = e])
    PROVE  \A s \in Requests : Counted(req[s], req'[s])
<1> DEFINE table == [req EXCEPT ![r] = e]
<1>1. /\ table \in [Requests -> Entry] /\ table[r] = e /\ Dispatch(table)
      /\ \A s \in Requests : s # r => table[s] = req[s]
  OBVIOUS
<1> HIDE DEF table
<1>2. ASSUME NEW s \in Requests
      PROVE  /\ Counted(req[s], table[s])
             /\ table[s].place = "active" => req[s].place = "active"
  BY <1>1, EntryCounts
<1>3. QED BY <1>1, <1>2, RewriteCounts

(* Every operation counts what it submits.                                 *)
LEMMA StepCounts ==
    ASSUME IInv, [Next]_vars PROVE \A r \in Requests : Counted(req[r], req'[r])
<1>1. /\ req \in [Requests -> Entry]
      /\ \A ending \in {"COMPLETED", "CANCELED", "FAILED", "EXPIRED"} : ending \in Endings
  BY DEF IInv, Consistent, Endings
<1>2. ASSUME NEW r \in Requests, NEW d \in Dependencies, NEW priority \in Priorities,
             Enqueue(r, {d}, priority)
      PROVE  \A s \in Requests : Counted(req[s], req'[s])
  <2>1. req[r] \in Entry /\ Submissions(req[r]) \in Int
    BY <1>1, SubmissionsBounded
  <2>2. CASE Dispatch([req EXCEPT ![r] = Merged(@, {d}, priority)])
    <3> DEFINE e == Merged(req[r], {d}, priority)
    <3>1. e \in Entry /\ e.place = req[r].place /\ e.attempt = req[r].attempt
      BY <2>1, EntryTypes DEF Merged, Entry
    <3>2. Dispatch([req EXCEPT ![r] = e])
      BY <2>2
    <3> HIDE DEF e
    <3>3. Submissions(e) = Submissions(req[r])
      BY <3>1 DEF Submissions
    <3>4. Counted(req[r], e)
      BY <2>1, <3>1, <3>3 DEF Counted
    <3>5. QED BY <1>1, <3>1, <3>2, <3>4, OneRewritten
  <2>3. CASE req[r].place = "absent" /\ Dispatch([req EXCEPT ![r] = Fresh({d}, priority)])
    <3> DEFINE e == Fresh({d}, priority)
    <3>1. e \in Entry /\ e.place = "pending" /\ e.attempt = 1
      BY EntryTypes DEF Fresh
    <3>2. Dispatch([req EXCEPT ![r] = e])
      BY <2>3
    <3> HIDE DEF e
    <3>3. Submissions(e) = 0 /\ Submissions(req[r]) = 0
      BY <2>3, <3>1 DEF Submissions
    <3>4. Counted(req[r], e)
      BY <3>1, <3>3 DEF Counted
    <3>5. QED BY <1>1, <3>1, <3>2, <3>4, OneRewritten
  <2>4. QED BY <1>2, <2>2, <2>3 DEF Enqueue
<1>3. ASSUME NEW r \in Requests, NEW ending \in Endings, r \in Outstanding(req),
             Dispatch([req EXCEPT ![r] = Finished(ending)])
      PROVE  \A s \in Requests : Counted(req[s], req'[s])
  <2>1. Finished(ending) \in Entry /\ Finished(ending).place # "active"
    BY EntryTypes DEF Finished
  <2>2. QED BY <1>1, <1>3, <2>1, EntryCounts, OneRewritten
<1>4. ASSUME NEW r \in Requests, r \in Outstanding(req),
             Dispatch([req EXCEPT ![r] = RetriedOrFinished(@, "FAILED")])
      PROVE  \A s \in Requests : Counted(req[s], req'[s])
  <2> DEFINE e == RetriedOrFinished(req[r], "FAILED")
  <2>1. req[r] \in Entry /\ req[r].place \in {"pending", "active"}
    BY <1>1, <1>4 DEF Outstanding, In
  <2>2. e \in Entry /\ e.place # "active"
    BY <1>1, <2>1, EntryTypes DEF RetriedOrFinished, Finished, Entry
  <2>3. Counted(req[r], e) /\ Dispatch([req EXCEPT ![r] = e])
    BY <1>1, <1>4, <2>1, EntryCounts
  <2> HIDE DEF e
  <2>4. QED BY <1>1, <2>2, <2>3, OneRewritten
<1>5. CASE Advance
  <2> DEFINE table == [r \in Requests |-> IF r \in Expired
                                          THEN RetriedOrFinished(req[r], "EXPIRED")
                                          ELSE req[r]]
  <2>1. ASSUME NEW r \in Requests
        PROVE  /\ table[r] \in Entry
               /\ Counted(req[r], table[r])
               /\ table[r].place = "active" => req[r].place = "active"
    <3>1. req[r] \in Entry /\ (r \in Expired => req[r].place = "active")
      BY <1>1 DEF Expired, In
    <3>2. CASE r \in Expired
      BY <1>1, <3>1, <3>2, EntryTypes, EntryCounts
    <3>3. CASE r \notin Expired
      BY <3>1, <3>3, EntryCounts
    <3>4. QED BY <3>2, <3>3
  <2>2. table \in [Requests -> Entry] /\ Dispatch(table)
    BY <1>5, <2>1 DEF Advance
  <2> HIDE DEF table
  <2>3. QED BY <1>1, <2>1, <2>2, RewriteCounts
<1>6. CASE Tick
  <2>1. \A r \in Requests : req'[r] = Elapsed(req[r]) /\ req[r] \in Entry
    BY <1>1, <1>6 DEF Tick
  <2>2. QED BY <2>1, EntryCounts
<1>7. CASE UNCHANGED vars
  BY <1>1, <1>7, EntryCounts DEF vars
<1>8. CASE \E r \in Requests, count \in Counts : Complete(r, count)
  BY <1>1, <1>3, <1>8 DEF Complete, Outstanding
<1>9. CASE \E r \in Requests, retryable \in BOOLEAN : Fail(r, retryable)
  <2>1. PICK r \in Requests, retryable \in BOOLEAN : Fail(r, retryable)
    BY <1>9
  <2>2. CASE retryable
    BY <1>1, <1>4, <2>1, <2>2 DEF Fail, Outstanding
  <2>3. CASE ~retryable
    BY <1>1, <1>3, <2>1, <2>3 DEF Fail, Outstanding
  <2>4. QED BY <2>2, <2>3
<1>10. CASE \E r \in Requests : Cancel(r)
  BY <1>1, <1>3, <1>10 DEF Cancel
<1>11. CASE \E r \in Requests, d \in Dependencies, priority \in Priorities :
              Enqueue(r, {d}, priority)
  BY <1>2, <1>11
<1>12. QED BY <1>5, <1>6, <1>7, <1>8, <1>9, <1>10, <1>11 DEF Next

(* No more answers are on their way than the request was submitted, and    *)
(* an answer is attributed to a request that exists.                       *)
AnswerInv ==
    /\ wire \in [Requests -> Nat]
    /\ \A r \in Requests : wire[r] <= Submissions(req[r])
    /\ answeredBy \in [Requests -> SUBSET Requests]

(* A step that puts requests in flight lets each of them be answered.      *)
LEMMA SendKeeps ==
    ASSUME IInv, IInv', AnswerInv, [Next]_vars, UNCHANGED answeredBy, Send \/ UNCHANGED <<vars, wire>>
    PROVE  AnswerInv'
<1>1. CASE UNCHANGED <<vars, wire>>
  BY <1>1 DEF AnswerInv, vars, Submissions
<1>2. CASE Send
  <2>1. ASSUME NEW r \in Requests
        PROVE  wire'[r] \in Nat /\ wire'[r] <= Submissions(req'[r])
    <3>1. /\ wire[r] \in Nat /\ wire[r] <= Submissions(req[r])
          /\ Submissions(req[r]) \in Int /\ Submissions(req'[r]) \in Int
      BY SubmissionsBounded DEF AnswerInv, IInv, Consistent
    <3>2. wire'[r] = wire[r] + IF PutInFlight(r) THEN 1 ELSE 0
      BY <1>2 DEF Send, SubmittedByStep
    <3>3. Submissions(req[r]) + (IF PutInFlight(r) THEN 1 ELSE 0) <= Submissions(req'[r])
      BY StepCounts DEF Counted, PutInFlight
    <3>4. QED BY <3>1, <3>2, <3>3
  <2>2. wire' \in [Requests -> Nat]
    BY <1>2, <2>1 DEF Send
  <2>3. QED BY <2>1, <2>2 DEF AnswerInv, Submissions
<1>3. QED BY <1>1, <1>2

LEMMA AnswersKept ==
    ASSUME ActorTypes, IInv, IInv', AnswerInv, [AcqNext]_acqVars
    PROVE  AnswerInv'
<1>1. [Next]_vars
  BY ActorUses
<1>2. CASE \E r \in Requests, count \in Counts : OnHistoricalBars(r, count)
  <2>1. PICK r \in Requests, count \in Counts : OnHistoricalBars(r, count)
    BY <1>2
  <2>2. ASSUME NEW s \in Requests
        PROVE  /\ wire[s] \in Nat /\ wire[s] <= Submissions(req[s])
               /\ Submissions(req[s]) \in Int /\ Submissions(req'[s]) \in Int
               /\ Submissions(req[s]) + (IF PutInFlight(s) THEN 1 ELSE 0) <= Submissions(req'[s])
    BY <1>1, StepCounts, SubmissionsBounded DEF AnswerInv, IInv, Consistent, Counted, PutInFlight
  <2>3. wire[r] > 0
    BY <2>1 DEF OnHistoricalBars
  <2>4. CASE In(req, "active") = {}
    <3>1. wire' = [wire EXCEPT ![r] = @ - 1] /\ UNCHANGED <<vars, answeredBy>>
      BY <2>1, <2>4 DEF OnHistoricalBars
    <3>2. ASSUME NEW s \in Requests
          PROVE  wire'[s] \in Nat /\ wire'[s] <= Submissions(req'[s])
      <4>1. req' = req /\ wire'[s] = IF s = r THEN wire[s] - 1 ELSE wire[s]
        BY <3>1 DEF vars, AnswerInv
      <4>2. QED BY <2>2, <2>3, <4>1
    <3>3. QED BY <3>1, <3>2 DEF AnswerInv, Submissions
  <2>5. CASE In(req, "active") # {}
    <3>1. /\ answeredBy' = [answeredBy EXCEPT ![FirstActive] = @ \cup {r}]
          /\ wire' = [s \in Requests |-> wire[s] + (IF s \in SubmittedByStep THEN 1 ELSE 0)
                                                - (IF s = r THEN 1 ELSE 0)]
      BY <2>1, <2>5 DEF OnHistoricalBars
    <3>2. answeredBy' \in [Requests -> SUBSET Requests]
      BY <3>1 DEF AnswerInv
    <3>3. ASSUME NEW s \in Requests
          PROVE  wire'[s] \in Nat /\ wire'[s] <= Submissions(req'[s])
      <4>1. wire'[s] = wire[s] + (IF PutInFlight(s) THEN 1 ELSE 0)
                               - (IF s = r THEN 1 ELSE 0)
        BY <3>1 DEF SubmittedByStep
      <4>2. QED BY <2>2, <2>3, <4>1
    <3>4. wire' \in [Requests -> Nat]
      BY <3>1, <3>3
    <3>5. QED BY <3>2, <3>3, <3>4 DEF AnswerInv, Submissions
  <2>6. QED BY <2>4, <2>5
<1>3. CASE ~ \E r \in Requests, count \in Counts : OnHistoricalBars(r, count)
  <2>1. UNCHANGED answeredBy /\ (Send \/ UNCHANGED <<vars, wire>>)
    <3>1. CASE ReleaseStartup \/ OnLastInstrument \/ StartDone \/ OnStop \/ StopDone
      BY <3>1 DEF ReleaseStartup, OnLastInstrument, StartDone, OnStop, StopDone, provider
    <3>2. CASE \E d \in Dependencies, plan \in Plan : OnPlan(d, plan)
      BY <3>2 DEF OnPlan, provider
    <3>3. CASE \E d \in Dependencies : StartPlan(d)
      BY <3>3 DEF StartPlan
    <3>4. CASE AdvanceHistorical \/ CancelNext
      BY <3>4 DEF AdvanceHistorical, CancelNext
    <3>5. CASE PassTime
      <4>1. Tick /\ wire' = wire /\ answeredBy' = answeredBy
        BY <3>5 DEF PassTime, provider
      <4>2. SubmittedByStep = {}
        BY <4>1, TickPlaces DEF SubmittedByStep, PutInFlight
      <4>3. \A r \in Requests : wire[r] \in Nat
        BY DEF AnswerInv
      <4>4. Send
        BY <4>1, <4>2, <4>3 DEF Send, AnswerInv
      <4>5. QED BY <4>1, <4>4
    <3>6. CASE UNCHANGED acqVars
      BY <3>6 DEF acqVars, provider
    <3>7. QED BY <1>3, <3>1, <3>2, <3>3, <3>4, <3>5, <3>6 DEF AcqNext
  <2>2. QED BY <1>1, <2>1, SendKeeps
<1>4. QED BY <1>2, <1>3

LEMMA AnswersAlways == AcqSpec => []AnswerInv
<1>1. AcqInit => AnswerInv
  <2> SUFFICES ASSUME AcqInit PROVE AnswerInv
    OBVIOUS
  <2>1. ASSUME NEW r \in Requests PROVE Submissions(req[r]) = 0
    BY DEF AcqInit, Init, Absent, Submissions
  <2>2. QED BY <2>1 DEF AcqInit, AnswerInv
<1>2. ActorTypes /\ LaneInv /\ LaneInv' /\ AnswerInv /\ [AcqNext]_acqVars => AnswerInv'
  <2> SUFFICES ASSUME ActorTypes, LaneInv, LaneInv', AnswerInv, [AcqNext]_acqVars
               PROVE  AnswerInv'
    OBVIOUS
  <2>1. IInv /\ IInv'
    BY DEF LaneInv
  <2>2. QED BY <2>1, AnswersKept
<1>3. QED BY <1>1, <1>2, ActorAlways, PTL DEF AcqSpec

(* The types of the actor, whose bound says that no more answers to a      *)
(* request can ever be on their way than the policy allows it attempts.    *)
THEOREM AcqTypeCorrect == AcqSpec => []AcqTypeOK
<1>1. ActorTypes /\ LaneInv /\ StopInv /\ AnswerInv => AcqTypeOK
  <2> SUFFICES ASSUME ActorTypes, LaneInv, StopInv, AnswerInv PROVE AcqTypeOK
    OBVIOUS
  <2>1. TypeOK
    BY DEF LaneInv, IInv, Consistent, TypeOK, Readiness
  <2>2. ASSUME NEW r \in Requests PROVE wire[r] \in 0..MaxAttempts
    <3>1. /\ wire[r] \in Nat /\ wire[r] <= Submissions(req[r])
          /\ Submissions(req[r]) \in Int /\ Submissions(req[r]) <= MaxAttempts
          /\ MaxAttempts \in Nat
      BY <2>1, SubmissionsBounded, ExecutionAssumption DEF AnswerInv, TypeOK
    <3>2. QED BY <3>1
  <2>3. wire \in [Requests -> 0..MaxAttempts]
    BY <2>2 DEF AnswerInv
  <2>4. QED BY <2>1, <2>3 DEF AcqTypeOK, ActorTypes, StopInv, AnswerInv
<1>2. QED BY <1>1, ActorAlways, StopAlways, AnswersAlways, PTL

(* With one provider lane, whatever the order of answers, timeouts and     *)
(* cancellations, only a late answer settles a request other than its own: *)
(* an answer on time finds its own request in the lane.                    *)
THEOREM AttributionOnOneLane ==
    ASSUME MaxInFlight = 1 PROVE AcqSpec => WrongAnswerOnlyWhenLate
<1> DEFINE Attributed == \A r, a \in Requests :
                            r # a /\ r \in answeredBy'[a] \ answeredBy[a] => Late(r)
<1>1. ActorTypes /\ LaneInv /\ AnswerInv /\ [AcqNext]_acqVars => [Attributed]_acqVars
  <2> SUFFICES ASSUME ActorTypes, LaneInv, AnswerInv, AcqNext,
                      NEW r \in Requests, NEW a \in Requests,
                      r # a, r \in answeredBy'[a] \ answeredBy[a]
               PROVE  Late(r)
    OBVIOUS
  <2>1. answeredBy' # answeredBy
    OBVIOUS
  <2>2. PICK s \in Requests, count \in Counts : OnHistoricalBars(s, count)
    BY <2>1 DEF AcqNext, ReleaseStartup, OnLastInstrument, OnPlan, StartPlan, StartDone,
       AdvanceHistorical, PassTime, OnStop, CancelNext, StopDone, provider
  <2>3. In(req, "active") # {}
    BY <2>1, <2>2 DEF OnHistoricalBars
  <2>4. answeredBy' = [answeredBy EXCEPT ![FirstActive] = @ \cup {s}] /\ wire[s] > 0
    BY <2>2, <2>3 DEF OnHistoricalBars
  <2>5. a = FirstActive /\ r = s
    BY <2>4 DEF AnswerInv
  <2>6. PICK b : In(req, "active") = {b}
    <3>1. In(req, "active") \subseteq Requests
      BY DEF In
    <3>2. IsFiniteSet(In(req, "active")) /\ Cardinality(In(req, "active")) \in Nat
      BY <3>1, FS_Subset, FS_CardinalityType, ExecutionAssumption
    <3>3. Cardinality(In(req, "active")) <= 1
      BY DEF LaneInv, Lanes
    <3>4. Cardinality(In(req, "active")) # 0
      BY <2>3, <3>2, FS_EmptySet
    <3>5. Cardinality(In(req, "active")) = 1
      BY <3>2, <3>3, <3>4
    <3>6. QED BY <3>2, <3>5, FS_Singleton
  <2>7. FirstActive = b
    <3>1. b \in Requests /\ IdRank[b] <= IdRank[b]
      BY <2>6, ExecutionAssumption DEF In
    <3>2. QED BY <2>6, <3>1 DEF FirstActive
  <2>8. r \notin In(req, "active")
    BY <2>5, <2>6, <2>7
  <2>9. QED BY <2>4, <2>5, <2>8 DEF Late
<1>2. QED BY <1>1, ActorAlways, AnswersAlways, PTL DEF AcqSpec, WrongAnswerOnlyWhenLate
=============================================================================
