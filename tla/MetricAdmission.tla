--------------------------- MODULE MetricAdmission ---------------------------
(* _MetricValueAdmissionBook: the current value of each metric subject of a *)
(* run, admitted as an unbroken chain of revisions.  A value is a record    *)
(* [key, revision, content]: its subject and run, its number and all else.  *)
(* The constructor of MetricValue makes the previous revision the number    *)
(* before, and none for the first, so that only the number is kept.         *)
EXTENDS Integers, FiniteSets, Sequences, Functions

CONSTANTS
    Keys, Contents,
    MaximumSubjects,
    MaximumRevision,   \* bound: of the offered values
    MaximumOffers      \* bound: values offered

ASSUME AdmissionAssumption ==
    /\ MaximumSubjects \in Nat \ {0} /\ MaximumRevision \in Nat /\ MaximumOffers \in Nat

MetricValues == [key : Keys, revision : 1..MaximumRevision, content : Contents]

VARIABLES
    current,    \* the last admitted value of a key
    counters,   \* values by disposition
    \* History.
    chain       \* the values admitted for each key, in order

admissionVars == <<current, counters, chain>>

------------------------------------------------------------------------------
Offers == counters.accepted + counters.duplicates + counters.conflicts
          + counters.stale + counters.gaps + counters.capacity

AdmissionInit ==
    /\ current = <<>>
    /\ counters = [accepted |-> 0, duplicates |-> 0, conflicts |-> 0,
                   stale |-> 0, gaps |-> 0, capacity |-> 0]
    /\ chain = [k \in Keys |-> <<>>]

Accept(v) ==
    /\ current' = [k \in DOMAIN current \cup {v.key} |->
                      IF k = v.key THEN v ELSE current[k]]
    /\ counters' = [counters EXCEPT !.accepted = @ + 1]
    /\ chain' = [chain EXCEPT ![v.key] = Append(@, v)]

Decline(disposition) ==
    /\ counters' = [counters EXCEPT ![disposition] = @ + 1]
    /\ UNCHANGED <<current, chain>>

OfferFirst(v) ==
    /\ v.key \notin DOMAIN current
    /\ \/ v.revision # 1 /\ Decline("gaps")
       \/ v.revision = 1 /\ Cardinality(DOMAIN current) >= MaximumSubjects
          /\ Decline("capacity")
       \/ v.revision = 1 /\ Cardinality(DOMAIN current) < MaximumSubjects /\ Accept(v)

(* Fault: a later number is taken for the next one.                         *)
FollowsLater(v) == v.revision > current[v.key].revision
Follows(v) == v.revision = current[v.key].revision + 1

OfferNext(v) ==
    /\ v.key \in DOMAIN current
    /\ LET last == current[v.key]
       IN  \/ v = last /\ Decline("duplicates")
           \/ v.revision = last.revision /\ v # last /\ Decline("conflicts")
           \/ v.revision < last.revision /\ Decline("stale")
           \/ v.revision > last.revision /\ ~Follows(v) /\ Decline("gaps")
           \/ v.revision > last.revision /\ Follows(v) /\ Accept(v)

AdmissionNext ==
    \E v \in MetricValues :
        Offers < MaximumOffers /\ (OfferFirst(v) \/ OfferNext(v))

AdmissionSpec == AdmissionInit /\ [][AdmissionNext]_admissionVars

------------------------------------------------------------------------------
(* The current value of a key ends the chain of its revisions 1, 2, ..., of *)
(* which none was lost, repeated or replaced, whatever was offered in which *)
(* order; keys without a value have no chain.                               *)
ChainsUnbroken ==
    \A k \in Keys :
        /\ \A i \in DOMAIN chain[k] : chain[k][i].key = k /\ chain[k][i].revision = i
        /\ k \in DOMAIN current <=> chain[k] # <<>>
        /\ k \in DOMAIN current => current[k] = chain[k][Len(chain[k])]

(* No more subjects are held than the book may hold.                        *)
SubjectsBounded == DOMAIN current \subseteq Keys /\ Cardinality(DOMAIN current) <= MaximumSubjects

AdmissionInv == ChainsUnbroken /\ SubjectsBounded
=============================================================================
