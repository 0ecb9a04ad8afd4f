---------------------------- MODULE EvidencePolicy ----------------------------
(* The policy by which the age of evidence is judged: what its loader       *)
(* admits, and the thresholds it gives, fixed or learned from the intervals *)
(* between observations.  A policy has the fields of EvidencePolicyConfig,  *)
(* named shortly: the ages up to which evidence is fresh, stale and not yet *)
(* unavailable, their least and greatest values and their multipliers.  The *)
(* decay factor is left out: what is learned may be anything.               *)
EXTENDS Integers

(* What _load_evidence_health admits.                                       *)
Loads(p) ==
    /\ p.fresh \in Nat \ {0} /\ p.stale \in Nat /\ p.unavailable \in Nat
    /\ p.fresh < p.stale /\ p.stale < p.unavailable
    /\ p.adaptive \in BOOLEAN /\ p.minimum \in Nat \ {0}
    /\ p.minFresh \in Nat \ {0} /\ p.minStale \in Nat /\ p.minUnavailable \in Nat
    /\ p.minFresh < p.minStale /\ p.minStale < p.minUnavailable
    /\ p.maxFresh \in Nat /\ p.maxStale \in Nat /\ p.maxUnavailable \in Nat
    /\ p.maxFresh < p.maxStale /\ p.maxStale < p.maxUnavailable
    /\ p.minFresh <= p.maxFresh /\ p.minStale <= p.maxStale
    /\ p.minUnavailable <= p.maxUnavailable
    /\ p.sigmaFresh \in Nat \ {0} /\ p.sigmaStale \in Nat /\ p.sigmaUnavailable \in Nat
    /\ p.sigmaFresh < p.sigmaStale /\ p.sigmaStale < p.sigmaUnavailable

------------------------------------------------------------------------------
(* Adaptive thresholds.                                                     *)

Bounded(value, low, high) ==
    LET capped == IF value < high THEN value ELSE high
    IN  IF low > capped THEN low ELSE capped

AtLeast(a, b) == IF a > b THEN a ELSE b

Adaptive(p, mean, deviation) ==
    LET fresh == Bounded(mean + p.sigmaFresh * deviation, p.minFresh, p.maxFresh)
        stale == Bounded(mean + p.sigmaStale * deviation,
                         AtLeast(p.minStale, fresh + 1), p.maxStale)
    IN  [fresh |-> fresh, stale |-> stale,
         unavailable |-> Bounded(mean + p.sigmaUnavailable * deviation,
                                 AtLeast(p.minUnavailable, stale + 1), p.maxUnavailable)]

Fixed(p) == [fresh |-> p.fresh, stale |-> p.stale, unavailable |-> p.unavailable]
=============================================================================
