-------------------------- MODULE StartupReadiness --------------------------
(* _StartupReadinessValidator: the barrier at which the consumers of one    *)
(* series acknowledge their subscription before a deadline.  It is sealed   *)
(* when all have answered or the deadline has passed, and those who         *)
(* rejected, contradicted themselves or kept silent are quarantined.        *)
EXTENDS Integers

CONSTANTS
    Required,    \* the consumers that must acknowledge
    Strangers,   \* acknowledgements that name another consumer, start or manifest
    Bodies,      \* what a consumer's acknowledgements may differ in besides their status
    BarrierStart, Timeout,
    Instants,    \* times of receipt and of evaluation
    NoTime

ASSUME ReadinessAssumption ==
    /\ Required # {} /\ Required \cap Strangers = {}
    /\ BarrierStart \in Nat \ {0} /\ Timeout \in Nat \ {0} /\ Instants \subseteq Nat
    /\ NoTime \notin Nat

Statuses == {"SUBSCRIBED", "REJECTED"}
Acknowledgements == [by : Required \cup Strangers, status : Statuses, body : Bodies]
Deadline == BarrierStart + Timeout

VARIABLES
    acks,       \* the first acknowledgement of each consumer
    contradicting,  \* consumers that sent another one
    latest,     \* the last time of receipt that counted
    sealedAt,
    \* History.
    sealing     \* the subscribed and quarantined when it was sealed

readinessVars == <<acks, contradicting, latest, sealedAt, sealing>>

------------------------------------------------------------------------------
Verdict(a, c) ==
    LET subscribed == {k \in DOMAIN a \ c : a[k].status = "SUBSCRIBED"}
    IN  [subscribed |-> subscribed, quarantined |-> Required \ subscribed]

ReadinessInit ==
    /\ acks = [k \in {} |-> NoTime] /\ contradicting = {} /\ latest = BarrierStart
    /\ sealedAt = NoTime /\ sealing = NoTime

SealAt(time) == sealedAt' = time /\ sealing' = Verdict(acks', contradicting')

(* _seal_if_terminal                                                        *)
SealIfTerminal ==
    IF DOMAIN acks' = Required THEN SealAt(latest') ELSE UNCHANGED <<sealedAt, sealing>>

(* acknowledge: the deadline, which seals the barrier.                      *)
TooLate(time) ==
    /\ time >= Deadline
    /\ UNCHANGED <<acks, contradicting, latest>> /\ SealAt(Deadline)

Answers(ack, time) == ack.by \in Required /\ time >= BarrierStart /\ time < Deadline

Latest(time) == latest' = IF time > latest THEN time ELSE latest

FirstAnswer(ack, time) ==
    /\ Answers(ack, time) /\ ack.by \notin DOMAIN acks
    /\ acks' = [k \in DOMAIN acks \cup {ack.by} |-> IF k = ack.by THEN ack ELSE acks[k]]
    /\ UNCHANGED contradicting /\ Latest(time) /\ SealIfTerminal

Contradiction(ack, time) ==
    /\ Answers(ack, time) /\ ack.by \in DOMAIN acks /\ acks[ack.by] # ack
    /\ contradicting' = contradicting \cup {ack.by}
    /\ UNCHANGED acks /\ Latest(time) /\ SealIfTerminal

(* Fault: the seal is not looked at.                                        *)
Unguarded == TRUE
Unsealed == sealedAt = NoTime

(* A repeated acknowledgement, one that does not count, and any after the   *)
(* seal change nothing.                                                     *)
Acknowledge ==
    \E ack \in Acknowledgements, time \in Instants :
        /\ Unsealed
        /\ TooLate(time) \/ FirstAnswer(ack, time) \/ Contradiction(ack, time)

(* evaluate: what it returns is Verdict; what it changes is the seal.  The  *)
(* terminal case of its condition has been sealed by the last answer.       *)
Evaluate ==
    \E time \in Instants :
        /\ Unsealed /\ time >= BarrierStart
        /\ time - BarrierStart >= Timeout
        /\ UNCHANGED <<acks, contradicting, latest>>
        /\ SealAt(IF time < Deadline THEN time ELSE Deadline)

ReadinessNext == Acknowledge \/ Evaluate

ReadinessSpec == ReadinessInit /\ [][ReadinessNext]_readinessVars

------------------------------------------------------------------------------
(* What evaluate reports after the seal is what it was at the seal, however *)
(* late or contradictory the acknowledgements that follow.                  *)
SealIsFinal == sealedAt # NoTime => sealing = Verdict(acks, contradicting)

(* The barrier is sealed as soon as everyone has answered, at the time of   *)
(* the last answer that counted; while someone is missing only at the       *)
(* deadline; and never after it.                                            *)
SealIsTimely ==
    /\ sealedAt = NoTime => DOMAIN acks # Required
    /\ sealedAt # NoTime =>
          /\ sealedAt \in BarrierStart..Deadline /\ latest <= sealedAt
          /\ sealedAt < Deadline => DOMAIN acks = Required /\ sealedAt = latest

(* Only an answer of a required consumer counts, received in time.          *)
AnswersCount ==
    /\ DOMAIN acks \subseteq Required /\ contradicting \subseteq DOMAIN acks
    /\ \A k \in DOMAIN acks : acks[k].by = k
    /\ latest \in BarrierStart..Deadline - 1

ReadinessInv == SealIsFinal /\ SealIsTimely /\ AnswersCount
=============================================================================
