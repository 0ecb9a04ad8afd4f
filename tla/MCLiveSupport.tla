---------------------------- MODULE MCLiveSupport ----------------------------
(* Instances of the parts that share no state with one another: the         *)
(* resource alerts, the observation demands and their subscriptions, the    *)
(* evidence of acquisition and health, the books of entities and metrics,   *)
(* the startup barrier, the validation of bars, the start of a run, and     *)
(* what is declared before.  A behaviour is one of one part, the others     *)
(* being off, so that one run explores them all.                            *)
EXTENDS ResourceAlerts, ProviderSubscriptions, EvidenceHealth, Revisions,
        StartupReadiness, BarValidation, RunLifecycle, MCDeclarations

CONSTANTS bid, trades, forever, none

VARIABLE part

(* Nothing wrong; memory that grew, a warning; and two metrics, one of them *)
(* unavailable otherwise, past their critical thresholds.                   *)
MCReadings ==
    {[available |-> 9, rss |-> 0, fds |-> none], [available |-> 9, rss |-> 2, fds |-> none],
     [available |-> 1, rss |-> 0, fds |-> 9]}
MCCriticalAt ==
    [m \in {"host_memory_available_percent", "open_fd_ratio"} |->
        IF m = "open_fd_ratio" THEN 8 ELSE 1]
MCWarningAt ==
    [m \in {"host_memory_available_percent", "rss_growth_bytes"} |->
        IF m = "rss_growth_bytes" THEN 2 ELSE 4]
MCConfirmations == [WARNING |-> 2, CRITICAL |-> 1]

(* Two claims on one stream that agree, a third that does not, and one on a *)
(* stream the provider has no method for; three of them expire.             *)
Claim(id, stream, params, expires) ==
    [id |-> id, stream |-> stream, params |-> params, expires |-> expires]
MCOffered ==
    {Claim(1, bid, "p", forever), Claim(2, bid, "p", 2), Claim(3, bid, "q", 3),
     Claim(4, trades, "p", 1)}

MCAsked == {Claim(1, bid, "p", forever), Claim(2, bid, "p", forever)}
MCPolicy ==
    bid :> [fresh |-> 1, stale |-> 2, unavailable |-> 3, adaptive |-> TRUE, minimum |-> 1,
            minFresh |-> 1, minStale |-> 2, minUnavailable |-> 3,
            maxFresh |-> 2, maxStale |-> 3, maxUnavailable |-> 4,
            sigmaFresh |-> 1, sigmaStale |-> 2, sigmaUnavailable |-> 3]

(* Two entities of one type and instrument, one of each of the others; a    *)
(* revision that is restored after a restart.                               *)
EntityRevision(id, rev, life, time, restored) ==
    [id |-> id, rev |-> rev, prev |-> rev - 1, life |-> life, effective |-> time,
     published |-> time, restored |-> restored, content |-> "same"]
MCEntityType == <<"A", "A", "B", "A">>
MCInstrument == <<"I", "I", "I", "J">>
MCDurability ==
    <<"TRANSIENT", "FINALIZED_SESSION", "CROSS_SESSION_CHECKPOINT", "TRANSIENT">>
MCProposed ==
    {EntityRevision(id, rev, life, time, FALSE) :
        id \in 1..4, rev \in 1..2, life \in {"ACTIVE", "COMPLETE"}, time \in 1..2}
    \cup {EntityRevision(3, 2, life, 2, TRUE) : life \in {"STALE", "COMPLETE"}}

(* Bars of the series that was asked for and others that differ from one of *)
(* them in one field; lineage and references that fit one by one but not    *)
(* together, merged or in one batch.                                        *)
Bar(series, start, missing, revision, prices, lineage, references) ==
    [series |-> series, start |-> start, missing |-> missing, revision |-> revision,
     prices |-> prices, lineage |-> lineage, references |-> references]
MCEntryReferences == [e \in {"a", "b", "c", "live"} |-> IF e = "c" THEN {"r", "s"} ELSE {"r"}]
MCReceived ==
    {Bar("es", t, {}, 1, "p", {"a"}, {}) : t \in 1..4}
    \cup {Bar("es", 1, {}, 1, "p", {"b"}, {}), Bar("es", 3, {}, 1, "p", {"b", "c"}, {}),
          Bar("es", 1, {2}, 1, "p", {"a"}, {}), Bar("es", 3, {}, 1, "q", {"a"}, {}),
          Bar("es", 3, {}, 2, "p", {"a"}, {}), Bar("nq", 3, {}, 1, "p", {"a"}, {}),
          Bar("es", 3, {}, 1, "p", {"live"}, {}),
          Bar("es", 3, {}, 1, "p", {"a"}, {"s"}), Bar("es", 3, {}, 1, "p", {"a"}, {"t", "u"})}

------------------------------------------------------------------------------
Parts == {"alerts", "demand", "evidence", "entities", "metrics", "barrier", "bars", "run",
          "manifest", "configuration"}

SupportInit ==
    /\ part \in Parts
    /\ AlertInit /\ DemandInit /\ EvidenceInit
    /\ BookInit /\ AdmissionInit /\ ReadinessInit /\ ValidationInit /\ LifecycleInit
    /\ part = "alerts" <=> mode = "running"
    /\ part = "demand" <=> now = 0
    /\ part = "evidence" <=> gate = "held"
    /\ part # "run" => system.connected /\ system.helper
    /\ IF part = "manifest" THEN ManifestInit ELSE manifest = none
    /\ IF part = "configuration" THEN ConfigurationInit ELSE configuration = none

liveVars == <<alertVars, demandVars, evidenceVars>>
bookVariables == <<bookVars, admissionVars>>
gateVars == <<readinessVars, validationVars>>

SupportNext ==
    /\ \/ /\ part = "alerts" /\ AlertNext
          /\ UNCHANGED <<demandVars, evidenceVars, bookVariables, gateVars, runVars>>
       \/ /\ part = "demand" /\ DemandNext
          /\ UNCHANGED <<alertVars, evidenceVars, bookVariables, gateVars, runVars>>
       \/ /\ part = "evidence" /\ EvidenceNext
          /\ UNCHANGED <<alertVars, demandVars, bookVariables, gateVars, runVars>>
       \/ /\ part = "entities" /\ BookNext
          /\ UNCHANGED <<liveVars, admissionVars, gateVars, runVars>>
       \/ /\ part = "metrics" /\ AdmissionNext
          /\ UNCHANGED <<liveVars, bookVars, gateVars, runVars>>
       \/ /\ part = "barrier" /\ ReadinessNext
          /\ UNCHANGED <<liveVars, bookVariables, validationVars, runVars>>
       \/ /\ part = "bars" /\ ValidationNext
          /\ UNCHANGED <<liveVars, bookVariables, readinessVars, runVars>>
       \/ /\ part = "run" /\ LifecycleNext
          /\ UNCHANGED <<liveVars, bookVariables, gateVars>>
    /\ UNCHANGED <<part, declaredVars>>

SupportSpec ==
    /\ SupportInit
    /\ [][SupportNext]_<<liveVars, bookVariables, gateVars, runVars, part, declaredVars>>
    /\ AlertFairness /\ EvidenceFairness
=============================================================================
