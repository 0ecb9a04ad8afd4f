--------------------------- MODULE MCDeclarations ---------------------------
(* Manifests and configurations to be checked once, as they are offered.    *)
EXTENDS Declarations

CONSTANTS noDigest, noFile

------------------------------------------------------------------------------
(* Every way in which three claims can need one another, or one that is not *)
(* declared, with each mix of activations; and every way to assign two      *)
(* series to at most two instances.                                         *)
OneInstance == <<[actor |-> "f", series |-> <<"x">>]>>
OneSeriesOn ==
    [s \in {"x", "y"} |-> [producer |-> "f",
                           activation |-> IF s = "x" THEN "ENABLED" ELSE "DISABLED"]]
ClaimSubject == <<"bid", "ask", "ask">>
ClaimInputs == <<{"x"}, {}, {"y"}>>
Activations ==
    {<<"ENABLED", "ENABLED", "SHADOW">>, <<"ENABLED", "SHADOW", "DISABLED">>,
     <<"ENABLED", "ENABLED", "ENABLED">>, <<"ENABLED", "ENABLED", "DISABLED">>}
Webs ==
    {[instances |-> OneInstance, bars |-> OneSeriesOn,
      metrics |-> [c \in 1..3 |-> [subject |-> ClaimSubject[c], inputs |-> ClaimInputs[c],
                                   needs |-> needs[c], activation |-> activation[c]]]] :
        needs \in [1..3 -> SUBSET (1..3)] \cup {<<{4}, {}, {}>>, <<{}, {}, {2, 4}>>},
        activation \in Activations}
Assignments ==
    {<<>>} \cup {<<[actor |-> "f", series |-> a]>> : a \in {<<"x">>, <<"x", "y">>, <<"y", "y">>}}
    \cup {<<[actor |-> "f", series |-> a], [actor |-> b, series |-> c]>> :
             a \in {<<"x">>, <<"x", "y">>, <<"y">>}, b \in {"f", "g"}, c \in {<<"x">>, <<"y">>}}
Fields ==
    {[instances |-> a,
      bars |-> [s \in {"x", "y"} |-> [producer |-> p[s], activation |-> on[s]]],
      metrics |-> [c \in {1} |-> [subject |-> "bid", inputs |-> {"x", "y"}, needs |-> {},
                                  activation |-> "ENABLED"]]] :
        a \in Assignments, p \in [{"x", "y"} -> {"f", "g"}],
        on \in [{"x", "y"} -> {"ENABLED", "DISABLED"}]}
MCManifests == Webs \cup Fields

------------------------------------------------------------------------------
(* A configuration, and others that differ from it in one value.            *)
BaseThresholds(low, high) ==
    [n \in LowerIsWorseThresholds \cup HigherIsWorseThresholds |->
        IF n \in LowerIsWorseThresholds THEN low ELSE high]
BaseBoundary(value) == [kind |-> "schedule_boundary", value |-> value, offset |-> 0]
BaseCalendar ==
    [id |-> "us", provider |-> "CME", columns |-> <<"market_open", "market_close">>,
     version |-> 1, corrections |-> <<"noon">>,
     phases |-> <<[name |-> "RTH", zone |-> "provider", constraint |-> "clip",
                   from |-> BaseBoundary("market_open"), to |-> BaseBoundary("market_close")]>>]
BaseCatalog ==
    [schema_version |-> 3,
     sources |-> <<[id |-> "notice", status |-> "VERIFIED", digest |-> "d"]>>,
     corrections |-> <<[id |-> "noon", kind |-> "remove_regular_break", source |-> "notice",
                        zone |-> "UTC", roots |-> <<"ES">>]>>,
     calendars |-> <<BaseCalendar>>]
BaseLimits ==
    [fresh |-> 1, stale |-> 2, unavailable |-> 3, adaptive |-> TRUE, minimum |-> 1,
     minFresh |-> 1, minStale |-> 2, minUnavailable |-> 3,
     maxFresh |-> 2, maxStale |-> 3, maxUnavailable |-> 4,
     sigmaFresh |-> 1, sigmaStale |-> 2, sigmaUnavailable |-> 3]
BaseRetry ==
    [response_timeout_ms |-> 1000, maximum_attempts |-> 3, retry_backoff_ms |-> 100,
     maximum_elapsed_ms |-> 1000]
Base ==
    [schema_version |-> 32,
     runtime |-> [environment |-> "live"],
     system_control |->
        [c \in {"operational_persistence"} |-> [startup |-> "FAILED", running |-> "DEGRADED"]],
     ib |-> [port |-> 7497, client_id |-> 0, symbology_method |-> "raw",
             market_data_type |-> "realtime", connection_timeout_seconds |-> 5,
             request_timeout_seconds |-> 5],
     preload_instruments |-> [ids |-> <<[name |-> "ES", raw |-> TRUE]>>],
     logging |-> [max_backup_count |-> 1],
     discord |-> [enabled |-> TRUE, request_timeout_seconds |-> 1, queue_capacity |-> 1,
                  ping_critical_resource_alerts |-> FALSE],
     runtime_resources |->
        [sample_interval_ms |-> 1, log_every_samples |-> 1,
         health |-> [k \in ResourceHealthCounts \cup {"warning", "critical"} |->
                        IF k = "warning" THEN BaseThresholds(10, 10)
                        ELSE IF k = "critical" THEN BaseThresholds(5, 20)
                        ELSE IF k = "stale_critical_ms" THEN 2 ELSE 1]],
     persistence |->
        [connect_timeout_seconds |-> 1, queue_capacity |-> 20, critical_queue_reserve |-> 4,
         write_batch_size |-> 20, result_poll_interval_ms |-> 1, shutdown_timeout_seconds |-> 1,
         write_max_attempts |-> 1, write_retry_backoff_ms |-> 0],
     historical |-> [k \in HistoricalKeys |-> 1],
     sessions |->
        [evaluation_interval_ms |-> 1, projection_lookback_days |-> 2,
         projection_lookahead_days |-> 1, maximum_projection_days |-> 4,
         maximum_calendars_per_request |-> 1, projection_retry |-> BaseRetry,
         current_state_delivery |->
            [k \in DeliveryKeys |-> IF k \in RetryKeys THEN BaseRetry[k] ELSE 1],
         calendar_catalog |-> BaseCatalog, calendar_ids |-> <<"us">>],
     evidence_health |->
        [evaluation_interval_ms |-> 1, consumer_retry_interval_ms |-> 1,
         profile_checkpoint_samples |-> 1,
         policies |-> <<[kind |-> "quotes", selector |-> "ES", limits |-> BaseLimits]>>]]

SmallCounts == 0..5 \cup {19, 20, 21}

Varied ==
    {[Base EXCEPT !.persistence[k] = n] : k \in PersistenceKeys, n \in SmallCounts}
    \cup {[Base EXCEPT !.historical[k] = n] : k \in HistoricalKeys, n \in 0..2}
    \cup {[Base EXCEPT !.sessions[k] = n] : k \in SessionCounts, n \in 0..3}
    \cup {[Base EXCEPT !.sessions.projection_retry[k] = n] : k \in RetryKeys, n \in {1, 10, 100, 1000, 2000}}
    \cup {[Base EXCEPT !.sessions.current_state_delivery[k] = n] :
             k \in DeliveryKeys, n \in {1, 2, 100, 1000, 2000}}
    \cup {[Base EXCEPT !.evidence_health.policies[1].limits[k] = n] :
             k \in DOMAIN BaseLimits \ {"adaptive"}, n \in 0..5}
    \cup {[Base EXCEPT !.runtime_resources.health.critical[k] = n] :
             k \in DOMAIN BaseThresholds(1, 1), n \in {0, 9, 10, 11}}
    \cup {[Base EXCEPT !.sessions.calendar_ids = ids] : ids \in {<<>>, <<"us", "us">>, <<"eu">>}}
    \cup {[Base EXCEPT !.sessions.calendar_catalog.sources = s] :
             s \in {<<>>, <<[id |-> "notice", status |-> "VERIFIED", digest |-> noDigest]>>}}
    \cup {[Base EXCEPT !.ib.symbology_method = "simplified"],
          [Base EXCEPT !.runtime.environment = "paper"],
          [Base EXCEPT !.logging.max_backup_count = 21],
          [Base EXCEPT !.discord.queue_capacity = 0]}

(* Calendars: columns, breaks, the boundaries and names of a phase.         *)
Columns == {<<"market_open", "market_close">>, <<"market_open", "break_start", "market_close">>,
            <<"market_open", "break_start", "break_end", "market_close">>,
            <<"market_open", "pre", "market_close">>, <<"market_close">>}
VariedCalendars ==
    {[BaseCalendar EXCEPT !.columns = columns, !.phases[1].name = name,
                          !.phases[1].to = BaseBoundary(to), !.corrections = corrections] :
        columns \in Columns, name \in {"RTH", "CLOSED"},
        to \in {"market_close", "break_start", "pre"}, corrections \in {<<>>, <<"noon">>, <<"dusk">>}}
WithCalendars == {[Base EXCEPT !.sessions.calendar_catalog.calendars = <<c>>] : c \in VariedCalendars}

(* The same configuration in two files: each shared key in the file of the  *)
(* operator, in the policy, in both or in neither; and files of a version   *)
(* that is not read.                                                        *)
OperatorFile ==
    [s \in DOMAIN OperatorKeys \cup {"schema_version"} |->
        IF s = "schema_version" THEN 32 ELSE [k \in OperatorKeys[s] |-> Base[s][k]]]
PolicyFile ==
    [s \in PolicySections \cup {"policy_version"} |->
        IF s = "policy_version" THEN 4
        ELSE IF s \in SharedSections THEN [k \in DOMAIN Base[s] \ OperatorKeys[s] |-> Base[s][k]]
        ELSE Base[s]]
Toggled(S, k) == IF k \in S THEN S \ {k} ELSE S \cup {k}
OnKeys(f, section, keys) == [f EXCEPT ![section] = [k \in keys |-> Base[section][k]]]

OperatorFiles ==
    {OperatorFile, [OperatorFile EXCEPT !.schema_version = 31]}
    \cup UNION {{OnKeys(OperatorFile, s, Toggled(OperatorKeys[s], k)) : k \in DOMAIN Base[s]} :
                   s \in SharedSections}
PolicyFiles ==
    {PolicyFile, [PolicyFile EXCEPT !.policy_version = 3],
     [PolicyFile EXCEPT !.ib = [k \in DOMAIN @ \cup {"port"} |-> IF k = "port" THEN 1 ELSE @[k]]],
     [k \in DOMAIN PolicyFile \cup {"runtime"} |->
         IF k = "runtime" THEN Base.runtime ELSE PolicyFile[k]]}
    \cup UNION {{OnKeys(PolicyFile, s, Toggled(DOMAIN PolicyFile[s], k)) : k \in DOMAIN Base[s]} :
                   s \in SharedSections}

MCOfferedFiles ==
    {[file |-> c, policy |-> noFile] : c \in {Base} \cup Varied \cup WithCalendars}
    \cup {[file |-> o, policy |-> p] : o \in OperatorFiles, p \in PolicyFiles}

MCMarketTimes ==
    [c \in {"CME"} |-> {"market_open", "market_close", "break_start", "break_end"}]
=============================================================================
