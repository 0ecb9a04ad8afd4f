---------------------------- MODULE SystemControl ----------------------------
(***************************************************************************)
(* The global health of a run: SystemControlActor                          *)
(* (src/src/markeitech/system/actor.py) and its state machine              *)
(* (src/src/markeitech/system/control.py).                                 *)
(*                                                                         *)
(* All actors of a run share one thread and a synchronous message bus:     *)
(* publishing a signal runs every subscriber's handler before publish      *)
(* returns, and a handler may publish in turn.  calls is that stack: its   *)
(* head is the handler to run next, and a handler replaces its own entry   *)
(* by the calls it makes.  Between two entries only other threads run.     *)
(***************************************************************************)
EXTENDS Integers, Sequences, FiniteSets

CONSTANTS
    StartupTarget,  \* component_failures.*.startup: health before the first READY
    RunningTarget,  \* component_failures.*.running: health after it
    Keys,           \* the (component, code) pairs that may report a failure
    Incidents,      \* incident identities (uuid4)
    NoIncident

ASSUME ControlAssumption ==
    /\ StartupTarget \in {"DEGRADED", "FAILED"}
    /\ RunningTarget \in {"DEGRADED", "FAILED"}
    /\ NoIncident \notin Incidents

VARIABLES
    control,  \* SystemControlActor's attributes
    calls     \* the calls to make, innermost first

States == {"NONE", "STARTING", "READY", "DEGRADED", "FAILED", "STOPPING"}
Ended == {"FAILED", "STOPPING"}

Control == [running : BOOLEAN,
            state : States,
            released : BOOLEAN,          \* _startup_released
            evaluating : BOOLEAN,        \* _evaluation_started
            persistenceReady : BOOLEAN,
            monitorReady : BOOLEAN,
            resource : {"NORMAL", "CRITICAL"},
            failures : [Keys -> Incidents \cup {NoIncident}],
            readyOnce : BOOLEAN]

Call(op, key, incident) == [op |-> op, key |-> key, incident |-> incident]

(* A signal the persistence actor audits; the key tells a critical record. *)
Audit(class) == Call("audit", class, NoIncident)

ControlInit ==
    control = [running |-> TRUE, state |-> "NONE", released |-> FALSE,
               evaluating |-> FALSE, persistenceReady |-> FALSE,
               monitorReady |-> FALSE, resource |-> "NORMAL",
               failures |-> [key \in Keys |-> NoIncident], readyOnce |-> FALSE]

-----------------------------------------------------------------------------
(* _ALLOWED_TRANSITIONS.  A transition outside it raises ValueError, which *)
(* no handler expects: here the call is stuck and the run deadlocks.       *)
Allowed(state) ==
    CASE state = "NONE"     -> {"STARTING", "DEGRADED", "FAILED", "STOPPING"}
      [] state = "STARTING" -> {"READY", "DEGRADED", "FAILED", "STOPPING"}
      [] state = "READY"    -> {"DEGRADED", "FAILED", "STOPPING"}
      [] state = "DEGRADED" -> {"READY", "FAILED", "STOPPING"}
      [] state = "FAILED"   -> {"STOPPING"}
      [] state = "STOPPING" -> {}

(* The call on top returns after making the calls in inner.                *)
Return(inner) == calls' = inner \o Tail(calls)

(* _publish_transition, the last thing its callers do: nothing when the    *)
(* state stays, else the new state is published as SYSTEM_HEALTH.          *)
Become(c, target) ==
    /\ target = c.state \/ target \in Allowed(c.state)
    /\ control' = [c EXCEPT !.state = target,
                            !.readyOnce = @ \/ (target # c.state /\ target = "READY")]

Published(target) ==
    IF target = control.state THEN <<>> ELSE <<Audit("critical")>>

Unfailed(c) == \A key \in Keys : c.failures[key] = NoIncident

GatesOpen(c) ==
    /\ c.evaluating
    /\ c.persistenceReady
    /\ c.monitorReady
    /\ c.resource # "CRITICAL"
    /\ Unfailed(c)

(* _publish_ready_if_complete                                              *)
ReadyIfComplete(c) ==
    IF c.state \notin Ended /\ GatesOpen(c) THEN "READY" ELSE c.state

MoveTo(c, target) == Become(c, target) /\ Return(Published(target))

Evaluate(c) == MoveTo(c, ReadyIfComplete(c))

Ignore == Return(<<>>) /\ UNCHANGED control

-----------------------------------------------------------------------------
(* The handlers of on_signal, each for the call on top of the stack.       *)

Handles(op) == calls # <<>> /\ Head(calls).op = op

Unsubscribed == ~control.running

(* PERSISTENCE_READY: releases the evaluation alert once.                  *)
OnPersistenceReady ==
    /\ Handles("ready")
    /\ IF Unsubscribed \/ control.state \in Ended
       THEN Ignore
       ELSE /\ control' = [control EXCEPT !.persistenceReady = TRUE, !.released = TRUE]
            /\ Return(<<>>)

(* component_failure_target: an ended run keeps its state.                 *)
FailureTarget(c) ==
    IF c.state \in Ended THEN c.state
    ELSE IF c.readyOnce THEN RunningTarget ELSE StartupTarget

(* COMPONENT_FAILURE                                                       *)
OnComponentFailure ==
    LET call == Head(calls)
        c    == [control EXCEPT !.failures[call.key] = call.incident]
    IN  /\ Handles("failure")
        /\ IF Unsubscribed THEN Ignore ELSE MoveTo(c, FailureTarget(c))

Matches(c, call) ==
    /\ c.failures[call.key] # NoIncident
    /\ c.failures[call.key] = call.incident

(* COMPONENT_RECOVERY                                                      *)
OnComponentRecovery ==
    LET call == Head(calls)
        c    == [control EXCEPT !.failures[call.key] = NoIncident]
    IN  /\ Handles("recovery")
        /\ IF Unsubscribed \/ ~Matches(control, call) THEN Ignore
           ELSE IF Unfailed(c) THEN Evaluate(c)
           ELSE control' = c /\ Return(<<>>)

(* _handle_resource_monitor_ready; the key carries the monitor's state.    *)
OnMonitorReady ==
    LET resource == Head(calls).key
        c == [control EXCEPT !.monitorReady = TRUE, !.resource = resource]
    IN  /\ Handles("monitor")
        /\ IF Unsubscribed \/ control.state \in Ended \/ control.monitorReady THEN Ignore
           ELSE IF resource = "CRITICAL" THEN MoveTo(c, "DEGRADED")
           ELSE Evaluate(c)

(* Fault: a resource recovery is forgotten while a component has failed.   *)
RecoversUnrecorded(c) ==
    IF control.resource = "CRITICAL" /\ ~Unfailed(c) THEN control ELSE c

Recovers(c) == c

(* _handle_resource_health; the key carries the state, and "STALE" for a   *)
(* CRITICAL whose reason is resource_samples_stale.                        *)
OnResourceHealth ==
    LET key == Head(calls).key
        c == [control EXCEPT !.resource = IF key = "NORMAL" THEN "NORMAL" ELSE "CRITICAL"]
    IN  /\ Handles("resource")
        /\ IF \/ Unsubscribed
              \/ control.state \in Ended
              \/ ~control.monitorReady /\ key = "NORMAL"
           THEN Ignore
           ELSE IF key = "STALE" /\ ~control.monitorReady THEN MoveTo(c, "FAILED")
           ELSE IF key # "NORMAL" THEN MoveTo(c, "DEGRADED")
           ELSE IF control.resource = "CRITICAL" /\ Unfailed(c) THEN Evaluate(Recovers(c))
           ELSE control' = Recovers(c) /\ Return(<<>>)

(* _begin_evaluation, after it has published STARTING.                     *)
OnEvaluate ==
    /\ Handles("evaluate")
    /\ Evaluate(control)

(* The evaluation alert set by _release_startup fires.                     *)
BeginEvaluation ==
    /\ calls = <<>>
    /\ control.running
    /\ control.released
    /\ ~control.evaluating
    /\ LET c == [control EXCEPT !.evaluating = TRUE]
           target == IF c.state = "NONE" THEN "STARTING" ELSE c.state
       IN  /\ Become(c, target)
           /\ calls' = Published(target) \o <<Call("evaluate", "none", NoIncident)>>

(* on_stop publishes STOPPING, then unsubscribes.                          *)
ControlStops ==
    /\ calls = <<>>
    /\ control.running
    /\ Become([control EXCEPT !.running = FALSE], "STOPPING")
    /\ calls' = Published("STOPPING")

(* on_fault: an error escaped one of the actor's own callbacks.            *)
ControlFaults ==
    /\ calls = <<>>
    /\ control.running
    /\ Become([control EXCEPT !.running = FALSE], "FAILED")
    /\ calls' = Published("FAILED")

ControlHandler ==
    \/ OnPersistenceReady \/ OnComponentFailure \/ OnComponentRecovery
    \/ OnMonitorReady \/ OnResourceHealth \/ OnEvaluate

ControlEvent == BeginEvaluation \/ ControlStops \/ ControlFaults
=============================================================================
