-------------------------- MODULE OperationalHealth --------------------------
(***************************************************************************)
(* System Control composed with OperationalPersistenceActor                *)
(* (src/src/markeitech/system/persistence.py): how a lost audit record     *)
(* becomes a component failure, how a later committed record repairs it,   *)
(* and when the run may be READY.                                          *)
(*                                                                         *)
(* The worker is the bounded queue of PersistenceWorker without its order  *)
(* and counters: what is kept of a record is whether it is the recovery    *)
(* record of a failure code.  Sequence numbers and the growing             *)
(* _lost_event_count are compared only with values taken earlier, so they  *)
(* are kept as "unchanged since" flags and nothing here grows.             *)
(***************************************************************************)
EXTENDS SystemControl

CONSTANTS
    QueueCapacity,    \* persistence.queue_capacity
    CriticalReserve,  \* persistence.critical_queue_reserve
    BatchSize,        \* persistence.write_batch_size
    MonitorEvents,    \* what the resource sampler and evaluator may report
    MaxUnread         \* bound: records out of the actor's hands when others arrive

(* The codes _queue_recovery_records can recover from, in its order.       *)
Codes == <<"write", "admission">>
Recoverable == {"write", "admission"}

ASSUME HealthAssumption ==
    /\ {"write", "admission", "timeout", "connection", "monitor"} \subseteq Keys
    /\ QueueCapacity \in Nat \ {0}
    /\ CriticalReserve \in 0..(QueueCapacity - 1)
    /\ BatchSize \in 1..QueueCapacity
    /\ MonitorEvents \subseteq {"NORMAL", "CRITICAL", "STALE", "FAULT"}
    /\ MaxUnread \in Nat
    /\ \E i, j, k \in Incidents : i # j /\ j # k /\ i # k

VARIABLES
    persist,  \* OperationalPersistenceActor's attributes
    queue,    \* the worker's queue
    batch,    \* the records the worker thread is writing
    results,  \* the worker's results queue
    ledger,   \* history: the known losses, and whether PostgreSQL names them all
    monitor   \* external: the resource evaluator

vars == <<control, calls, persist, queue, batch, results, ledger, monitor>>

workerVars == <<queue, batch, results>>

NotPending == [incident |-> NoIncident, current |-> FALSE]

Persist == [phase : {"new", "active", "stopped"},
            failures : [Keys -> Incidents \cup {NoIncident}],
            recovery : [Recoverable -> [incident : Incidents \cup {NoIncident},
                                        current : BOOLEAN]],
            backoff : BOOLEAN,      \* now < _next_recovery_attempt_at
            announced : BOOLEAN,    \* _ready_announced
            alert : BOOLEAN]        \* the ready alert is still set

Init ==
    /\ ControlInit
    /\ calls = <<>>
    /\ persist = [phase |-> "new",
                  failures |-> [key \in Keys |-> NoIncident],
                  recovery |-> [code \in Recoverable |-> NotPending],
                  backoff |-> FALSE, announced |-> FALSE, alert |-> FALSE]
    /\ queue = <<>>
    /\ batch = <<>>
    /\ results = <<>>
    /\ ledger = "complete"
    /\ monitor = "silent"

-----------------------------------------------------------------------------
(* What the persistence actor does inside its handlers.                    *)

Active == persist.phase = "active"

Healthy(p) == \A key \in Keys : p.failures[key] = NoIncident

(* A new identity: one nothing refers to under the same key, the only      *)
(* place where it is ever compared.                                        *)
Used(key) ==
    {persist.failures[key], control.failures[key]}
    \cup {persist.recovery[code].incident : code \in Recoverable \cap {key}}
    \cup {calls[i].incident : i \in {n \in DOMAIN calls : calls[n].key = key}}

NewIncident(key) == CHOOSE incident \in Incidents : incident \notin Used(key)

(* A signal with two subscribers reaches them in either order.             *)
Both(first, second, rest) ==
    \/ calls' = <<first, second>> \o rest
    \/ calls' = <<second, first>> \o rest

(* Fault: a failure already reported takes a new incident unpublished.     *)
ReportAgain(p, code) ==
    LET incident == NewIncident(code)
    IN  /\ persist' = [p EXCEPT !.failures[code] = incident]
        /\ IF p.failures[code] # NoIncident THEN Return(<<>>)
           ELSE Both(Call("failure", code, incident), Audit("critical"), Tail(calls))

(* _report_failure: COMPONENT_FAILURE goes to System Control and to this   *)
(* actor itself, which audits its own failures.                            *)
Report(p, code) ==
    IF p.failures[code] # NoIncident
    THEN persist' = p /\ Return(<<>>)
    ELSE LET incident == NewIncident(code)
         IN  /\ persist' = [p EXCEPT !.failures[code] = incident]
             /\ Both(Call("failure", code, incident), Audit("critical"), Tail(calls))

(* Fault: a recovery record already queued still counts as naming them all. *)
LostUnnoticed(p) == p

(* _mark_lost: no pending recovery record names this loss.                 *)
Lost(p) ==
    [p EXCEPT !.recovery =
        [code \in Recoverable |-> [p.recovery[code] EXCEPT !.current = FALSE]]]

(* Fault: the queue takes one record too many.                             *)
HasOneMore(class) ==
    Len(queue) <= IF class = "critical" THEN QueueCapacity
                  ELSE QueueCapacity - CriticalReserve

HasRoom(class) ==
    Len(queue) < IF class = "critical" THEN QueueCapacity
                 ELSE QueueCapacity - CriticalReserve

(* Fault: a rejected record is counted but not reported.                   *)
RejectedQuietly(p) == persist' = Lost(p) /\ Return(<<>>)

(* A record the worker does not admit.                                     *)
Rejected(p) == Report(Lost(p), "admission")

(* on_signal and on_data for an audited signal: _submit_record.            *)
OnAudited ==
    /\ Handles("audit")
    /\ \/ ~Active /\ Return(<<>>) /\ UNCHANGED <<persist, queue, ledger>>
       \/ /\ Active /\ HasRoom(Head(calls).key)
          /\ queue' = Append(queue, "event")
          /\ Return(<<>>)
          /\ UNCHANGED <<persist, ledger>>
       \/ /\ Active /\ ~HasRoom(Head(calls).key)
          /\ Rejected(persist)
          /\ ledger' = "gap"
          /\ UNCHANGED queue
    /\ UNCHANGED <<control, batch, results, monitor>>

-----------------------------------------------------------------------------
(* _drain_results, called by the poll timer and by on_stop.                *)

Drain == Call("drain", "none", NoIncident)
TryRecovery(code) == Call("recover", code, NoIncident)

(* Fault: a recovery record that came too late stays pending.              *)
PoppedIfCurrent(code) ==
    IF persist.recovery[code].current
    THEN [persist EXCEPT !.recovery[code] = NotPending] ELSE persist

Popped(code) == [persist EXCEPT !.recovery[code] = NotPending]

(* Fault: later losses and incidents are not compared.                     *)
RepairsAnyway(code) == persist.failures[code] # NoIncident

(* The committed recovery record names the active incident and every loss. *)
Repairs(code) ==
    /\ persist.failures[code] # NoIncident
    /\ persist.failures[code] = persist.recovery[code].incident
    /\ persist.recovery[code].current

DrainStored(code) ==
    /\ \/ /\ Repairs(code)
          /\ persist' = [Popped(code) EXCEPT !.failures[code] = NoIncident]
          /\ Return(<<Call("recovery", code, persist.failures[code]),
                      Call("announce", "none", NoIncident), Drain>>)
       \/ /\ ~Repairs(code)
          /\ persist' = Popped(code)
          /\ Return(<<Drain>>)
    /\ UNCHANGED ledger

DrainFailed(item) ==
    LET p == Lost(IF item \in Recoverable THEN Popped(item) ELSE persist)
    IN  /\ persist' = [p EXCEPT !.backoff = TRUE]
        /\ Return(<<Call("report", "write", NoIncident), Drain>>)
        /\ ledger' = "gap"

OnDrain ==
    /\ Handles("drain")
    /\ \/ /\ results # <<>>
          /\ results' = Tail(results)
          /\ IF Head(results).stored
             THEN DrainStored(Head(results).item) ELSE DrainFailed(Head(results).item)
       \/ /\ results = <<>>
          /\ Return(IF Active /\ ~persist.backoff THEN <<TryRecovery("write")>> ELSE <<>>)
          /\ UNCHANGED <<persist, results, ledger>>
    /\ UNCHANGED <<control, queue, batch, monitor>>

OnReport ==
    /\ Handles("report")
    /\ Report(persist, Head(calls).key)
    /\ UNCHANGED <<control, workerVars, ledger, monitor>>

(* After a recovery: readiness, if it was never announced.                 *)
OnAnnounce ==
    LET ready == Active /\ Healthy(persist) /\ ~persist.announced
    IN  /\ Handles("announce")
        /\ persist' = [persist EXCEPT !.announced = @ \/ ready]
        /\ Return(IF ready THEN <<Call("ready", "none", NoIncident)>> ELSE <<>>)
        /\ UNCHANGED <<control, workerVars, ledger, monitor>>

Needs(code) ==
    /\ persist.failures[code] # NoIncident
    /\ persist.recovery[code] = NotPending

(* _queue_recovery_records, one code after the other; a rejected recovery  *)
(* record is itself a loss and ends the round.                             *)
OnTryRecovery ==
    LET code == Head(calls).key
        others == IF code = "write" THEN <<TryRecovery("admission")>> ELSE <<>>
    IN  /\ Handles("recover")
        /\ \/ ~Needs(code) /\ Return(others) /\ UNCHANGED <<persist, queue, ledger>>
           \/ /\ Needs(code) /\ HasRoom("critical")
              /\ queue' = Append(queue, code)
              /\ persist' = [persist EXCEPT !.recovery[code] =
                     [incident |-> persist.failures[code], current |-> TRUE]]
              /\ Return(others)
              /\ UNCHANGED ledger
           \/ /\ Needs(code) /\ ~HasRoom("critical")
              /\ Rejected([persist EXCEPT !.backoff = TRUE])
              /\ ledger' = "gap"
              /\ UNCHANGED queue
        /\ UNCHANGED <<control, batch, results, monitor>>

(* close: the worker has ended, or the shutdown timeout passes first.      *)
OnClose ==
    /\ Handles("close")
    /\ \/ queue = <<>> /\ batch = <<>> /\ Return(<<>>)
       \/ queue \o batch # <<>> /\ Return(<<Call("report", "timeout", NoIncident)>>)
    /\ UNCHANGED <<control, persist, workerVars, ledger, monitor>>

-----------------------------------------------------------------------------
(* What starts a cascade: timers, actor lifecycle, other actors' signals.  *)

PersistStarts ==
    /\ calls = <<>>
    /\ persist.phase = "new"
    /\ \/ persist' = [persist EXCEPT !.phase = "active", !.alert = TRUE] /\ UNCHANGED calls
       \/ /\ persist' = [persist EXCEPT !.phase = "stopped"]
          /\ calls' = <<Call("report", "connection", NoIncident)>>
    /\ UNCHANGED <<control, workerVars, ledger, monitor>>

(* Actors stop in the order of the plan: System Control first.             *)
PersistStops ==
    /\ calls = <<>>
    /\ Active
    /\ ~control.running
    /\ persist' = [persist EXCEPT !.phase = "stopped", !.alert = FALSE]
    /\ calls' = <<Call("close", "none", NoIncident), Drain>>
    /\ UNCHANGED <<control, workerVars, ledger, monitor>>

(* The ready alert fires, or another actor asks for readiness.             *)
PublishReady ==
    /\ calls = <<>>
    /\ Active
    /\ persist' = [persist EXCEPT !.alert = FALSE, !.announced = @ \/ Healthy(persist)]
    /\ calls' = IF Healthy(persist) THEN <<Call("ready", "none", NoIncident)>> ELSE <<>>
    /\ UNCHANGED <<control, workerVars, ledger, monitor>>

Poll ==
    /\ calls = <<>>
    /\ Active
    /\ calls' = <<Drain>>
    /\ UNCHANGED <<control, persist, workerVars, ledger, monitor>>

(* Time passes; the backoff matters only where a drain is about to end.    *)
BackoffEnds ==
    /\ Handles("drain") /\ results = <<>>
    /\ persist.backoff
    /\ persist' = [persist EXCEPT !.backoff = FALSE]
    /\ UNCHANGED <<control, calls, workerVars, ledger, monitor>>

(* Other actors' signals, while the worker is not too far behind.          *)
Disturbed ==
    /\ calls = <<>>
    /\ control.running
    /\ Len(queue) + Len(batch) + Len(results) < MaxUnread
    /\ UNCHANGED <<control, persist, workerVars, ledger>>

SignalAudited ==
    /\ Disturbed
    /\ \E class \in {"normal", "critical"} : calls' = <<Audit(class)>>
    /\ UNCHANGED monitor

Reports(state) == Disturbed /\ state \in MonitorEvents /\ monitor' = state

(* The evaluator publishes a transition before it acknowledges its first   *)
(* sample; without a sample it reports staleness.                          *)
FirstSample ==
    /\ monitor = "silent"
    /\ \/ Reports("NORMAL") /\ calls' = <<Call("monitor", "NORMAL", NoIncident)>>
       \/ /\ Reports("CRITICAL")
          /\ Both(Call("resource", "CRITICAL", NoIncident), Audit("critical"),
                  <<Call("monitor", "CRITICAL", NoIncident)>>)
       \/ /\ Reports("STALE")
          /\ Both(Call("resource", "STALE", NoIncident), Audit("critical"), <<>>)

ResourceChanges ==
    \/ /\ monitor = "NORMAL" /\ Reports("CRITICAL")
       /\ Both(Call("resource", "CRITICAL", NoIncident), Audit("critical"), <<>>)
    \/ /\ monitor = "CRITICAL" /\ Reports("NORMAL")
       /\ Both(Call("resource", "NORMAL", NoIncident), Audit("normal"), <<>>)

(* on_fault of the resource sampler or evaluator.                          *)
MonitorFaults ==
    /\ monitor # "FAULT" /\ Reports("FAULT")
    /\ Both(Call("failure", "monitor", NewIncident("monitor")), Audit("critical"), <<>>)

-----------------------------------------------------------------------------
(* The worker thread: one transaction stores or fails a whole batch.       *)

(* The worker empties the queue into its batch, as far as it holds.        *)
Take ==
    LET taken == IF Len(queue) < BatchSize THEN Len(queue) ELSE BatchSize
    IN  /\ queue # <<>>
        /\ batch = <<>>
        /\ batch' = SubSeq(queue, 1, taken)
        /\ queue' = SubSeq(queue, taken + 1, Len(queue))
        /\ UNCHANGED <<control, calls, persist, results, ledger, monitor>>

NamesAll(item) == item \in Recoverable /\ persist.recovery[item].current

(* The result of an ordinary record that was stored is only logged; the     *)
(* others keep their order.                                                *)
Kept(stored) == {i \in DOMAIN batch : ~stored \/ batch[i] # "event"}
Place(kept, i) == Cardinality({j \in kept : j <= i})

Noticed(stored) ==
    [n \in 1..Cardinality(Kept(stored)) |->
        batch[CHOOSE i \in Kept(stored) : Place(Kept(stored), i) = n]]

Settle(stored) ==
    /\ batch # <<>>
    /\ results' = results \o
           [i \in DOMAIN Noticed(stored) |->
               [item |-> Noticed(stored)[i], stored |-> stored]]
    /\ batch' = <<>>
    /\ ledger' = IF stored /\ \E i \in DOMAIN batch : NamesAll(batch[i])
                 THEN "named" ELSE ledger
    /\ UNCHANGED <<control, calls, persist, queue, monitor>>

-----------------------------------------------------------------------------
Handler ==
    \/ ControlHandler /\ UNCHANGED <<persist, workerVars, ledger, monitor>>
    \/ OnAudited \/ OnDrain \/ OnReport \/ OnAnnounce \/ OnTryRecovery \/ OnClose

Worker == Take \/ \E stored \in BOOLEAN : Settle(stored)

Evaluation == BeginEvaluation /\ UNCHANGED <<persist, workerVars, ledger, monitor>>

(* Both actors have stopped and nothing is left to run.                    *)
Halted ==
    /\ calls = <<>> /\ persist.phase = "stopped" /\ ~control.running
    /\ UNCHANGED vars

Next ==
    \/ Handler \/ Worker \/ Evaluation \/ PublishReady \/ Poll \/ BackoffEnds
    \/ (ControlStops \/ ControlFaults) /\ UNCHANGED <<persist, workerVars, ledger, monitor>>
    \/ PersistStarts \/ PersistStops
    \/ SignalAudited \/ FirstSample \/ ResourceChanges \/ MonitorFaults
    \/ Halted

(* Handlers return and the worker thread runs.  The event loop takes turns: *)
(* a timer that is due again and again is served, whatever else arrives.   *)
Spec ==
    /\ Init /\ [][Next]_vars
    /\ WF_vars(Handler) /\ WF_vars(Worker)
    /\ SF_vars(Evaluation) /\ SF_vars(PublishReady /\ persist.alert)
    /\ SF_vars(Poll) /\ SF_vars(BackoffEnds)

-----------------------------------------------------------------------------
(* No cascade is under way: what anyone but a handler can see.             *)
Quiet == calls = <<>>

TypeOK ==
    /\ control \in Control
    /\ persist \in Persist
    /\ Len(queue) <= QueueCapacity
    /\ Len(batch) <= BatchSize
    /\ ledger \in {"complete", "gap", "named"}

(* Both actors agree on the active persistence failures and on their       *)
(* incidents, however reports and recoveries were nested.                  *)
FailuresAgree ==
    Quiet /\ control.running /\ Active =>
        \A code \in Recoverable : control.failures[code] = persist.failures[code]

(* READY means that every audit record known to be lost is named by a      *)
(* recovery record that PostgreSQL holds, that no component failure is     *)
(* active and that resources are not critical.                             *)
ReadyIsEarned ==
    Quiet /\ control.state = "READY" =>
        /\ ledger # "gap"
        /\ Healthy(persist)
        /\ monitor = "NORMAL"

(* Nothing waits for a signal that will not come: once every prerequisite  *)
(* holds, whichever of them came last, the run is READY unless it ended.   *)
NoMissedReady ==
    /\ Quiet /\ control.evaluating /\ control.running
    /\ Active /\ Healthy(persist) /\ monitor = "NORMAL"
    => control.state \in {"READY", "FAILED"}

(* A loss known before the first READY prevents the run from becoming      *)
(* ready, when the policy says that it fails the startup.                  *)
StartupLossIsFatal ==
    /\ Quiet /\ StartupTarget = "FAILED"
    /\ ledger # "complete" /\ ~control.readyOnce
    => control.state \in Ended

Disturbance ==
    \/ SignalAudited \/ FirstSample \/ ResourceChanges \/ MonitorFaults
    \/ Settle(FALSE)

(* When other actors and the database leave the run alone, recovery        *)
(* completes by itself and the run is READY again unless it has failed or  *)
(* its resources still prevent it.                                         *)
RecoversWhenCalm ==
    <>[][~Disturbance]_vars /\ <>[](Active /\ control.running) =>
    <>[](/\ \A code \in Recoverable : persist.failures[code] = NoIncident
         /\ \/ control.state \in {"READY", "FAILED"}
            \/ monitor # "NORMAL")
=============================================================================
