------------------------ MODULE OperationalHealth_proofs ------------------------
(* The agreement of System Control and the persistence actor on what has    *)
(* failed, for any configuration, any audited signals and failures of the   *)
(* database at any moment.                                                  *)
EXTENDS OperationalHealth, FunctionTheorems, FiniteSetTheorems, SequenceTheorems, TLAPS

-----------------------------------------------------------------------------
(***************************************************************************)
(* The inductive invariant.  Stack is the set of the calls still to be     *)
(* made; every property speaks of the moment when it is empty, and the     *)
(* invariant says what each call in it still has to bring about.           *)
(***************************************************************************)
Ops == {"failure", "recovery", "ready", "monitor", "resource", "evaluate",
        "audit", "drain", "recover", "report", "announce", "close"}
AllCalls == [op : Ops,
             key : Keys \cup {"none", "normal", "critical", "NORMAL", "CRITICAL", "STALE"},
             incident : Incidents \cup {NoIncident}]

Stack == {calls[i] : i \in DOMAIN calls}

(* What holds while a call waits.                                          *)
Due(c) ==
    /\ c.op = "failure" =>
          /\ c.key \in {"write", "admission", "timeout", "connection", "monitor"}
          /\ c.incident \in Incidents
          /\ c.key # "monitor" => c.incident = persist.failures[c.key]
          /\ c.key \in {"timeout", "connection"} => persist.phase = "stopped"
          /\ c.key = "monitor" => monitor = "FAULT"
    /\ c.op = "recovery" =>
          /\ c.key \in Recoverable /\ c.incident \in Incidents
          /\ persist.failures[c.key] = NoIncident
          /\ control.running => control.failures[c.key] = c.incident
    /\ c.op = "ready" => Active
    /\ c.op = "monitor" => c.key = monitor /\ monitor \in {"NORMAL", "CRITICAL"}
    /\ c.op = "resource" =>
          /\ c.key = monitor /\ monitor \in {"NORMAL", "CRITICAL", "STALE"}
          /\ monitor = "NORMAL" => control.monitorReady \/ control.state \in Ended
    /\ c.op = "report" =>
          /\ c.key \in {"write", "timeout", "connection"}
          /\ c.key # "write" => persist.phase = "stopped"
    /\ c.op = "recover" => c.key \in Recoverable
    /\ c.op = "close" => persist.phase = "stopped"
    /\ c.op \notin {"failure", "recovery"} => c.incident = NoIncident

(* A drain is made when everything above it has returned, and a recovery   *)
(* at once.                                                                *)
StackKept ==
    /\ calls \in Seq(AllCalls)
    /\ \A i \in DOMAIN calls : /\ calls[i].op = "drain" => i = Len(calls)
                               /\ calls[i].op = "recovery" => i = 1
    /\ \A c \in Stack : Due(c)

Awaits(op, key) == \E c \in Stack : c.op = op /\ c.key = key

ControlKept ==
    /\ control \in Control
    /\ control.state = "READY" => GatesOpen(control)
    /\ ~control.running => control.state \in Ended
    /\ control.running => control.state # "STOPPING"
    /\ control.evaluating \/ control.released => control.persistenceReady
    /\ control.running /\ control.persistenceReady => Active
    /\ control.running /\ GatesOpen(control) =>
          control.state \in {"READY", "FAILED"} \/ \E c \in Stack : c.op = "evaluate"
    /\ \A key \in Keys : control.failures[key] # NoIncident =>
          /\ key \in {"write", "admission", "timeout", "connection", "monitor"}
          /\ key \in {"timeout", "connection"} => persist.phase = "stopped"
          /\ key = "monitor" => monitor = "FAULT"

AgreeKept ==
    control.running =>
        \A code \in Recoverable :
            \/ control.failures[code] = persist.failures[code]
            \/ Awaits("failure", code) \/ Awaits("recovery", code)

MonitorKept ==
    /\ monitor \in {"silent", "NORMAL", "CRITICAL", "STALE", "FAULT"}
    /\ monitor \in {"silent", "STALE"} => ~control.monitorReady
    /\ monitor = "silent" => control.resource = "NORMAL"
    /\ control.state \notin Ended =>
          /\ monitor \in {"NORMAL", "CRITICAL"} =>
                /\ control.monitorReady \/ Awaits("monitor", monitor)
                /\ control.resource = monitor \/ Awaits("resource", monitor)
          /\ monitor = "STALE" => Awaits("resource", "STALE")
          /\ monitor = "FAULT" => \/ control.failures["monitor"] # NoIncident
                                  \/ Awaits("failure", "monitor")

PersistKept ==
    /\ persist \in Persist
    /\ \A key \in Keys : persist.failures[key] # NoIncident =>
          /\ key \in {"write", "admission", "timeout", "connection"}
          /\ key \in {"timeout", "connection"} => persist.phase = "stopped"
    /\ \A code \in Recoverable :
          persist.recovery[code].current => persist.recovery[code].incident # NoIncident

(* A recovery record is in flight in at most one place, and only while the *)
(* actor knows of it.                                                      *)
Times(items, code) == {i \in DOMAIN items : items[i] = code}
Answers(code) == {i \in DOMAIN results : results[i].item = code}
Alone(places) == \A i, j \in places : i = j

FlightKept ==
    /\ queue \in Seq({"event"} \cup Recoverable) /\ batch \in Seq({"event"} \cup Recoverable)
    /\ results \in Seq([item : {"event"} \cup Recoverable, stored : BOOLEAN])
    /\ \A i \in DOMAIN results : results[i].stored => results[i].item \in Recoverable
    /\ \A code \in Recoverable :
          /\ Alone(Times(queue, code)) /\ Alone(Times(batch, code)) /\ Alone(Answers(code))
          /\ Times(queue, code) = {} \/ (Times(batch, code) = {} /\ Answers(code) = {})
          /\ Times(batch, code) = {} \/ Answers(code) = {}
          /\ persist.recovery[code].incident = NoIncident =>
                Times(queue, code) = {} /\ Times(batch, code) = {} /\ Answers(code) = {}

Alarmed ==
    \/ control.state \in Ended \/ control.readyOnce
    \/ \E code \in Recoverable : Awaits("failure", code)

(* A loss that no stored record names keeps a failure open; and a failure  *)
(* before the first READY has ended the run or is about to.                *)
LedgerKept ==
    /\ ledger \in {"complete", "gap", "named"}
    /\ persist.phase = "new" =>
          ledger = "complete" /\ queue = <<>> /\ batch = <<>> /\ results = <<>>
    /\ \A i \in DOMAIN results :
          results[i].stored /\ results[i].item \in Recoverable
          /\ persist.recovery[results[i].item].current => ledger # "gap"
    /\ ledger = "gap" /\ Active =>
          \/ \E code \in Recoverable : persist.failures[code] # NoIncident
          \/ Awaits("report", "write")
    /\ ledger = "complete" =>
          /\ \A code \in Recoverable : /\ persist.failures[code] = NoIncident
                                       /\ persist.recovery[code].incident = NoIncident
          /\ ~Awaits("report", "write")
    /\ StartupTarget = "FAILED" =>
          /\ \A code \in Recoverable : persist.failures[code] # NoIncident => Alarmed
          /\ ledger # "complete" => Alarmed \/ Awaits("report", "write")

HInv ==
    /\ StackKept /\ ControlKept /\ AgreeKept /\ MonitorKept
    /\ PersistKept /\ FlightKept /\ LedgerKept

-----------------------------------------------------------------------------
(* The stack.                                                              *)

(* The calls below the one on top.                                         *)
Under == {calls[i] : i \in 2..Len(calls)}

LEMMA HealthConstants ==
    /\ {"write", "admission", "timeout", "connection", "monitor"} \subseteq Keys
    /\ Recoverable = {"write", "admission"} /\ Recoverable \subseteq Keys
    /\ NoIncident \notin Incidents
    /\ StartupTarget \in {"DEGRADED", "FAILED"} /\ RunningTarget \in {"DEGRADED", "FAILED"}
    /\ QueueCapacity \in Nat \ {0} /\ BatchSize \in 1..QueueCapacity
BY HealthAssumption, ControlAssumption DEF Recoverable

LEMMA TopOfStack ==
    ASSUME StackKept, calls # <<>>
    PROVE  /\ Head(calls) \in AllCalls /\ Head(calls) \in Stack /\ Due(Head(calls))
           /\ Stack = {Head(calls)} \cup Under
           /\ \A c \in Under : c.op # "recovery" /\ Due(c) /\ c \in AllCalls
           /\ Head(calls).op = "drain" => Under = {} /\ Len(calls) = 1
           /\ Tail(calls) \in Seq(AllCalls) /\ Len(Tail(calls)) = Len(calls) - 1
           /\ Len(calls) \in Nat \ {0}
           /\ \A i \in 1..Len(calls) - 1 : Tail(calls)[i] = calls[i + 1]
<1>1. calls \in Seq(AllCalls) /\ Len(calls) \in Nat \ {0} /\ DOMAIN calls = 1..Len(calls)
  BY EmptySeq DEF StackKept
<1>2. /\ Head(calls) = calls[1]
      /\ Tail(calls) \in Seq(AllCalls) /\ Len(Tail(calls)) = Len(calls) - 1
      /\ \A i \in 1..Len(calls) - 1 : Tail(calls)[i] = calls[i + 1]
  BY <1>1, HeadTailProperties
<1>3. 1 \in DOMAIN calls /\ DOMAIN calls = {1} \cup 2..Len(calls)
  BY <1>1
<1>4. Stack = {Head(calls)} \cup Under
  BY <1>2, <1>3 DEF Stack, Under
<1>5. ASSUME NEW c \in Under PROVE c.op # "recovery" /\ Due(c) /\ c \in AllCalls
  <2>1. PICK i \in 2..Len(calls) : c = calls[i]
    BY DEF Under
  <2>2. i \in DOMAIN calls /\ i # 1
    BY <1>3, <2>1
  <2>3. QED BY <1>1, <1>4, <2>1, <2>2 DEF StackKept
<1>6. ASSUME Head(calls).op = "drain" PROVE Under = {} /\ Len(calls) = 1
  <2>1. Len(calls) = 1
    BY <1>1, <1>2, <1>3, <1>6 DEF StackKept
  <2>2. QED BY <2>1 DEF Under
<1>7. QED BY <1>1, <1>2, <1>3, <1>4, <1>5, <1>6 DEF StackKept

Placed(s) ==
    \A i \in DOMAIN s : /\ s[i].op = "drain" => i = Len(s)
                        /\ s[i].op = "recovery" => i = 1

(* A handler replaces its own call by others.                              *)
LEMMA Replaced ==
    ASSUME StackKept, calls # <<>>, NEW inner \in Seq(AllCalls), calls' = inner \o Tail(calls),
           Placed(inner),
           Head(calls).op = "drain" \/ \A i \in DOMAIN inner : inner[i].op # "drain"
    PROVE  /\ calls' \in Seq(AllCalls) /\ Placed(calls')
           /\ Stack' = {inner[i] : i \in DOMAIN inner} \cup Under
<1> DEFINE t == Tail(calls)
           n == Len(inner)
           m == Len(t)
<1>1. /\ t \in Seq(AllCalls) /\ m = Len(calls) - 1 /\ Len(calls) \in Nat \ {0}
      /\ \A i \in 1..m : t[i] = calls[i + 1]
  BY TopOfStack
<1>2. /\ calls' \in Seq(AllCalls) /\ Len(calls') = n + m /\ n \in Nat /\ m \in Nat
      /\ \A i \in 1..n + m : calls'[i] = IF i <= n THEN inner[i] ELSE t[i - n]
      /\ DOMAIN calls' = 1..n + m /\ DOMAIN inner = 1..n
  BY <1>1, ConcatProperties
<1> HIDE DEF t, n, m
<1>3. ASSUME NEW i \in 1..n + m
      PROVE  \/ i \in 1..n /\ calls'[i] = inner[i]
             \/ i - n \in 1..m /\ i - n + 1 \in 2..Len(calls) /\ calls'[i] = calls[i - n + 1]
  <2>1. CASE i <= n
    BY <1>2, <2>1
  <2>2. CASE ~(i <= n)
    <3>1. i - n \in 1..m /\ i - n + 1 \in 2..Len(calls)
      BY <1>1, <1>2, <2>2
    <3>2. QED BY <1>1, <1>2, <2>2, <3>1
  <2>3. QED BY <2>1, <2>2
<1>4. ASSUME NEW i \in DOMAIN calls'
      PROVE  /\ calls'[i].op = "drain" => i = Len(calls')
             /\ calls'[i].op = "recovery" => i = 1
  <2>1. CASE i \in 1..n /\ calls'[i] = inner[i]
    <3>1. Head(calls).op = "drain" => m = 0
      BY <1>1, TopOfStack
    <3>2. QED BY <1>2, <2>1, <3>1 DEF Placed
  <2>2. CASE i - n \in 1..m /\ i - n + 1 \in 2..Len(calls) /\ calls'[i] = calls[i - n + 1]
    <3>1. i - n + 1 \in DOMAIN calls /\ i - n + 1 # 1
      BY <1>1, <1>2, <2>2 DEF StackKept
    <3>2. calls[i - n + 1].op = "drain" => i - n + 1 = Len(calls)
      BY <3>1 DEF StackKept
    <3>3. calls[i - n + 1].op # "recovery"
      BY <3>1 DEF StackKept
    <3>4. QED BY <1>1, <1>2, <2>2, <3>2, <3>3
  <2>3. QED BY <1>2, <1>3, <2>1, <2>2
<1>5. Stack' \subseteq {inner[i] : i \in DOMAIN inner} \cup Under
  <2>1. Stack' = {calls'[i] : i \in 1..n + m}
    BY <1>2 DEF Stack
  <2> SUFFICES ASSUME NEW i \in 1..n + m PROVE calls'[i] \in {inner[j] : j \in 1..n} \cup Under
    BY <1>2, <2>1
  <2>2. CASE i \in 1..n /\ calls'[i] = inner[i]
    BY <2>2
  <2>3. CASE i - n + 1 \in 2..Len(calls) /\ calls'[i] = calls[i - n + 1]
    BY <2>3 DEF Under
  <2>4. QED BY <1>3, <2>2, <2>3
<1>6. {inner[i] : i \in DOMAIN inner} \subseteq Stack'
  <2> SUFFICES ASSUME NEW i \in 1..n PROVE inner[i] \in Stack'
    BY <1>2
  <2>1. i \in 1..n + m /\ calls'[i] = inner[i]
    BY <1>2
  <2>2. QED BY <1>2, <2>1 DEF Stack
<1>7. Under \subseteq Stack'
  <2> SUFFICES ASSUME NEW j \in 2..Len(calls) PROVE calls[j] \in Stack'
    BY DEF Under
  <2>1. /\ n + (j - 1) \in 1..n + m /\ ~(n + (j - 1) <= n) /\ n + (j - 1) - n = j - 1
        /\ j - 1 \in 1..m /\ j - 1 + 1 = j
    BY <1>1, <1>2
  <2>2. calls'[n + (j - 1)] = calls[j]
    BY <1>1, <1>2, <2>1
  <2>3. QED BY <1>2, <2>1, <2>2 DEF Stack
<1>8. QED BY <1>2, <1>4, <1>5, <1>6, <1>7 DEF Placed

-----------------------------------------------------------------------------
(* System Control's transitions.                                           *)

(* Everything but the state and readyOnce.                                 *)
SameBut(c, d) ==
    /\ d.running = c.running /\ d.released = c.released /\ d.evaluating = c.evaluating
    /\ d.persistenceReady = c.persistenceReady /\ d.monitorReady = c.monitorReady
    /\ d.resource = c.resource /\ d.failures = c.failures

LEMMA ControlFields ==
    ASSUME NEW c \in Control
    PROVE  /\ c.running \in BOOLEAN /\ c.state \in States /\ c.released \in BOOLEAN
           /\ c.evaluating \in BOOLEAN /\ c.persistenceReady \in BOOLEAN
           /\ c.monitorReady \in BOOLEAN /\ c.resource \in {"NORMAL", "CRITICAL"}
           /\ c.failures \in [Keys -> Incidents \cup {NoIncident}] /\ c.readyOnce \in BOOLEAN
BY DEF Control

LEMMA TargetAllowed ==
    ASSUME NEW state \in States, NEW target, target = state \/ target \in Allowed(state)
    PROVE  /\ target \in States
           /\ state \in Ended => target \in Ended
           /\ state = "STOPPING" => target = "STOPPING"
BY DEF States, Ended, Allowed

LEMMA Becomes ==
    ASSUME NEW c \in Control, NEW target, Become(c, target)
    PROVE  /\ control' \in Control /\ SameBut(c, control') /\ control'.state = target
           /\ target \in States
           /\ c.state \in Ended => target \in Ended
           /\ c.readyOnce => control'.readyOnce
           /\ target = "READY" /\ c.state # "READY" => control'.readyOnce
<1>1. c.state \in States
  BY ControlFields
<1>2. /\ target = c.state \/ target \in Allowed(c.state)
      /\ control' = [c EXCEPT !.state = target,
                              !.readyOnce = @ \/ (target # c.state /\ target = "READY")]
  BY DEF Become
<1>3. target \in States /\ (c.state \in Ended => target \in Ended)
  BY <1>1, <1>2, TargetAllowed
<1>4. PICK once \in BOOLEAN : /\ control' = [c EXCEPT !.state = target, !.readyOnce = once]
                              /\ once <=> c.readyOnce \/ (target # c.state /\ target = "READY")
  <2> DEFINE once == c.readyOnce \/ (target # c.state /\ target = "READY")
  <2>1. once \in BOOLEAN
    OBVIOUS
  <2>2. QED BY <1>2, <2>1, Zenon
<1>5. control' \in Control /\ SameBut(c, control') /\ control'.state = target
      /\ control'.readyOnce = once
  BY <1>3, <1>4 DEF Control, SameBut
<1>6. QED BY <1>3, <1>4, <1>5

LEMMA SetFailure ==
    ASSUME NEW c \in Control, NEW key \in Keys, NEW value \in Incidents \cup {NoIncident},
           NEW d, d = [c EXCEPT !.failures[key] = value]
    PROVE  /\ d \in Control
           /\ d.running = c.running /\ d.released = c.released /\ d.evaluating = c.evaluating
           /\ d.persistenceReady = c.persistenceReady /\ d.monitorReady = c.monitorReady
           /\ d.resource = c.resource /\ d.state = c.state /\ d.readyOnce = c.readyOnce
           /\ d.failures[key] = value
           /\ \A other \in Keys \ {key} : d.failures[other] = c.failures[other]
BY DEF Control

(* The persistence actor's attributes.                                     *)
LEMMA PersistFields ==
    ASSUME NEW p \in Persist
    PROVE  /\ p.phase \in {"new", "active", "stopped"}
           /\ p.failures \in [Keys -> Incidents \cup {NoIncident}]
           /\ p.recovery \in [Recoverable -> [incident : Incidents \cup {NoIncident},
                                              current : BOOLEAN]]
           /\ p.backoff \in BOOLEAN /\ p.announced \in BOOLEAN /\ p.alert \in BOOLEAN
BY DEF Persist

-----------------------------------------------------------------------------
(* What every handler keeps.                                               *)

LEMMA StackStep ==
    ASSUME StackKept, calls # <<>>, NEW inner \in Seq(AllCalls), calls' = inner \o Tail(calls),
           Placed(inner),
           Head(calls).op = "drain" \/ \A i \in DOMAIN inner : inner[i].op # "drain",
           control.monitorReady => control'.monitorReady,
           control.state \in Ended => control'.state \in Ended,
           persist'.phase = persist.phase, monitor' = monitor,
           Under # {} =>
               \A key \in Keys : persist.failures[key] # NoIncident =>
                   persist'.failures[key] = persist.failures[key],
           \A i \in DOMAIN inner : Due(inner[i])'
    PROVE  StackKept' /\ Stack' = {inner[i] : i \in DOMAIN inner} \cup Under
<1>1. /\ calls' \in Seq(AllCalls) /\ Placed(calls')
      /\ Stack' = {inner[i] : i \in DOMAIN inner} \cup Under
  BY Replaced
<1>2. ASSUME NEW c \in Under PROVE Due(c)'
  <2>1. c.op # "recovery" /\ Due(c)
    BY <1>2, TopOfStack
  <2>2. c.op = "failure" => persist'.failures[c.key] = persist.failures[c.key] \/ c.key = "monitor"
    BY <1>2, <2>1, HealthConstants DEF Due
  <2>3. QED BY <2>1, <2>2 DEF Due, Active
<1>3. ASSUME NEW c \in Stack' PROVE Due(c)'
  BY <1>1, <1>2, <1>3
<1>4. QED BY <1>1, <1>3 DEF StackKept, Placed

(* What waits below the call on top waits on.                              *)
LEMMA Waiting ==
    ASSUME StackKept, calls # <<>>, Under \subseteq Stack'
    PROVE  /\ \A op, key : Awaits(op, key) /\ ~(Head(calls).op = op /\ Head(calls).key = key)
                  => Awaits(op, key)'
           /\ Head(calls).op # "evaluate" /\ (\E c \in Stack : c.op = "evaluate")
                  => (\E c \in Stack : c.op = "evaluate")'
<1>1. Stack = {Head(calls)} \cup Under
  BY TopOfStack
<1>2. ASSUME NEW op, NEW key, Awaits(op, key), ~(Head(calls).op = op /\ Head(calls).key = key)
      PROVE  Awaits(op, key)'
  <2>1. PICK c \in Under : c.op = op /\ c.key = key
    BY <1>1, <1>2 DEF Awaits
  <2>2. QED BY <2>1 DEF Awaits
<1>3. ASSUME Head(calls).op # "evaluate", \E c \in Stack : c.op = "evaluate"
      PROVE  (\E c \in Stack : c.op = "evaluate")'
  BY <1>1, <1>3
<1>4. QED BY <1>2, <1>3

LEMMA CriticalAudit == Audit("critical") \in AllCalls /\ Audit("critical").op = "audit"
BY DEF Audit, Call, AllCalls, Ops

LEMMA SameFlight ==
    ASSUME FlightKept, queue' = queue, batch' = batch, results' = results,
           \A code \in Recoverable : persist'.recovery[code].incident = persist.recovery[code].incident
    PROVE  FlightKept'
<1>1. \A code : /\ Times(queue, code)' = Times(queue, code) /\ Times(batch, code)' = Times(batch, code)
                /\ Answers(code)' = Answers(code)
  BY DEF Times, Answers
<1>2. ASSUME NEW code \in Recoverable
      PROVE  (/\ Alone(Times(queue, code)) /\ Alone(Times(batch, code)) /\ Alone(Answers(code))
              /\ Times(queue, code) = {} \/ (Times(batch, code) = {} /\ Answers(code) = {})
              /\ Times(batch, code) = {} \/ Answers(code) = {}
              /\ persist.recovery[code].incident = NoIncident =>
                    Times(queue, code) = {} /\ Times(batch, code) = {} /\ Answers(code) = {})'
  BY <1>1, <1>2 DEF FlightKept, Alone
<1>3. QED BY <1>2 DEF FlightKept

(* The handlers of System Control make no call but an audited signal.      *)
LEMMA ControlFrame ==
    ASSUME HInv, calls # <<>>, Head(calls).op \notin {"drain", "report"},
           Return(<<>>) \/ Return(<<Audit("critical")>>),
           UNCHANGED <<persist, queue, batch, results, ledger, monitor>>,
           control.monitorReady => control'.monitorReady,
           control.state \in Ended => control'.state \in Ended
    PROVE  /\ StackKept' /\ PersistKept' /\ FlightKept' /\ Under \subseteq Stack'
           /\ Stack = {Head(calls)} \cup Under
           /\ (StartupTarget = "FAILED" /\ Alarmed => Alarmed') => LedgerKept'
           /\ Head(calls).op # "failure" /\ (control.readyOnce => control'.readyOnce) => LedgerKept'
<1>1. persist' = persist /\ queue' = queue /\ batch' = batch /\ results' = results
      /\ ledger' = ledger /\ monitor' = monitor
  OBVIOUS
<1>2. PICK inner \in {<<>>, <<Audit("critical")>>} : calls' = inner \o Tail(calls)
  BY DEF Return
<1>3. /\ inner \in Seq(AllCalls)
      /\ \A i \in DOMAIN inner : inner[i] = Audit("critical")
  <2>1. CASE inner = <<>>
    BY <2>1
  <2>2. CASE inner = <<Audit("critical")>>
    BY <2>2, CriticalAudit
  <2>3. QED BY <2>1, <2>2
<1>4. /\ Placed(inner) /\ \A i \in DOMAIN inner : inner[i].op # "drain" /\ Due(inner[i])'
  BY <1>3, CriticalAudit DEF Placed, Due, Audit, Call
<1>5. StackKept' /\ Stack' = {inner[i] : i \in DOMAIN inner} \cup Under
  <2>1. StackKept
    BY DEF HInv
  <2>2. QED BY <1>1, <1>2, <1>3, <1>4, <2>1, StackStep
<1>6. Under \subseteq Stack' /\ \A c \in Stack' : c \in Under \/ c.op = "audit"
  BY <1>3, <1>5, CriticalAudit
<1>7. Stack = {Head(calls)} \cup Under
  BY TopOfStack DEF HInv
<1>8. PersistKept'
  BY <1>1 DEF HInv, PersistKept
<1>9. FlightKept'
  <2>1. FlightKept
    BY DEF HInv
  <2>2. QED BY <1>1, <2>1, SameFlight
<1>10. Awaits("report", "write")' <=> Awaits("report", "write")
  BY <1>6, <1>7 DEF Awaits
<1>11. ASSUME StartupTarget = "FAILED" /\ Alarmed => Alarmed' PROVE LedgerKept'
  BY <1>1, <1>10, <1>11 DEF HInv, LedgerKept, Active
<1>12. ASSUME Head(calls).op # "failure", control.readyOnce => control'.readyOnce
       PROVE  Alarmed => Alarmed'
  <2>1. \A op, key : Awaits(op, key) /\ ~(Head(calls).op = op /\ Head(calls).key = key)
            => Awaits(op, key)'
    BY <1>6, Waiting DEF HInv
  <2>2. QED BY <1>12, <2>1 DEF Alarmed
<1>13. QED BY <1>5, <1>6, <1>7, <1>8, <1>9, <1>11, <1>12

-----------------------------------------------------------------------------
(* System Control's handlers.                                              *)

Untouched == UNCHANGED <<persist, queue, batch, results, ledger, monitor>>

(* A call that comes too late, or twice, may be ignored.                   *)
LEMMA Ignored ==
    ASSUME HInv, calls # <<>>, Ignore, Untouched,
           Head(calls).op \notin {"drain", "report", "evaluate"},
           \/ ~control.running
           \/ control.state \in Ended /\ Head(calls).op \notin {"failure", "recovery"}
           \/ Head(calls).op = "monitor" /\ control.monitorReady
    PROVE  HInv'
<1>1. control' = control /\ monitor' = monitor /\ persist' = persist
  BY DEF Ignore, Untouched
<1>2. /\ StackKept' /\ PersistKept' /\ FlightKept' /\ Under \subseteq Stack'
      /\ Head(calls).op # "failure" => LedgerKept'
      /\ (StartupTarget = "FAILED" /\ Alarmed => Alarmed') => LedgerKept'
  BY <1>1, ControlFrame DEF Ignore, Untouched
<1>3. /\ \A op, key : Awaits(op, key) /\ ~(Head(calls).op = op /\ Head(calls).key = key)
             => Awaits(op, key)'
      /\ (\E c \in Stack : c.op = "evaluate") => (\E c \in Stack : c.op = "evaluate")'
  BY <1>2, Waiting DEF HInv
<1>4. ~control.running => control.state \in Ended
  BY DEF HInv, ControlKept
<1>5. ControlKept'
  BY <1>1, <1>3 DEF HInv, ControlKept, GatesOpen, Unfailed, Active
<1>6. AgreeKept'
  BY <1>1, <1>3 DEF HInv, AgreeKept
<1>7. MonitorKept'
  BY <1>1, <1>3, <1>4 DEF HInv, MonitorKept
<1>8. LedgerKept'
  <2>1. CASE Head(calls).op = "failure"
    BY <1>1, <1>2, <1>4, <2>1 DEF Alarmed
  <2>2. QED BY <1>2, <2>1
<1>9. QED BY <1>2, <1>5, <1>6, <1>7, <1>8 DEF HInv

LEMMA PersistenceReadyKeeps ==
    ASSUME HInv, OnPersistenceReady, Untouched
    PROVE  HInv'
<1>1. calls # <<>> /\ Head(calls).op = "ready"
  BY DEF OnPersistenceReady, Handles
<1>2. CASE Unsubscribed \/ control.state \in Ended
  BY <1>1, <1>2, Ignored DEF OnPersistenceReady, Unsubscribed
<1>3. CASE ~(Unsubscribed \/ control.state \in Ended)
  <2>1. control \in Control
    BY DEF HInv, ControlKept
  <2>2. control' = [control EXCEPT !.persistenceReady = TRUE, !.released = TRUE]
        /\ Return(<<>>) /\ monitor' = monitor /\ persist' = persist
    BY <1>3 DEF OnPersistenceReady, Untouched
  <2>3. /\ control' \in Control /\ control'.running = control.running
        /\ control'.state = control.state /\ control'.evaluating = control.evaluating
        /\ control'.persistenceReady /\ control'.monitorReady = control.monitorReady
        /\ control'.resource = control.resource /\ control'.failures = control.failures
        /\ control'.readyOnce = control.readyOnce
    BY <2>1, <2>2 DEF Control
  <2>4. Active
    BY <1>1, TopOfStack DEF HInv, Due
  <2>5. /\ StackKept' /\ PersistKept' /\ FlightKept' /\ LedgerKept' /\ Under \subseteq Stack'
    BY <1>1, <2>2, <2>3, ControlFrame DEF Untouched
  <2>6. /\ \A op, key : Awaits(op, key) /\ op # "ready" => Awaits(op, key)'
        /\ (\E c \in Stack : c.op = "evaluate") => (\E c \in Stack : c.op = "evaluate")'
    BY <1>1, <2>5, Waiting DEF HInv
  <2>7. ControlKept'
    BY <2>2, <2>3, <2>4, <2>6 DEF HInv, ControlKept, GatesOpen, Unfailed, Active
  <2>8. AgreeKept'
    BY <2>2, <2>3, <2>6 DEF HInv, AgreeKept
  <2>9. MonitorKept'
    BY <2>2, <2>3, <2>6 DEF HInv, MonitorKept
  <2>10. QED BY <2>5, <2>7, <2>8, <2>9 DEF HInv
<1>4. QED BY <1>2, <1>3

LEMMA Publishes ==
    ASSUME NEW target, Return(Published(target))
    PROVE  Return(<<>>) \/ Return(<<Audit("critical")>>)
BY DEF Published

LEMMA FailureKeeps ==
    ASSUME HInv, OnComponentFailure, Untouched
    PROVE  HInv'
<1> DEFINE h == Head(calls)
<1>1. calls # <<>> /\ h.op = "failure"
  BY DEF OnComponentFailure, Handles
<1>2. CASE ~control.running
  BY <1>1, <1>2, Ignored DEF OnComponentFailure, Unsubscribed
<1>3. CASE control.running
  <2>1. control \in Control
    BY DEF HInv, ControlKept
  <2>2. Due(h)
    BY <1>1, TopOfStack DEF HInv
  <2>3. h.key \in Keys /\ h.incident \in Incidents
    BY <1>1, <2>2, HealthConstants DEF Due
  <2>4. PICK c : c = [control EXCEPT !.failures[h.key] = h.incident]
    OBVIOUS
  <2>5. /\ c \in Control /\ c.state = control.state /\ c.readyOnce = control.readyOnce
        /\ c.running = control.running /\ c.released = control.released
        /\ c.evaluating = control.evaluating /\ c.persistenceReady = control.persistenceReady
        /\ c.monitorReady = control.monitorReady /\ c.resource = control.resource
        /\ c.failures[h.key] = h.incident
        /\ \A other \in Keys \ {h.key} : c.failures[other] = control.failures[other]
    BY <2>1, <2>3, <2>4 DEF Control
  <2>6. PICK target : Become(c, target) /\ Return(Published(target)) /\ target = FailureTarget(c)
    BY <1>3, <2>4 DEF OnComponentFailure, Unsubscribed, MoveTo
  <2>7. /\ control' \in Control /\ SameBut(c, control') /\ control'.state = target
        /\ c.state \in Ended => target \in Ended
        /\ c.readyOnce => control'.readyOnce
    BY <2>5, <2>6, Becomes
  <2>8. /\ c.state \in Ended => target = c.state
        /\ c.state \notin Ended => target \in {"DEGRADED", "FAILED"}
        /\ c.state \notin Ended /\ ~c.readyOnce => target = StartupTarget
    BY <2>6, HealthConstants DEF FailureTarget
  <2>9. /\ control'.running = control.running /\ control'.released = control.released
        /\ control'.evaluating = control.evaluating
        /\ control'.persistenceReady = control.persistenceReady
        /\ control'.monitorReady = control.monitorReady /\ control'.resource = control.resource
        /\ control'.failures[h.key] = h.incident
        /\ \A other \in Keys \ {h.key} : control'.failures[other] = control.failures[other]
        /\ control.state \in Ended => control'.state = control.state
        /\ control.state \notin Ended => control'.state \in {"DEGRADED", "FAILED"}
        /\ control.state \notin Ended /\ ~control.readyOnce => control'.state = StartupTarget
        /\ control.readyOnce => control'.readyOnce
    BY <2>5, <2>7, <2>8 DEF SameBut
  <2>10. monitor' = monitor /\ persist' = persist
    BY DEF Untouched
  <2>11. /\ StackKept' /\ PersistKept' /\ FlightKept' /\ Under \subseteq Stack'
         /\ (StartupTarget = "FAILED" /\ Alarmed => Alarmed') => LedgerKept'
    BY <1>1, <2>6, <2>9, ControlFrame, Publishes DEF Untouched, Ended
  <2>12. /\ \A op, key : Awaits(op, key) /\ ~(op = "failure" /\ h.key = key) => Awaits(op, key)'
         /\ (\E c_1 \in Stack : c_1.op = "evaluate") => (\E c_1 \in Stack : c_1.op = "evaluate")'
    BY <1>1, <2>11, Waiting DEF HInv
  <2>13. ControlKept'
    <3>1. ~GatesOpen(control)' /\ control'.state # "READY"
      <4>1. control'.failures[h.key] # NoIncident
        BY <2>3, <2>9, HealthConstants
      <4>2. control'.state # "READY"
        BY <2>9 DEF Ended
      <4>3. QED BY <2>3, <4>1, <4>2 DEF GatesOpen, Unfailed
    <3>2. \A key \in Keys : control'.failures[key] # NoIncident =>
              /\ key \in {"write", "admission", "timeout", "connection", "monitor"}
              /\ key \in {"timeout", "connection"} => persist'.phase = "stopped"
              /\ key = "monitor" => monitor' = "FAULT"
      BY <1>1, <2>2, <2>9, <2>10 DEF HInv, ControlKept, Due
    <3>3. control'.state # "STOPPING"
      BY <1>3, <2>9 DEF HInv, ControlKept, Ended
    <3>4. QED BY <1>3, <2>7, <2>9, <2>10, <3>1, <3>2, <3>3 DEF HInv, ControlKept, Active
  <2>14. AgreeKept'
    <3> SUFFICES ASSUME NEW code \in Recoverable
                 PROVE  (control.failures[code] = persist.failures[code]
                         \/ Awaits("failure", code) \/ Awaits("recovery", code))'
      BY DEF AgreeKept
    <3>1. CASE code = h.key
      BY <1>1, <2>2, <2>9, <2>10, <3>1, HealthConstants DEF Due
    <3>2. CASE code # h.key
      BY <1>3, <2>9, <2>10, <2>12, <3>2, HealthConstants DEF HInv, AgreeKept
    <3>3. QED BY <3>1, <3>2
  <2>15. MonitorKept'
    <3>1. control.failures["monitor"] # NoIncident => control'.failures["monitor"] # NoIncident
      BY <2>3, <2>9, HealthConstants
    <3>2. Awaits("failure", "monitor")
              => control'.failures["monitor"] # NoIncident \/ Awaits("failure", "monitor")'
      BY <2>3, <2>9, <2>12, HealthConstants
    <3>3. control'.state \notin Ended => control.state \notin Ended
      BY <2>9
    <3>4. QED BY <2>9, <2>10, <2>12, <3>1, <3>2, <3>3 DEF HInv, MonitorKept
  <2>16. LedgerKept'
    <3>1. StartupTarget = "FAILED" => Alarmed'
      BY <2>9 DEF Alarmed, Ended
    <3>2. QED BY <2>11, <3>1
  <2>17. QED BY <2>11, <2>13, <2>14, <2>15, <2>16 DEF HInv
<1>4. QED BY <1>2, <1>3

(* _publish_ready_if_complete gives READY exactly when the gates open.     *)
LEMMA Evaluated ==
    ASSUME NEW c \in Control, Evaluate(c), c.state = "READY" => GatesOpen(c)
    PROVE  /\ control' \in Control /\ SameBut(c, control')
           /\ Return(<<>>) \/ Return(<<Audit("critical")>>)
           /\ control'.state = "READY" => GatesOpen(control)'
           /\ GatesOpen(control)' => control'.state = "READY" \/ control'.state \in Ended
           /\ c.state \in Ended <=> control'.state \in Ended
           /\ c.state \in Ended => control'.state = c.state
           /\ c.readyOnce => control'.readyOnce
<1>1. PICK target : /\ Become(c, target) /\ Return(Published(target))
                    /\ target = ReadyIfComplete(c)
  BY DEF Evaluate, MoveTo
<1>2. /\ control' \in Control /\ SameBut(c, control') /\ control'.state = target
      /\ c.state \in Ended => target \in Ended
      /\ c.readyOnce => control'.readyOnce
  BY <1>1, Becomes
<1>3. GatesOpen(control)' <=> GatesOpen(c)
  BY <1>2 DEF SameBut, GatesOpen, Unfailed
<1>4. /\ c.state \notin Ended /\ GatesOpen(c) => target = "READY"
      /\ ~(c.state \notin Ended /\ GatesOpen(c)) => target = c.state
  BY <1>1 DEF ReadyIfComplete
<1>5. QED BY <1>1, <1>2, <1>3, <1>4, Publishes DEF Ended

LEMMA RecoveryKeeps ==
    ASSUME HInv, OnComponentRecovery, Untouched
    PROVE  HInv'
<1> DEFINE h == Head(calls)
<1>1. calls # <<>> /\ h.op = "recovery"
  BY DEF OnComponentRecovery, Handles
<1>2. CASE ~control.running
  BY <1>1, <1>2, Ignored DEF OnComponentRecovery, Unsubscribed
<1>3. CASE control.running
  <2>1. control \in Control
    BY DEF HInv, ControlKept
  <2>2. Due(h)
    BY <1>1, TopOfStack DEF HInv
  <2>3. /\ h.key \in Recoverable /\ h.key \in Keys /\ h.incident \in Incidents
        /\ persist.failures[h.key] = NoIncident /\ control.failures[h.key] = h.incident
    BY <1>1, <1>3, <2>2, HealthConstants DEF Due
  <2>4. Matches(control, h)
    BY <2>3, HealthConstants DEF Matches
  <2>5. PICK c : c = [control EXCEPT !.failures[h.key] = NoIncident]
    OBVIOUS
  <2>6. /\ c \in Control /\ c.state = control.state /\ c.readyOnce = control.readyOnce
        /\ c.running = control.running /\ c.released = control.released
        /\ c.evaluating = control.evaluating /\ c.persistenceReady = control.persistenceReady
        /\ c.monitorReady = control.monitorReady /\ c.resource = control.resource
        /\ c.failures[h.key] = NoIncident
        /\ \A other \in Keys \ {h.key} : c.failures[other] = control.failures[other]
    BY <2>1, <2>3, <2>5 DEF Control
  <2>7. control.state # "READY"
    <3>1. ~GatesOpen(control)
      BY <2>3, HealthConstants DEF GatesOpen, Unfailed
    <3>2. QED BY <3>1 DEF HInv, ControlKept
  <2>8. \/ Evaluate(c)
        \/ ~Unfailed(c) /\ control' = c /\ Return(<<>>)
    BY <1>3, <2>4, <2>5 DEF OnComponentRecovery, Unsubscribed
  <2>9. /\ control' \in Control /\ SameBut(c, control')
        /\ Return(<<>>) \/ Return(<<Audit("critical")>>)
        /\ control'.state = "READY" => GatesOpen(control)'
        /\ GatesOpen(control)' => control'.state = "READY" \/ control'.state \in Ended
        /\ c.state \in Ended <=> control'.state \in Ended
        /\ c.state \in Ended => control'.state = c.state
        /\ c.readyOnce => control'.readyOnce
    <3>1. CASE Evaluate(c)
      BY <2>6, <2>7, <3>1, Evaluated
    <3>2. CASE ~Unfailed(c) /\ control' = c /\ Return(<<>>)
      BY <2>6, <2>7, <3>2 DEF SameBut, GatesOpen, Unfailed
    <3>3. QED BY <2>8, <3>1, <3>2
  <2>10. /\ control'.running = control.running /\ control'.released = control.released
         /\ control'.evaluating = control.evaluating
         /\ control'.persistenceReady = control.persistenceReady
         /\ control'.monitorReady = control.monitorReady /\ control'.resource = control.resource
         /\ control'.failures[h.key] = NoIncident
         /\ \A other \in Keys \ {h.key} : control'.failures[other] = control.failures[other]
         /\ control.state \in Ended => control'.state = control.state
         /\ control.state \notin Ended => control'.state \notin Ended
         /\ control.readyOnce => control'.readyOnce
    BY <2>6, <2>9 DEF SameBut
  <2>11. monitor' = monitor /\ persist' = persist
    BY DEF Untouched
  <2>12. /\ StackKept' /\ PersistKept' /\ FlightKept' /\ LedgerKept' /\ Under \subseteq Stack'
    BY <1>1, <2>9, <2>10, ControlFrame DEF Untouched
  <2>13. \A op, key : Awaits(op, key) /\ ~(op = "recovery" /\ h.key = key) => Awaits(op, key)'
    BY <1>1, <2>12, Waiting DEF HInv
  <2>14. ControlKept'
    <3>1. control'.state # "STOPPING" /\ (GatesOpen(control)' => control'.state \in {"READY", "FAILED"})
      BY <1>3, <2>9, <2>10 DEF HInv, ControlKept, Ended
    <3>2. \A key \in Keys : control'.failures[key] # NoIncident =>
              control'.failures[key] = control.failures[key]
      BY <2>10
    <3>3. QED BY <1>3, <2>9, <2>10, <2>11, <3>1, <3>2 DEF HInv, ControlKept, Active
  <2>15. AgreeKept'
    <3> SUFFICES ASSUME NEW code \in Recoverable
                 PROVE  (control.failures[code] = persist.failures[code]
                         \/ Awaits("failure", code) \/ Awaits("recovery", code))'
      BY DEF AgreeKept
    <3>1. CASE code = h.key
      BY <2>3, <2>10, <2>11, <3>1
    <3>2. CASE code # h.key
      BY <1>3, <2>10, <2>11, <2>13, <3>2, HealthConstants DEF HInv, AgreeKept
    <3>3. QED BY <3>1, <3>2
  <2>16. MonitorKept'
    <3>1. control'.failures["monitor"] = control.failures["monitor"]
      BY <2>3, <2>10, HealthConstants
    <3>2. control'.state \notin Ended => control.state \notin Ended
      BY <2>10
    <3>3. QED BY <2>10, <2>11, <2>13, <3>1, <3>2 DEF HInv, MonitorKept
  <2>17. QED BY <2>12, <2>14, <2>15, <2>16 DEF HInv
<1>4. QED BY <1>2, <1>3

LEMMA EvaluateKeeps ==
    ASSUME HInv, OnEvaluate, Untouched
    PROVE  HInv'
<1>1. calls # <<>> /\ Head(calls).op = "evaluate"
  BY DEF OnEvaluate, Handles
<1>2. control \in Control /\ (control.state = "READY" => GatesOpen(control))
  BY DEF HInv, ControlKept
<1>3. /\ control' \in Control /\ SameBut(control, control')
      /\ Return(<<>>) \/ Return(<<Audit("critical")>>)
      /\ control'.state = "READY" => GatesOpen(control)'
      /\ GatesOpen(control)' => control'.state = "READY" \/ control'.state \in Ended
      /\ control.state \in Ended <=> control'.state \in Ended
      /\ control.state \in Ended => control'.state = control.state
      /\ control.readyOnce => control'.readyOnce
  BY <1>2, Evaluated DEF OnEvaluate
<1>4. monitor' = monitor /\ persist' = persist
  BY DEF Untouched
<1>5. /\ control'.running = control.running /\ control'.released = control.released
      /\ control'.evaluating = control.evaluating
      /\ control'.persistenceReady = control.persistenceReady
      /\ control'.monitorReady = control.monitorReady /\ control'.resource = control.resource
      /\ control'.failures = control.failures
  BY <1>3 DEF SameBut
<1>6. /\ StackKept' /\ PersistKept' /\ FlightKept' /\ LedgerKept' /\ Under \subseteq Stack'
  BY <1>1, <1>3, <1>5, ControlFrame DEF Untouched
<1>7. \A op, key : Awaits(op, key) /\ op # "evaluate" => Awaits(op, key)'
  BY <1>1, <1>6, Waiting DEF HInv
<1>8. ControlKept'
  <2>1. control.running => /\ control'.state # "STOPPING"
                           /\ GatesOpen(control)' => control'.state \in {"READY", "FAILED"}
    BY <1>3, <1>5 DEF HInv, ControlKept, Ended
  <2>2. QED BY <1>3, <1>4, <1>5, <2>1 DEF HInv, ControlKept, Active
<1>9. AgreeKept'
  BY <1>4, <1>5, <1>7 DEF HInv, AgreeKept
<1>10. MonitorKept'
  BY <1>3, <1>4, <1>5, <1>7 DEF HInv, MonitorKept
<1>11. QED BY <1>6, <1>8, <1>9, <1>10 DEF HInv

(* A resource signal changes monitorReady, resource and the state only.    *)
ResourceMove ==
    /\ control' \in Control
    /\ control'.running = control.running /\ control'.released = control.released
    /\ control'.evaluating = control.evaluating
    /\ control'.persistenceReady = control.persistenceReady
    /\ control'.failures = control.failures
    /\ control.monitorReady => control'.monitorReady
    /\ control.readyOnce => control'.readyOnce
    /\ control'.state = "READY" => GatesOpen(control)'
    /\ GatesOpen(control)' =>
           \/ control'.state \in {"READY", "FAILED"}
           \/ GatesOpen(control) /\ control'.state = control.state
    /\ control'.state # "STOPPING"
    /\ monitor = "STALE" => control'.state \in Ended /\ ~control'.monitorReady
    /\ monitor \in {"NORMAL", "CRITICAL"} =>
           /\ \/ control'.monitorReady
              \/ Head(calls).op = "resource" /\ (~control.monitorReady => ~control'.monitorReady)
           /\ control'.resource = monitor

LEMMA ResourceMoves ==
    ASSUME HInv, calls # <<>>, Untouched, control.running, control.state \notin Ended,
           Head(calls).op \in {"monitor", "resource"}, Head(calls).key = monitor,
           Return(<<>>) \/ Return(<<Audit("critical")>>), ResourceMove
    PROVE  HInv'
<1> USE DEF ResourceMove
<1>1. monitor' = monitor /\ persist' = persist
  BY DEF Untouched
<1>2. /\ StackKept' /\ PersistKept' /\ FlightKept' /\ LedgerKept' /\ Under \subseteq Stack'
  BY ControlFrame DEF Untouched
<1>3. /\ \A op, key : Awaits(op, key) /\ op # Head(calls).op => Awaits(op, key)'
      /\ (\E c \in Stack : c.op = "evaluate") => (\E c \in Stack : c.op = "evaluate")'
  BY <1>2, Waiting DEF HInv
<1>4. ControlKept'
  BY <1>1, <1>3 DEF HInv, ControlKept, Active
<1>5. AgreeKept'
  BY <1>1, <1>3 DEF HInv, AgreeKept
<1>6. MonitorKept'
  <2>1. monitor \in {"NORMAL", "CRITICAL", "STALE", "FAULT"}
    <3>1. Due(Head(calls))
      BY TopOfStack DEF HInv
    <3>2. QED BY <3>1 DEF Due
  <2>2. CASE monitor = "STALE"
    BY <1>1, <2>2 DEF MonitorKept
  <2>3. CASE monitor = "FAULT"
    BY <1>1, <1>3, <2>3 DEF HInv, MonitorKept
  <2>4. CASE monitor \in {"NORMAL", "CRITICAL"}
    <3>1. control'.monitorReady \/ Awaits("monitor", monitor)'
      <4>1. control.monitorReady \/ Awaits("monitor", monitor)
        BY <2>4 DEF HInv, MonitorKept
      <4>2. CASE Head(calls).op = "resource" /\ Awaits("monitor", monitor)
        BY <1>1, <1>3, <4>2
      <4>3. QED BY <2>4, <4>1, <4>2
    <3>2. QED BY <1>1, <2>4, <3>1 DEF MonitorKept
  <2>5. QED BY <2>1, <2>2, <2>3, <2>4
<1>7. QED BY <1>2, <1>4, <1>5, <1>6 DEF HInv

LEMMA MonitorReadyKeeps ==
    ASSUME HInv, OnMonitorReady, Untouched
    PROVE  HInv'
<1> DEFINE h == Head(calls)
<1>1. calls # <<>> /\ h.op = "monitor"
  BY DEF OnMonitorReady, Handles
<1>2. CASE Unsubscribed \/ control.state \in Ended \/ control.monitorReady
  BY <1>1, <1>2, Ignored DEF OnMonitorReady, Unsubscribed
<1>3. CASE ~(Unsubscribed \/ control.state \in Ended \/ control.monitorReady)
  <2>1. control \in Control /\ control.running /\ control.state \notin Ended
        /\ control.state # "READY"
    BY <1>3 DEF HInv, ControlKept, Unsubscribed, GatesOpen
  <2>2. h.key = monitor /\ monitor \in {"NORMAL", "CRITICAL"}
    BY <1>1, TopOfStack DEF HInv, Due
  <2>3. PICK c : c = [control EXCEPT !.monitorReady = TRUE, !.resource = h.key]
    OBVIOUS
  <2>4. /\ c \in Control /\ c.state = control.state /\ c.readyOnce = control.readyOnce
        /\ c.running = control.running /\ c.released = control.released
        /\ c.evaluating = control.evaluating /\ c.persistenceReady = control.persistenceReady
        /\ c.monitorReady /\ c.resource = h.key /\ c.failures = control.failures
    BY <2>1, <2>2, <2>3 DEF Control
  <2>5. \/ h.key = "CRITICAL" /\ MoveTo(c, "DEGRADED")
        \/ h.key # "CRITICAL" /\ Evaluate(c)
    BY <1>3, <2>3 DEF OnMonitorReady
  <2>6. CASE h.key = "CRITICAL" /\ MoveTo(c, "DEGRADED")
    <3>1. /\ control' \in Control /\ SameBut(c, control') /\ control'.state = "DEGRADED"
          /\ c.readyOnce => control'.readyOnce
          /\ Return(<<>>) \/ Return(<<Audit("critical")>>)
      BY <2>4, <2>6, Becomes, Publishes DEF MoveTo
    <3>2. ~GatesOpen(control)'
      BY <2>4, <2>6, <3>1 DEF SameBut, GatesOpen
    <3>3. ResourceMove
      BY <2>2, <2>4, <2>6, <3>1, <3>2 DEF SameBut, ResourceMove
    <3>4. QED BY <1>1, <2>1, <2>2, <3>1, <3>3, ResourceMoves
  <2>7. CASE h.key # "CRITICAL" /\ Evaluate(c)
    <3>1. /\ control' \in Control /\ SameBut(c, control')
          /\ Return(<<>>) \/ Return(<<Audit("critical")>>)
          /\ control'.state = "READY" => GatesOpen(control)'
          /\ GatesOpen(control)' => control'.state = "READY" \/ control'.state \in Ended
          /\ c.state \in Ended <=> control'.state \in Ended
          /\ c.readyOnce => control'.readyOnce
      BY <2>1, <2>4, <2>7, Evaluated
    <3>2. control'.state # "STOPPING" /\ (GatesOpen(control)' => control'.state = "READY")
      BY <2>1, <2>4, <3>1 DEF Ended
    <3>3. ResourceMove
      BY <2>2, <2>4, <3>1, <3>2 DEF SameBut, ResourceMove
    <3>4. QED BY <1>1, <2>1, <2>2, <3>1, <3>3, ResourceMoves
  <2>8. QED BY <2>5, <2>6, <2>7
<1>4. QED BY <1>2, <1>3

LEMMA ResourceKeeps ==
    ASSUME HInv, OnResourceHealth, Untouched
    PROVE  HInv'
<1> DEFINE h == Head(calls)
<1>1. calls # <<>> /\ h.op = "resource"
  BY DEF OnResourceHealth, Handles
<1>2. /\ h.key = monitor /\ monitor \in {"NORMAL", "CRITICAL", "STALE"}
      /\ monitor = "NORMAL" => control.monitorReady \/ control.state \in Ended
      /\ monitor = "STALE" => ~control.monitorReady
  BY <1>1, TopOfStack DEF HInv, Due, MonitorKept
<1>3. CASE Unsubscribed \/ control.state \in Ended
  BY <1>1, <1>3, Ignored DEF OnResourceHealth, Unsubscribed
<1>4. CASE ~(Unsubscribed \/ control.state \in Ended)
  <2>1. control \in Control /\ control.running /\ control.state \notin Ended
    BY <1>4 DEF HInv, ControlKept, Unsubscribed
  <2>2. PICK c : c = [control EXCEPT !.resource = IF h.key = "NORMAL" THEN "NORMAL"
                                                 ELSE "CRITICAL"]
    OBVIOUS
  <2>3. /\ c \in Control /\ c.state = control.state /\ c.readyOnce = control.readyOnce
        /\ c.running = control.running /\ c.released = control.released
        /\ c.evaluating = control.evaluating /\ c.persistenceReady = control.persistenceReady
        /\ c.monitorReady = control.monitorReady /\ c.failures = control.failures
        /\ h.key = "NORMAL" => c.resource = "NORMAL"
        /\ h.key # "NORMAL" => c.resource = "CRITICAL"
    BY <2>1, <2>2 DEF Control
  <2>4. \/ h.key = "STALE" /\ MoveTo(c, "FAILED")
        \/ h.key = "CRITICAL" /\ MoveTo(c, "DEGRADED")
        \/ h.key = "NORMAL" /\ control.resource = "CRITICAL" /\ Unfailed(c) /\ Evaluate(c)
        \/ /\ h.key = "NORMAL" /\ ~(control.resource = "CRITICAL" /\ Unfailed(c))
           /\ control' = c /\ Return(<<>>)
    BY <1>2, <1>4, <2>2 DEF OnResourceHealth, Recovers
  <2>5. CASE \/ h.key = "STALE" /\ MoveTo(c, "FAILED")
             \/ h.key = "CRITICAL" /\ MoveTo(c, "DEGRADED")
    <3>1. /\ control' \in Control /\ SameBut(c, control')
          /\ h.key = "STALE" => control'.state = "FAILED"
          /\ control'.state \in {"DEGRADED", "FAILED"}
          /\ c.readyOnce => control'.readyOnce
          /\ Return(<<>>) \/ Return(<<Audit("critical")>>)
      BY <2>3, <2>5, Becomes, Publishes DEF MoveTo
    <3>2. ~GatesOpen(control)'
      BY <2>3, <2>5, <3>1 DEF SameBut, GatesOpen
    <3>3. ResourceMove
      BY <1>1, <1>2, <2>3, <2>5, <3>1, <3>2 DEF SameBut, Ended, ResourceMove
    <3>4. QED BY <1>1, <1>2, <2>1, <3>1, <3>3, ResourceMoves
  <2>6. CASE h.key = "NORMAL" /\ control.resource = "CRITICAL" /\ Evaluate(c)
    <3>1. control.state # "READY"
      BY <2>6 DEF HInv, ControlKept, GatesOpen
    <3>2. /\ control' \in Control /\ SameBut(c, control')
          /\ Return(<<>>) \/ Return(<<Audit("critical")>>)
          /\ control'.state = "READY" => GatesOpen(control)'
          /\ GatesOpen(control)' => control'.state = "READY" \/ control'.state \in Ended
          /\ c.state \in Ended <=> control'.state \in Ended
          /\ c.readyOnce => control'.readyOnce
      BY <2>3, <2>6, <3>1, Evaluated
    <3>3. control'.state # "STOPPING" /\ (GatesOpen(control)' => control'.state = "READY")
      BY <2>1, <2>3, <3>2 DEF Ended
    <3>4. ResourceMove
      BY <1>1, <1>2, <2>1, <2>3, <2>6, <3>2, <3>3 DEF SameBut, ResourceMove
    <3>5. QED BY <1>1, <1>2, <2>1, <3>2, <3>4, ResourceMoves
  <2>7. CASE /\ h.key = "NORMAL" /\ ~(control.resource = "CRITICAL" /\ Unfailed(c))
             /\ control' = c /\ Return(<<>>)
    <3>1. GatesOpen(control)' => GatesOpen(control)
      <4>1. Unfailed(control)' <=> Unfailed(c)
        BY <2>7 DEF Unfailed
      <4>2. QED BY <2>1, <2>3, <2>7, <4>1, ControlFields DEF GatesOpen, Unfailed
    <3>2. control.state = "READY" => GatesOpen(control)'
      BY <2>3, <2>7 DEF HInv, ControlKept, GatesOpen, Unfailed
    <3>3. control'.state # "STOPPING"
      BY <2>1, <2>3, <2>7 DEF Ended
    <3>4. ResourceMove
      BY <1>1, <1>2, <2>1, <2>3, <2>7, <3>1, <3>2, <3>3 DEF ResourceMove
    <3>5. Return(<<>>) \/ Return(<<Audit("critical")>>)
      BY <2>7
    <3>6. QED BY <1>1, <1>2, <2>1, <3>4, <3>5, ResourceMoves
  <2>8. QED BY <2>4, <2>5, <2>6, <2>7
<1>5. QED BY <1>3, <1>4

LEMMA ControlHandlerKeeps ==
    ASSUME HInv, ControlHandler, UNCHANGED <<persist, workerVars, ledger, monitor>>
    PROVE  HInv'
<1>1. Untouched
  BY DEF Untouched, workerVars
<1>2. QED BY <1>1, PersistenceReadyKeeps, FailureKeeps, RecoveryKeeps, MonitorReadyKeeps,
             ResourceKeeps, EvaluateKeeps DEF ControlHandler

-----------------------------------------------------------------------------
(* New incidents.                                                          *)

LEMMA FreeIncident ==
    ASSUME NEW key, NEW a, NEW b, Used(key) \cap Incidents \subseteq {a, b}
    PROVE  NewIncident(key) \in Incidents
<1>1. \E incident \in Incidents : incident \notin Used(key)
  BY HealthAssumption
<1>2. QED BY <1>1 DEF NewIncident

LEMMA NewIncidentExists ==
    ASSUME HInv, calls # <<>>, Head(calls).op \notin {"failure", "recovery"},
           NEW key \in {"write", "admission", "timeout", "connection"},
           persist.failures[key] = NoIncident
    PROVE  NewIncident(key) \in Incidents
<1>1. ASSUME NEW i \in DOMAIN calls, calls[i].key = key PROVE calls[i].incident \notin Incidents
  <2>1. PICK c \in Stack : c = calls[i]
    BY DEF Stack
  <2>2. Due(c) /\ c.op # "recovery"
    BY <2>1, TopOfStack DEF HInv, StackKept
  <2>3. c.op # "failure"
    BY <1>1, <2>1, <2>2, HealthConstants DEF Due
  <2>4. QED BY <2>1, <2>2, <2>3, HealthConstants DEF Due
<1>2. Used(key) \cap Incidents \subseteq {control.failures[key], persist.recovery[key].incident}
  <2> SUFFICES ASSUME NEW x \in Used(key), x \in Incidents
               PROVE  x = control.failures[key] \/ x = persist.recovery[key].incident
    OBVIOUS
  <2>1. x # persist.failures[key]
    BY HealthConstants
  <2>2. x \notin {calls[i].incident : i \in {n \in DOMAIN calls : calls[n].key = key}}
    BY <1>1
  <2>3. \/ x = control.failures[key]
        \/ x \in {persist.recovery[code].incident : code \in Recoverable \cap {key}}
    BY <2>1, <2>2 DEF Used
  <2>4. QED BY <2>3
<1>3. QED BY <1>2, FreeIncident

LEMMA NewMonitorIncident ==
    ASSUME calls = <<>>
    PROVE  NewIncident("monitor") \in Incidents
<1>1. Used("monitor") \subseteq {persist.failures["monitor"], control.failures["monitor"]}
  <2>1. Recoverable \cap {"monitor"} = {}
    BY DEF Recoverable
  <2>2. {n \in DOMAIN calls : calls[n].key = "monitor"} = {}
    OBVIOUS
  <2>3. QED BY <2>1, <2>2 DEF Used
<1>2. QED BY <1>1, FreeIncident

-----------------------------------------------------------------------------
(* What the persistence actor's handlers keep.                             *)

LEMMA PersistFrame ==
    ASSUME HInv, calls # <<>>,
           Head(calls).op \in {"audit", "drain", "report", "announce", "recover", "close"},
           control' = control, monitor' = monitor, persist'.phase = persist.phase,
           Under \subseteq Stack'
    PROVE  /\ ControlKept' /\ MonitorKept'
           /\ \A op, key : Awaits(op, key) /\ op # Head(calls).op => Awaits(op, key)'
           /\ (\A code \in Recoverable :
                  \/ persist'.failures[code] = persist.failures[code]
                  \/ Awaits("failure", code)' \/ Awaits("recovery", code)') => AgreeKept'
           /\ Alarmed => Alarmed'
<1>1. /\ \A op, key : Awaits(op, key) /\ op # Head(calls).op => Awaits(op, key)'
      /\ (\E c \in Stack : c.op = "evaluate") => (\E c \in Stack : c.op = "evaluate")'
  BY Waiting DEF HInv
<1>2. ControlKept'
  BY <1>1 DEF HInv, ControlKept, GatesOpen, Unfailed, Active
<1>3. MonitorKept'
  BY <1>1 DEF HInv, MonitorKept
<1>4. ASSUME \A code \in Recoverable :
                 \/ persist'.failures[code] = persist.failures[code]
                 \/ Awaits("failure", code)' \/ Awaits("recovery", code)'
      PROVE  AgreeKept'
  BY <1>1, <1>4 DEF HInv, AgreeKept
<1>5. Alarmed => Alarmed'
  BY <1>1 DEF Alarmed
<1>6. QED BY <1>1, <1>2, <1>3, <1>4, <1>5

(* A handler that only makes calls, or notes that it has announced.        *)
LEMMA Passes ==
    ASSUME HInv, calls # <<>>, Head(calls).op \in {"audit", "drain", "announce", "recover", "close"},
           control' = control, monitor' = monitor, queue' = queue, batch' = batch,
           results' = results, ledger' = ledger, persist' \in Persist,
           persist'.phase = persist.phase, persist'.failures = persist.failures,
           persist'.recovery = persist.recovery,
           NEW inner \in Seq(AllCalls), calls' = inner \o Tail(calls), Placed(inner),
           \A i \in DOMAIN inner : /\ inner[i].op # "drain" /\ Due(inner[i])'
                                   /\ ~(inner[i].op = "report" /\ inner[i].key = "write")
    PROVE  HInv'
<1>1. StackKept' /\ Stack' = {inner[i] : i \in DOMAIN inner} \cup Under
  <2>1. StackKept
    BY DEF HInv
  <2>2. QED BY <2>1, StackStep
<1>2. Under \subseteq Stack' /\ Stack = {Head(calls)} \cup Under
  BY <1>1, TopOfStack DEF HInv
<1>3. ControlKept' /\ MonitorKept' /\ AgreeKept' /\ (Alarmed => Alarmed')
  BY <1>2, PersistFrame
<1>4. PersistKept'
  BY DEF HInv, PersistKept
<1>5. FlightKept'
  BY SameFlight DEF HInv
<1>6. Awaits("report", "write")' <=> Awaits("report", "write")
  BY <1>1, <1>2 DEF Awaits
<1>7. LedgerKept'
  BY <1>3, <1>6 DEF HInv, LedgerKept, Active
<1>8. QED BY <1>1, <1>3, <1>4, <1>5, <1>7 DEF HInv

-----------------------------------------------------------------------------
(* Reports and losses.                                                     *)

LEMMA Reported ==
    ASSUME HInv, calls # <<>>, Head(calls).op \in {"audit", "report", "recover"},
           NEW p \in Persist, p.failures = persist.failures, p.phase = persist.phase,
           NEW code \in {"write", "admission", "timeout", "connection"},
           code \in {"timeout", "connection"} => persist.phase = "stopped",
           Report(p, code), control' = control, monitor' = monitor
    PROVE  /\ StackKept' /\ Under \subseteq Stack'
           /\ persist' \in Persist /\ persist'.phase = persist.phase
           /\ persist'.recovery = p.recovery
           /\ persist'.failures[code] # NoIncident
           /\ \A other \in Keys \ {code} : persist'.failures[other] = persist.failures[other]
           /\ persist'.failures[code] = persist.failures[code] \/ Awaits("failure", code)'
           /\ \A c \in Stack' : c \in Under \/ c.op \in {"failure", "audit"}
<1>1. StackKept /\ persist \in Persist /\ code \in Keys
  BY HealthConstants DEF HInv, PersistKept
<1>2. CASE persist.failures[code] # NoIncident
  <2>1. persist' = p /\ calls' = <<>> \o Tail(calls)
    BY <1>2 DEF Report, Return
  <2>2. StackKept' /\ Stack' = {<<>>[i] : i \in DOMAIN <<>>} \cup Under
    <3>1. PICK none : none = <<>>
      OBVIOUS
    <3>2. /\ none \in Seq(AllCalls) /\ DOMAIN none = {} /\ Placed(none)
          /\ calls' = none \o Tail(calls)
      BY <2>1, <3>1 DEF Placed
    <3>3. StackKept' /\ Stack' = {none[i] : i \in DOMAIN none} \cup Under
      BY <1>1, <2>1, <3>2, StackStep
    <3>4. QED BY <3>1, <3>3
  <2>3. QED BY <1>2, <2>1, <2>2
<1>3. CASE persist.failures[code] = NoIncident
  <2>1. PICK incident \in Incidents : incident = NewIncident(code)
    BY <1>3, NewIncidentExists
  <2>2. PICK f, a : f = Call("failure", code, incident) /\ a = Audit("critical")
    OBVIOUS
  <2>3. /\ persist' = [p EXCEPT !.failures[code] = incident]
        /\ calls' = <<f, a>> \o Tail(calls) \/ calls' = <<a, f>> \o Tail(calls)
    BY <1>3, <2>1, <2>2 DEF Report, Both
  <2>4. PICK inner : inner \in {<<f, a>>, <<a, f>>} /\ calls' = inner \o Tail(calls)
    BY <2>3
  <2>5. f \in AllCalls /\ a \in AllCalls /\ f.op = "failure" /\ a.op = "audit"
        /\ f.key = code /\ f.incident = incident
    BY <1>1, <2>1, <2>2, CriticalAudit DEF Call, AllCalls, Ops
  <2>6. /\ persist' \in Persist /\ persist'.phase = persist.phase
        /\ persist'.recovery = p.recovery /\ persist'.failures[code] = incident
        /\ \A other \in Keys \ {code} : persist'.failures[other] = persist.failures[other]
    BY <1>1, <2>1, <2>3 DEF Persist
  <2>7. Due(f)' /\ Due(a)'
    <3>1. Due(f)'
      BY <2>1, <2>5, <2>6 DEF Due
    <3>2. a.incident = NoIncident
      BY <2>2 DEF Audit, Call
    <3>3. QED BY <2>5, <3>1, <3>2 DEF Due
  <2>8. /\ inner \in Seq(AllCalls) /\ Placed(inner)
        /\ {inner[i] : i \in DOMAIN inner} = {f, a}
        /\ \A i \in DOMAIN inner : inner[i].op # "drain" /\ Due(inner[i])'
    <3>1. CASE inner = <<f, a>>
      BY <2>5, <2>7, <3>1 DEF Placed
    <3>2. CASE inner = <<a, f>>
      BY <2>5, <2>7, <3>2 DEF Placed
    <3>3. QED BY <2>4, <3>1, <3>2
  <2>9. StackKept' /\ Stack' = {inner[i] : i \in DOMAIN inner} \cup Under
    <3>1. \A key \in Keys : persist.failures[key] # NoIncident =>
              persist'.failures[key] = persist.failures[key]
      BY <1>3, <2>6
    <3>2. QED BY <1>1, <2>4, <2>6, <2>8, <3>1, StackStep
  <2>10. Stack' = {f, a} \cup Under
    BY <2>8, <2>9
  <2>11. Awaits("failure", code)'
    BY <2>5, <2>10 DEF Awaits
  <2>12. persist'.failures[code] # NoIncident
    BY <2>1, <2>6, HealthConstants
  <2>13. QED BY <2>5, <2>6, <2>9, <2>10, <2>11, <2>12
<1>4. QED BY <1>2, <1>3

LEMMA Loses ==
    ASSUME NEW p \in Persist, NEW q, q = Lost(p)
    PROVE  /\ q \in Persist /\ q.phase = p.phase /\ q.failures = p.failures
           /\ \A code \in Recoverable : /\ q.recovery[code].incident = p.recovery[code].incident
                                        /\ ~q.recovery[code].current
<1>1. p.recovery \in [Recoverable -> [incident : Incidents \cup {NoIncident}, current : BOOLEAN]]
  BY PersistFields
<1>2. PICK r : r = [code \in Recoverable |-> [p.recovery[code] EXCEPT !.current = FALSE]]
  OBVIOUS
<1>3. ASSUME NEW code \in Recoverable
      PROVE  /\ r[code] \in [incident : Incidents \cup {NoIncident}, current : BOOLEAN]
             /\ r[code].incident = p.recovery[code].incident /\ ~r[code].current
  BY <1>1, <1>2, <1>3
<1>4. r \in [Recoverable -> [incident : Incidents \cup {NoIncident}, current : BOOLEAN]]
  BY <1>2, <1>3
<1>5. q = [p EXCEPT !.recovery = r]
  BY <1>2 DEF Lost
<1>6. q \in Persist /\ q.phase = p.phase /\ q.failures = p.failures /\ q.recovery = r
  BY <1>4, <1>5 DEF Persist
<1>7. QED BY <1>3, <1>6

(* A record the worker does not admit is a loss, and its failure is open.  *)
LEMMA RejectedKeeps ==
    ASSUME HInv, calls # <<>>, Head(calls).op \in {"audit", "recover"},
           NEW p \in Persist, p.failures = persist.failures, p.phase = persist.phase,
           p.recovery = persist.recovery, persist.phase # "new",
           Rejected(p), ledger' = "gap", control' = control, monitor' = monitor,
           queue' = queue, batch' = batch, results' = results
    PROVE  HInv'
<1>1. PICK q : q = Lost(p)
  OBVIOUS
<1>2. /\ q \in Persist /\ q.phase = persist.phase /\ q.failures = persist.failures
      /\ \A code \in Recoverable :
             /\ q.recovery[code].incident = persist.recovery[code].incident
             /\ ~q.recovery[code].current
  BY <1>1, Loses
<1>3. Report(q, "admission")
  BY <1>1 DEF Rejected
<1>4. /\ StackKept' /\ Under \subseteq Stack'
      /\ persist' \in Persist /\ persist'.phase = persist.phase
      /\ persist'.recovery = q.recovery
      /\ persist'.failures["admission"] # NoIncident
      /\ \A other \in Keys \ {"admission"} : persist'.failures[other] = persist.failures[other]
      /\ \/ persist'.failures["admission"] = persist.failures["admission"]
         \/ Awaits("failure", "admission")'
      /\ \A c \in Stack' : c \in Under \/ c.op \in {"failure", "audit"}
  BY <1>2, <1>3, Reported
<1>5. ControlKept' /\ MonitorKept' /\ AgreeKept' /\ (Alarmed => Alarmed')
  <2>1. \A code \in Recoverable :
            \/ persist'.failures[code] = persist.failures[code]
            \/ Awaits("failure", code)' \/ Awaits("recovery", code)'
    BY <1>4, HealthConstants
  <2>2. QED BY <1>4, <2>1, PersistFrame
<1>6. \A code \in Recoverable :
          /\ persist'.recovery[code].incident = persist.recovery[code].incident
          /\ ~persist'.recovery[code].current
  BY <1>2, <1>4
<1>7. PersistKept'
  <2>1. \A key \in Keys : persist'.failures[key] # NoIncident =>
            key = "admission" \/ persist.failures[key] # NoIncident
    BY <1>4
  <2>2. QED BY <1>4, <1>6, <2>1 DEF HInv, PersistKept
<1>8. FlightKept'
  BY <1>6, SameFlight DEF HInv
<1>9. LedgerKept'
  <2>1. persist.phase # "new"
    OBVIOUS
  <2>2. StartupTarget = "FAILED" => Alarmed'
    <3>1. CASE persist'.failures["admission"] = persist.failures["admission"]
      BY <1>4, <1>5, <3>1, HealthConstants DEF HInv, LedgerKept
    <3>2. CASE Awaits("failure", "admission")'
      BY <3>2, HealthConstants DEF Alarmed
    <3>3. QED BY <1>4, <3>1, <3>2
  <2>3. QED BY <1>4, <1>6, <2>1, <2>2, HealthConstants DEF LedgerKept
<1>10. QED BY <1>4, <1>5, <1>7, <1>8, <1>9 DEF HInv

LEMMA ReportKeeps ==
    ASSUME HInv, OnReport
    PROVE  HInv'
<1>. PICK code : code = Head(calls).key
  OBVIOUS
<1>1. /\ calls # <<>> /\ Head(calls).op = "report" /\ Report(persist, code)
      /\ control' = control /\ monitor' = monitor /\ queue' = queue /\ batch' = batch
      /\ results' = results /\ ledger' = ledger
  BY DEF OnReport, Handles, workerVars
<1>2. /\ code \in {"write", "timeout", "connection"}
      /\ code # "write" => persist.phase = "stopped"
  BY <1>1, TopOfStack DEF HInv, Due
<1>3. Head(calls) \in Stack /\ Stack = {Head(calls)} \cup Under
  BY <1>1, TopOfStack DEF HInv
<1>4. persist \in Persist
  BY DEF HInv, PersistKept
<1>5. /\ StackKept' /\ Under \subseteq Stack'
      /\ persist' \in Persist /\ persist'.phase = persist.phase
      /\ persist'.recovery = persist.recovery
      /\ persist'.failures[code] # NoIncident
      /\ \A other \in Keys \ {code} : persist'.failures[other] = persist.failures[other]
      /\ persist'.failures[code] = persist.failures[code] \/ Awaits("failure", code)'
      /\ \A c \in Stack' : c \in Under \/ c.op \in {"failure", "audit"}
  BY <1>1, <1>2, <1>4, Reported
<1>6. ControlKept' /\ MonitorKept' /\ AgreeKept' /\ (Alarmed => Alarmed')
  <2>1. \A key \in Recoverable :
            \/ persist'.failures[key] = persist.failures[key]
            \/ Awaits("failure", key)' \/ Awaits("recovery", key)'
    BY <1>5, HealthConstants
  <2>2. QED BY <1>1, <1>5, <2>1, PersistFrame
<1>7. PersistKept'
  <2>1. \A key \in Keys : persist'.failures[key] # NoIncident =>
            key = code \/ persist.failures[key] # NoIncident
    BY <1>5
  <2>2. QED BY <1>2, <1>5, <2>1 DEF HInv, PersistKept
<1>8. FlightKept'
  BY <1>1, <1>5, SameFlight DEF HInv
<1>9. LedgerKept'
  <2>1. Awaits("report", "write")' => Awaits("report", "write")
    BY <1>3, <1>5 DEF Awaits
  <2>2. CASE code = "write"
    <3>1. Awaits("report", "write")
      BY <1>1, <1>3, <2>2 DEF Awaits
    <3>2. ledger # "complete"
      BY <3>1 DEF HInv, LedgerKept
    <3>3. StartupTarget = "FAILED" => Alarmed'
      <4>1. CASE persist'.failures["write"] = persist.failures["write"]
        BY <1>5, <1>6, <2>2, <4>1, HealthConstants DEF HInv, LedgerKept
      <4>2. CASE Awaits("failure", "write")'
        BY <4>2, HealthConstants DEF Alarmed
      <4>3. QED BY <1>5, <2>2, <4>1, <4>2
    <3>4. QED BY <1>1, <1>5, <2>2, <3>2, <3>3, HealthConstants DEF HInv, LedgerKept
  <2>3. CASE code # "write"
    <3>1. \A key \in Recoverable : persist'.failures[key] = persist.failures[key]
      BY <1>2, <1>5, <2>3, HealthConstants
    <3>2. persist'.phase = "stopped" /\ ~Active'
      BY <1>2, <1>5, <2>3 DEF Active
    <3>3. Awaits("report", "write") => Awaits("report", "write")'
      BY <1>3, <1>5, <2>3 DEF Awaits
    <3>4. QED BY <1>1, <1>5, <1>6, <2>1, <3>1, <3>2, <3>3 DEF HInv, LedgerKept
  <2>4. QED BY <2>2, <2>3
<1>10. QED BY <1>5, <1>6, <1>7, <1>8, <1>9 DEF HInv

-----------------------------------------------------------------------------
(* The queue.                                                              *)

(* A record enters the queue; a recovery record only when none is pending. *)
LEMMA Queued ==
    ASSUME FlightKept, NEW item \in {"event"} \cup Recoverable,
           queue' = Append(queue, item), batch' = batch, results' = results,
           item \in Recoverable => persist.recovery[item].incident = NoIncident,
           \A code \in Recoverable : persist'.recovery[code].incident = NoIncident =>
               code # item /\ persist.recovery[code].incident = NoIncident
    PROVE  FlightKept'
<1> DEFINE n == Len(queue)
<1>1. /\ queue \in Seq({"event"} \cup Recoverable) /\ n \in Nat
      /\ queue' \in Seq({"event"} \cup Recoverable) /\ DOMAIN queue' = 1..(n + 1)
      /\ DOMAIN queue = 1..n /\ queue'[n + 1] = item
      /\ \A i \in 1..n : queue'[i] = queue[i]
  <2>1. queue \in Seq({"event"} \cup Recoverable)
    BY DEF FlightKept
  <2>2. QED BY <2>1, AppendProperties
<1>2. \A code : Times(batch, code)' = Times(batch, code) /\ Answers(code)' = Answers(code)
  BY DEF Times, Answers
<1>3. ASSUME NEW code \in Recoverable, code # item
      PROVE  Times(queue, code)' = Times(queue, code)
  BY <1>1, <1>3 DEF Times
<1>4. ASSUME NEW code \in Recoverable, code = item
      PROVE  /\ Alone(Times(queue, code))'
             /\ Times(batch, code) = {} /\ Answers(code) = {}
  <2>1. Times(queue, code) = {} /\ Times(batch, code) = {} /\ Answers(code) = {}
    BY <1>4 DEF FlightKept
  <2>2. \A i \in Times(queue', code) : i = n + 1
    <3> SUFFICES ASSUME NEW i \in 1..(n + 1), queue'[i] = code, i # n + 1 PROVE FALSE
      BY <1>1 DEF Times
    <3>1. i \in 1..n /\ queue[i] = code
      BY <1>1
    <3>2. QED BY <1>1, <2>1, <3>1 DEF Times
  <2>3. QED BY <2>1, <2>2 DEF Alone
<1>5. ASSUME NEW code \in Recoverable
      PROVE  (/\ Alone(Times(queue, code)) /\ Alone(Times(batch, code)) /\ Alone(Answers(code))
              /\ Times(queue, code) = {} \/ (Times(batch, code) = {} /\ Answers(code) = {})
              /\ Times(batch, code) = {} \/ Answers(code) = {}
              /\ persist.recovery[code].incident = NoIncident =>
                    Times(queue, code) = {} /\ Times(batch, code) = {} /\ Answers(code) = {})'
  <2>1. CASE code = item
    BY <1>2, <1>4, <2>1 DEF FlightKept, Alone
  <2>2. CASE code # item
    BY <1>2, <1>3, <2>2 DEF FlightKept, Alone
  <2>3. QED BY <2>1, <2>2
<1>6. QED BY <1>1, <1>5 DEF FlightKept

LEMMA NoCalls ==
    ASSUME NEW inner, inner = <<>>
    PROVE  inner \in Seq(AllCalls) /\ Placed(inner) /\ DOMAIN inner = {}
BY DEF Placed

LEMMA OneCall ==
    ASSUME NEW c \in AllCalls, NEW inner, inner = <<c>>
    PROVE  /\ inner \in Seq(AllCalls) /\ DOMAIN inner = {1} /\ inner[1] = c
           /\ Placed(inner) /\ {inner[i] : i \in DOMAIN inner} = {c}
BY DEF Placed

LEMMA AuditedKeeps ==
    ASSUME HInv, OnAudited
    PROVE  HInv'
<1>1. /\ calls # <<>> /\ Head(calls).op = "audit"
      /\ control' = control /\ monitor' = monitor /\ batch' = batch /\ results' = results
  BY DEF OnAudited, Handles
<1>2. persist \in Persist
  BY DEF HInv, PersistKept
<1>3. PICK none : none = <<>>
  OBVIOUS
<1>4. none \in Seq(AllCalls) /\ Placed(none) /\ DOMAIN none = {}
  BY <1>3, NoCalls
<1>5. CASE Return(<<>>) /\ UNCHANGED <<persist, queue, ledger>>
  <2>1. calls' = none \o Tail(calls)
    BY <1>3, <1>5 DEF Return
  <2>2. QED BY <1>1, <1>2, <1>4, <1>5, <2>1, Passes
<1>6. CASE Active /\ queue' = Append(queue, "event") /\ Return(<<>>) /\ UNCHANGED <<persist, ledger>>
  <2>1. calls' = none \o Tail(calls)
    BY <1>3, <1>6 DEF Return
  <2>2. StackKept' /\ Stack' = {none[i] : i \in DOMAIN none} \cup Under
    <3>1. StackKept
      BY DEF HInv
    <3>2. QED BY <1>1, <1>4, <1>6, <2>1, <3>1, StackStep
  <2>3. Stack' = Under /\ Stack = {Head(calls)} \cup Under
    BY <1>1, <1>4, <2>2, TopOfStack DEF HInv
  <2>4. ControlKept' /\ MonitorKept' /\ AgreeKept' /\ (Alarmed => Alarmed')
    BY <1>1, <1>6, <2>3, PersistFrame
  <2>5. PersistKept'
    BY <1>6 DEF HInv, PersistKept
  <2>6. FlightKept'
    BY <1>1, <1>6, Queued, HealthConstants DEF HInv
  <2>7. LedgerKept'
    <3>1. Awaits("report", "write")' <=> Awaits("report", "write")
      BY <1>1, <2>3 DEF Awaits
    <3>2. QED BY <1>1, <1>6, <2>4, <3>1 DEF HInv, LedgerKept, Active
  <2>8. QED BY <2>2, <2>4, <2>5, <2>6, <2>7 DEF HInv
<1>7. CASE Active /\ Rejected(persist) /\ ledger' = "gap" /\ UNCHANGED queue
  BY <1>1, <1>2, <1>7, RejectedKeeps DEF Active
<1>8. QED BY <1>5, <1>6, <1>7 DEF OnAudited

LEMMA AnnounceKeeps ==
    ASSUME HInv, OnAnnounce
    PROVE  HInv'
<1>1. /\ calls # <<>> /\ Head(calls).op = "announce" /\ control' = control /\ monitor' = monitor
      /\ queue' = queue /\ batch' = batch /\ results' = results /\ ledger' = ledger
  BY DEF OnAnnounce, Handles, workerVars
<1>2. persist \in Persist
  BY DEF HInv, PersistKept
<1>3. PICK ready \in BOOLEAN :
          /\ ready => Active
          /\ persist' = [persist EXCEPT !.announced = @ \/ ready]
          /\ Return(IF ready THEN <<Call("ready", "none", NoIncident)>> ELSE <<>>)
  <2> DEFINE r == Active /\ Healthy(persist) /\ ~persist.announced
  <2>1. r \in BOOLEAN /\ (r => Active)
    OBVIOUS
  <2>2. /\ persist' = [persist EXCEPT !.announced = @ \/ r]
        /\ Return(IF r THEN <<Call("ready", "none", NoIncident)>> ELSE <<>>)
    BY DEF OnAnnounce
  <2> HIDE DEF r
  <2>3. QED BY <2>1, <2>2, Zenon
<1>4. PICK said \in BOOLEAN : persist' = [persist EXCEPT !.announced = said]
  <2> DEFINE s == persist.announced \/ ready
  <2>1. s \in BOOLEAN
    OBVIOUS
  <2>2. persist' = [persist EXCEPT !.announced = s]
    BY <1>3
  <2> HIDE DEF s
  <2>3. QED BY <2>1, <2>2
<1>5. /\ persist' \in Persist /\ persist'.phase = persist.phase
      /\ persist'.failures = persist.failures /\ persist'.recovery = persist.recovery
  BY <1>2, <1>4 DEF Persist
<1>6. PICK c : c = Call("ready", "none", NoIncident)
  OBVIOUS
<1>7. c \in AllCalls /\ c.op = "ready" /\ c.incident = NoIncident
  BY <1>6 DEF Call, AllCalls, Ops
<1>8. CASE ready
  <2>1. PICK inner : inner = <<c>>
    OBVIOUS
  <2>2. calls' = inner \o Tail(calls)
    BY <1>3, <1>6, <1>8, <2>1 DEF Return
  <2>3. /\ inner \in Seq(AllCalls) /\ DOMAIN inner = {1} /\ inner[1] = c /\ Placed(inner)
    BY <1>7, <2>1, OneCall
  <2>4. Due(c)'
    BY <1>3, <1>5, <1>7, <1>8 DEF Due, Active
  <2>5. \A i \in DOMAIN inner : /\ inner[i].op # "drain" /\ Due(inner[i])'
                                /\ ~(inner[i].op = "report" /\ inner[i].key = "write")
    BY <1>7, <2>3, <2>4
  <2>6. QED BY <1>1, <1>5, <2>2, <2>3, <2>5, Passes
<1>9. CASE ~ready
  <2>1. PICK none : none = <<>>
    OBVIOUS
  <2>2. none \in Seq(AllCalls) /\ Placed(none) /\ DOMAIN none = {} /\ calls' = none \o Tail(calls)
    BY <1>3, <1>9, <2>1, NoCalls DEF Return
  <2>3. QED BY <1>1, <1>5, <2>2, Passes
<1>10. QED BY <1>8, <1>9

LEMMA CloseKeeps ==
    ASSUME HInv, OnClose
    PROVE  HInv'
<1>1. /\ calls # <<>> /\ Head(calls).op = "close" /\ control' = control /\ monitor' = monitor
      /\ queue' = queue /\ batch' = batch /\ results' = results /\ ledger' = ledger
      /\ persist' = persist
  BY DEF OnClose, Handles, workerVars
<1>2. persist \in Persist
  BY DEF HInv, PersistKept
<1>3. persist.phase = "stopped"
  BY <1>1, TopOfStack DEF HInv, Due
<1>4. CASE Return(<<>>)
  <2>1. PICK none : none = <<>>
    OBVIOUS
  <2>2. none \in Seq(AllCalls) /\ Placed(none) /\ DOMAIN none = {} /\ calls' = none \o Tail(calls)
    BY <1>4, <2>1, NoCalls DEF Return
  <2>3. QED BY <1>1, <1>2, <2>2, Passes
<1>5. CASE Return(<<Call("report", "timeout", NoIncident)>>)
  <2>1. PICK c, inner : c = Call("report", "timeout", NoIncident) /\ inner = <<c>>
    OBVIOUS
  <2>2. /\ c \in AllCalls /\ c.op = "report" /\ c.key = "timeout" /\ c.incident = NoIncident
    BY <2>1, HealthConstants DEF Call, AllCalls, Ops
  <2>3. /\ inner \in Seq(AllCalls) /\ DOMAIN inner = {1} /\ inner[1] = c /\ Placed(inner)
        /\ calls' = inner \o Tail(calls)
    BY <1>5, <2>1, <2>2, OneCall DEF Return
  <2>4. Due(c)'
    BY <1>1, <1>3, <2>2 DEF Due
  <2>5. \A i \in DOMAIN inner : /\ inner[i].op # "drain" /\ Due(inner[i])'
                                /\ ~(inner[i].op = "report" /\ inner[i].key = "write")
    BY <2>2, <2>3, <2>4
  <2>6. QED BY <1>1, <1>2, <2>3, <2>5, Passes
<1>6. QED BY <1>4, <1>5 DEF OnClose

LEMMA TryRecoveryKeeps ==
    ASSUME HInv, OnTryRecovery
    PROVE  HInv'
<1>1. /\ calls # <<>> /\ Head(calls).op = "recover" /\ control' = control /\ monitor' = monitor
      /\ batch' = batch /\ results' = results
  BY DEF OnTryRecovery, Handles
<1>2. persist \in Persist
  BY DEF HInv, PersistKept
<1>3. PICK code, next, others :
          /\ code = Head(calls).key /\ next = TryRecovery("admission")
          /\ others = IF code = "write" THEN <<next>> ELSE <<>>
  OBVIOUS
<1>4. code \in Recoverable /\ code \in Keys
  BY <1>1, <1>3, TopOfStack, HealthConstants DEF HInv, Due
<1>5. next \in AllCalls /\ next.op = "recover" /\ next.key = "admission"
      /\ next.incident = NoIncident
  BY <1>3, HealthConstants DEF TryRecovery, Call, AllCalls, Ops
<1>6. others \in Seq(AllCalls) /\ Placed(others) /\ \A i \in DOMAIN others : others[i] = next
  <2>1. CASE code = "write"
    <3>1. others = <<next>>
      BY <1>3, <2>1
    <3>2. QED BY <1>5, <3>1, OneCall
  <2>2. CASE code # "write"
    <3>1. others = <<>>
      BY <1>3, <2>2
    <3>2. QED BY <3>1, NoCalls
  <2>3. QED BY <2>1, <2>2
<1>7. Due(next)'
  BY <1>5, HealthConstants DEF Due
<1>8. \A i \in DOMAIN others : /\ others[i].op # "drain" /\ Due(others[i])'
                               /\ ~(others[i].op = "report" /\ others[i].key = "write")
  BY <1>5, <1>6, <1>7
<1>9. CASE Return(others) /\ UNCHANGED <<persist, queue, ledger>>
  <2>1. calls' = others \o Tail(calls)
    BY <1>9 DEF Return
  <2>2. QED BY <1>1, <1>2, <1>6, <1>8, <1>9, <2>1, Passes
<1>10. CASE /\ Needs(code) /\ queue' = Append(queue, code)
            /\ persist' = [persist EXCEPT !.recovery[code] =
                   [incident |-> persist.failures[code], current |-> TRUE]]
            /\ Return(others) /\ UNCHANGED ledger
  <2>1. /\ persist.failures[code] \in Incidents /\ persist.recovery[code] = NotPending
        /\ persist.failures[code] # NoIncident
    BY <1>2, <1>4, <1>10, PersistFields DEF Needs
  <2>2. PICK r : /\ r = [incident |-> persist.failures[code], current |-> TRUE]
                 /\ persist' = [persist EXCEPT !.recovery[code] = r]
    BY <1>10
  <2>3. /\ r \in [incident : Incidents \cup {NoIncident}, current : BOOLEAN]
        /\ r.incident = persist.failures[code]
    BY <2>1, <2>2
  <2>4. /\ persist' \in Persist /\ persist'.phase = persist.phase
        /\ persist'.failures = persist.failures /\ persist'.recovery[code] = r
        /\ \A other \in Recoverable \ {code} :
               persist'.recovery[other] = persist.recovery[other]
    BY <1>2, <1>4, <2>2, <2>3 DEF Persist
  <2>5. calls' = others \o Tail(calls)
    BY <1>10 DEF Return
  <2>6. StackKept' /\ Stack' = {others[i] : i \in DOMAIN others} \cup Under
    <3>1. StackKept
      BY DEF HInv
    <3>2. QED BY <1>1, <1>6, <1>8, <2>4, <2>5, <3>1, StackStep
  <2>7. /\ Under \subseteq Stack' /\ Stack = {Head(calls)} \cup Under
        /\ \A c \in Stack' : c \in Under \/ c.op = "recover"
    BY <1>1, <1>5, <1>6, <2>6, TopOfStack DEF HInv
  <2>8. ControlKept' /\ MonitorKept' /\ AgreeKept' /\ (Alarmed => Alarmed')
    BY <1>1, <2>4, <2>7, PersistFrame
  <2>9. PersistKept'
    <3>1. \A other \in Recoverable :
              persist'.recovery[other].current => persist'.recovery[other].incident # NoIncident
      BY <2>1, <2>3, <2>4 DEF HInv, PersistKept
    <3>2. QED BY <2>4, <3>1 DEF HInv, PersistKept
  <2>10. FlightKept'
    <3>1. persist.recovery[code].incident = NoIncident
      BY <2>1 DEF NotPending
    <3>2. \A other \in Recoverable : persist'.recovery[other].incident = NoIncident =>
              other # code /\ persist.recovery[other].incident = NoIncident
      BY <2>1, <2>3, <2>4
    <3>3. QED BY <1>1, <1>4, <1>10, <3>1, <3>2, Queued DEF HInv
  <2>11. LedgerKept'
    <3>1. Awaits("report", "write")' <=> Awaits("report", "write")
      BY <1>1, <2>7 DEF Awaits
    <3>2. ledger # "complete" /\ persist.phase # "new"
      BY <1>4, <2>1 DEF HInv, LedgerKept
    <3>3. Answers(code) = {}
      BY <1>4, <2>1 DEF HInv, FlightKept, NotPending
    <3>4. ASSUME NEW i \in DOMAIN results, results[i].stored, results[i].item \in Recoverable,
                 persist'.recovery[results[i].item].current
          PROVE  ledger # "gap"
      <4>1. results[i].item # code
        BY <3>3, <3>4 DEF Answers
      <4>2. persist.recovery[results[i].item].current
        BY <2>4, <3>4, <4>1
      <4>3. QED BY <3>4, <4>2 DEF HInv, LedgerKept
    <3>5. QED BY <1>1, <1>10, <2>4, <2>8, <3>1, <3>2, <3>4 DEF HInv, LedgerKept, Active
  <2>12. QED BY <2>6, <2>8, <2>9, <2>10, <2>11 DEF HInv
<1>11. CASE /\ Needs(code) /\ Rejected([persist EXCEPT !.backoff = TRUE])
            /\ ledger' = "gap" /\ UNCHANGED queue
  <2>1. PICK p : p = [persist EXCEPT !.backoff = TRUE] /\ Rejected(p)
    BY <1>11
  <2>2. p \in Persist /\ p.failures = persist.failures /\ p.phase = persist.phase
        /\ p.recovery = persist.recovery
    BY <1>2, <2>1 DEF Persist
  <2>3. persist.phase # "new"
    BY <1>4, <1>11 DEF HInv, LedgerKept, Needs
  <2>4. QED BY <1>1, <1>11, <2>1, <2>2, <2>3, RejectedKeeps
<1>12. QED BY <1>3, <1>9, <1>10, <1>11 DEF OnTryRecovery

-----------------------------------------------------------------------------
(* The worker's results.                                                   *)

LEMMA Drained ==
    ASSUME FlightKept, results # <<>>, results' = Tail(results), queue' = queue, batch' = batch,
           \A code \in Recoverable :
               persist'.recovery[code].incident = NoIncident =>
                   code = Head(results).item \/ persist.recovery[code].incident = NoIncident
    PROVE  /\ FlightKept'
           /\ Head(results).item \in {"event"} \cup Recoverable
           /\ Head(results).stored \in BOOLEAN
           /\ Head(results).stored => Head(results).item \in Recoverable
           /\ 1 \in DOMAIN results /\ Head(results) = results[1]
           /\ \A i \in DOMAIN results' : i + 1 \in DOMAIN results /\ results'[i] = results[i + 1]
           /\ \A i \in DOMAIN results' : Head(results).item \in Recoverable =>
                  results'[i].item # Head(results).item
<1> DEFINE Results == [item : {"event"} \cup Recoverable, stored : BOOLEAN]
<1>1. /\ results \in Seq(Results) /\ Len(results) \in Nat \ {0}
      /\ DOMAIN results = 1..Len(results)
  BY EmptySeq DEF FlightKept
<1>2. /\ Head(results) = results[1] /\ Tail(results) \in Seq(Results)
      /\ Len(Tail(results)) = Len(results) - 1
      /\ \A i \in 1..(Len(results) - 1) : Tail(results)[i] = results[i + 1]
  BY <1>1, HeadTailProperties
<1>3. 1 \in DOMAIN results /\ Head(results) \in Results
  <2>1. 1 \in DOMAIN results
    BY <1>1
  <2> HIDE DEF Results
  <2>2. QED BY <1>1, <1>2, <2>1
<1>4. /\ results' \in Seq(Results) /\ DOMAIN results' = 1..(Len(results) - 1)
      /\ \A i \in DOMAIN results' : i + 1 \in DOMAIN results /\ i + 1 # 1 /\ results'[i] = results[i + 1]
  BY <1>1, <1>2
<1>5. /\ Head(results).item \in {"event"} \cup Recoverable /\ Head(results).stored \in BOOLEAN
      /\ Head(results).stored => Head(results).item \in Recoverable
  BY <1>2, <1>3 DEF FlightKept
<1>6. \A code : /\ Times(queue, code)' = Times(queue, code)
                /\ Times(batch, code)' = Times(batch, code)
                /\ \A i \in Answers(code)' : i + 1 \in Answers(code) /\ i + 1 # 1
  BY <1>4 DEF Times, Answers
<1>7. ASSUME NEW code \in Recoverable, code = Head(results).item
      PROVE  /\ Answers(code)' = {}
             /\ Times(queue, code) = {} /\ Times(batch, code) = {}
  <2>1. 1 \in Answers(code)
    BY <1>2, <1>3, <1>7 DEF Answers
  <2>2. QED BY <1>6, <2>1 DEF FlightKept, Alone
<1>8. ASSUME NEW code \in Recoverable
      PROVE  Alone(Answers(code))'
  <2>1. Alone(Answers(code))
    BY DEF FlightKept
  <2>2. \A i \in Answers(code)' : i \in Int
    BY <1>4 DEF Answers
  <2>3. QED BY <1>6, <2>1, <2>2 DEF Alone
<1>9. ASSUME NEW code \in Recoverable
      PROVE  (/\ Alone(Times(queue, code)) /\ Alone(Times(batch, code)) /\ Alone(Answers(code))
              /\ Times(queue, code) = {} \/ (Times(batch, code) = {} /\ Answers(code) = {})
              /\ Times(batch, code) = {} \/ Answers(code) = {}
              /\ persist.recovery[code].incident = NoIncident =>
                    Times(queue, code) = {} /\ Times(batch, code) = {} /\ Answers(code) = {})'
  <2>1. Answers(code) = {} => Answers(code)' = {}
    BY <1>6
  <2>2. Alone(Times(queue, code))' /\ Alone(Times(batch, code))'
    BY <1>6 DEF FlightKept, Alone
  <2>3. CASE code = Head(results).item
    BY <1>6, <1>7, <1>8, <2>2, <2>3
  <2>4. CASE code # Head(results).item
    BY <1>6, <1>8, <2>1, <2>2, <2>4 DEF FlightKept
  <2>5. QED BY <2>3, <2>4
<1>10. \A i \in DOMAIN results' : results'[i].stored => results'[i].item \in Recoverable
  BY <1>4 DEF FlightKept
<1>11. FlightKept'
  BY <1>4, <1>9, <1>10 DEF FlightKept
<1>12. ASSUME NEW i \in DOMAIN results', Head(results).item \in Recoverable
       PROVE  results'[i].item # Head(results).item
  BY <1>7, <1>12 DEF Answers
<1>13. QED BY <1>3, <1>2, <1>4, <1>5, <1>11, <1>12

LEMMA Pops ==
    ASSUME NEW code \in Recoverable, persist \in Persist
    PROVE  /\ Popped(code) \in Persist /\ Popped(code).phase = persist.phase
           /\ Popped(code).failures = persist.failures
           /\ Popped(code).recovery[code] = NotPending
           /\ \A other \in Recoverable \ {code} :
                  Popped(code).recovery[other] = persist.recovery[other]
<1>1. NotPending \in [incident : Incidents \cup {NoIncident}, current : BOOLEAN]
  BY DEF NotPending
<1>2. QED BY <1>1 DEF Popped, Persist

Repaired(code) == [Popped(code) EXCEPT !.failures[code] = NoIncident]

LEMMA RepairedFields ==
    ASSUME NEW code \in Recoverable, code \in Keys, persist \in Persist
    PROVE  /\ Repaired(code) \in Persist /\ Repaired(code).phase = persist.phase
           /\ Repaired(code).failures[code] = NoIncident
           /\ \A other \in Keys \ {code} :
                  Repaired(code).failures[other] = persist.failures[other]
           /\ Repaired(code).recovery[code] = NotPending
           /\ \A other \in Recoverable \ {code} :
                  Repaired(code).recovery[other] = persist.recovery[other]
<1>1. PICK p \in Persist :
          /\ p = Popped(code) /\ p.phase = persist.phase /\ p.failures = persist.failures
          /\ p.recovery[code] = NotPending
          /\ \A other \in Recoverable \ {code} : p.recovery[other] = persist.recovery[other]
  BY Pops
<1>2. PICK q : q = Repaired(code)
  OBVIOUS
<1>3. q = [p EXCEPT !.failures[code] = NoIncident]
  BY <1>1, <1>2 DEF Repaired
<1>4. p \in Persist
  BY <1>1
<1>5. /\ q \in Persist /\ q.phase = p.phase /\ q.recovery = p.recovery
      /\ q.failures[code] = NoIncident
      /\ \A other \in Keys \ {code} : q.failures[other] = p.failures[other]
  BY <1>3, <1>4 DEF Persist
<1>6. QED BY <1>1, <1>2, <1>5

LEMMA PendingNot == NotPending.incident = NoIncident /\ ~NotPending.current
BY DEF NotPending

(* A result is taken when nothing else waits.                              *)
LEMMA DrainAlone ==
    ASSUME HInv, Handles("drain")
    PROVE  /\ calls # <<>> /\ Head(calls).op = "drain" /\ Under = {}
           /\ Stack = {Head(calls)}
           /\ Drain \in AllCalls /\ Drain.op = "drain" /\ Due(Drain)'
<1>1. calls # <<>> /\ Head(calls).op = "drain"
  BY DEF Handles
<1>2. Under = {} /\ Stack = {Head(calls)}
  BY <1>1, TopOfStack DEF HInv
<1>3. Drain \in AllCalls /\ Drain.op = "drain" /\ Drain.incident = NoIncident
  BY DEF Drain, Call, AllCalls, Ops
<1>4. Due(Drain)'
  BY <1>3 DEF Due, Drain, Call
<1>5. QED BY <1>1, <1>2, <1>3, <1>4

LEMMA RepairKeeps ==
    ASSUME HInv, Handles("drain"), results # <<>>, results' = Tail(results),
           Head(results).stored, NEW code \in Recoverable, code = Head(results).item,
           Repairs(code), persist' = Repaired(code),
           Return(<<Call("recovery", code, persist.failures[code]),
                    Call("announce", "none", NoIncident), Drain>>),
           control' = control, monitor' = monitor, ledger' = ledger,
           queue' = queue, batch' = batch
    PROVE  HInv'
<1>1. /\ calls # <<>> /\ Head(calls).op = "drain" /\ Under = {} /\ Stack = {Head(calls)}
      /\ Drain \in AllCalls /\ Drain.op = "drain" /\ Due(Drain)'
  BY DrainAlone
<1>2. persist \in Persist /\ code \in Keys
  BY HealthConstants DEF HInv, PersistKept
<1>5. /\ persist' \in Persist /\ persist'.phase = persist.phase
      /\ persist'.failures[code] = NoIncident
      /\ \A other \in Keys \ {code} : persist'.failures[other] = persist.failures[other]
      /\ persist'.recovery[code] = NotPending
      /\ \A other \in Recoverable \ {code} : persist'.recovery[other] = persist.recovery[other]
  BY <1>2, RepairedFields
<1>6. /\ persist.failures[code] # NoIncident /\ persist.failures[code] \in Incidents
      /\ persist.recovery[code].current
  BY <1>2, PersistFields DEF Repairs
<1>7. PICK f, a, d : /\ f = Call("recovery", code, persist.failures[code])
                     /\ a = Call("announce", "none", NoIncident) /\ d = Drain
  OBVIOUS
<1>8. /\ f \in AllCalls /\ f.op = "recovery" /\ f.key = code
      /\ f.incident = persist.failures[code]
      /\ a \in AllCalls /\ a.op = "announce" /\ a.incident = NoIncident
  BY <1>2, <1>6, <1>7 DEF Call, AllCalls, Ops
<1>9. PICK inner : inner = <<f, a, d>>
  OBVIOUS
<1>10. calls' = inner \o Tail(calls)
  BY <1>7, <1>9 DEF Return
<1>11. control.running => control.failures[code] = persist.failures[code]
  BY <1>1 DEF HInv, AgreeKept, Awaits
<1>12. Due(f)' /\ Due(a)' /\ Due(d)'
  <2>1. Due(f)'
    BY <1>5, <1>6, <1>8, <1>11 DEF Due
  <2>2. Due(a)'
    BY <1>8 DEF Due
  <2>3. d.incident = NoIncident /\ d.op = "drain"
    BY <1>7 DEF Drain, Call
  <2>4. Due(d)'
    BY <2>3 DEF Due
  <2>5. QED BY <2>1, <2>2, <2>4
<1>13. /\ inner \in Seq(AllCalls) /\ Placed(inner)
       /\ \A i \in DOMAIN inner : Due(inner[i])'
       /\ {inner[i] : i \in DOMAIN inner} = {f, a, d}
  <2>1. f \in AllCalls /\ a \in AllCalls /\ d \in AllCalls
    BY <1>1, <1>7, <1>8
  <2>2. /\ inner \in Seq(AllCalls) /\ DOMAIN inner = 1..3 /\ Len(inner) = 3
        /\ inner[1] = f /\ inner[2] = a /\ inner[3] = d
    BY <1>9, <2>1
  <2>3. \A i \in DOMAIN inner : i = 1 \/ i = 2 \/ i = 3
    BY <2>2
  <2>4. f.op = "recovery" /\ a.op = "announce" /\ d.op = "drain"
    BY <1>1, <1>7, <1>8
  <2>5. Placed(inner)
    BY <2>2, <2>3, <2>4 DEF Placed
  <2>6. \A i \in DOMAIN inner : Due(inner[i])'
    BY <1>12, <2>2, <2>3
  <2>7. {inner[i] : i \in DOMAIN inner} = {f, a, d}
    BY <2>2, <2>3
  <2>8. QED BY <2>2, <2>5, <2>6, <2>7
<1>14. StackKept' /\ Stack' = {f, a, d}
  <2>1. StackKept
    BY DEF HInv
  <2>2. StackKept' /\ Stack' = {inner[i] : i \in DOMAIN inner} \cup Under
    BY <1>1, <1>5, <1>10, <1>13, <2>1, StackStep
  <2>3. QED BY <1>1, <1>13, <2>2
<1>15. Awaits("recovery", code)' /\ ~Awaits("report", "write")' /\ ~Awaits("report", "write")
  BY <1>1, <1>7, <1>8, <1>14 DEF Awaits
<1>16. ControlKept' /\ MonitorKept' /\ AgreeKept' /\ (Alarmed => Alarmed')
  <2>1. \A other \in Recoverable :
            \/ persist'.failures[other] = persist.failures[other]
            \/ Awaits("failure", other)' \/ Awaits("recovery", other)'
    BY <1>5, <1>15, HealthConstants
  <2>2. QED BY <1>1, <1>5, <2>1, PersistFrame
<1>17. PersistKept'
  <2>1. \A key \in Keys : persist'.failures[key] # NoIncident =>
            persist'.failures[key] = persist.failures[key]
    BY <1>5
  <2>2. \A other \in Recoverable :
            persist'.recovery[other].current => persist'.recovery[other].incident # NoIncident
    BY <1>5, PendingNot DEF HInv, PersistKept
  <2>3. QED BY <1>5, <2>1, <2>2 DEF HInv, PersistKept
<1>18. /\ FlightKept'
       /\ 1 \in DOMAIN results /\ Head(results) = results[1]
       /\ \A i \in DOMAIN results' : i + 1 \in DOMAIN results /\ results'[i] = results[i + 1]
       /\ \A i \in DOMAIN results' : results'[i].item # code
  <2>1. \A other \in Recoverable :
            persist'.recovery[other].incident = NoIncident =>
                other = Head(results).item \/ persist.recovery[other].incident = NoIncident
    BY <1>5
  <2>2. QED BY <2>1, Drained DEF HInv
<1>19. LedgerKept'
  <2>1. ledger # "gap"
    BY <1>6, <1>18 DEF HInv, LedgerKept
  <2>2. ledger # "complete" /\ persist.phase # "new"
    BY <1>6 DEF HInv, LedgerKept
  <2>3. \A other \in Recoverable : persist'.failures[other] # NoIncident =>
            persist.failures[other] # NoIncident
    BY <1>5, HealthConstants
  <2>4. QED BY <1>5, <1>15, <1>16, <2>1, <2>2, <2>3 DEF HInv, LedgerKept
<1>20. QED BY <1>14, <1>16, <1>17, <1>18, <1>19 DEF HInv

LEMMA StaleResultKeeps ==
    ASSUME HInv, Handles("drain"), results # <<>>, results' = Tail(results),
           NEW code \in Recoverable, code = Head(results).item,
           persist' = Popped(code), Return(<<Drain>>),
           control' = control, monitor' = monitor, ledger' = ledger,
           queue' = queue, batch' = batch
    PROVE  HInv'
<1>1. /\ calls # <<>> /\ Head(calls).op = "drain" /\ Under = {} /\ Stack = {Head(calls)}
      /\ Drain \in AllCalls /\ Drain.op = "drain" /\ Due(Drain)'
  BY DrainAlone
<1>2. persist \in Persist
  BY DEF HInv, PersistKept
<1>3. /\ persist' \in Persist /\ persist'.phase = persist.phase
      /\ persist'.failures = persist.failures
      /\ persist'.recovery[code] = NotPending
      /\ \A other \in Recoverable \ {code} : persist'.recovery[other] = persist.recovery[other]
  BY <1>2, Pops
<1>4. PICK d, inner : d = Drain /\ inner = <<d>>
  OBVIOUS
<1>5. /\ inner \in Seq(AllCalls) /\ DOMAIN inner = {1} /\ inner[1] = d /\ Placed(inner)
      /\ {inner[i] : i \in DOMAIN inner} = {d} /\ calls' = inner \o Tail(calls)
  BY <1>1, <1>4, OneCall DEF Return
<1>6. Due(d)'
  <2>1. d.incident = NoIncident /\ d.op = "drain"
    BY <1>4 DEF Drain, Call
  <2>2. QED BY <2>1 DEF Due
<1>7. StackKept' /\ Stack' = {d}
  <2>1. StackKept
    BY DEF HInv
  <2>2. StackKept' /\ Stack' = {inner[i] : i \in DOMAIN inner} \cup Under
    BY <1>1, <1>3, <1>5, <1>6, <2>1, StackStep
  <2>3. QED BY <1>1, <1>5, <2>2
<1>8. ControlKept' /\ MonitorKept' /\ AgreeKept' /\ (Alarmed => Alarmed')
  BY <1>1, <1>3, PersistFrame
<1>9. PersistKept'
  <2>1. \A other \in Recoverable :
            persist'.recovery[other].current => persist'.recovery[other].incident # NoIncident
    BY <1>3, PendingNot DEF HInv, PersistKept
  <2>2. QED BY <1>3, <2>1 DEF HInv, PersistKept
<1>10. /\ FlightKept'
       /\ \A i \in DOMAIN results' : i + 1 \in DOMAIN results /\ results'[i] = results[i + 1]
       /\ \A i \in DOMAIN results' : results'[i].item # code
  <2>1. \A other \in Recoverable :
            persist'.recovery[other].incident = NoIncident =>
                other = Head(results).item \/ persist.recovery[other].incident = NoIncident
    BY <1>3
  <2>2. QED BY <2>1, Drained DEF HInv
<1>11. LedgerKept'
  <2>1. ~Awaits("report", "write")' /\ ~Awaits("report", "write")
    BY <1>1, <1>4, <1>7 DEF Awaits
  <2>2. persist.phase # "new"
    BY DEF HInv, LedgerKept
  <2>3. ASSUME NEW i \in DOMAIN results', results'[i].stored, results'[i].item \in Recoverable,
               persist'.recovery[results'[i].item].current
        PROVE  ledger # "gap"
    <3>1. persist.recovery[results[i + 1].item].current
      BY <1>3, <1>10, <2>3
    <3>2. QED BY <1>10, <2>3, <3>1 DEF HInv, LedgerKept
  <2>4. \A other \in Recoverable : persist.recovery[other].incident = NoIncident =>
            persist'.recovery[other].incident = NoIncident
    BY <1>3, PendingNot
  <2>5. QED BY <1>3, <1>8, <2>1, <2>2, <2>3, <2>4 DEF HInv, LedgerKept, Active
<1>12. QED BY <1>7, <1>8, <1>9, <1>10, <1>11 DEF HInv

LEMMA FailedKeeps ==
    ASSUME HInv, Handles("drain"), results # <<>>, results' = Tail(results),
           NEW item, item = Head(results).item, DrainFailed(item),
           control' = control, monitor' = monitor, queue' = queue, batch' = batch
    PROVE  HInv'
<1>1. /\ calls # <<>> /\ Head(calls).op = "drain" /\ Under = {} /\ Stack = {Head(calls)}
      /\ Drain \in AllCalls /\ Drain.op = "drain" /\ Due(Drain)'
  BY DrainAlone
<1>2. persist \in Persist
  BY DEF HInv, PersistKept
<1>3. PICK p \in Persist :
          /\ p = (IF item \in Recoverable THEN Popped(item) ELSE persist)
          /\ p.phase = persist.phase /\ p.failures = persist.failures
          /\ \A code \in Recoverable : p.recovery[code].incident = NoIncident =>
                 code = item \/ persist.recovery[code].incident = NoIncident
          /\ \A code \in Recoverable : persist.recovery[code].incident = NoIncident =>
                 p.recovery[code].incident = NoIncident
  <2>1. CASE item \in Recoverable
    BY <1>2, <2>1, Pops, PendingNot
  <2>2. CASE item \notin Recoverable
    BY <1>2, <2>2
  <2>3. QED BY <2>1, <2>2
<1>4. PICK q \in Persist :
          /\ q = Lost(p) /\ q.phase = persist.phase /\ q.failures = persist.failures
          /\ \A code \in Recoverable : /\ q.recovery[code].incident = p.recovery[code].incident
                                       /\ ~q.recovery[code].current
  BY <1>3, Loses
<1>5. /\ persist' = [q EXCEPT !.backoff = TRUE] /\ ledger' = "gap"
      /\ Return(<<Call("report", "write", NoIncident), Drain>>)
  BY <1>3, <1>4 DEF DrainFailed
<1>6. /\ persist' \in Persist /\ persist'.phase = persist.phase
      /\ persist'.failures = persist.failures
      /\ \A code \in Recoverable :
             /\ persist'.recovery[code].incident = p.recovery[code].incident
             /\ ~persist'.recovery[code].current
  <2>1. q \in Persist
    BY <1>4
  <2>2. /\ persist' \in Persist /\ persist'.phase = q.phase
        /\ persist'.failures = q.failures /\ persist'.recovery = q.recovery
    BY <1>5, <2>1 DEF Persist
  <2>3. QED BY <1>4, <2>2
<1>7. PICK r, d, inner : /\ r = Call("report", "write", NoIncident) /\ d = Drain
                         /\ inner = <<r, d>>
  OBVIOUS
<1>8. /\ r \in AllCalls /\ r.op = "report" /\ r.key = "write" /\ r.incident = NoIncident
      /\ d \in AllCalls /\ d.op = "drain" /\ d.incident = NoIncident
      /\ calls' = inner \o Tail(calls)
  BY <1>1, <1>5, <1>7, HealthConstants DEF Call, AllCalls, Ops, Return, Drain
<1>9. Due(r)' /\ Due(d)'
  BY <1>8 DEF Due
<1>10. /\ inner \in Seq(AllCalls) /\ Placed(inner) /\ {inner[i] : i \in DOMAIN inner} = {r, d}
       /\ \A i \in DOMAIN inner : Due(inner[i])'
  <2>1. /\ inner \in Seq(AllCalls) /\ DOMAIN inner = 1..2 /\ Len(inner) = 2
        /\ inner[1] = r /\ inner[2] = d
    BY <1>7, <1>8
  <2>2. \A i \in DOMAIN inner : i = 1 \/ i = 2
    BY <2>1
  <2>3. Placed(inner)
    BY <1>8, <2>1, <2>2 DEF Placed
  <2>4. QED BY <1>9, <2>1, <2>2, <2>3
<1>11. StackKept' /\ Stack' = {r, d}
  <2>1. StackKept
    BY DEF HInv
  <2>2. StackKept' /\ Stack' = {inner[i] : i \in DOMAIN inner} \cup Under
    BY <1>1, <1>6, <1>8, <1>10, <2>1, StackStep
  <2>3. QED BY <1>1, <1>10, <2>2
<1>12. ControlKept' /\ MonitorKept' /\ AgreeKept' /\ (Alarmed => Alarmed')
  BY <1>1, <1>6, PersistFrame
<1>13. PersistKept'
  BY <1>6 DEF HInv, PersistKept
<1>14. /\ FlightKept' /\ 1 \in DOMAIN results
  <2>1. \A code \in Recoverable : persist'.recovery[code].incident = NoIncident =>
            code = Head(results).item \/ persist.recovery[code].incident = NoIncident
    BY <1>3, <1>6
  <2>2. QED BY <2>1, Drained DEF HInv
<1>15. LedgerKept'
  <2>1. Awaits("report", "write")'
    BY <1>8, <1>11 DEF Awaits
  <2>2. persist.phase # "new"
    BY DEF HInv, LedgerKept
  <2>3. QED BY <1>5, <1>6, <1>12, <2>1, <2>2 DEF HInv, LedgerKept
<1>16. QED BY <1>11, <1>12, <1>13, <1>14, <1>15 DEF HInv

LEMMA DrainKeeps ==
    ASSUME HInv, OnDrain
    PROVE  HInv'
<1>1. /\ Handles("drain") /\ control' = control /\ monitor' = monitor
      /\ queue' = queue /\ batch' = batch
  BY DEF OnDrain
<1>2. PICK item : item = Head(results).item
  OBVIOUS
<1>3. CASE /\ results # <<>> /\ results' = Tail(results)
           /\ Head(results).stored /\ DrainStored(item)
  <2>1. item \in Recoverable
    <3>1. 1 \in DOMAIN results /\ Head(results) = results[1]
      <4>1. results \in Seq([item : {"event"} \cup Recoverable, stored : BOOLEAN])
        BY DEF HInv, FlightKept
      <4>2. QED BY <1>3, <4>1
    <3>2. QED BY <1>2, <1>3, <3>1 DEF HInv, FlightKept
  <2>2. CASE /\ Repairs(item)
             /\ persist' = [Popped(item) EXCEPT !.failures[item] = NoIncident]
             /\ Return(<<Call("recovery", item, persist.failures[item]),
                         Call("announce", "none", NoIncident), Drain>>)
             /\ UNCHANGED ledger
    <3>1. persist' = Repaired(item)
      BY <2>2 DEF Repaired
    <3>2. QED BY <1>1, <1>2, <1>3, <2>1, <2>2, <3>1, RepairKeeps
  <2>3. CASE persist' = Popped(item) /\ Return(<<Drain>>) /\ UNCHANGED ledger
    BY <1>1, <1>2, <1>3, <2>1, <2>3, StaleResultKeeps
  <2>4. QED BY <1>3, <2>2, <2>3 DEF DrainStored
<1>4. CASE results # <<>> /\ results' = Tail(results) /\ DrainFailed(item)
  BY <1>1, <1>2, <1>4, FailedKeeps
<1>5. CASE /\ Return(IF Active /\ ~persist.backoff THEN <<TryRecovery("write")>> ELSE <<>>)
           /\ UNCHANGED <<persist, results, ledger>>
  <2>1. PICK c, inner : /\ c = TryRecovery("write")
                        /\ inner = <<>> \/ inner = <<c>>
                        /\ calls' = inner \o Tail(calls)
    BY <1>5 DEF Return
  <2>2. c \in AllCalls /\ c.op = "recover" /\ c.key = "write" /\ c.incident = NoIncident
    BY <2>1, HealthConstants DEF TryRecovery, Call, AllCalls, Ops
  <2>3. Due(c)'
    BY <2>2, HealthConstants DEF Due
  <2>4. inner \in Seq(AllCalls) /\ Placed(inner) /\ \A i \in DOMAIN inner : inner[i] = c
    BY <2>1, <2>2, NoCalls, OneCall
  <2>5. \A i \in DOMAIN inner : /\ inner[i].op # "drain" /\ Due(inner[i])'
                                /\ ~(inner[i].op = "report" /\ inner[i].key = "write")
    BY <2>2, <2>3, <2>4
  <2>6. calls # <<>> /\ Head(calls).op = "drain" /\ persist \in Persist
    BY <1>1 DEF Handles, HInv, PersistKept
  <2>7. QED BY <1>1, <1>5, <2>1, <2>4, <2>5, <2>6, Passes
<1>6. QED BY <1>2, <1>3, <1>4, <1>5 DEF OnDrain

-----------------------------------------------------------------------------
(* The worker thread, and time.                                            *)

(* A step beside the handlers: no call is made and no failure changes.     *)
LEMMA Beside ==
    ASSUME HInv, calls' = calls, control' = control, monitor' = monitor, persist' \in Persist,
           persist'.phase = persist.phase, persist'.failures = persist.failures,
           persist'.recovery = persist.recovery
    PROVE  /\ StackKept' /\ ControlKept' /\ AgreeKept' /\ MonitorKept' /\ PersistKept'
           /\ \A op, key : Awaits(op, key)' <=> Awaits(op, key)
           /\ Alarmed' <=> Alarmed
<1>1. Stack' = Stack
  BY DEF Stack
<1>2. \A op, key : Awaits(op, key)' <=> Awaits(op, key)
  BY <1>1 DEF Awaits
<1>3. Alarmed' <=> Alarmed
  BY <1>2 DEF Alarmed
<1>4. ASSUME NEW c, Due(c) PROVE Due(c)'
  BY <1>4 DEF Due, Active
<1>5. StackKept'
  BY <1>1, <1>4 DEF HInv, StackKept
<1>6. ControlKept'
  BY <1>1 DEF HInv, ControlKept, GatesOpen, Unfailed, Active
<1>7. AgreeKept'
  BY <1>2 DEF HInv, AgreeKept
<1>8. MonitorKept'
  BY <1>2 DEF HInv, MonitorKept
<1>9. PersistKept'
  BY DEF HInv, PersistKept
<1>10. QED BY <1>2, <1>3, <1>5, <1>6, <1>7, <1>8, <1>9

LEMMA BackoffKeeps ==
    ASSUME HInv, BackoffEnds
    PROVE  HInv'
<1>1. /\ calls' = calls /\ control' = control /\ monitor' = monitor /\ queue' = queue
      /\ batch' = batch /\ results' = results /\ ledger' = ledger
      /\ persist' = [persist EXCEPT !.backoff = FALSE]
  BY DEF BackoffEnds, workerVars
<1>2. persist \in Persist
  BY DEF HInv, PersistKept
<1>3. /\ persist' \in Persist /\ persist'.phase = persist.phase
      /\ persist'.failures = persist.failures /\ persist'.recovery = persist.recovery
  BY <1>1, <1>2 DEF Persist
<1>4. /\ StackKept' /\ ControlKept' /\ AgreeKept' /\ MonitorKept' /\ PersistKept'
      /\ \A op, key : Awaits(op, key)' <=> Awaits(op, key)
      /\ Alarmed' <=> Alarmed
  BY <1>1, <1>3, Beside
<1>5. FlightKept'
  BY <1>1, <1>3, SameFlight DEF HInv
<1>6. LedgerKept'
  BY <1>1, <1>3, <1>4 DEF HInv, LedgerKept, Active
<1>7. QED BY <1>4, <1>5, <1>6 DEF HInv

LEMMA TakeKeeps ==
    ASSUME HInv, Take
    PROVE  HInv'
<1> DEFINE Items == {"event"} \cup Recoverable
           n == Len(queue)
<1>1. /\ calls' = calls /\ control' = control /\ monitor' = monitor /\ persist' = persist
      /\ results' = results /\ ledger' = ledger /\ queue # <<>> /\ batch = <<>>
  BY DEF Take
<1>2. queue \in Seq(Items) /\ n \in Nat /\ DOMAIN queue = 1..n
  BY DEF HInv, FlightKept
<1>3. PICK taken \in 0..n : /\ batch' = SubSeq(queue, 1, taken)
                            /\ queue' = SubSeq(queue, taken + 1, n)
  <2>1. \E taken \in 0..n : taken = (IF n < BatchSize THEN n ELSE BatchSize)
    <3>1. BatchSize \in Nat
      BY HealthConstants
    <3> HIDE DEF n
    <3>2. CASE n < BatchSize
      BY <1>2, <3>1, <3>2
    <3>3. CASE ~(n < BatchSize)
      <4>1. BatchSize \in 0..n
        BY <1>2, <3>1, <3>3
      <4>2. QED BY <3>3, <4>1
    <3>4. QED BY <3>2, <3>3
  <2>2. QED BY <2>1 DEF Take
<1>4. \A i \in 1..n : queue[i] \in Items
  BY <1>2
<1>5. /\ batch' \in Seq(Items) /\ Len(batch') = taken
      /\ \A i \in 1..taken : batch'[i] = queue[i]
  <2>1. \A i \in 1..taken : queue[i] \in Items
    BY <1>2, <1>4
  <2> HIDE DEF Items, n
  <2>2. /\ SubSeq(queue, 1, taken) \in Seq(Items)
        /\ Len(SubSeq(queue, 1, taken)) = IF 1 <= taken THEN taken - 1 + 1 ELSE 0
        /\ \A i \in 1..taken - 1 + 1 : SubSeq(queue, 1, taken)[i] = queue[1 + i - 1]
    BY <1>2, <2>1, SubSeqProperties
  <2>3. taken - 1 + 1 = taken /\ \A i \in 1..taken : 1 + i - 1 = i
    BY <1>2
  <2>4. QED BY <1>2, <1>3, <2>2, <2>3
<1>6. /\ queue' \in Seq(Items) /\ Len(queue') = n - taken
      /\ \A i \in 1..(n - taken) : queue'[i] = queue[taken + i]
  <2>1. \A i \in (taken + 1)..n : queue[i] \in Items
    BY <1>2, <1>4
  <2> HIDE DEF Items, n
  <2>2. /\ SubSeq(queue, taken + 1, n) \in Seq(Items)
        /\ Len(SubSeq(queue, taken + 1, n)) = IF taken + 1 <= n THEN n - (taken + 1) + 1 ELSE 0
        /\ \A i \in 1..n - (taken + 1) + 1 :
               SubSeq(queue, taken + 1, n)[i] = queue[(taken + 1) + i - 1]
    BY <1>2, <2>1, SubSeqProperties
  <2>3. n - (taken + 1) + 1 = n - taken /\ \A i \in 1..(n - taken) : (taken + 1) + i - 1 = taken + i
    BY <1>2
  <2>4. QED BY <1>2, <1>3, <2>2, <2>3
<1>7. /\ StackKept' /\ ControlKept' /\ AgreeKept' /\ MonitorKept' /\ PersistKept'
      /\ \A op, key : Awaits(op, key)' <=> Awaits(op, key)
      /\ Alarmed' <=> Alarmed
  BY <1>1, Beside DEF HInv, PersistKept
<1>8. ASSUME NEW code \in Recoverable
      PROVE  /\ Answers(code)' = Answers(code)
             /\ \A i \in Times(batch, code)' : i \in Int /\ i \in Times(queue, code) /\ i <= taken
             /\ \A i \in Times(queue, code)' : i \in Int /\ taken + i \in Times(queue, code) /\ 1 <= i
             /\ Alone(Times(queue, code))
  <2>1. Answers(code)' = Answers(code)
    BY <1>1 DEF Answers
  <2>2. \A i \in Times(batch, code)' : i \in Int /\ i \in Times(queue, code) /\ i <= taken
    BY <1>2, <1>5 DEF Times
  <2>3. \A i \in Times(queue, code)' : i \in Int /\ taken + i \in Times(queue, code) /\ 1 <= i
    BY <1>2, <1>6 DEF Times
  <2>4. QED BY <2>1, <2>2, <2>3 DEF HInv, FlightKept
<1>9. ASSUME NEW code \in Recoverable
      PROVE  (/\ Alone(Times(queue, code)) /\ Alone(Times(batch, code)) /\ Alone(Answers(code))
              /\ Times(queue, code) = {} \/ (Times(batch, code) = {} /\ Answers(code) = {})
              /\ Times(batch, code) = {} \/ Answers(code) = {}
              /\ persist.recovery[code].incident = NoIncident =>
                    Times(queue, code) = {} /\ Times(batch, code) = {} /\ Answers(code) = {})'
  <2>1. Alone(Times(batch, code))' /\ Alone(Times(queue, code))'
    BY <1>2, <1>8 DEF Alone
  <2>2. Alone(Answers(code))'
    BY <1>8 DEF HInv, FlightKept, Alone
  <2>3. Times(queue, code)' = {} \/ Times(batch, code)' = {}
    <3> SUFFICES ASSUME NEW i \in Times(queue, code)', NEW j \in Times(batch, code)' PROVE FALSE
      OBVIOUS
    <3>1. taken + i = j /\ j <= taken /\ 1 <= i /\ i \in Int /\ j \in Int
      BY <1>8 DEF Alone
    <3>2. QED BY <1>2, <3>1
  <2>4. Times(queue, code) = {} => Times(queue, code)' = {} /\ Times(batch, code)' = {}
    BY <1>8
  <2>5. Times(queue, code) # {} => Answers(code) = {}
    BY DEF HInv, FlightKept
  <2>6. persist.recovery[code].incident = NoIncident =>
            Times(queue, code) = {} /\ Answers(code) = {}
    BY DEF HInv, FlightKept
  <2>7. QED BY <1>1, <1>8, <2>1, <2>2, <2>3, <2>4, <2>5, <2>6
<1>10. FlightKept'
  BY <1>1, <1>5, <1>6, <1>9 DEF HInv, FlightKept
<1>11. LedgerKept'
  <2>1. persist.phase # "new"
    BY <1>1 DEF HInv, LedgerKept
  <2>2. QED BY <1>1, <1>7, <2>1 DEF HInv, LedgerKept, Active
<1>12. QED BY <1>7, <1>10, <1>11 DEF HInv

(* Places run from one to the number of what is kept.                      *)
LEMMA Ranked ==
    ASSUME NEW m \in Nat, NEW kept \in SUBSET (1..m)
    PROVE  /\ Cardinality(kept) \in Nat
           /\ \A k \in 1..Cardinality(kept) : \E i \in kept : Place(kept, i) = k
<1> DEFINE n == Cardinality(kept)
           upto(i) == {j \in kept : j <= i}
           f == [i \in kept |-> Place(kept, i)]
<1>1. IsFiniteSet(kept) /\ n \in Nat
  <2>1. IsFiniteSet(1..m)
    <3>1. 1 \in Int /\ m \in Int
      OBVIOUS
    <3>2. QED BY <3>1, FS_Interval
  <2>2. QED BY <2>1, FS_Subset, FS_CardinalityType
<1>a. \A i \in kept : i \in Int
  OBVIOUS
<1>2. ASSUME NEW i \in kept
      PROVE  /\ IsFiniteSet(upto(i)) /\ Cardinality(upto(i)) \in Nat
             /\ Place(kept, i) = Cardinality(upto(i)) /\ Place(kept, i) \in 1..n
  <2>1. upto(i) \subseteq kept /\ i \in upto(i)
    BY <1>a
  <2>2. Place(kept, i) = Cardinality(upto(i))
    BY DEF Place
  <2> HIDE DEF upto, n
  <2>3. IsFiniteSet(upto(i)) /\ Cardinality(upto(i)) \in Nat /\ Cardinality(upto(i)) <= Cardinality(kept)
    BY <1>1, <2>1, FS_Subset, FS_CardinalityType
  <2>4. Cardinality(upto(i)) # 0
    BY <2>1, <2>3, FS_EmptySet
  <2>5. QED BY <1>1, <2>2, <2>3, <2>4 DEF n
<1>3. ASSUME NEW i \in kept, NEW j \in kept, i < j
      PROVE  Place(kept, i) < Place(kept, j)
  <2>1. upto(i) \subseteq upto(j) \ {j} /\ j \in upto(j)
    <3>1. ASSUME NEW k \in kept, k <= i PROVE k <= j /\ k # j
      <4>1. i \in Int /\ j \in Int /\ k \in Int
        BY <1>a
      <4>2. QED BY <1>3, <3>1, <4>1
    <3>2. j <= j
      BY <1>a
    <3>3. QED BY <3>1, <3>2
  <2> HIDE DEF upto, n
  <2>2. Cardinality(upto(j) \ {j}) = Cardinality(upto(j)) - 1 /\ IsFiniteSet(upto(j) \ {j})
    BY <1>2, <2>1, FS_RemoveElement
  <2>3. Cardinality(upto(i)) <= Cardinality(upto(j)) - 1
    BY <2>1, <2>2, FS_Subset
  <2>4. QED BY <1>2, <2>3
<1>4. ASSUME NEW i \in kept, NEW j \in kept, Place(kept, i) = Place(kept, j)
      PROVE  i = j
  <2>1. Place(kept, i) \in Nat /\ Place(kept, j) \in Nat
    BY <1>1, <1>2
  <2>2. ~(i < j) /\ ~(j < i)
    BY <1>3, <1>4, <2>1
  <2>3. QED BY <1>a, <2>2
<1>5. f \in Injection(kept, 1..n)
  <2>1. f \in [kept -> 1..n]
    BY <1>2
  <2>2. \A i, j \in DOMAIN f : f[i] = f[j] => i = j
    BY <1>4
  <2>3. QED BY <2>1, <2>2 DEF Injection, IsInjective
<1>6. IsFiniteSet(1..n) /\ Cardinality(1..n) = n
  BY <1>1, FS_Interval
<1>7. f \in Surjection(kept, 1..n)
  <2> HIDE DEF f
  <2>1. QED BY <1>1, <1>5, <1>6, FS_Injection
<1>8. \A k \in 1..n : \E i \in kept : Place(kept, i) = k
  BY <1>7 DEF Surjection
<1>9. QED BY <1>1, <1>8

(* What the actor will be told: records of the batch, each at its place.   *)
LEMMA NoticedHolds ==
    ASSUME NEW Items, batch \in Seq(Items), NEW stored \in BOOLEAN
    PROVE  /\ Cardinality(Kept(stored)) \in Nat
           /\ DOMAIN Noticed(stored) = 1..Cardinality(Kept(stored))
           /\ \A k \in DOMAIN Noticed(stored) :
                  \E i \in DOMAIN batch :
                      /\ Noticed(stored)[k] = batch[i] /\ Place(Kept(stored), i) = k
                      /\ stored => batch[i] # "event"
<1>1. Len(batch) \in Nat /\ Kept(stored) \in SUBSET (1..Len(batch)) /\ DOMAIN batch = 1..Len(batch)
  BY DEF Kept
<1>2. /\ Cardinality(Kept(stored)) \in Nat
      /\ \A k \in 1..Cardinality(Kept(stored)) : \E i \in Kept(stored) : Place(Kept(stored), i) = k
  BY <1>1, Ranked
<1>3. DOMAIN Noticed(stored) = 1..Cardinality(Kept(stored))
  BY DEF Noticed
<1>4. ASSUME NEW k \in 1..Cardinality(Kept(stored))
      PROVE  \E i \in DOMAIN batch :
                 /\ Noticed(stored)[k] = batch[i] /\ Place(Kept(stored), i) = k
                 /\ stored => batch[i] # "event"
  <2>1. PICK i : i = CHOOSE j \in Kept(stored) : Place(Kept(stored), j) = k
    OBVIOUS
  <2>2. i \in Kept(stored) /\ Place(Kept(stored), i) = k
    BY <1>2, <2>1
  <2>3. Noticed(stored)[k] = batch[i]
    BY <2>1 DEF Noticed
  <2>4. i \in DOMAIN batch /\ (stored => batch[i] # "event")
    BY <2>2 DEF Kept
  <2>5. QED BY <2>2, <2>3, <2>4
<1>5. QED BY <1>2, <1>3, <1>4

LEMMA SettleKeeps ==
    ASSUME HInv, NEW stored \in BOOLEAN, Settle(stored)
    PROVE  HInv'
<1> DEFINE Items == {"event"} \cup Recoverable
           Results == [item : Items, stored : BOOLEAN]
           told == [i \in DOMAIN Noticed(stored) |->
                        [item |-> Noticed(stored)[i], stored |-> stored]]
           n == Cardinality(Kept(stored))
           m == Len(results)
<1>1. /\ calls' = calls /\ control' = control /\ monitor' = monitor /\ persist' = persist
      /\ queue' = queue /\ batch' = <<>> /\ batch # <<>> /\ results' = results \o told
      /\ ledger' = IF stored /\ \E i \in DOMAIN batch : NamesAll(batch[i])
                   THEN "named" ELSE ledger
  BY DEF Settle
<1>2. batch \in Seq(Items) /\ results \in Seq(Results) /\ m \in Nat /\ DOMAIN results = 1..m
  BY DEF HInv, FlightKept
<1>3. /\ n \in Nat /\ DOMAIN Noticed(stored) = 1..n
      /\ \A k \in 1..n : \E i \in DOMAIN batch :
             /\ Noticed(stored)[k] = batch[i] /\ Place(Kept(stored), i) = k
             /\ stored => batch[i] # "event"
  BY <1>2, NoticedHolds
<1>4. PICK at \in [1..n -> DOMAIN batch] :
          \A k \in 1..n : /\ Noticed(stored)[k] = batch[at[k]] /\ Place(Kept(stored), at[k]) = k
                          /\ stored => batch[at[k]] # "event"
  <2>1. PICK at : at = [k \in 1..n |->
                           CHOOSE i \in DOMAIN batch :
                               /\ Noticed(stored)[k] = batch[i] /\ Place(Kept(stored), i) = k
                               /\ stored => batch[i] # "event"]
    OBVIOUS
  <2>2. ASSUME NEW k \in 1..n
        PROVE  /\ at[k] \in DOMAIN batch
               /\ Noticed(stored)[k] = batch[at[k]] /\ Place(Kept(stored), at[k]) = k
               /\ stored => batch[at[k]] # "event"
    <3>1. at[k] = CHOOSE i \in DOMAIN batch :
                      /\ Noticed(stored)[k] = batch[i] /\ Place(Kept(stored), i) = k
                      /\ stored => batch[i] # "event"
      BY <2>1
    <3>2. QED BY <1>3, <3>1
  <2>3. QED BY <2>1, <2>2
<1>5. /\ told \in Seq(Results) /\ Len(told) = n
      /\ \A k \in 1..n : told[k].item = batch[at[k]] /\ told[k].stored = stored
  <2>1. ASSUME NEW k \in 1..n
        PROVE  /\ told[k] \in Results /\ told[k].item = batch[at[k]] /\ told[k].stored = stored
    <3>1. at[k] \in DOMAIN batch /\ Noticed(stored)[k] = batch[at[k]]
      BY <1>4
    <3>2. batch[at[k]] \in Items
      BY <1>2, <3>1
    <3>3. told[k] = [item |-> batch[at[k]], stored |-> stored]
      BY <1>3, <3>1
    <3>4. QED BY <3>2, <3>3
  <2>2. told \in [1..n -> Results]
    BY <1>3, <2>1
  <2> HIDE DEF Results, told, n
  <2>3. Len(told) = n /\ told \in Seq(Results)
    BY <1>3, <2>2
  <2>4. QED BY <2>1, <2>3
<1>6. /\ results' \in Seq(Results) /\ DOMAIN results' = 1..(m + n)
      /\ \A i \in 1..m : results'[i] = results[i]
      /\ \A i \in 1..(m + n) : ~(i <= m) => i - m \in 1..n /\ results'[i] = told[i - m]
  <2> HIDE DEF Results, told, n, m
  <2>1. /\ results' \in Seq(Results) /\ Len(results') = Len(results) + Len(told)
        /\ \A i \in 1..Len(results) + Len(told) :
               results'[i] = IF i <= Len(results) THEN results[i] ELSE told[i - Len(results)]
    BY <1>1, <1>2, <1>5, ConcatProperties
  <2>2. Len(results) = m /\ Len(told) = n
    BY <1>5 DEF m
  <2>3. /\ DOMAIN results' = 1..(m + n)
        /\ \A i \in 1..(m + n) : results'[i] = IF i <= m THEN results[i] ELSE told[i - m]
    <3>1. DOMAIN results' = 1..Len(results')
      BY <2>1
    <3>2. Len(results') = m + n
      BY <2>1, <2>2
    <3>3. \A i \in 1..(m + n) : results'[i] = IF i <= m THEN results[i] ELSE told[i - m]
      BY <2>1, <2>2
    <3>4. QED BY <3>1, <3>2, <3>3
  <2>4. /\ \A i \in 1..m : i \in 1..(m + n) /\ i <= m
        /\ \A i \in 1..(m + n) : ~(i <= m) => i - m \in 1..n
    BY <1>2, <1>3
  <2>5. QED BY <2>1, <2>3, <2>4
<1>7. \A i \in DOMAIN results' :
          \/ i \in DOMAIN results /\ results'[i] = results[i]
          \/ /\ i - m \in 1..n /\ i \in Int /\ at[i - m] \in DOMAIN batch
             /\ results'[i].item = batch[at[i - m]] /\ results'[i].stored = stored
  <2> SUFFICES ASSUME NEW i \in 1..(m + n)
               PROVE  \/ i \in DOMAIN results /\ results'[i] = results[i]
                      \/ /\ i - m \in 1..n /\ i \in Int /\ at[i - m] \in DOMAIN batch
                         /\ results'[i].item = batch[at[i - m]] /\ results'[i].stored = stored
    BY <1>6
  <2> HIDE DEF Results, told, n, m
  <2>1. CASE i <= m
    BY <1>2, <1>3, <1>6, <2>1
  <2>2. CASE ~(i <= m)
    BY <1>4, <1>5, <1>6, <2>2
  <2>3. QED BY <2>1, <2>2
<1> HIDE DEF told, n, m
<1>8. \A i \in DOMAIN results' : results'[i].stored => results'[i].item \in Recoverable
  <2> SUFFICES ASSUME NEW i \in DOMAIN results', results'[i].stored
               PROVE  results'[i].item \in Recoverable
    OBVIOUS
  <2>1. CASE i \in DOMAIN results /\ results'[i] = results[i]
    BY <2>1 DEF HInv, FlightKept
  <2>2. CASE /\ i - m \in 1..n /\ at[i - m] \in DOMAIN batch
             /\ results'[i].item = batch[at[i - m]] /\ results'[i].stored = stored
    <3>1. batch[at[i - m]] \in Items /\ batch[at[i - m]] # "event"
      BY <1>2, <1>4, <2>2
    <3>2. QED BY <2>2, <3>1
  <2>3. QED BY <1>7, <2>1, <2>2
<1>9. ASSUME NEW code \in Recoverable
      PROVE  (/\ Alone(Times(queue, code)) /\ Alone(Times(batch, code)) /\ Alone(Answers(code))
              /\ Times(queue, code) = {} \/ (Times(batch, code) = {} /\ Answers(code) = {})
              /\ Times(batch, code) = {} \/ Answers(code) = {}
              /\ persist.recovery[code].incident = NoIncident =>
                    Times(queue, code) = {} /\ Times(batch, code) = {} /\ Answers(code) = {})'
  <2>1. Times(queue, code)' = Times(queue, code) /\ Times(batch, code)' = {}
    BY <1>1 DEF Times
  <2>2. \A i \in Answers(code)' :
            i \in Answers(code) \/ (i \in Int /\ i - m \in 1..n /\ at[i - m] \in Times(batch, code))
    BY <1>7 DEF Answers, Times
  <2>3. Alone(Times(batch, code)) /\ Alone(Answers(code)) /\ Alone(Times(queue, code))
        /\ (Times(batch, code) = {} \/ Answers(code) = {})
        /\ (Times(queue, code) = {} \/ (Times(batch, code) = {} /\ Answers(code) = {}))
    BY DEF HInv, FlightKept
  <2>4. Alone(Answers(code))'
    <3> SUFFICES ASSUME NEW i \in Answers(code)', NEW j \in Answers(code)' PROVE i = j
      BY DEF Alone
    <3>1. CASE Times(batch, code) = {}
      BY <2>2, <2>3, <3>1 DEF Alone
    <3>2. CASE Answers(code) = {}
      <4>1. /\ i \in Int /\ j \in Int /\ i - m \in 1..n /\ j - m \in 1..n
            /\ at[i - m] \in Times(batch, code) /\ at[j - m] \in Times(batch, code)
        BY <2>2, <3>2
      <4>2. at[i - m] = at[j - m]
        BY <2>3, <4>1 DEF Alone
      <4>3. Place(Kept(stored), at[i - m]) = i - m /\ Place(Kept(stored), at[j - m]) = j - m
        BY <1>4, <4>1
      <4>4. i - m = j - m
        BY <4>2, <4>3
      <4>5. QED BY <1>2, <4>1, <4>4
    <3>3. QED BY <2>3, <3>1, <3>2
  <2>5. Times(batch, code) = {} /\ Answers(code) = {} => Answers(code)' = {}
    BY <2>2
  <2>6. persist.recovery[code].incident = NoIncident =>
            Times(queue, code) = {} /\ Times(batch, code) = {} /\ Answers(code) = {}
    BY DEF HInv, FlightKept
  <2>7. Alone(Times(queue, code))' /\ Alone(Times(batch, code))'
    BY <2>1, <2>3 DEF Alone
  <2>8. QED BY <1>1, <2>1, <2>3, <2>4, <2>5, <2>6, <2>7
<1>10. FlightKept'
  <2>1. queue' \in Seq(Items) /\ batch' \in Seq(Items)
    BY <1>1 DEF HInv, FlightKept
  <2>2. QED BY <1>6, <1>8, <1>9, <2>1 DEF FlightKept
<1>11. /\ StackKept' /\ ControlKept' /\ AgreeKept' /\ MonitorKept' /\ PersistKept'
       /\ \A op, key : Awaits(op, key)' <=> Awaits(op, key)
       /\ Alarmed' <=> Alarmed
  BY <1>1, Beside DEF HInv, PersistKept
<1>12. LedgerKept'
  <2>1. persist.phase # "new" /\ ledger \in {"complete", "gap", "named"}
    BY <1>1 DEF HInv, LedgerKept
  <2>2. (\E i \in DOMAIN batch : NamesAll(batch[i])) => ledger # "complete"
    BY DEF NamesAll, HInv, LedgerKept, PersistKept
  <2>3. /\ ledger' \in {"complete", "gap", "named"}
        /\ ledger' = "complete" => ledger = "complete"
        /\ ledger' = "gap" => ledger = "gap"
        /\ ledger' # "complete" => ledger # "complete"
    BY <1>1, <2>1, <2>2
  <2>4. ASSUME NEW i \in DOMAIN results', results'[i].stored, results'[i].item \in Recoverable,
               persist.recovery[results'[i].item].current
        PROVE  ledger' # "gap"
    <3>1. CASE i \in DOMAIN results /\ results'[i] = results[i]
      BY <2>3, <2>4, <3>1 DEF HInv, LedgerKept
    <3>2. CASE /\ i - m \in 1..n /\ at[i - m] \in DOMAIN batch
               /\ results'[i].item = batch[at[i - m]] /\ results'[i].stored = stored
      <4>1. stored /\ NamesAll(batch[at[i - m]])
        BY <2>4, <3>2 DEF NamesAll
      <4>2. QED BY <1>1, <3>2, <4>1
    <3>3. QED BY <1>7, <3>1, <3>2
  <2>5. QED BY <1>1, <1>11, <2>1, <2>3, <2>4 DEF HInv, LedgerKept, Active
<1>13. QED BY <1>10, <1>11, <1>12 DEF HInv

-----------------------------------------------------------------------------
(* What starts a cascade.                                                  *)

LEMMA QuietStack ==
    ASSUME calls = <<>>
    PROVE  Stack = {} /\ \A op, key : ~Awaits(op, key)
BY DEF Stack, Awaits

LEMMA Starts ==
    ASSUME NEW inner \in Seq(AllCalls), calls' = inner, Placed(inner),
           \A i \in DOMAIN inner : Due(inner[i])'
    PROVE  StackKept' /\ Stack' = {inner[i] : i \in DOMAIN inner}
<1>1. Stack' = {inner[i] : i \in DOMAIN inner}
  BY DEF Stack
<1>2. ASSUME NEW c \in Stack' PROVE Due(c)'
  BY <1>1, <1>2
<1>3. QED BY <1>1, <1>2 DEF StackKept, Placed

(* Timers and the persistence actor's own lifecycle.                       *)
LEMMA Quietly ==
    ASSUME HInv, calls = <<>>, control' = control, monitor' = monitor, queue' = queue,
           batch' = batch, results' = results, ledger' = ledger, persist' \in Persist,
           persist'.failures = persist.failures, persist'.recovery = persist.recovery,
           \/ persist'.phase = persist.phase
           \/ persist.phase = "new" /\ persist'.phase # "new"
           \/ ~control.running /\ persist'.phase = "stopped",
           NEW inner \in Seq(AllCalls), calls' = inner, Placed(inner),
           \A i \in DOMAIN inner : /\ Due(inner[i])'
                                   /\ ~(inner[i].op = "report" /\ inner[i].key = "write")
    PROVE  HInv'
<1>1. Stack = {} /\ \A op, key : ~Awaits(op, key)
  BY QuietStack
<1>2. StackKept' /\ Stack' = {inner[i] : i \in DOMAIN inner}
  BY Starts
<1>3. ~Awaits("report", "write")'
  BY <1>2 DEF Awaits
<1>4. Alarmed => Alarmed'
  BY <1>1 DEF Alarmed
<1>5. persist.phase \in {"new", "active", "stopped"} /\ persist'.phase \in {"new", "active", "stopped"}
  BY PersistFields DEF HInv, PersistKept
<1>6. ControlKept'
  <2>1. control.running /\ control.persistenceReady => Active'
    BY <1>5 DEF HInv, ControlKept, Active
  <2>2. \A key \in Keys : control.failures[key] # NoIncident
            /\ key \in {"timeout", "connection"} => persist'.phase = "stopped"
    BY <1>5 DEF HInv, ControlKept
  <2>3. QED BY <1>1, <2>1, <2>2 DEF HInv, ControlKept, GatesOpen, Unfailed
<1>7. AgreeKept'
  BY <1>1 DEF HInv, AgreeKept
<1>8. MonitorKept'
  BY <1>1 DEF HInv, MonitorKept
<1>9. PersistKept'
  <2>1. \A key \in Keys : persist.failures[key] # NoIncident
            /\ key \in {"timeout", "connection"} => persist'.phase = "stopped"
    BY <1>5 DEF HInv, PersistKept
  <2>2. QED BY <2>1 DEF HInv, PersistKept
<1>10. FlightKept'
  BY SameFlight DEF HInv
<1>11. LedgerKept'
  <2>1. ledger = "gap" /\ Active' => \E code \in Recoverable : persist.failures[code] # NoIncident
    BY <1>1, <1>5 DEF HInv, LedgerKept, Active
  <2>2. persist'.phase = "new" => persist.phase = "new"
    BY <1>5
  <2>3. QED BY <1>1, <1>3, <1>4, <2>1, <2>2 DEF HInv, LedgerKept
<1>12. QED BY <1>2, <1>6, <1>7, <1>8, <1>9, <1>10, <1>11 DEF HInv

LEMMA PersistStartsKeeps ==
    ASSUME HInv, PersistStarts
    PROVE  HInv'
<1>1. /\ calls = <<>> /\ persist.phase = "new" /\ control' = control /\ monitor' = monitor
      /\ queue' = queue /\ batch' = batch /\ results' = results /\ ledger' = ledger
  BY DEF PersistStarts, workerVars
<1>2. persist \in Persist
  BY DEF HInv, PersistKept
<1>3. CASE persist' = [persist EXCEPT !.phase = "active", !.alert = TRUE] /\ UNCHANGED calls
  <2>1. /\ persist' \in Persist /\ persist'.phase = "active"
        /\ persist'.failures = persist.failures /\ persist'.recovery = persist.recovery
    BY <1>2, <1>3 DEF Persist
  <2>2. PICK none : none = <<>>
    OBVIOUS
  <2>3. none \in Seq(AllCalls) /\ Placed(none) /\ DOMAIN none = {} /\ calls' = none
    BY <1>1, <1>3, <2>2, NoCalls
  <2>4. QED BY <1>1, <2>1, <2>3, Quietly
<1>4. CASE /\ persist' = [persist EXCEPT !.phase = "stopped"]
           /\ calls' = <<Call("report", "connection", NoIncident)>>
  <2>1. /\ persist' \in Persist /\ persist'.phase = "stopped"
        /\ persist'.failures = persist.failures /\ persist'.recovery = persist.recovery
    BY <1>2, <1>4 DEF Persist
  <2>2. PICK c, inner : c = Call("report", "connection", NoIncident) /\ inner = <<c>>
    OBVIOUS
  <2>3. c \in AllCalls /\ c.op = "report" /\ c.key = "connection" /\ c.incident = NoIncident
    BY <2>2, HealthConstants DEF Call, AllCalls, Ops
  <2>4. inner \in Seq(AllCalls) /\ DOMAIN inner = {1} /\ inner[1] = c /\ Placed(inner)
        /\ calls' = inner
    BY <1>4, <2>2, <2>3, OneCall
  <2>5. Due(c)'
    BY <2>1, <2>3 DEF Due
  <2>6. \A i \in DOMAIN inner : /\ Due(inner[i])'
                                /\ ~(inner[i].op = "report" /\ inner[i].key = "write")
    BY <2>3, <2>4, <2>5
  <2>7. QED BY <1>1, <2>1, <2>4, <2>6, Quietly
<1>5. QED BY <1>3, <1>4 DEF PersistStarts

LEMMA PersistStopsKeeps ==
    ASSUME HInv, PersistStops
    PROVE  HInv'
<1>1. /\ calls = <<>> /\ ~control.running /\ control' = control /\ monitor' = monitor
      /\ queue' = queue /\ batch' = batch /\ results' = results /\ ledger' = ledger
      /\ persist' = [persist EXCEPT !.phase = "stopped", !.alert = FALSE]
      /\ calls' = <<Call("close", "none", NoIncident), Drain>>
  BY DEF PersistStops, workerVars
<1>2. persist \in Persist
  BY DEF HInv, PersistKept
<1>3. /\ persist' \in Persist /\ persist'.phase = "stopped"
      /\ persist'.failures = persist.failures /\ persist'.recovery = persist.recovery
  BY <1>1, <1>2 DEF Persist
<1>4. PICK c, d, inner : c = Call("close", "none", NoIncident) /\ d = Drain /\ inner = <<c, d>>
  OBVIOUS
<1>5. /\ c \in AllCalls /\ c.op = "close" /\ c.incident = NoIncident
      /\ d \in AllCalls /\ d.op = "drain" /\ d.incident = NoIncident /\ calls' = inner
  BY <1>1, <1>4 DEF Call, AllCalls, Ops, Drain
<1>6. Due(c)' /\ Due(d)'
  BY <1>3, <1>5 DEF Due
<1>7. /\ inner \in Seq(AllCalls) /\ DOMAIN inner = 1..2 /\ Len(inner) = 2
      /\ inner[1] = c /\ inner[2] = d
  BY <1>4, <1>5
<1>8. \A i \in DOMAIN inner : i = 1 \/ i = 2
  BY <1>7
<1>9. Placed(inner)
  BY <1>5, <1>7, <1>8 DEF Placed
<1>10. \A i \in DOMAIN inner : /\ Due(inner[i])'
                               /\ ~(inner[i].op = "report" /\ inner[i].key = "write")
  BY <1>5, <1>6, <1>7, <1>8
<1>11. QED BY <1>1, <1>3, <1>5, <1>7, <1>9, <1>10, Quietly

LEMMA PublishReadyKeeps ==
    ASSUME HInv, PublishReady
    PROVE  HInv'
<1>1. /\ calls = <<>> /\ Active /\ control' = control /\ monitor' = monitor
      /\ queue' = queue /\ batch' = batch /\ results' = results /\ ledger' = ledger
      /\ persist' = [persist EXCEPT !.alert = FALSE, !.announced = @ \/ Healthy(persist)]
      /\ calls' = IF Healthy(persist) THEN <<Call("ready", "none", NoIncident)>> ELSE <<>>
  BY DEF PublishReady, workerVars
<1>2. persist \in Persist
  BY DEF HInv, PersistKept
<1>3. PICK said \in BOOLEAN : persist' = [persist EXCEPT !.alert = FALSE, !.announced = said]
  <2> DEFINE s == persist.announced \/ Healthy(persist)
  <2>1. s \in BOOLEAN
    OBVIOUS
  <2>2. persist' = [persist EXCEPT !.alert = FALSE, !.announced = s]
    BY <1>1
  <2> HIDE DEF s
  <2>3. QED BY <2>1, <2>2
<1>4. /\ persist' \in Persist /\ persist'.phase = persist.phase
      /\ persist'.failures = persist.failures /\ persist'.recovery = persist.recovery
  BY <1>2, <1>3 DEF Persist
<1>5. PICK c, inner : /\ c = Call("ready", "none", NoIncident)
                      /\ inner = <<>> \/ inner = <<c>>
                      /\ calls' = inner
  BY <1>1
<1>6. c \in AllCalls /\ c.op = "ready" /\ c.incident = NoIncident
  BY <1>5 DEF Call, AllCalls, Ops
<1>7. Due(c)'
  BY <1>1, <1>4, <1>6 DEF Due, Active
<1>8. inner \in Seq(AllCalls) /\ Placed(inner) /\ \A i \in DOMAIN inner : inner[i] = c
  BY <1>5, <1>6, NoCalls, OneCall
<1>9. \A i \in DOMAIN inner : /\ Due(inner[i])'
                              /\ ~(inner[i].op = "report" /\ inner[i].key = "write")
  BY <1>6, <1>7, <1>8
<1>10. QED BY <1>1, <1>4, <1>5, <1>8, <1>9, Quietly

(* A single call that waits for nothing.                                   *)
LEMMA CallsOne ==
    ASSUME HInv, calls = <<>>, NEW c \in AllCalls, c.op \in {"drain", "audit"},
           c.incident = NoIncident, calls' = <<c>>,
           UNCHANGED <<control, persist, queue, batch, results, ledger, monitor>>
    PROVE  HInv'
<1>1. /\ control' = control /\ monitor' = monitor /\ persist' = persist
      /\ queue' = queue /\ batch' = batch /\ results' = results /\ ledger' = ledger
      /\ persist \in Persist
  BY DEF HInv, PersistKept
<1>2. PICK inner : inner = <<c>>
  OBVIOUS
<1>3. inner \in Seq(AllCalls) /\ DOMAIN inner = {1} /\ inner[1] = c /\ Placed(inner)
      /\ calls' = inner
  BY <1>2, OneCall
<1>4. Due(c)'
  BY DEF Due
<1>5. \A i \in DOMAIN inner : /\ Due(inner[i])'
                              /\ ~(inner[i].op = "report" /\ inner[i].key = "write")
  BY <1>3, <1>4
<1>6. QED BY <1>1, <1>3, <1>5, Quietly

LEMMA TimersKeep ==
    ASSUME HInv, Poll \/ SignalAudited
    PROVE  HInv'
<1>1. CASE Poll
  <2>1. Drain \in AllCalls /\ Drain.op = "drain" /\ Drain.incident = NoIncident
    BY DEF Drain, Call, AllCalls, Ops
  <2>2. QED BY <1>1, <2>1, CallsOne DEF Poll, workerVars
<1>2. CASE SignalAudited
  <2>1. PICK class \in {"normal", "critical"} : calls' = <<Audit(class)>>
    BY <1>2 DEF SignalAudited
  <2>2. Audit(class) \in AllCalls /\ Audit(class).op = "audit" /\ Audit(class).incident = NoIncident
    BY <2>1 DEF Audit, Call, AllCalls, Ops
  <2>3. QED BY <1>2, <2>1, <2>2, CallsOne DEF SignalAudited, Disturbed, workerVars
<1>3. QED BY <1>1, <1>2

-----------------------------------------------------------------------------
(* The resource evaluator's signals.                                       *)

LEMMA BothCalls ==
    ASSUME NEW f \in AllCalls, NEW s \in AllCalls, NEW rest \in Seq(AllCalls),
           f.op \notin {"drain", "recovery"}, s.op \notin {"drain", "recovery"},
           \A i \in DOMAIN rest : rest[i].op \notin {"drain", "recovery"},
           Both(f, s, rest)
    PROVE  \E inner \in Seq(AllCalls) :
               /\ calls' = inner /\ Placed(inner)
               /\ {inner[i] : i \in DOMAIN inner} = {f, s} \cup {rest[i] : i \in DOMAIN rest}
<1>1. PICK a, b : /\ {a, b} = {f, s} /\ calls' = <<a, b>> \o rest
                  /\ a \in AllCalls /\ b \in AllCalls
                  /\ a.op \notin {"drain", "recovery"} /\ b.op \notin {"drain", "recovery"}
  BY DEF Both
<1>2. PICK top, inner : top = <<a, b>> /\ inner = top \o rest
  OBVIOUS
<1>3. top \in Seq(AllCalls) /\ Len(top) = 2 /\ top[1] = a /\ top[2] = b
  BY <1>1, <1>2
<1>4. Len(rest) \in Nat /\ DOMAIN rest = 1..Len(rest)
  OBVIOUS
<1>5. /\ inner \in Seq(AllCalls) /\ DOMAIN inner = 1..(2 + Len(rest))
      /\ \A i \in 1..(2 + Len(rest)) : inner[i] = IF i <= 2 THEN top[i] ELSE rest[i - 2]
  BY <1>2, <1>3, <1>4, ConcatProperties
<1>6. \A i \in DOMAIN inner : \/ inner[i] = a \/ inner[i] = b
                              \/ i - 2 \in DOMAIN rest /\ inner[i] = rest[i - 2]
  <2> SUFFICES ASSUME NEW i \in 1..(2 + Len(rest))
               PROVE  \/ inner[i] = a \/ inner[i] = b
                      \/ i - 2 \in DOMAIN rest /\ inner[i] = rest[i - 2]
    BY <1>5
  <2>1. CASE i <= 2
    <3>1. i = 1 \/ i = 2
      BY <1>4, <2>1
    <3>2. QED BY <1>3, <1>5, <2>1, <3>1
  <2>2. CASE ~(i <= 2)
    BY <1>4, <1>5, <2>2
  <2>3. QED BY <2>1, <2>2
<1>7. /\ 1 \in DOMAIN inner /\ 2 \in DOMAIN inner /\ inner[1] = a /\ inner[2] = b
      /\ \A j \in DOMAIN rest : j + 2 \in DOMAIN inner /\ inner[j + 2] = rest[j]
  BY <1>3, <1>4, <1>5
<1>8. \A c : (\E i \in DOMAIN inner : c = inner[i]) <=> c = a \/ c = b \/ \E j \in DOMAIN rest : c = rest[j]
  BY <1>6, <1>7
<1>9. {inner[i] : i \in DOMAIN inner} = {a, b} \cup {rest[i] : i \in DOMAIN rest}
  BY <1>8
<1>10. Placed(inner)
  BY <1>1, <1>6 DEF Placed
<1>11. QED BY <1>1, <1>2, <1>5, <1>9, <1>10

LEMMA MonitorStep ==
    ASSUME HInv, calls = <<>>, monitor # "FAULT",
           UNCHANGED <<control, persist, queue, batch, results, ledger>>,
           NEW inner \in Seq(AllCalls), calls' = inner, Placed(inner),
           \A i \in DOMAIN inner : Due(inner[i])' /\ inner[i].op # "report",
           MonitorKept'
    PROVE  HInv'
<1>1. Stack = {} /\ \A op, key : ~Awaits(op, key)
  BY QuietStack
<1>2. StackKept' /\ Stack' = {inner[i] : i \in DOMAIN inner}
  BY Starts
<1>3. ~Awaits("report", "write")'
  BY <1>2 DEF Awaits
<1>4. /\ control' = control /\ persist' = persist /\ queue' = queue /\ batch' = batch
      /\ results' = results /\ ledger' = ledger
  OBVIOUS
<1>5. ControlKept'
  BY <1>1, <1>4 DEF HInv, ControlKept, GatesOpen, Unfailed, Active
<1>6. AgreeKept'
  BY <1>1, <1>4 DEF HInv, AgreeKept
<1>7. PersistKept'
  BY <1>4 DEF HInv, PersistKept
<1>8. FlightKept'
  BY <1>4, SameFlight DEF HInv
<1>9. LedgerKept'
  <2>1. Alarmed => Alarmed'
    BY <1>1, <1>4 DEF Alarmed
  <2>2. QED BY <1>1, <1>3, <1>4, <2>1 DEF HInv, LedgerKept, Active
<1>10. QED BY <1>2, <1>5, <1>6, <1>7, <1>8, <1>9 DEF HInv

LEMMA AuditCall ==
    ASSUME NEW class \in {"normal", "critical"}, NEW a, a = Audit(class)
    PROVE  a \in AllCalls /\ a.op = "audit" /\ a.incident = NoIncident
BY DEF Audit, Call, AllCalls, Ops

LEMMA SampleCall ==
    ASSUME NEW op \in {"monitor", "resource"}, NEW state \in {"NORMAL", "CRITICAL", "STALE"},
           NEW c, c = Call(op, state, NoIncident)
    PROVE  c \in AllCalls /\ c.op = op /\ c.key = state /\ c.incident = NoIncident
BY DEF Call, AllCalls, Ops

(* A transition alone, or before the acknowledgement of the first sample.  *)
LEMMA TransitionKeeps ==
    ASSUME HInv, calls = <<>>, monitor # "FAULT",
           UNCHANGED <<control, persist, queue, batch, results, ledger>>,
           NEW state \in {"NORMAL", "CRITICAL", "STALE"}, monitor' = state,
           NEW class \in {"normal", "critical"}, NEW rest \in Seq(AllCalls),
           rest = <<>> \/ (rest = <<Call("monitor", state, NoIncident)>> /\ state # "STALE"),
           Both(Call("resource", state, NoIncident), Audit(class), rest),
           rest = <<>> /\ control.state \notin Ended =>
               IF state = "STALE" THEN ~control.monitorReady ELSE control.monitorReady,
           state = "STALE" => ~control.monitorReady,
           state = "NORMAL" => control.monitorReady \/ control.state \in Ended
    PROVE  HInv'
<1>1. PICK f, a, m : /\ f = Call("resource", state, NoIncident) /\ a = Audit(class)
                     /\ m = Call("monitor", state, NoIncident)
  OBVIOUS
<1>2. /\ f \in AllCalls /\ f.op = "resource" /\ f.key = state /\ f.incident = NoIncident
      /\ m \in AllCalls /\ m.op = "monitor" /\ m.key = state /\ m.incident = NoIncident
      /\ a \in AllCalls /\ a.op = "audit" /\ a.incident = NoIncident
  <2>1. "resource" \in {"monitor", "resource"} /\ "monitor" \in {"monitor", "resource"}
    OBVIOUS
  <2>2. QED BY <1>1, <2>1, AuditCall, SampleCall
<1>3. /\ \A i \in DOMAIN rest : rest[i] = m
      /\ rest = <<>> \/ ({rest[i] : i \in DOMAIN rest} = {m} /\ state # "STALE")
  <2>1. CASE rest = <<>>
    BY <2>1, NoCalls
  <2>2. CASE rest = <<m>> /\ state # "STALE"
    BY <1>2, <2>2, OneCall
  <2>3. QED BY <1>1, <2>1, <2>2
<1>4. PICK inner \in Seq(AllCalls) :
          /\ calls' = inner /\ Placed(inner)
          /\ {inner[i] : i \in DOMAIN inner} = {f, a} \cup {rest[i] : i \in DOMAIN rest}
  <2>1. Both(f, a, rest)
    BY <1>1
  <2>2. /\ f.op \notin {"drain", "recovery"} /\ a.op \notin {"drain", "recovery"}
        /\ \A i \in DOMAIN rest : rest[i].op \notin {"drain", "recovery"}
    BY <1>2, <1>3
  <2>3. f \in AllCalls /\ a \in AllCalls
    BY <1>2
  <2>4. QED BY <2>1, <2>2, <2>3, BothCalls
<1>5. /\ control' = control /\ monitor' = state
  OBVIOUS
<1>6. Due(f)' /\ Due(a)' /\ (state # "STALE" => Due(m)')
  <2>1. Due(f)'
    BY <1>2, <1>5 DEF Due
  <2>2. Due(a)'
    BY <1>2 DEF Due
  <2>3. state # "STALE" => Due(m)'
    BY <1>2, <1>5 DEF Due
  <2>4. QED BY <2>1, <2>2, <2>3
<1>7. \A i \in DOMAIN inner :
          \/ inner[i] = f \/ inner[i] = a \/ (inner[i] = m /\ state # "STALE")
  <2> SUFFICES ASSUME NEW i \in DOMAIN inner
               PROVE  \/ inner[i] = f \/ inner[i] = a \/ (inner[i] = m /\ state # "STALE")
    OBVIOUS
  <2>1. inner[i] \in {f, a} \cup {rest[j] : j \in DOMAIN rest}
    BY <1>4
  <2>2. rest = <<>> => {rest[j] : j \in DOMAIN rest} = {}
    BY NoCalls
  <2>3. QED BY <1>3, <2>1, <2>2
<1>8. \A i \in DOMAIN inner : Due(inner[i])' /\ inner[i].op # "report"
  BY <1>2, <1>6, <1>7
<1>9. Stack' = {inner[i] : i \in DOMAIN inner}
  BY <1>4, <1>8, Starts
<1>10. Awaits("resource", state)'
  BY <1>2, <1>4, <1>9 DEF Awaits
<1>11. rest # <<>> => Awaits("monitor", state)'
  BY <1>2, <1>3, <1>4, <1>9 DEF Awaits
<1>12. MonitorKept'
  BY <1>5, <1>10, <1>11 DEF MonitorKept
<1>13. QED BY <1>4, <1>8, <1>12, MonitorStep

LEMMA FirstSampleKeeps ==
    ASSUME HInv, FirstSample
    PROVE  HInv'
<1>1. /\ monitor = "silent" /\ calls = <<>> /\ control.running
      /\ UNCHANGED <<control, persist, queue, batch, results, ledger>>
  BY DEF FirstSample, Reports, Disturbed, workerVars
<1>2. ~control.monitorReady /\ control.resource = "NORMAL"
  BY <1>1 DEF HInv, MonitorKept
<1>3. CASE monitor' = "NORMAL" /\ calls' = <<Call("monitor", "NORMAL", NoIncident)>>
  <2>1. PICK c, inner : c = Call("monitor", "NORMAL", NoIncident) /\ inner = <<c>>
    OBVIOUS
  <2>2. c \in AllCalls /\ c.op = "monitor" /\ c.key = "NORMAL" /\ c.incident = NoIncident
    BY <2>1, SampleCall
  <2>3. inner \in Seq(AllCalls) /\ DOMAIN inner = {1} /\ inner[1] = c /\ Placed(inner)
        /\ calls' = inner
    BY <1>3, <2>1, <2>2, OneCall
  <2>4. Due(c)'
    BY <1>3, <2>2 DEF Due
  <2>5. \A i \in DOMAIN inner : Due(inner[i])' /\ inner[i].op # "report"
    BY <2>2, <2>3, <2>4
  <2>6. Awaits("monitor", "NORMAL")'
    <3>1. Stack' = {inner[i] : i \in DOMAIN inner}
      BY <2>3, <2>5, Starts
    <3>2. QED BY <2>2, <2>3, <3>1 DEF Awaits
  <2>7. MonitorKept'
    BY <1>1, <1>2, <1>3, <2>6 DEF MonitorKept
  <2>8. QED BY <1>1, <2>3, <2>5, <2>7, MonitorStep
<1>4. CASE /\ monitor' = "CRITICAL"
           /\ Both(Call("resource", "CRITICAL", NoIncident), Audit("critical"),
                   <<Call("monitor", "CRITICAL", NoIncident)>>)
  <2>1. PICK rest : rest = <<Call("monitor", "CRITICAL", NoIncident)>>
    OBVIOUS
  <2>2. rest \in Seq(AllCalls) /\ rest # <<>>
    BY <2>1, SampleCall
  <2>3. Both(Call("resource", "CRITICAL", NoIncident), Audit("critical"), rest)
    BY <1>4, <2>1
  <2>4. QED BY <1>1, <1>2, <1>4, <2>1, <2>2, <2>3, TransitionKeeps
<1>5. CASE /\ monitor' = "STALE"
           /\ Both(Call("resource", "STALE", NoIncident), Audit("critical"), <<>>)
  <2>1. PICK rest : rest = <<>>
    OBVIOUS
  <2>2. rest \in Seq(AllCalls) /\ Both(Call("resource", "STALE", NoIncident), Audit("critical"), rest)
    BY <1>5, <2>1
  <2>3. QED BY <1>1, <1>2, <1>5, <2>1, <2>2, TransitionKeeps
<1>6. QED BY <1>3, <1>4, <1>5 DEF FirstSample, Reports

LEMMA ResourceChangesKeeps ==
    ASSUME HInv, ResourceChanges
    PROVE  HInv'
<1>1. /\ monitor \in {"NORMAL", "CRITICAL"} /\ calls = <<>>
      /\ UNCHANGED <<control, persist, queue, batch, results, ledger>>
  BY DEF ResourceChanges, Reports, Disturbed, workerVars
<1>2. control.state \notin Ended => control.monitorReady
  <2>1. ~Awaits("monitor", monitor)
    BY <1>1, QuietStack
  <2>2. QED BY <1>1, <2>1 DEF HInv, MonitorKept
<1>3. PICK rest : rest = <<>>
  OBVIOUS
<1>4. rest \in Seq(AllCalls)
  BY <1>3
<1>5. \/ /\ monitor' = "CRITICAL"
         /\ Both(Call("resource", "CRITICAL", NoIncident), Audit("critical"), rest)
      \/ /\ monitor' = "NORMAL"
         /\ Both(Call("resource", "NORMAL", NoIncident), Audit("normal"), rest)
  BY <1>3 DEF ResourceChanges, Reports
<1>6. QED BY <1>1, <1>2, <1>3, <1>4, <1>5, TransitionKeeps

LEMMA MonitorFaultsKeeps ==
    ASSUME HInv, MonitorFaults
    PROVE  HInv'
<1>1. /\ monitor # "FAULT" /\ calls = <<>> /\ monitor' = "FAULT"
      /\ UNCHANGED <<control, persist, queue, batch, results, ledger>>
  BY DEF MonitorFaults, Reports, Disturbed, workerVars
<1>2. PICK incident \in Incidents : incident = NewIncident("monitor")
  BY <1>1, NewMonitorIncident
<1>3. PICK f, a, rest : /\ f = Call("failure", "monitor", incident) /\ a = Audit("critical")
                        /\ rest = <<>>
  OBVIOUS
<1>4. /\ f \in AllCalls /\ f.op = "failure" /\ f.key = "monitor" /\ f.incident = incident
      /\ a \in AllCalls /\ a.op = "audit" /\ a.incident = NoIncident
  BY <1>2, <1>3, HealthConstants, AuditCall DEF Call, AllCalls, Ops
<1>5. rest \in Seq(AllCalls) /\ DOMAIN rest = {} /\ Both(f, a, rest)
  BY <1>2, <1>3, NoCalls DEF MonitorFaults
<1>6. PICK inner \in Seq(AllCalls) :
          /\ calls' = inner /\ Placed(inner)
          /\ {inner[i] : i \in DOMAIN inner} = {f, a} \cup {rest[i] : i \in DOMAIN rest}
  BY <1>4, <1>5, BothCalls
<1>7. {inner[i] : i \in DOMAIN inner} = {f, a}
  BY <1>5, <1>6
<1>8. Due(f)' /\ Due(a)'
  <2>1. Due(f)'
    BY <1>1, <1>2, <1>4, HealthConstants DEF Due, Recoverable
  <2>2. Due(a)'
    BY <1>4 DEF Due
  <2>3. QED BY <2>1, <2>2
<1>9. \A i \in DOMAIN inner : Due(inner[i])' /\ inner[i].op # "report"
  <2> SUFFICES ASSUME NEW i \in DOMAIN inner PROVE Due(inner[i])' /\ inner[i].op # "report"
    OBVIOUS
  <2>1. inner[i] \in {f, a}
    BY <1>7
  <2>2. QED BY <1>4, <1>8, <2>1
<1>10. Awaits("failure", "monitor")'
  <2>1. Stack' = {f, a}
    BY <1>6, <1>7, <1>9, Starts
  <2>2. QED BY <1>4, <2>1 DEF Awaits
<1>11. MonitorKept'
  BY <1>1, <1>10 DEF MonitorKept
<1>12. QED BY <1>1, <1>6, <1>9, <1>11, MonitorStep

-----------------------------------------------------------------------------
(* System Control's own events.                                            *)

LEMMA PublishedCalls ==
    ASSUME NEW target, NEW inner, inner = Published(target)
    PROVE  /\ inner \in Seq(AllCalls) /\ Placed(inner)
           /\ \A i \in DOMAIN inner : inner[i] = Audit("critical")
<1>1. CASE inner = <<>>
  BY <1>1, NoCalls
<1>2. CASE inner = <<Audit("critical")>>
  BY <1>2, CriticalAudit, OneCall
<1>3. QED BY <1>1, <1>2 DEF Published

LEMMA EndsKeeps ==
    ASSUME HInv, ControlStops \/ ControlFaults,
           UNCHANGED <<persist, queue, batch, results, ledger, monitor>>
    PROVE  HInv'
<1>1. calls = <<>> /\ control.running
  BY DEF ControlStops, ControlFaults
<1>2. control \in Control
  BY DEF HInv, ControlKept
<1>3. PICK target \in Ended :
          /\ Become([control EXCEPT !.running = FALSE], target)
          /\ calls' = Published(target)
  BY DEF ControlStops, ControlFaults, Ended
<1>4. PICK c, inner : c = [control EXCEPT !.running = FALSE] /\ inner = Published(target)
  OBVIOUS
<1>5. /\ c \in Control /\ ~c.running /\ c.released = control.released
      /\ c.evaluating = control.evaluating /\ c.persistenceReady = control.persistenceReady
      /\ c.monitorReady = control.monitorReady /\ c.resource = control.resource
      /\ c.failures = control.failures
  BY <1>2, <1>4 DEF Control
<1>6. Become(c, target)
  BY <1>3, <1>4
<1>7. control' \in Control /\ SameBut(c, control') /\ control'.state = target
  BY <1>5, <1>6, Becomes
<1>8. /\ ~control'.running /\ control'.released = control.released
      /\ control'.evaluating = control.evaluating
      /\ control'.persistenceReady = control.persistenceReady
      /\ control'.monitorReady = control.monitorReady /\ control'.resource = control.resource
      /\ control'.failures = control.failures /\ control'.state \in Ended
      /\ control'.state # "READY"
  BY <1>5, <1>7 DEF SameBut, Ended
<1>9. /\ persist' = persist /\ queue' = queue /\ batch' = batch /\ results' = results
      /\ ledger' = ledger /\ monitor' = monitor
  OBVIOUS
<1>10. /\ inner \in Seq(AllCalls) /\ Placed(inner) /\ calls' = inner
       /\ \A i \in DOMAIN inner : inner[i] = Audit("critical")
  BY <1>3, <1>4, PublishedCalls
<1>11. Due(Audit("critical"))'
  BY AuditCall DEF Due, Audit, Call
<1>12. StackKept' /\ Stack' = {inner[i] : i \in DOMAIN inner}
  BY <1>10, <1>11, Starts
<1>13. ~Awaits("report", "write")' /\ ~Awaits("report", "write")
  BY <1>1, <1>10, <1>12, CriticalAudit, QuietStack DEF Awaits
<1>14. ControlKept'
  BY <1>7, <1>8, <1>9 DEF HInv, ControlKept
<1>15. AgreeKept'
  BY <1>8 DEF AgreeKept
<1>16. MonitorKept'
  BY <1>8, <1>9 DEF HInv, MonitorKept
<1>17. PersistKept'
  BY <1>9 DEF HInv, PersistKept
<1>18. FlightKept'
  BY <1>9, SameFlight DEF HInv
<1>19. LedgerKept'
  <2>1. Alarmed'
    BY <1>8 DEF Alarmed
  <2>2. QED BY <1>9, <1>13, <2>1 DEF HInv, LedgerKept, Active
<1>20. QED BY <1>12, <1>14, <1>15, <1>16, <1>17, <1>18, <1>19 DEF HInv

LEMMA EvaluationKeeps ==
    ASSUME HInv, Evaluation
    PROVE  HInv'
<1>1. /\ calls = <<>> /\ control.running /\ control.released /\ ~control.evaluating
      /\ BeginEvaluation
  BY DEF Evaluation, BeginEvaluation
<1>2. /\ persist' = persist /\ queue' = queue /\ batch' = batch /\ results' = results
      /\ ledger' = ledger /\ monitor' = monitor
  BY DEF Evaluation, workerVars
<1>3. control \in Control /\ control.persistenceReady /\ control.state # "READY"
      /\ control.state # "STOPPING"
  BY <1>1 DEF HInv, ControlKept, GatesOpen
<1>4. PICK c : c = [control EXCEPT !.evaluating = TRUE]
  OBVIOUS
<1>t. PICK target : target = IF c.state = "NONE" THEN "STARTING" ELSE c.state
  OBVIOUS
<1>b. /\ Become(c, target)
      /\ calls' = Published(target) \o <<Call("evaluate", "none", NoIncident)>>
  BY <1>1, <1>4, <1>t DEF BeginEvaluation, Become, Published, Allowed, Call, Audit
<1>5. /\ c \in Control /\ c.running /\ c.released = control.released
      /\ c.evaluating /\ c.persistenceReady = control.persistenceReady
      /\ c.monitorReady = control.monitorReady /\ c.resource = control.resource
      /\ c.failures = control.failures /\ c.state = control.state
      /\ c.readyOnce = control.readyOnce
  BY <1>1, <1>3, <1>4 DEF Control
<1>6. control' \in Control /\ SameBut(c, control') /\ control'.state = target
      /\ (c.readyOnce => control'.readyOnce)
  BY <1>b, <1>5, Becomes
<1>7. /\ control'.running /\ control'.released = control.released
      /\ control'.evaluating /\ control'.persistenceReady = control.persistenceReady
      /\ control'.monitorReady = control.monitorReady /\ control'.resource = control.resource
      /\ control'.failures = control.failures
      /\ control'.state # "READY" /\ control'.state # "STOPPING"
      /\ control'.state \in Ended <=> control.state \in Ended
      /\ control.readyOnce => control'.readyOnce
  BY <1>1, <1>3, <1>4, <1>t, <1>5, <1>6 DEF SameBut, Ended
<1>8. PICK e, pub, last, inner :
          /\ e = Call("evaluate", "none", NoIncident) /\ pub = Published(target)
          /\ last = <<e>> /\ inner = pub \o last
  OBVIOUS
<1>9. e \in AllCalls /\ e.op = "evaluate" /\ e.incident = NoIncident
  BY <1>8 DEF Call, AllCalls, Ops
<1>10. /\ pub \in Seq(AllCalls) /\ DOMAIN pub = 1..Len(pub) /\ Len(pub) \in Nat
       /\ \A i \in DOMAIN pub : pub[i] = Audit("critical")
  BY <1>8, PublishedCalls
<1>11. last \in Seq(AllCalls) /\ Len(last) = 1 /\ last[1] = e
  BY <1>8, <1>9
<1>12. /\ inner \in Seq(AllCalls) /\ DOMAIN inner = 1..(Len(pub) + 1)
       /\ \A i \in 1..(Len(pub) + 1) :
              inner[i] = IF i <= Len(pub) THEN pub[i] ELSE last[i - Len(pub)]
  BY <1>8, <1>10, <1>11, ConcatProperties
<1>13. /\ \A i \in DOMAIN inner : inner[i] = e \/ inner[i] = Audit("critical")
       /\ Len(pub) + 1 \in DOMAIN inner /\ inner[Len(pub) + 1] = e
  <2>1. ASSUME NEW i \in 1..(Len(pub) + 1)
        PROVE  inner[i] = e \/ inner[i] = Audit("critical")
    <3>1. CASE i <= Len(pub)
      BY <1>10, <1>12, <3>1
    <3>2. CASE ~(i <= Len(pub))
      <4>1. i - Len(pub) = 1
        BY <1>10, <3>2
      <4>2. QED BY <1>11, <1>12, <3>2, <4>1
    <3>3. QED BY <3>1, <3>2
  <2>2. /\ Len(pub) + 1 \in 1..(Len(pub) + 1) /\ ~(Len(pub) + 1 <= Len(pub))
        /\ Len(pub) + 1 - Len(pub) = 1
    BY <1>10
  <2>3. inner[Len(pub) + 1] = e
    BY <1>11, <1>12, <2>2
  <2>4. QED BY <1>12, <2>1, <2>2, <2>3
<1>14. Due(e)' /\ Due(Audit("critical"))'
  <2>1. Due(e)'
    BY <1>9 DEF Due
  <2>2. Due(Audit("critical"))'
    BY AuditCall DEF Due, Audit, Call
  <2>3. QED BY <2>1, <2>2
<1>15. Placed(inner) /\ \A i \in DOMAIN inner : Due(inner[i])' /\ inner[i].op # "report"
  BY <1>9, <1>13, <1>14, CriticalAudit DEF Placed
<1>16. StackKept' /\ Stack' = {inner[i] : i \in DOMAIN inner}
  <2>1. calls' = inner
    BY <1>b, <1>8
  <2>2. QED BY <1>12, <1>15, <2>1, Starts
<1>17. /\ (\E d \in Stack : d.op = "evaluate")'
       /\ ~Awaits("report", "write")'
  BY <1>9, <1>13, <1>15, <1>16 DEF Awaits
<1>18. \A op, key : ~Awaits(op, key)
  BY <1>1, QuietStack
<1>19. ControlKept'
  <2>1. /\ control' \in Control
        /\ control'.state = "READY" => GatesOpen(control')
        /\ control'.running /\ control'.state # "STOPPING" /\ control'.persistenceReady
    BY <1>3, <1>6, <1>7
  <2>2. Active'
    <3>1. Active
      BY <1>1, <1>3 DEF HInv, ControlKept
    <3>2. QED BY <1>2, <3>1 DEF Active
  <2>3. \A key \in Keys : control'.failures[key] # NoIncident =>
            /\ key \in {"write", "admission", "timeout", "connection", "monitor"}
            /\ key \in {"timeout", "connection"} => persist'.phase = "stopped"
            /\ key = "monitor" => monitor' = "FAULT"
    BY <1>2, <1>7 DEF HInv, ControlKept
  <2>4. (\E d \in Stack : d.op = "evaluate")'
    BY <1>17
  <2>5. QED BY <2>1, <2>2, <2>3, <2>4 DEF ControlKept
<1>20. AgreeKept'
  BY <1>1, <1>2, <1>7, <1>18 DEF HInv, AgreeKept
<1>21. MonitorKept'
  BY <1>2, <1>7, <1>18 DEF HInv, MonitorKept
<1>22. PersistKept'
  BY <1>2 DEF HInv, PersistKept
<1>23. FlightKept'
  BY <1>2, SameFlight DEF HInv
<1>24. LedgerKept'
  <2>1. Alarmed => Alarmed'
    BY <1>7, <1>18 DEF Alarmed
  <2>2. QED BY <1>2, <1>17, <1>18, <2>1 DEF HInv, LedgerKept, Active
<1>25. QED BY <1>16, <1>19, <1>20, <1>21, <1>22, <1>23, <1>24 DEF HInv

-----------------------------------------------------------------------------
(* Every step keeps the invariant.                                         *)

LEMMA HInvInit ==
    ASSUME Init
    PROVE  HInv
<1>1. Stack = {} /\ \A op, key : ~Awaits(op, key)
  BY QuietStack DEF Init
<1>2. StackKept
  BY <1>1 DEF Init, StackKept
<1>3. /\ control.running /\ control.state = "NONE" /\ ~control.released /\ ~control.evaluating
      /\ ~control.persistenceReady /\ ~control.monitorReady /\ control.resource = "NORMAL"
      /\ \A key \in Keys : control.failures[key] = NoIncident
      /\ control \in Control
  BY DEF Init, ControlInit, Control, States
<1>4. ControlKept
  BY <1>3 DEF ControlKept, GatesOpen, Ended
<1>5. AgreeKept
  BY <1>3, HealthConstants DEF Init, AgreeKept
<1>6. MonitorKept
  BY <1>3 DEF Init, MonitorKept
<1>7. NotPending \in [incident : Incidents \cup {NoIncident}, current : BOOLEAN]
  BY DEF NotPending
<1>8. /\ persist \in Persist /\ persist.phase = "new"
      /\ \A key \in Keys : persist.failures[key] = NoIncident
      /\ \A code \in Recoverable : persist.recovery[code] = NotPending
  BY <1>7 DEF Init, Persist
<1>9. PersistKept
  BY <1>8, PendingNot DEF PersistKept
<1>10. queue = <<>> /\ batch = <<>> /\ results = <<>> /\ ledger = "complete"
  BY DEF Init
<1>11. FlightKept
  <2>1. \A code : Times(queue, code) = {} /\ Times(batch, code) = {} /\ Answers(code) = {}
    BY <1>10 DEF Times, Answers
  <2>2. QED BY <1>10, <2>1 DEF FlightKept, Alone
<1>12. LedgerKept
  BY <1>1, <1>8, <1>10, PendingNot, HealthConstants DEF LedgerKept, Active
<1>13. QED BY <1>2, <1>4, <1>5, <1>6, <1>9, <1>11, <1>12 DEF HInv

LEMMA HInvUnchanged ==
    ASSUME HInv, UNCHANGED vars
    PROVE  HInv'
<1>1. /\ calls' = calls /\ control' = control /\ monitor' = monitor /\ persist' = persist
      /\ queue' = queue /\ batch' = batch /\ results' = results /\ ledger' = ledger
  BY DEF vars
<1>2. /\ StackKept' /\ ControlKept' /\ AgreeKept' /\ MonitorKept' /\ PersistKept'
      /\ \A op, key : Awaits(op, key)' <=> Awaits(op, key)
      /\ Alarmed' <=> Alarmed
  BY <1>1, Beside DEF HInv, PersistKept
<1>3. FlightKept'
  BY <1>1, SameFlight DEF HInv
<1>4. LedgerKept'
  BY <1>1, <1>2 DEF HInv, LedgerKept, Active
<1>5. QED BY <1>2, <1>3, <1>4 DEF HInv

LEMMA HInvKept ==
    ASSUME HInv, [Next]_vars
    PROVE  HInv'
<1>1. CASE Handler
  <2>1. CASE ControlHandler /\ UNCHANGED <<persist, workerVars, ledger, monitor>>
    BY <2>1, ControlHandlerKeeps
  <2>2. CASE OnAudited \/ OnDrain \/ OnReport \/ OnAnnounce \/ OnTryRecovery \/ OnClose
    BY <2>2, AuditedKeeps, DrainKeeps, ReportKeeps, AnnounceKeeps, TryRecoveryKeeps, CloseKeeps
  <2>3. QED BY <1>1, <2>1, <2>2 DEF Handler
<1>2. CASE Worker
  BY <1>2, TakeKeeps, SettleKeeps DEF Worker
<1>3. CASE Evaluation \/ PublishReady \/ Poll \/ BackoffEnds
  BY <1>3, EvaluationKeeps, PublishReadyKeeps, TimersKeep, BackoffKeeps
<1>4. CASE (ControlStops \/ ControlFaults) /\ UNCHANGED <<persist, workerVars, ledger, monitor>>
  BY <1>4, EndsKeeps DEF workerVars
<1>5. CASE PersistStarts \/ PersistStops
  BY <1>5, PersistStartsKeeps, PersistStopsKeeps
<1>6. CASE SignalAudited \/ FirstSample \/ ResourceChanges \/ MonitorFaults
  BY <1>6, TimersKeep, FirstSampleKeeps, ResourceChangesKeeps, MonitorFaultsKeeps
<1>7. CASE Halted \/ UNCHANGED vars
  BY <1>7, HInvUnchanged DEF Halted
<1>8. QED BY <1>1, <1>2, <1>3, <1>4, <1>5, <1>6, <1>7 DEF Next

LEMMA HInvAlways == Spec => []HInv
BY HInvInit, HInvKept, PTL DEF Spec

-----------------------------------------------------------------------------
(* The two actors agree on the active persistence failures and on their    *)
(* incidents whenever no cascade is under way.                             *)
THEOREM FailuresAlwaysAgree == Spec => []FailuresAgree
<1>1. HInv => FailuresAgree
  BY QuietStack DEF HInv, AgreeKept, FailuresAgree, Quiet
<1>2. QED BY <1>1, HInvAlways, PTL

(* READY: every known loss is named by a stored record, no component       *)
(* failure is active and resources are normal.                             *)
THEOREM ReadyAlwaysEarned == Spec => []ReadyIsEarned
<1>1. ASSUME HInv, Quiet, control.state = "READY"
      PROVE  ledger # "gap" /\ Healthy(persist) /\ monitor = "NORMAL"
  <2>1. Stack = {} /\ \A op, key : ~Awaits(op, key)
    BY <1>1, QuietStack DEF Quiet
  <2>2. GatesOpen(control) /\ control.running /\ control.state \notin Ended /\ Active
    BY <1>1 DEF HInv, ControlKept, GatesOpen, Ended
  <2>3. \A code \in Recoverable : persist.failures[code] = NoIncident
    BY <1>1, <2>1, <2>2, HealthConstants DEF HInv, AgreeKept, GatesOpen, Unfailed
  <2>4. Healthy(persist)
    BY <1>1, <2>2, <2>3, HealthConstants DEF HInv, PersistKept, Healthy, Active
  <2>5. ledger # "gap"
    BY <1>1, <2>1, <2>2, <2>3 DEF HInv, LedgerKept
  <2>6. monitor = "NORMAL"
    BY <1>1, <2>1, <2>2, HealthConstants DEF HInv, MonitorKept, GatesOpen, Unfailed
  <2>7. QED BY <2>4, <2>5, <2>6
<1>2. HInv => ReadyIsEarned
  BY <1>1 DEF ReadyIsEarned
<1>3. QED BY <1>2, HInvAlways, PTL

(* Once every prerequisite holds, whichever came last, the run is READY    *)
(* unless it has failed.                                                   *)
THEOREM ReadyNeverMissed == Spec => []NoMissedReady
<1>1. ASSUME HInv, Quiet, control.evaluating, control.running, Active, Healthy(persist),
             monitor = "NORMAL"
      PROVE  control.state \in {"READY", "FAILED"}
  <2>1. Stack = {} /\ \A op, key : ~Awaits(op, key)
    BY <1>1, QuietStack DEF Quiet
  <2>2. control.state # "STOPPING" /\ control.persistenceReady
    BY <1>1 DEF HInv, ControlKept
  <2>3. CASE control.state \in Ended
    BY <2>2, <2>3 DEF Ended
  <2>4. CASE control.state \notin Ended
    <3>1. control.monitorReady /\ control.resource = "NORMAL"
      BY <1>1, <2>1, <2>4 DEF HInv, MonitorKept
    <3>2. \A code \in Recoverable : control.failures[code] = NoIncident
      BY <1>1, <2>1, HealthConstants DEF HInv, AgreeKept, Healthy
    <3>3. Unfailed(control)
      BY <1>1, <3>2, HealthConstants DEF HInv, ControlKept, Unfailed, Active
    <3>4. GatesOpen(control)
      BY <1>1, <2>2, <3>1, <3>3 DEF GatesOpen
    <3>5. QED BY <1>1, <2>1, <3>4 DEF HInv, ControlKept
  <2>5. QED BY <2>3, <2>4
<1>2. HInv => NoMissedReady
  BY <1>1 DEF NoMissedReady
<1>3. QED BY <1>2, HInvAlways, PTL

(* Under a policy that fails the startup, a loss before the first READY    *)
(* ends the run.                                                           *)
THEOREM StartupLossAlwaysFatal == Spec => []StartupLossIsFatal
<1>1. ASSUME HInv, Quiet, StartupTarget = "FAILED", ledger # "complete", ~control.readyOnce
      PROVE  control.state \in Ended
  <2>1. \A op, key : ~Awaits(op, key)
    BY <1>1, QuietStack DEF Quiet
  <2>2. QED BY <1>1, <2>1 DEF HInv, LedgerKept, Alarmed
<1>2. HInv => StartupLossIsFatal
  BY <1>1 DEF StartupLossIsFatal
<1>3. QED BY <1>2, HInvAlways, PTL
=============================================================================
