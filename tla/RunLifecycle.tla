---------------------------- MODULE RunLifecycle ----------------------------
(* markeitech system start: the environment check and the start of          *)
(* PostgreSQL, each a child in a process group of its own, and then, in the *)
(* same process, the connected run and its record in PostgreSQL.  The       *)
(* signals of the operating system, the child processes and the node are    *)
(* external.  A child's answer to a signal is that it may end at any time.  *)
EXTENDS Integers, Sequences, SequencesExt

CONSTANTS
    NoCode,        \* no exit code yet
    NoSignal,
    MaxSignals     \* bound: signals sent to the command

ASSUME LifecycleAssumption ==
    NoCode \notin Int /\ NoSignal \notin Int /\ MaxSignals \in Nat

VARIABLES
    command,   \* 1 the check, 2 the start of PostgreSQL, 3 the system
    wrapper,   \* _run_process: [at, handled, cancelled, late]
    group,     \* live processes of the child's group
    code,      \* what the child ended with; negative for a signal
    system,    \* system.cli.main: [at, connected, helper, error]
    record,    \* the row of runtime_runs: "none", "open", "STOPPED", "FAILED"
    outcome,   \* of the whole command: [kind, status, error]
    \* History.
    signals,   \* sent so far
    forwarded  \* some signal was forwarded to a child

runVars == <<command, wrapper, group, code, system, record, outcome, signals, forwarded>>

------------------------------------------------------------------------------
INT == 2
KILL == 9
ForwardedSignals == <<INT, 15, 1>>     \* in the order the handlers are installed

Going == [kind |-> "going", status |-> 0, error |-> "none"]
Returned(status) == [kind |-> "returned", status |-> status, error |-> "none"]
Raised(error) == [kind |-> "raised", status |-> 1, error |-> error]
KilledOutright == [kind |-> "killed", status |-> 0, error |-> "none"]

Unstarted == [at |-> "launch", handled |-> {}, cancelled |-> NoSignal, late |-> FALSE]

LifecycleInit ==
    /\ command = 1 /\ wrapper = Unstarted /\ group = {} /\ code = NoCode
    /\ system \in [at : {"idle"}, connected : BOOLEAN, helper : BOOLEAN, error : {"none"}]
    /\ record = "none" /\ outcome = Going /\ signals = 0 /\ forwarded = FALSE

Wrapping == outcome = Going /\ command < 3
mainVars == <<command, system, record>>

------------------------------------------------------------------------------
(* The child's group.                                                       *)

EndChild ==
    /\ "child" \in group /\ group' = group \ {"child"}
    /\ code' \in {0, 1} \cup {-s : s \in Range(ForwardedSignals) \cap {wrapper.cancelled}}
    /\ UNCHANGED <<mainVars, wrapper, outcome, signals, forwarded>>

Fork ==
    /\ group = {"child"} /\ group' = {"child", "descendant"}
    /\ UNCHANGED <<mainVars, wrapper, code, outcome, signals, forwarded>>

EndDescendant ==
    /\ "descendant" \in group /\ group' = group \ {"descendant"}
    /\ UNCHANGED <<mainVars, wrapper, code, outcome, signals, forwarded>>

(* _signal_process_group with SIGKILL                                       *)
KillGroup ==
    /\ group' = {}
    /\ code' = IF "child" \in group THEN -KILL ELSE code

------------------------------------------------------------------------------
(* _run_process                                                             *)

(* Popen.  What an earlier child has left running is in another group.      *)
Launch ==
    /\ Wrapping /\ wrapper.at = "launch"
    /\ \/ outcome' = Returned(1) /\ UNCHANGED <<wrapper, group, code>>
       \/ group' = {"child"} /\ code' = NoCode
          /\ wrapper' = [wrapper EXCEPT !.at = "guard"] /\ UNCHANGED outcome
    /\ UNCHANGED <<mainVars, signals, forwarded>>

(* The signals whose handlers are installed, or restored, before that of s. *)
Before(s) ==
    LET at(x) == CHOOSE i \in 1..3 : ForwardedSignals[i] = x
    IN  {x \in Range(ForwardedSignals) : at(x) < at(s)}

Guard ==
    /\ Wrapping /\ wrapper.at = "guard"
    /\ \E s \in Range(ForwardedSignals) \ wrapper.handled :
          /\ Before(s) \subseteq wrapper.handled
          /\ wrapper' = [wrapper EXCEPT !.handled = @ \cup {s},
                                        !.at = IF s = Last(ForwardedSignals) THEN "wait" ELSE @]
    /\ UNCHANGED <<mainVars, group, code, outcome, signals, forwarded>>

(* forward_signal                                                           *)
Forward(s) ==
    /\ s \in wrapper.handled
    /\ \/ /\ wrapper.cancelled = NoSignal
          /\ wrapper' = [wrapper EXCEPT !.cancelled = s] /\ UNCHANGED <<group, code>>
       \/ wrapper.cancelled # NoSignal /\ KillGroup /\ UNCHANGED wrapper
    /\ forwarded' = TRUE /\ UNCHANGED outcome

(* The handlers the command started with: KeyboardInterrupt, or its end.    *)
ByDefault(s) ==
    /\ s \notin wrapper.handled
    /\ outcome' = IF s = INT THEN Raised("interrupt") ELSE KilledOutright
    /\ UNCHANGED <<wrapper, group, code, forwarded>>

Signal ==
    /\ Wrapping /\ signals < MaxSignals /\ signals' = signals + 1
    /\ \E s \in Range(ForwardedSignals) : Forward(s) \/ ByDefault(s)
    /\ UNCHANGED mainVars

GraceEnds ==
    /\ Wrapping /\ wrapper.cancelled # NoSignal /\ ~wrapper.late
    /\ wrapper' = [wrapper EXCEPT !.late = TRUE]
    /\ UNCHANGED <<mainVars, group, code, outcome, signals, forwarded>>

PollPastDeadline ==
    /\ Wrapping /\ wrapper.at = "wait" /\ wrapper.late /\ group # {}
    /\ KillGroup
    /\ UNCHANGED <<mainVars, wrapper, outcome, signals, forwarded>>

(* Any other exception while waiting.                                       *)
Interrupted ==
    /\ Wrapping /\ wrapper.at = "wait"
    /\ KillGroup /\ outcome' = Raised("wait")
    /\ UNCHANGED <<mainVars, wrapper, signals, forwarded>>

Reap ==
    /\ Wrapping /\ wrapper.at = "wait" /\ code # NoCode
    /\ wrapper' = [wrapper EXCEPT !.at = "restore"]
    /\ UNCHANGED <<mainVars, group, code, outcome, signals, forwarded>>

Restore ==
    /\ Wrapping /\ wrapper.at = "restore"
    /\ \E s \in wrapper.handled :
          /\ Before(s) \cap wrapper.handled = {}
          /\ wrapper' = [wrapper EXCEPT !.handled = @ \ {s},
                                        !.at = IF s = Last(ForwardedSignals) THEN "return" ELSE @]
    /\ UNCHANGED <<mainVars, group, code, outcome, signals, forwarded>>

(* Fault: a child that ended well before its cancellation was seen.         *)
StatusOfChild(ended, cancelled) ==
    IF ended < 0 THEN 128 - ended ELSE ended

Status(ended, cancelled) ==
    IF cancelled # NoSignal THEN 128 + cancelled
    ELSE IF ended < 0 THEN 128 - ended ELSE ended

(* The end of _run_process, and _start: the first status that is not zero   *)
(* ends the command.                                                        *)
Return ==
    /\ Wrapping /\ wrapper.at = "return"
    /\ IF wrapper.cancelled # NoSignal THEN KillGroup ELSE UNCHANGED <<group, code>>
    /\ LET status == Status(code, wrapper.cancelled)
       IN  IF status # 0 THEN outcome' = Returned(status) /\ UNCHANGED <<command, wrapper, system>>
           ELSE /\ command' = command + 1 /\ wrapper' = Unstarted
                /\ system' = IF command = 2 THEN [system EXCEPT !.at = "build"] ELSE system
                /\ UNCHANGED outcome
    /\ UNCHANGED <<record, signals, forwarded>>

------------------------------------------------------------------------------
(* system.cli.main                                                          *)

At(step) == outcome = Going /\ command = 3 /\ system.at = step
Reach(step) == system' = [system EXCEPT !.at = step]
Fails(error) == outcome' = Raised(error) /\ UNCHANGED system
childVars == <<command, wrapper, group, code, signals, forwarded>>

(* Everything before start_run: the configuration, the confirmation, the    *)
(* environment, the schema and the node.  Unconnected, that is all.         *)
Build ==
    /\ At("build")
    /\ \/ Fails("build")
       \/ system.connected /\ Reach("open") /\ UNCHANGED outcome
       \/ ~system.connected /\ outcome' = Returned(0) /\ UNCHANGED system
    /\ UNCHANGED <<childVars, record>>

(* A statement whose commit fails may have taken effect.                    *)
StartRun ==
    /\ At("open")
    /\ \/ record' = "open" /\ Reach("awake") /\ UNCHANGED outcome
       \/ record' \in {"none", "open"} /\ Fails("store")
    /\ UNCHANGED childVars

(* The report of the start and _start_caffeinate, before the try.           *)
KeepAwake ==
    /\ At("awake")
    /\ \/ Reach("run") /\ UNCHANGED outcome
       \/ system.helper /\ Fails("helper")
    /\ UNCHANGED <<childVars, record>>

RunNode ==
    /\ At("run")
    /\ \E error \in {"none", "node"} :
          system' = [system EXCEPT !.at = "close", !.error = error]
    /\ UNCHANGED <<childVars, record, outcome>>

(* close_run: an UPDATE of a row that is open, exactly one.                 *)
Close(state) == record = "open" /\ record' = state

CloseStopped ==
    /\ At("close") /\ system.error = "none"
    /\ \/ Close("STOPPED") /\ Reach("clean")
       \/ /\ Close("STOPPED") \/ UNCHANGED record
          /\ system' = [system EXCEPT !.at = "clean", !.error = "store"]
    /\ UNCHANGED <<childVars, outcome>>

(* Fault: a failure of the store replaces that of the node.                 *)
CloseFailedOver ==
    /\ At("close") /\ system.error = "node"
    /\ \/ Close("FAILED") /\ Reach("clean")
       \/ /\ Close("FAILED") \/ UNCHANGED record
          /\ system' = [system EXCEPT !.at = "clean", !.error = "store"]
    /\ UNCHANGED <<childVars, outcome>>

CloseFailed ==
    /\ At("close") /\ system.error = "node"
    /\ Close("FAILED") \/ UNCHANGED record
    /\ Reach("clean")
    /\ UNCHANGED <<childVars, outcome>>

(* The finally clause; the helper may not end in time.                      *)
CleanUp ==
    /\ At("clean")
    /\ \/ outcome' = IF system.error = "none" THEN Returned(0) ELSE Raised(system.error)
       \/ system.helper /\ outcome' = Raised("helper")
    /\ UNCHANGED <<childVars, system, record>>

(* A crash or a forced kill.                                                *)
Killed ==
    /\ outcome = Going /\ outcome' = KilledOutright
    /\ UNCHANGED <<childVars, system, record>>

LifecycleNext ==
    \/ Launch \/ Guard \/ Signal \/ GraceEnds \/ PollPastDeadline \/ Interrupted
    \/ Reap \/ Restore \/ Return
    \/ EndChild \/ Fork \/ EndDescendant
    \/ Build \/ StartRun \/ KeepAwake \/ RunNode \/ CloseStopped \/ CloseFailed
    \/ CleanUp \/ Killed

LifecycleSpec == LifecycleInit /\ [][LifecycleNext]_runVars

------------------------------------------------------------------------------
(* The system is not built, and no run recorded, after a command that was   *)
(* cancelled or whose child failed or was killed: a cancellation counts     *)
(* even if the child ended well before the signal reached it.               *)
PrerequisitesHold == command = 3 => ~forwarded /\ code = 0

(* A cancelled command returns the status of its first signal, and when it  *)
(* returns, or its wait is broken off, no process of its group is left.     *)
CancelledIsOver ==
    /\ outcome.kind = "returned" /\ wrapper.cancelled # NoSignal =>
          group = {} /\ outcome.status = 128 + wrapper.cancelled
    /\ outcome = Raised("wait") => group = {}

(* What the row of a run says.  STOPPED and FAILED tell how the node ended; *)
(* the command succeeds only if its run is recorded as STOPPED; a failure   *)
(* of the node is what main raises even when the store fails too, only a    *)
(* helper that does not end hides it; and a run is left open only by a kill *)
(* or by an exception.                                                      *)
RecordTells ==
    /\ record = "STOPPED" => system.error # "node"
    /\ record = "FAILED" => system.error = "node"
    /\ outcome = Returned(0) => record = IF system.connected THEN "STOPPED" ELSE "none"
    /\ outcome.kind = "raised" /\ system.error = "node" => outcome.error \in {"node", "helper"}
    /\ record = "open" /\ outcome # Going => outcome.kind \in {"raised", "killed"}
    /\ outcome.kind = "returned" /\ outcome.status # 0 => record = "none"

RunInv == PrerequisitesHold /\ CancelledIsOver /\ RecordTells
=============================================================================
