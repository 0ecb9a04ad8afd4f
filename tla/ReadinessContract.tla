-------------------------- MODULE ReadinessContract --------------------------
(***************************************************************************)
(* What historical execution promises the consumers attached to a          *)
(* provider request, without queues, lanes, attempts or time: a request    *)
(* closes at most once, dependencies are attached only while it is open,   *)
(* and closing it answers all of them in that one step with outcomes of    *)
(* one kind, which are final.  The code's one exception is kept: a request *)
(* may also close silently, answering none of them.                        *)
(***************************************************************************)
CONSTANTS Requests, Dependencies

VARIABLES closed, attached, readiness

vars == <<closed, attached, readiness>>

(* The verdicts a closing request can give: an answer judged dependency by *)
(* dependency, one failure for all of them, or silence.                    *)
Verdicts ==
    [Dependencies -> {"READY", "DEGRADED"}]
        \cup {[d \in Dependencies |-> state] :
                 state \in {"FAILED", "CANCELED", "EXPIRED", "NONE"}}

Init ==
    /\ closed = {}
    /\ attached = {}
    /\ readiness = [r \in Requests |-> [d \in Dependencies |-> "NONE"]]

(* One step attaches the dependencies in joining and closes the requests   *)
(* in closing; both are what the step adds to the two sets.                *)
Next ==
    LET joining == attached' \ attached
        closing == closed' \ closed
    IN  /\ attached \subseteq attached'
        /\ joining \subseteq (Requests \ closed) \X Dependencies
        /\ closed \subseteq closed'
        /\ closing \subseteq Requests
        /\ \A r \in Requests \ closing : readiness'[r] = readiness[r]
        /\ \A r \in closing : \E verdict \in Verdicts : \A d \in Dependencies :
               readiness'[r][d] =
                   IF <<r, d>> \in attached' THEN verdict[d] ELSE "NONE"

Spec == Init /\ [][Next]_vars
=============================================================================
