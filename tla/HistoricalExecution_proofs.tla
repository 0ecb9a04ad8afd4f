---------------------- MODULE HistoricalExecution_proofs ----------------------
(***************************************************************************)
(* Proofs about HistoricalExecution, for every set of requests and         *)
(* dependencies and every execution policy.                                *)
(*                                                                         *)
(* Every operation first rewrites the table of entries and then runs the   *)
(* dispatch loop on it.  The inductive invariant is therefore stated for a *)
(* table, so that it can be shown of the rewritten table first and then    *)
(* carried through the dispatch loop by one lemma.                         *)
(***************************************************************************)
EXTENDS HistoricalExecution, FiniteSetTheorems, TLAPS

Readiness == [Requests -> [Dependencies -> ReadinessStates \cup {"NONE"}]]

Waiting == {"pending", "active"}

(* What ties the entry of request r to its dependencies and their results. *)
EntryConsistent(r, e, results, joined) ==
    /\ e.place \in Waiting =>
           \A d \in Dependencies : <<r, d>> \in joined <=> d \in e.deps
    /\ e.place = "absent" => \A d \in Dependencies : <<r, d>> \notin joined
    /\ e.place = "terminal" <=> e.ending # "NONE"
    /\ \A d \in Dependencies :
           IF <<r, d>> \in joined
           THEN /\ results[r][d] \in OutcomesOf(e.ending)
                /\ \A f \in Dependencies :
                       /\ results[r][d] = "DEGRADED"
                       /\ results[r][f] = "READY"
                       => Minimum[f] < Minimum[d]
           ELSE results[r][d] = "NONE"

Consistent(table, results, joined) ==
    /\ table \in [Requests -> Entry]
    /\ results \in Readiness
    /\ joined \subseteq Requests \X Dependencies
    /\ \A r \in Requests : EntryConsistent(r, table[r], results, joined)

IInv == Consistent(req, readiness, attached)

-----------------------------------------------------------------------------
(* The operations on one entry keep its type.                              *)
LEMMA EntryTypes ==
    /\ \A ending \in Endings : Finished(ending) \in Entry
    /\ \A deps \in SUBSET Dependencies, priority \in Priorities :
           Fresh(deps, priority) \in Entry
    /\ \A e \in Entry :
           /\ \A ending \in Endings : RetriedOrFinished(e, ending) \in Entry
           /\ Submitted(e) \in Entry
           /\ Elapsed(e) \in Entry
           /\ \A deps \in SUBSET Dependencies, priority \in Priorities :
                  Merged(e, deps, priority) \in Entry
<1> USE ExecutionAssumption
<1>1. ASSUME NEW ending \in Endings PROVE Finished(ending) \in Entry
  BY DEF Finished, Entry, Places
<1>2. ASSUME NEW deps \in SUBSET Dependencies, NEW priority \in Priorities
      PROVE  Fresh(deps, priority) \in Entry
  BY DEF Fresh, Entry, Places
<1>3. ASSUME NEW e \in Entry, NEW ending \in Endings
      PROVE  RetriedOrFinished(e, ending) \in Entry
  <2>1. CASE e.attempt >= MaxAttempts
    BY <2>1, <1>1 DEF RetriedOrFinished
  <2>2. CASE ~(e.attempt >= MaxAttempts)
    <3>1. e.attempt + 1 \in 0..MaxAttempts
      BY <2>2 DEF Entry
    <3>2. QED BY <2>2, <3>1 DEF RetriedOrFinished, Entry, Places
  <2>3. QED BY <2>1, <2>2
<1>4. ASSUME NEW e \in Entry PROVE Submitted(e) \in Entry
  BY DEF Submitted, Entry, Places
<1>5. ASSUME NEW e \in Entry PROVE Elapsed(e) \in Entry
  BY DEF Elapsed, Entry
<1>6. ASSUME NEW e \in Entry, NEW deps \in SUBSET Dependencies,
             NEW priority \in Priorities
      PROVE  Merged(e, deps, priority) \in Entry
  BY DEF Merged, Entry
<1>7. QED BY <1>1, <1>2, <1>3, <1>4, <1>5, <1>6

(* The dispatch loop leaves an entry alone, or it finds it pending and     *)
(* submits it, or it finds it pending and the port refuses it.             *)
LEMMA DispatchEffect ==
    ASSUME NEW table \in [Requests -> Entry], Dispatch(table)
    PROVE  /\ req' \in [Requests -> Entry]
           /\ \A r \in Requests :
                  \/ req'[r] = table[r]
                  \/ /\ table[r].place = "pending"
                     /\ \/ req'[r] = Submitted(table[r])
                        \/ req'[r] = RetriedOrFinished(table[r], "REFUSED")
<1>1. PICK accepted \in SUBSET Due(table) :
        \E refused \in SUBSET (Due(table) \ accepted) :
            req' = AfterDispatch(table, accepted, refused)
  BY DEF Dispatch
<1>2. PICK refused \in SUBSET (Due(table) \ accepted) :
        req' = AfterDispatch(table, accepted, refused)
  BY <1>1
<1>3. "REFUSED" \in Endings
  BY DEF Endings
<1>4. ASSUME NEW r \in Requests
      PROVE  /\ req'[r] \in Entry
             /\ \/ req'[r] = table[r]
                \/ /\ table[r].place = "pending"
                   /\ \/ req'[r] = Submitted(table[r])
                      \/ req'[r] = RetriedOrFinished(table[r], "REFUSED")
  <2>1. r \in Due(table) => table[r].place = "pending"
    BY DEF Due, In
  <2>2. req'[r] = IF r \in accepted THEN Submitted(table[r])
                  ELSE IF r \in refused
                       THEN RetriedOrFinished(table[r], "REFUSED")
                       ELSE table[r]
    BY <1>2 DEF AfterDispatch
  <2>3. QED BY <2>1, <2>2, <1>3, EntryTypes
<1>5. req' \in [Requests -> Entry]
  BY <1>2, <1>4 DEF AfterDispatch
<1>6. QED BY <1>4, <1>5

(* Dispatching keeps what ties entries to dependencies and results.        *)
LEMMA DispatchKeeps ==
    ASSUME NEW table, NEW results, NEW joined,
           Consistent(table, results, joined), Dispatch(table)
    PROVE  Consistent(req', results, joined)
<1>1. /\ table \in [Requests -> Entry]
      /\ results \in Readiness
      /\ joined \subseteq Requests \X Dependencies
      /\ \A r \in Requests : EntryConsistent(r, table[r], results, joined)
  BY DEF Consistent
<1>2. req' \in [Requests -> Entry]
  BY <1>1, DispatchEffect
<1>3. ASSUME NEW r \in Requests
      PROVE  EntryConsistent(r, req'[r], results, joined)
  <2>1. table[r] \in Entry /\ EntryConsistent(r, table[r], results, joined)
    BY <1>1
  <2>2. CASE req'[r] = table[r]
    BY <2>1, <2>2
  <2>3. CASE /\ table[r].place = "pending"
             /\ req'[r] = Submitted(table[r])
    <3>1. /\ req'[r].place = "active"
          /\ req'[r].ending = table[r].ending
          /\ req'[r].deps = table[r].deps
      BY <2>1, <2>3 DEF Submitted, Entry
    <3>2. QED BY <2>1, <2>3, <3>1 DEF EntryConsistent, Waiting
  <2>4. CASE /\ table[r].place = "pending"
             /\ req'[r] = RetriedOrFinished(table[r], "REFUSED")
    <3>1. CASE table[r].attempt >= MaxAttempts
      <4>1. /\ req'[r].place = "terminal"
            /\ req'[r].ending = "REFUSED"
        BY <2>4, <3>1 DEF RetriedOrFinished, Finished
      <4>2. table[r].ending = "NONE"
        BY <2>1, <2>4 DEF EntryConsistent
      <4>3. OutcomesOf("REFUSED") = {"NONE"} /\ OutcomesOf("NONE") = {"NONE"}
        BY DEF OutcomesOf
      <4>4. QED BY <2>1, <4>1, <4>2, <4>3 DEF EntryConsistent, Waiting
    <3>2. CASE ~(table[r].attempt >= MaxAttempts)
      <4>1. /\ req'[r].place = "pending"
            /\ req'[r].ending = table[r].ending
            /\ req'[r].deps = table[r].deps
        BY <2>1, <2>4, <3>2 DEF RetriedOrFinished, Entry
      <4>2. QED BY <2>1, <2>4, <4>1 DEF EntryConsistent, Waiting
    <3>3. QED BY <3>1, <3>2
  <2>5. QED BY <1>1, <2>2, <2>3, <2>4, DispatchEffect
<1>4. QED BY <1>1, <1>2, <1>3 DEF Consistent

(* Closing an outstanding entry with an ending, when its dependencies are  *)
(* given the verdict that ending calls for.                                *)
LEMMA EntryCloses ==
    ASSUME NEW r \in Requests, NEW e \in Entry, NEW joined,
           NEW before \in Readiness, NEW after \in Readiness,
           EntryConsistent(r, e, before, joined), e.place \in Waiting,
           NEW ending \in Endings,
           \A d \in Dependencies :
               IF d \in e.deps
               THEN /\ after[r][d] \in OutcomesOf(ending)
                    /\ \A f \in Dependencies :
                           /\ f \in e.deps
                           /\ after[r][d] = "DEGRADED"
                           /\ after[r][f] = "READY"
                           => Minimum[f] < Minimum[d]
               ELSE after[r][d] = before[r][d]
    PROVE  EntryConsistent(r, Finished(ending), after, joined)
<1>1. /\ Finished(ending).place = "terminal"
      /\ Finished(ending).ending = ending
      /\ ending # "NONE"
  BY DEF Finished, Endings
<1>2. \A d \in Dependencies : <<r, d>> \in joined <=> d \in e.deps
  BY DEF EntryConsistent
<1>3. ASSUME NEW d \in Dependencies, <<r, d>> \notin joined
      PROVE  after[r][d] = "NONE"
  BY <1>2, <1>3 DEF EntryConsistent
<1>4. ASSUME NEW d \in Dependencies, <<r, d>> \in joined
      PROVE  /\ after[r][d] \in OutcomesOf(ending)
             /\ \A f \in Dependencies :
                    /\ after[r][d] = "DEGRADED"
                    /\ after[r][f] = "READY"
                    => Minimum[f] < Minimum[d]
  <2>1. after[r][d] \in OutcomesOf(ending)
    BY <1>2, <1>4
  <2>2. ASSUME NEW f \in Dependencies, after[r][d] = "DEGRADED", after[r][f] = "READY"
        PROVE  Minimum[f] < Minimum[d]
    <3>1. f \in e.deps
      BY <1>2, <1>3, <2>2
    <3>2. QED BY <1>2, <1>4, <2>2, <3>1
  <2>3. QED BY <2>1, <2>2
<1>5. QED BY <1>1, <1>3, <1>4 DEF EntryConsistent, Waiting

(* Only the results of the request itself matter to its entry.             *)
LEMMA EntryStays ==
    ASSUME NEW r \in Requests, NEW e, NEW joined, NEW before, NEW after,
           EntryConsistent(r, e, before, joined), after[r] = before[r]
    PROVE  EntryConsistent(r, e, after, joined)
BY DEF EntryConsistent

LEMMA InitConsistent == Init => IInv
<1> SUFFICES ASSUME Init PROVE IInv
  OBVIOUS
<1> USE ExecutionAssumption
<1>1. Absent \in Entry
  BY DEF Absent, Entry, Places
<1>2. req \in [Requests -> Entry] /\ \A r \in Requests : req[r] = Absent
  BY <1>1 DEF Init
<1>3. readiness \in Readiness /\ attached \subseteq Requests \X Dependencies
  BY DEF Init, Readiness
<1>4. ASSUME NEW r \in Requests
      PROVE  EntryConsistent(r, Absent, readiness, attached)
  BY DEF Init, EntryConsistent, Absent, Waiting
<1>5. QED BY <1>2, <1>3, <1>4 DEF IInv, Consistent

LEMMA EnqueueKeeps ==
    ASSUME IInv, NEW r \in Requests, NEW deps \in SUBSET Dependencies,
           NEW priority \in Priorities, Enqueue(r, deps, priority)
    PROVE  IInv'
<1> DEFINE joined == attached \cup ({r} \X deps)
<1>1. /\ req \in [Requests -> Entry]
      /\ readiness \in Readiness
      /\ attached \subseteq Requests \X Dependencies
      /\ \A s \in Requests : EntryConsistent(s, req[s], readiness, attached)
  BY DEF IInv, Consistent
<1>2. attached' = joined /\ readiness' = readiness
  BY DEF Enqueue
<1>3. joined \subseteq Requests \X Dependencies
  BY <1>1
<1>4. ASSUME NEW s \in Requests, s # r
      PROVE  EntryConsistent(s, req[s], readiness, joined)
  <2>1. \A d \in Dependencies : <<s, d>> \in joined <=> <<s, d>> \in attached
    BY <1>4
  <2>2. QED BY <1>1, <2>1 DEF EntryConsistent
<1>5. ASSUME NEW e \in Entry,
             Dispatch([req EXCEPT ![r] = e]),
             EntryConsistent(r, e, readiness, joined)
      PROVE  IInv'
  <2> DEFINE table == [req EXCEPT ![r] = e]
  <2>1. table \in [Requests -> Entry]
    BY <1>1, <1>5
  <2>2. \A s \in Requests : EntryConsistent(s, table[s], readiness, joined)
    BY <1>1, <1>4, <1>5
  <2>3. Consistent(table, readiness, joined)
    BY <1>1, <1>3, <2>1, <2>2 DEF Consistent
  <2>4. Consistent(req', readiness, joined)
    BY <1>5, <2>3, DispatchKeeps
  <2>5. QED BY <1>2, <2>4 DEF IInv, Consistent
<1>6. CASE /\ r \in Outstanding(req)
           /\ Dispatch([req EXCEPT ![r] = Merged(@, deps, priority)])
  <2> DEFINE e == Merged(req[r], deps, priority)
  <2>1. e \in Entry /\ req[r] \in Entry
    BY <1>1, EntryTypes
  <2>2. /\ e.place = req[r].place
        /\ e.ending = req[r].ending
        /\ e.deps = req[r].deps \cup deps
    BY <2>1 DEF Merged, Entry
  <2>3. req[r].place \in Waiting
    BY <1>6 DEF Outstanding, In, Waiting
  <2>4. EntryConsistent(r, req[r], readiness, attached)
    BY <1>1
  <2>5. req[r].ending = "NONE"
    BY <2>3, <2>4 DEF EntryConsistent, Waiting
  <2>6. \A d \in Dependencies :
          <<r, d>> \in joined <=> (<<r, d>> \in attached \/ d \in deps)
    OBVIOUS
  <2>7. \A d \in Dependencies : readiness[r][d] = "NONE"
    BY <2>4, <2>5 DEF EntryConsistent, OutcomesOf
  <2>8. \A d \in Dependencies : <<r, d>> \in joined <=> d \in e.deps
    BY <2>2, <2>3, <2>4, <2>6 DEF EntryConsistent
  <2>9. EntryConsistent(r, e, readiness, joined)
    BY <2>2, <2>3, <2>5, <2>7, <2>8 DEF EntryConsistent, OutcomesOf, Waiting
  <2>10. QED BY <1>5, <1>6, <2>1, <2>9
<1>7. CASE /\ req[r].place = "absent"
           /\ Dispatch([req EXCEPT ![r] = Fresh(deps, priority)])
  <2> DEFINE e == Fresh(deps, priority)
  <2>1. e \in Entry
    BY EntryTypes
  <2>2. e.place = "pending" /\ e.ending = "NONE" /\ e.deps = deps
    BY DEF Fresh
  <2>3. EntryConsistent(r, req[r], readiness, attached)
    BY <1>1
  <2>4. \A d \in Dependencies : <<r, d>> \notin attached /\ readiness[r][d] = "NONE"
    BY <1>7, <2>3 DEF EntryConsistent
  <2>5. \A d \in Dependencies : <<r, d>> \in joined <=> d \in e.deps
    BY <2>2, <2>4
  <2>6. EntryConsistent(r, e, readiness, joined)
    BY <2>2, <2>4, <2>5 DEF EntryConsistent, OutcomesOf, Waiting
  <2>7. QED BY <1>5, <1>7, <2>1, <2>6
<1>8. QED BY <1>6, <1>7 DEF Enqueue

(* The steps that close one request: the table keeps the other entries and *)
(* the results keep the other rows.                                        *)
LEMMA ClosingKeeps ==
    ASSUME IInv, NEW r \in Requests, NEW ending \in Endings, NEW verdict,
           r \in Outstanding(req),
           \A d \in Dependencies : verdict[d] \in ReadinessStates,
           \A d \in Dependencies : verdict[d] \in OutcomesOf(ending),
           \A d, f \in Dependencies :
               verdict[d] = "DEGRADED" /\ verdict[f] = "READY"
               => Minimum[f] < Minimum[d],
           Dispatch([req EXCEPT ![r] = Finished(ending)]),
           readiness' = [s \in Requests |-> [d \in Dependencies |->
                            IF s \in {r} /\ d \in req[s].deps
                            THEN verdict[d] ELSE readiness[s][d]]],
           UNCHANGED attached
    PROVE  IInv'
<1> DEFINE table == [req EXCEPT ![r] = Finished(ending)]
<1>1. /\ req \in [Requests -> Entry]
      /\ readiness \in Readiness
      /\ attached \subseteq Requests \X Dependencies
      /\ \A s \in Requests : EntryConsistent(s, req[s], readiness, attached)
  BY DEF IInv, Consistent
<1>2. readiness' \in Readiness
  BY <1>1 DEF Readiness
<1>3. table \in [Requests -> Entry]
  BY <1>1, EntryTypes
<1>4. EntryConsistent(r, Finished(ending), readiness', attached)
  <2>1. req[r].place \in Waiting
    BY DEF Outstanding, In, Waiting
  <2>2. \A d \in Dependencies :
          readiness'[r][d] = IF d \in req[r].deps
                             THEN verdict[d] ELSE readiness[r][d]
    OBVIOUS
  <2>3. ASSUME NEW d \in Dependencies
        PROVE  IF d \in req[r].deps
               THEN /\ readiness'[r][d] \in OutcomesOf(ending)
                    /\ \A f \in Dependencies :
                           /\ f \in req[r].deps
                           /\ readiness'[r][d] = "DEGRADED"
                           /\ readiness'[r][f] = "READY"
                           => Minimum[f] < Minimum[d]
               ELSE readiness'[r][d] = readiness[r][d]
    BY <2>2
  <2>4. QED BY <1>1, <1>2, <2>1, <2>3, EntryCloses
<1>5. ASSUME NEW s \in Requests
      PROVE  EntryConsistent(s, table[s], readiness', attached)
  <2>1. CASE s = r
    BY <1>1, <1>4, <2>1
  <2>2. CASE s # r
    <3>1. readiness'[s] = readiness[s]
      BY <1>1, <2>2 DEF Readiness
    <3>2. EntryConsistent(s, req[s], readiness', attached)
      BY <1>1, <3>1, EntryStays
    <3>3. QED BY <1>1, <2>2, <3>2
  <2>3. QED BY <2>1, <2>2
<1>6. Consistent(table, readiness', attached)
  BY <1>1, <1>2, <1>3, <1>5 DEF Consistent
<1>7. Consistent(req', readiness', attached)
  BY <1>6, DispatchKeeps
<1>8. QED BY <1>7 DEF IInv, Consistent

LEMMA CompleteKeeps ==
    ASSUME IInv, NEW r \in Requests, NEW count \in Counts, Complete(r, count)
    PROVE  IInv'
<1> DEFINE verdict == [d \in Dependencies |-> IF count >= Minimum[d]
                                              THEN "READY" ELSE "DEGRADED"]
<1>1. /\ Dispatch([req EXCEPT ![r] = Finished("COMPLETED")])
      /\ readiness' = [s \in Requests |-> [d \in Dependencies |->
                          IF s \in {r} /\ d \in req[s].deps
                          THEN verdict[d] ELSE readiness[s][d]]]
      /\ UNCHANGED attached
  BY DEF Complete, Reported
<1>2. r \in Outstanding(req)
  BY DEF Complete, Outstanding
<1>3. \A d \in Dependencies : verdict[d] \in ReadinessStates
  BY DEF ReadinessStates
<1>4. \A d \in Dependencies : verdict[d] \in OutcomesOf("COMPLETED")
  BY DEF OutcomesOf
<1>5. \A d, f \in Dependencies :
          verdict[d] = "DEGRADED" /\ verdict[f] = "READY"
          => Minimum[f] < Minimum[d]
  BY ExecutionAssumption
<1>6. "COMPLETED" \in Endings
  BY DEF Endings
<1> HIDE DEF verdict
<1>7. QED BY <1>1, <1>2, <1>3, <1>4, <1>5, <1>6, ClosingKeeps

(* A request that fails or is canceled for good gives all its dependencies *)
(* the same verdict.                                                       *)
LEMMA UniformClosing ==
    ASSUME IInv, NEW r \in Requests, NEW state \in {"FAILED", "CANCELED"},
           r \in Outstanding(req),
           Dispatch([req EXCEPT ![r] = Finished(state)]),
           readiness' = Reported({r}, [d \in Dependencies |-> state]),
           UNCHANGED attached
    PROVE  IInv'
<1> DEFINE verdict == [d \in Dependencies |-> state]
<1>1. readiness' = [s \in Requests |-> [d \in Dependencies |->
                       IF s \in {r} /\ d \in req[s].deps
                       THEN verdict[d] ELSE readiness[s][d]]]
  BY DEF Reported
<1>2. \A d \in Dependencies : verdict[d] \in ReadinessStates
  BY DEF ReadinessStates
<1>3. \A d \in Dependencies : verdict[d] \in OutcomesOf(state)
  BY DEF OutcomesOf
<1>4. \A d, f \in Dependencies :
          verdict[d] = "DEGRADED" /\ verdict[f] = "READY"
          => Minimum[f] < Minimum[d]
  OBVIOUS
<1>5. state \in Endings
  BY DEF Endings
<1> HIDE DEF verdict
<1>6. QED BY <1>1, <1>2, <1>3, <1>4, <1>5, ClosingKeeps

LEMMA CancelKeeps ==
    ASSUME IInv, NEW r \in Requests, Cancel(r)
    PROVE  IInv'
BY UniformClosing DEF Cancel

(* Putting an active entry back in the queue changes neither its           *)
(* dependencies nor its ending.                                            *)
LEMMA EntryRetries ==
    ASSUME NEW r \in Requests, NEW e \in Entry, NEW joined, NEW results,
           NEW ending, EntryConsistent(r, e, results, joined),
           e.place \in Waiting, ~(e.attempt >= MaxAttempts)
    PROVE  EntryConsistent(r, RetriedOrFinished(e, ending), results, joined)
<1>1. /\ RetriedOrFinished(e, ending).place = "pending"
      /\ RetriedOrFinished(e, ending).ending = e.ending
      /\ RetriedOrFinished(e, ending).deps = e.deps
  BY DEF RetriedOrFinished, Entry
<1>2. QED BY <1>1 DEF EntryConsistent, Waiting

LEMMA FailKeeps ==
    ASSUME IInv, NEW r \in Requests, NEW retryable \in BOOLEAN, Fail(r, retryable)
    PROVE  IInv'
<1>1. /\ req \in [Requests -> Entry]
      /\ readiness \in Readiness
      /\ attached \subseteq Requests \X Dependencies
      /\ \A s \in Requests : EntryConsistent(s, req[s], readiness, attached)
  BY DEF IInv, Consistent
<1>2. r \in In(req, "active") /\ UNCHANGED attached
  BY DEF Fail
<1>3. r \in Outstanding(req) /\ req[r].place \in Waiting
  BY <1>2 DEF Outstanding, In, Waiting
<1>4. CASE retryable /\ req[r].attempt < MaxAttempts
  <2> DEFINE e == RetriedOrFinished(req[r], "FAILED")
  <2> DEFINE table == [req EXCEPT ![r] = e]
  <2>1. Dispatch(table) /\ readiness' = Reported({}, [d \in Dependencies |-> "FAILED"])
    BY <1>4 DEF Fail
  <2>2. readiness' = readiness
    BY <1>1, <2>1 DEF Reported, Readiness
  <2>3. ~(req[r].attempt >= MaxAttempts)
    BY <1>1, <1>4, ExecutionAssumption DEF Entry
  <2>4. "FAILED" \in Endings
    BY DEF Endings
  <2>5. e \in Entry /\ EntryConsistent(r, e, readiness, attached)
    BY <1>1, <1>3, <2>3, <2>4, EntryRetries, EntryTypes
  <2> HIDE DEF e
  <2>6. table \in [Requests -> Entry]
    BY <1>1, <2>5
  <2>7. \A s \in Requests : EntryConsistent(s, table[s], readiness, attached)
    BY <1>1, <2>5
  <2>8. Consistent(table, readiness, attached)
    BY <1>1, <2>6, <2>7 DEF Consistent
  <2> HIDE DEF table
  <2>9. Consistent(req', readiness, attached)
    BY <2>1, <2>8, DispatchKeeps
  <2>10. QED BY <1>2, <2>2, <2>9 DEF IInv, Consistent
<1>5. CASE ~(retryable /\ req[r].attempt < MaxAttempts)
  <2>1. retryable => req[r].attempt >= MaxAttempts
    BY <1>1, <1>5, ExecutionAssumption DEF Entry
  <2>2. /\ Dispatch([req EXCEPT ![r] = Finished("FAILED")])
        /\ readiness' = Reported({r}, [d \in Dependencies |-> "FAILED"])
    <3>1. CASE retryable
      <4>1. RetriedOrFinished(req[r], "FAILED") = Finished("FAILED")
        BY <2>1, <3>1 DEF RetriedOrFinished
      <4>2. QED BY <1>5, <3>1, <4>1 DEF Fail
    <3>2. CASE ~retryable
      BY <3>2 DEF Fail
    <3>3. QED BY <3>1, <3>2
  <2>3. QED BY <1>2, <1>3, <2>2, UniformClosing
<1>6. QED BY <1>4, <1>5

LEMMA AdvanceKeeps ==
    ASSUME IInv, Advance
    PROVE  IInv'
<1> DEFINE table == [r \in Requests |->
                        IF r \in Expired
                        THEN RetriedOrFinished(req[r], "EXPIRED")
                        ELSE req[r]]
<1> DEFINE spent == {r \in Expired : req[r].attempt >= MaxAttempts}
<1>1. /\ req \in [Requests -> Entry]
      /\ readiness \in Readiness
      /\ attached \subseteq Requests \X Dependencies
      /\ \A s \in Requests : EntryConsistent(s, req[s], readiness, attached)
  BY DEF IInv, Consistent
<1>2. /\ Dispatch(table)
      /\ UNCHANGED attached
      /\ readiness' = [r \in Requests |-> [d \in Dependencies |->
                          IF r \in spent /\ d \in req[r].deps
                          THEN "EXPIRED" ELSE readiness[r][d]]]
  BY DEF Advance, Reported
<1>3. "EXPIRED" \in Endings /\ OutcomesOf("EXPIRED") = {"EXPIRED"}
  BY DEF Endings, OutcomesOf
<1>4. table \in [Requests -> Entry]
  BY <1>1, <1>3, EntryTypes
<1>5. readiness' \in Readiness
  BY <1>1, <1>2 DEF Readiness, ReadinessStates
<1>6. ASSUME NEW r \in Requests
      PROVE  EntryConsistent(r, table[r], readiness', attached)
  <2>1. /\ req[r] \in Entry /\ EntryConsistent(r, req[r], readiness, attached)
        /\ r \in Expired => req[r].place \in Waiting
    BY <1>1 DEF Expired, In, Waiting
  <2>2. CASE r \in spent
    <3>1. table[r] = Finished("EXPIRED")
      BY <2>2 DEF RetriedOrFinished
    <3>2. \A d \in Dependencies :
            readiness'[r][d] = IF d \in req[r].deps
                               THEN "EXPIRED" ELSE readiness[r][d]
      BY <1>2, <2>2
    <3>3. ASSUME NEW d \in Dependencies
          PROVE  IF d \in req[r].deps
                 THEN /\ readiness'[r][d] \in OutcomesOf("EXPIRED")
                      /\ \A f \in Dependencies :
                             /\ f \in req[r].deps
                             /\ readiness'[r][d] = "DEGRADED"
                             /\ readiness'[r][f] = "READY"
                             => Minimum[f] < Minimum[d]
                 ELSE readiness'[r][d] = readiness[r][d]
      BY <1>3, <3>2
    <3>4. EntryConsistent(r, Finished("EXPIRED"), readiness', attached)
      BY <1>1, <1>3, <1>5, <2>1, <2>2, <3>3, EntryCloses
    <3>5. QED BY <3>1, <3>4
  <2>3. CASE r \notin spent
    <3>1. readiness'[r] = readiness[r]
      BY <1>1, <1>2, <2>3 DEF Readiness
    <3>2. EntryConsistent(r, table[r], readiness, attached)
      BY <2>1, <2>3, EntryRetries
    <3>3. QED BY <3>1, <3>2, EntryStays
  <2>4. QED BY <2>2, <2>3
<1>7. Consistent(table, readiness', attached)
  BY <1>1, <1>4, <1>5, <1>6 DEF Consistent
<1> HIDE DEF table
<1>8. Consistent(req', readiness', attached)
  BY <1>2, <1>7, DispatchKeeps
<1>9. QED BY <1>2, <1>8 DEF IInv, Consistent

LEMMA TickKeeps ==
    ASSUME IInv, Tick
    PROVE  IInv'
<1>1. /\ req \in [Requests -> Entry]
      /\ readiness \in Readiness
      /\ attached \subseteq Requests \X Dependencies
      /\ \A s \in Requests : EntryConsistent(s, req[s], readiness, attached)
  BY DEF IInv, Consistent
<1>2. /\ req' = [r \in Requests |-> Elapsed(req[r])]
      /\ UNCHANGED <<readiness, attached>>
  BY DEF Tick
<1>3. req' \in [Requests -> Entry]
  BY <1>1, <1>2, EntryTypes
<1>4. ASSUME NEW r \in Requests
      PROVE  EntryConsistent(r, req'[r], readiness, attached)
  <2>1. /\ req'[r].place = req[r].place
        /\ req'[r].deps = req[r].deps
        /\ req'[r].ending = req[r].ending
    BY <1>1, <1>2 DEF Elapsed, Entry
  <2>2. QED BY <1>1, <2>1 DEF EntryConsistent
<1>5. QED BY <1>1, <1>2, <1>3, <1>4 DEF IInv, Consistent

-----------------------------------------------------------------------------
(* Every step keeps the invariant.                                         *)
LEMMA StepKeeps == IInv /\ [Next]_vars => IInv'
<1> SUFFICES ASSUME IInv, [Next]_vars PROVE IInv'
  OBVIOUS
<1>1. CASE \E r \in Requests, d \in Dependencies, priority \in Priorities :
             Enqueue(r, {d}, priority)
  BY <1>1, EnqueueKeeps
<1>2. CASE Advance
  BY <1>2, AdvanceKeeps
<1>3. CASE \E r \in Requests, count \in Counts : Complete(r, count)
  BY <1>3, CompleteKeeps
<1>4. CASE \E r \in Requests, retryable \in BOOLEAN : Fail(r, retryable)
  BY <1>4, FailKeeps
<1>5. CASE \E r \in Requests : Cancel(r)
  BY <1>5, CancelKeeps
<1>6. CASE Tick
  BY <1>6, TickKeeps
<1>7. CASE UNCHANGED vars
  BY <1>7 DEF vars, IInv, Consistent
<1>8. QED BY <1>1, <1>2, <1>3, <1>4, <1>5, <1>6, <1>7 DEF Next

LEMMA Invariance == Spec => []IInv
<1>1. Init => IInv
  BY InitConsistent
<1>2. IInv /\ [Next]_vars => IInv'
  BY StepKeeps
<1>3. QED BY <1>1, <1>2, PTL DEF Spec

(* The tables keep their types: in particular no request is ever given     *)
(* more attempts than the policy allows.                                   *)
THEOREM TypeCorrect == Spec => []TypeOK
<1>1. IInv => TypeOK
  BY DEF IInv, Consistent, Readiness, TypeOK
<1>2. QED BY <1>1, Invariance, PTL

(* Whatever is shared, retried, refused, expired or cancelled, an accepted *)
(* dependency has exactly the outcome its request's end calls for.         *)
THEOREM OutcomesCorrect == Spec => []OutcomesFollowEnding
<1>1. IInv => OutcomesFollowEnding
  BY DEF IInv, Consistent, EntryConsistent, OutcomesFollowEnding
<1>2. QED BY <1>1, Invariance, PTL

-----------------------------------------------------------------------------
(* The lanes and the queue.                                                *)

Lanes(q) == Cardinality(In(q, "active"))

QueueKept(q) == Cardinality(Outstanding(q)) <= MaxQueued

(* What one run of the loop makes of the lanes: they are never             *)
(* overfilled, a due request is left waiting only behind full lanes, and   *)
(* never behind a request of lower priority that the loop put in flight.   *)
LEMMA DispatchFills ==
    ASSUME NEW table \in [Requests -> Entry], Dispatch(table),
           Lanes(table) <= MaxInFlight
    PROVE  /\ Lanes(req') <= MaxInFlight
           /\ \/ Lanes(req') = MaxInFlight
              \/ \A s \in Requests : req'[s].place = "pending" => req'[s].wait > 0
           /\ \A r, s \in Requests :
                  /\ table[r].place # "active" /\ req'[r].place = "active"
                  /\ req'[s].place = "pending" /\ req'[s].wait = 0
                  => req'[s].priority <= req'[r].priority
<1> USE ExecutionAssumption
<1> DEFINE busy == In(table, "active")
<1>1. PICK accepted \in SUBSET Due(table) :
        \E refused \in SUBSET (Due(table) \ accepted) :
            /\ DispatchLoop(table, accepted, refused)
            /\ req' = AfterDispatch(table, accepted, refused)
  BY DEF Dispatch
<1>2. PICK refused \in SUBSET (Due(table) \ accepted) :
            /\ DispatchLoop(table, accepted, refused)
            /\ req' = AfterDispatch(table, accepted, refused)
  BY <1>1
<1>3. ASSUME NEW r \in Requests
      PROVE  /\ r \in accepted => req'[r] = Submitted(table[r])
             /\ r \in refused => req'[r] = RetriedOrFinished(table[r], "REFUSED")
             /\ r \notin accepted \cup refused => req'[r] = table[r]
             /\ r \in Due(table) <=> table[r].place = "pending" /\ table[r].wait = 0
             /\ table[r] \in Entry
  BY <1>2 DEF AfterDispatch, Due, In
<1>4. ASSUME NEW r \in Requests, r \in accepted
      PROVE  req'[r].place = "active" /\ req'[r].priority = table[r].priority
  <2>1. req'[r] = Submitted(table[r]) /\ table[r] \in Entry
    BY <1>3, <1>4
  <2>2. QED BY <2>1 DEF Submitted, Entry
<1>5. ASSUME NEW r \in Requests, r \in refused
      PROVE  /\ req'[r].place # "active"
             /\ req'[r].place = "pending" => req'[r].wait > 0
  <2>1. req'[r] = RetriedOrFinished(table[r], "REFUSED") /\ table[r] \in Entry
    BY <1>3, <1>5
  <2>2. CASE table[r].attempt >= MaxAttempts
    BY <2>1, <2>2 DEF RetriedOrFinished, Finished
  <2>3. CASE ~(table[r].attempt >= MaxAttempts)
    BY <2>1, <2>3 DEF RetriedOrFinished, Entry
  <2>4. QED BY <2>2, <2>3
<1>6. ASSUME NEW r \in Requests, r \notin accepted, req'[r].place = "active"
      PROVE  r \in busy
  BY <1>3, <1>5, <1>6 DEF In
<1>7. ASSUME NEW r \in Requests, r \in busy
      PROVE  req'[r].place = "active" /\ r \notin accepted
  <2>1. r \notin Due(table)
    BY <1>3, <1>7 DEF In
  <2>2. QED BY <1>3, <1>7, <2>1 DEF In
<1>8. In(req', "active") = busy \cup accepted /\ busy \cap accepted = {}
  BY <1>4, <1>6, <1>7 DEF In, Due
<1>9. /\ IsFiniteSet(busy) /\ IsFiniteSet(accepted)
      /\ Cardinality(busy) \in Nat /\ Cardinality(accepted) \in Nat
  <2>1. busy \subseteq Requests /\ accepted \subseteq Requests
    BY DEF In, Due
  <2>2. QED BY <2>1, FS_Subset, FS_CardinalityType
<1>10. Lanes(req') = Lanes(table) + Cardinality(accepted)
  <2>1. Cardinality(busy \cap accepted) = 0
    BY <1>8, FS_EmptySet
  <2>2. Cardinality(busy \cup accepted)
          = Cardinality(busy) + Cardinality(accepted) - Cardinality(busy \cap accepted)
    BY <1>9, FS_Union
  <2>3. Lanes(req') = Cardinality(busy \cup accepted) /\ Lanes(table) = Cardinality(busy)
    BY <1>8 DEF Lanes
  <2> HIDE DEF busy
  <2>4. QED BY <1>9, <2>1, <2>2, <2>3
<1>11. Lanes(table) \in Nat /\ MaxInFlight \in Nat
  BY <1>9 DEF Lanes
<1>12. /\ Cardinality(accepted) <= MaxInFlight - Lanes(table)
       /\ \A r \in accepted \cup refused, s \in Due(table) \ (accepted \cup refused) :
              Before(table, r, s)
       /\ Cardinality(accepted) < MaxInFlight - Lanes(table)
              => accepted \cup refused = Due(table)
  BY <1>2 DEF DispatchLoop, Lanes
<1>13. ASSUME NEW s \in Requests, req'[s].place = "pending", ~(req'[s].wait > 0)
       PROVE  /\ s \in Due(table) \ (accepted \cup refused)
              /\ req'[s].priority = table[s].priority
  <2>1. s \notin accepted
    BY <1>4, <1>13
  <2>2. s \notin refused
    BY <1>5, <1>13
  <2>3. req'[s] = table[s] /\ table[s].wait \in Nat
    BY <1>3, <2>1, <2>2 DEF Entry
  <2>4. QED BY <1>3, <1>13, <2>1, <2>2, <2>3
<1>14. Lanes(req') <= MaxInFlight
  BY <1>9, <1>10, <1>11, <1>12
<1>15. ASSUME Lanes(req') # MaxInFlight, NEW s \in Requests, req'[s].place = "pending"
       PROVE  req'[s].wait > 0
  <2>1. accepted \cup refused = Due(table)
    BY <1>9, <1>10, <1>11, <1>12, <1>15
  <2>2. QED BY <1>13, <1>15, <2>1
<1>16. ASSUME NEW r \in Requests, NEW s \in Requests,
              table[r].place # "active", req'[r].place = "active",
              req'[s].place = "pending", req'[s].wait = 0
       PROVE  req'[s].priority <= req'[r].priority
  <2>1. r \in accepted
    BY <1>6, <1>16 DEF In
  <2>2. /\ s \in Due(table) \ (accepted \cup refused)
        /\ req'[s].priority = table[s].priority
    BY <1>13, <1>16
  <2>3. Before(table, r, s)
    BY <1>12, <2>1, <2>2
  <2>4. table[r].priority \in Nat /\ table[s].priority \in Nat
    <3>1. table[r] \in Entry /\ table[s] \in Entry
      OBVIOUS
    <3>2. table[r].priority \in Priorities \cup {0} /\ table[s].priority \in Priorities \cup {0}
      BY <3>1 DEF Entry
    <3>3. Priorities \cup {0} \subseteq Nat
      BY ExecutionAssumption
    <3>4. QED BY <3>2, <3>3
  <2>5. QED BY <1>4, <2>1, <2>2, <2>3, <2>4 DEF Before
<1>17. QED BY <1>14, <1>15, <1>16

(* What an operation makes of the table before it dispatches.              *)
Rewritten(table) ==
    /\ table \in [Requests -> Entry]
    /\ Dispatch(table)
    /\ QueueKept(req) => QueueKept(table)
    /\ \A r \in Requests :
          /\ table[r].place = "active" => req[r].place = "active"
          /\ req[r].place = "terminal" => table[r].place = "terminal"
          /\ \/ readiness'[r] = readiness[r]
             \/ req[r].place # "terminal" /\ table[r].place = "terminal"

(* A table with no more work than the one before keeps the queue.          *)
LEMMA QueueShrinks ==
    ASSUME NEW q, NEW p, Outstanding(q) \subseteq Outstanding(p), QueueKept(p)
    PROVE  QueueKept(q)
<1>1. Outstanding(p) \subseteq Requests
  BY DEF Outstanding, In
<1>2. IsFiniteSet(Outstanding(p))
  BY <1>1, FS_Subset, ExecutionAssumption
<1>3. Cardinality(Outstanding(q)) <= Cardinality(Outstanding(p))
  BY <1>2, FS_Subset
<1>4. /\ Cardinality(Outstanding(p)) \in Nat
      /\ Cardinality(Outstanding(q)) \in Nat
  BY <1>2, FS_Subset, FS_CardinalityType
<1>5. QED BY <1>3, <1>4, ExecutionAssumption DEF QueueKept

LEMMA EnqueueRewrites ==
    ASSUME IInv, NEW r \in Requests, NEW deps \in SUBSET Dependencies,
           NEW priority \in Priorities, Enqueue(r, deps, priority)
    PROVE  \E table : Rewritten(table)
<1>1. req \in [Requests -> Entry] /\ readiness' = readiness
  BY DEF IInv, Consistent, Enqueue
<1>2. CASE /\ r \in Outstanding(req)
           /\ Dispatch([req EXCEPT ![r] = Merged(@, deps, priority)])
  <2> DEFINE table == [req EXCEPT ![r] = Merged(req[r], deps, priority)]
  <2>1. Merged(req[r], deps, priority) \in Entry
    BY <1>1, EntryTypes
  <2>2. Merged(req[r], deps, priority).place = req[r].place
    BY <1>1 DEF Merged, Entry
  <2>3. table \in [Requests -> Entry] /\ \A s \in Requests : table[s].place = req[s].place
    BY <1>1, <2>1, <2>2
  <2>4. Outstanding(table) \subseteq Outstanding(req)
    BY <2>3 DEF Outstanding, In
  <2>5. QueueKept(req) => QueueKept(table)
    BY <2>4, QueueShrinks
  <2>6. Dispatch(table)
    BY <1>2
  <2> HIDE DEF table
  <2>7. QED BY <1>1, <2>3, <2>5, <2>6 DEF Rewritten
<1>3. CASE /\ req[r].place = "absent"
           /\ Cardinality(Outstanding(req)) < MaxQueued
           /\ Dispatch([req EXCEPT ![r] = Fresh(deps, priority)])
  <2> DEFINE table == [req EXCEPT ![r] = Fresh(deps, priority)]
  <2>1. Fresh(deps, priority) \in Entry /\ Fresh(deps, priority).place = "pending"
    BY EntryTypes DEF Fresh
  <2>2. /\ table \in [Requests -> Entry] /\ table[r].place = "pending"
        /\ \A s \in Requests : s # r => table[s] = req[s]
    BY <1>1, <2>1
  <2>3. Outstanding(table) = Outstanding(req) \cup {r}
    BY <2>2 DEF Outstanding, In
  <2>4. IsFiniteSet(Outstanding(req)) /\ Cardinality(Outstanding(req)) \in Nat
    <3>1. Outstanding(req) \subseteq Requests
      BY DEF Outstanding, In
    <3>2. QED BY <3>1, FS_Subset, FS_CardinalityType, ExecutionAssumption
  <2>5. Cardinality(Outstanding(table)) <= Cardinality(Outstanding(req)) + 1
    <3> DEFINE before == Outstanding(req)
    <3> HIDE DEF before
    <3>1. Cardinality(before \cup {r})
            = IF r \in before THEN Cardinality(before) ELSE Cardinality(before) + 1
      BY <2>4, FS_AddElement DEF before
    <3>2. Outstanding(table) = before \cup {r} /\ Cardinality(before) \in Nat
      BY <2>3, <2>4 DEF before
    <3> HIDE DEF table
    <3>3. Cardinality(Outstanding(table)) <= Cardinality(before) + 1
      BY <3>1, <3>2
    <3>4. QED BY <3>3 DEF before
  <2>6. QueueKept(table)
    <3>1. Cardinality(Outstanding(table)) \in Nat
      BY <2>3, <2>4, FS_AddElement, FS_CardinalityType
    <3>2. QED BY <1>3, <2>4, <2>5, <3>1, ExecutionAssumption DEF QueueKept
  <2>7. Dispatch(table)
    BY <1>3
  <2> HIDE DEF table
  <2>8. QED BY <1>1, <1>3, <2>2, <2>6, <2>7 DEF Rewritten
<1>4. QED BY <1>2, <1>3 DEF Enqueue

(* An operation that puts one waiting request back in the queue or ends it,*)
(* and reports only what it ends.                                          *)
LEMMA EndingRewrites ==
    ASSUME IInv, NEW r \in Requests, r \in Outstanding(req),
           NEW e \in Entry, e.place \in {"pending", "terminal"},
           Dispatch([req EXCEPT ![r] = e]),
           \A s \in Requests : s # r => readiness'[s] = readiness[s],
           readiness'[r] = readiness[r] \/ e.place = "terminal"
    PROVE  \E table : Rewritten(table)
<1> DEFINE table == [req EXCEPT ![r] = e]
<1>1. req \in [Requests -> Entry]
  BY DEF IInv, Consistent
<1>2. /\ table \in [Requests -> Entry] /\ table[r] = e
      /\ \A s \in Requests : s # r => table[s] = req[s]
      /\ Dispatch(table)
  BY <1>1
<1>3. req[r].place \in {"pending", "active"}
  BY DEF Outstanding, In
<1>4. Outstanding(table) \subseteq Outstanding(req)
  BY <1>2 DEF Outstanding, In
<1>5. QueueKept(req) => QueueKept(table)
  BY <1>4, QueueShrinks
<1> HIDE DEF table
<1>6. ASSUME NEW s \in Requests
      PROVE  /\ table[s].place = "active" => req[s].place = "active"
             /\ req[s].place = "terminal" => table[s].place = "terminal"
             /\ \/ readiness'[s] = readiness[s]
                \/ req[s].place # "terminal" /\ table[s].place = "terminal"
  BY <1>2, <1>3
<1>7. QED BY <1>2, <1>5, <1>6 DEF Rewritten

(* Only the rows of what is closed change.                                 *)
LEMMA ReportedRows ==
    ASSUME IInv, NEW closing, NEW state, readiness' = Reported(closing, state)
    PROVE  \A s \in Requests : s \notin closing => readiness'[s] = readiness[s]
BY DEF IInv, Consistent, Reported, Readiness

LEMMA ClosingRewrites ==
    ASSUME IInv, NEW r \in Requests, r \in Outstanding(req), NEW ending \in Endings,
           NEW state, Dispatch([req EXCEPT ![r] = Finished(ending)]),
           readiness' = Reported({r}, state)
    PROVE  \E table : Rewritten(table)
<1>1. Finished(ending) \in Entry /\ Finished(ending).place = "terminal"
  BY EntryTypes DEF Finished
<1>2. \A s \in Requests : s # r => readiness'[s] = readiness[s]
  BY ReportedRows
<1>3. QED BY <1>1, <1>2, EndingRewrites

LEMMA FailRewrites ==
    ASSUME IInv, NEW r \in Requests, NEW retryable \in BOOLEAN, Fail(r, retryable)
    PROVE  \E table : Rewritten(table)
<1> DEFINE e == IF retryable THEN RetriedOrFinished(req[r], "FAILED") ELSE Finished("FAILED")
<1>1. req[r] \in Entry /\ "FAILED" \in Endings
  BY DEF IInv, Consistent, Endings
<1>2. e \in Entry
  BY <1>1, EntryTypes
<1>3. r \in Outstanding(req) /\ Dispatch([req EXCEPT ![r] = e])
  BY DEF Fail, Outstanding
<1>4. CASE retryable /\ req[r].attempt < MaxAttempts
  <2>1. readiness' = Reported({}, [d \in Dependencies |-> "FAILED"])
    BY <1>4 DEF Fail
  <2>2. \A s \in Requests : readiness'[s] = readiness[s]
    BY <2>1, ReportedRows
  <2>3. e.place = "pending"
    BY <1>1, <1>4, ExecutionAssumption DEF RetriedOrFinished, Entry
  <2> HIDE DEF e
  <2>4. QED BY <1>2, <1>3, <2>2, <2>3, EndingRewrites
<1>5. CASE ~(retryable /\ req[r].attempt < MaxAttempts)
  <2>1. readiness' = Reported({r}, [d \in Dependencies |-> "FAILED"])
    BY <1>5 DEF Fail
  <2>2. \A s \in Requests : s # r => readiness'[s] = readiness[s]
    BY <2>1, ReportedRows
  <2>3. e.place = "terminal"
    BY <1>1, <1>5, ExecutionAssumption DEF RetriedOrFinished, Finished, Entry
  <2> HIDE DEF e
  <2>4. QED BY <1>2, <1>3, <2>2, <2>3, EndingRewrites
<1>6. QED BY <1>4, <1>5

LEMMA AdvanceRewrites ==
    ASSUME IInv, Advance
    PROVE  \E table : Rewritten(table)
<1> DEFINE table == [r \in Requests |-> IF r \in Expired
                                        THEN RetriedOrFinished(req[r], "EXPIRED")
                                        ELSE req[r]]
<1> DEFINE spent == {r \in Expired : req[r].attempt >= MaxAttempts}
<1>1. /\ req \in [Requests -> Entry] /\ "EXPIRED" \in Endings
      /\ Dispatch(table)
      /\ readiness' = Reported(spent, [d \in Dependencies |-> "EXPIRED"])
  BY DEF IInv, Consistent, Endings, Advance
<1>2. table \in [Requests -> Entry]
  BY <1>1, EntryTypes
<1>3. ASSUME NEW r \in Requests
      PROVE  /\ r \in Expired => /\ req[r].place = "active"
                                 /\ table[r].place \in {"pending", "terminal"}
             /\ r \notin Expired => table[r] = req[r]
             /\ r \in spent => table[r].place = "terminal"
  <2>1. req[r] \in Entry
    BY <1>1
  <2>2. QED BY <2>1 DEF Expired, In, RetriedOrFinished, Finished, Entry
<1>4. Outstanding(table) \subseteq Outstanding(req)
  BY <1>3 DEF Outstanding, In, Expired
<1>5. QueueKept(req) => QueueKept(table)
  BY <1>4, QueueShrinks
<1>6. \A r \in Requests : r \notin spent => readiness'[r] = readiness[r]
  BY <1>1, ReportedRows
<1>7. ASSUME NEW r \in Requests
      PROVE  /\ table[r].place = "active" => req[r].place = "active"
             /\ req[r].place = "terminal" => table[r].place = "terminal"
             /\ \/ readiness'[r] = readiness[r]
                \/ req[r].place # "terminal" /\ table[r].place = "terminal"
  BY <1>3, <1>6
<1> HIDE DEF table
<1>8. QED BY <1>1, <1>2, <1>5, <1>7 DEF Rewritten

(* Every step is a tick, or rewrites the table and dispatches.             *)
LEMMA StepRewrites ==
    ASSUME IInv, Next
    PROVE  Tick \/ \E table : Rewritten(table)
<1>1. CASE \E r \in Requests, d \in Dependencies, priority \in Priorities :
             Enqueue(r, {d}, priority)
  BY <1>1, EnqueueRewrites
<1>2. CASE Advance
  BY <1>2, AdvanceRewrites
<1>3. CASE \E r \in Requests, count \in Counts : Complete(r, count)
  BY <1>3, ClosingRewrites DEF Complete, Outstanding, Endings
<1>4. CASE \E r \in Requests, retryable \in BOOLEAN : Fail(r, retryable)
  BY <1>4, FailRewrites
<1>5. CASE \E r \in Requests : Cancel(r)
  BY <1>5, ClosingRewrites DEF Cancel, Endings
<1>6. QED BY <1>1, <1>2, <1>3, <1>4, <1>5 DEF Next

-----------------------------------------------------------------------------
(* The dispatch loop reopens nothing and adds no work.                     *)
LEMMA DispatchPlaces ==
    ASSUME NEW table \in [Requests -> Entry], Dispatch(table)
    PROVE  /\ \A r \in Requests : table[r].place = "terminal" => req'[r].place = "terminal"
           /\ Outstanding(req') \subseteq Outstanding(table)
<1>1. ASSUME NEW r \in Requests
      PROVE  \/ req'[r] = table[r]
             \/ table[r].place = "pending"
  BY DispatchEffect
<1>2. ASSUME NEW r \in Requests, req'[r].place \in {"pending", "active"}
      PROVE  table[r].place \in {"pending", "active"}
  BY <1>1, <1>2
<1>3. QED BY <1>1, <1>2 DEF Outstanding, In

LaneInv ==
    /\ IInv
    /\ Lanes(req) <= MaxInFlight
    /\ QueueKept(req)

LEMMA InitLanes == Init => LaneInv
<1> SUFFICES ASSUME Init PROVE LaneInv
  OBVIOUS
<1>1. In(req, "active") = {} /\ Outstanding(req) = {}
  BY DEF Init, Absent, In, Outstanding
<1>2. Lanes(req) = 0 /\ Cardinality(Outstanding(req)) = 0
  BY <1>1, FS_EmptySet DEF Lanes
<1>3. QED BY <1>2, InitConsistent, ExecutionAssumption DEF LaneInv, QueueKept

(* The number of busy lanes does not exceed the number before rewriting.   *)
LEMMA RewrittenLanes ==
    ASSUME NEW table, Rewritten(table), Lanes(req) <= MaxInFlight
    PROVE  Lanes(table) <= MaxInFlight
<1>1. In(table, "active") \subseteq In(req, "active")
  BY DEF Rewritten, In
<1>2. IsFiniteSet(In(req, "active"))
  <2>1. In(req, "active") \subseteq Requests
    BY DEF In
  <2>2. QED BY <2>1, FS_Subset, ExecutionAssumption
<1>3. /\ Cardinality(In(table, "active")) <= Cardinality(In(req, "active"))
      /\ Cardinality(In(table, "active")) \in Nat
      /\ Cardinality(In(req, "active")) \in Nat
  BY <1>1, <1>2, FS_Subset, FS_CardinalityType
<1>4. QED BY <1>3, ExecutionAssumption DEF Lanes

(* The clock moves nothing.                                                *)
LEMMA TickPlaces ==
    ASSUME IInv, Tick
    PROVE  /\ \A r \in Requests : req'[r].place = req[r].place
           /\ In(req', "active") = In(req, "active")
           /\ In(req', "terminal") = In(req, "terminal")
           /\ Outstanding(req') = Outstanding(req)
<1>1. req \in [Requests -> Entry] /\ req' = [r \in Requests |-> Elapsed(req[r])]
  BY DEF IInv, Consistent, Tick
<1>2. ASSUME NEW r \in Requests PROVE req'[r].place = req[r].place
  BY <1>1 DEF Elapsed, Entry
<1>3. QED BY <1>2 DEF In, Outstanding

LEMMA LanesStep == LaneInv /\ [Next]_vars => LaneInv'
<1> SUFFICES ASSUME LaneInv, [Next]_vars PROVE LaneInv'
  OBVIOUS
<1>1. IInv /\ Lanes(req) <= MaxInFlight /\ QueueKept(req) /\ IInv'
  BY StepKeeps DEF LaneInv
<1>2. CASE Tick
  <2>1. In(req', "active") = In(req, "active") /\ Outstanding(req') = Outstanding(req)
    BY <1>1, <1>2, TickPlaces
  <2>2. Lanes(req') <= MaxInFlight /\ QueueKept(req')
    BY <1>1, <2>1 DEF Lanes, QueueKept
  <2>3. QED BY <1>1, <2>2 DEF LaneInv, Lanes, QueueKept, In, Outstanding
<1>3. CASE \E table : Rewritten(table)
  <2>1. PICK table : Rewritten(table)
    BY <1>3
  <2>2. table \in [Requests -> Entry] /\ Dispatch(table) /\ QueueKept(table)
    BY <1>1, <2>1 DEF Rewritten
  <2>3. Lanes(req') <= MaxInFlight
    BY <1>1, <2>1, <2>2, RewrittenLanes, DispatchFills
  <2>4. QueueKept(req')
    BY <2>2, DispatchPlaces, QueueShrinks
  <2>5. QED BY <1>1, <2>3, <2>4 DEF LaneInv, Lanes, QueueKept, In, Outstanding
<1>4. CASE UNCHANGED vars
  BY <1>1, <1>4 DEF vars, LaneInv, Lanes, QueueKept, In, Outstanding
<1>5. QED BY <1>1, <1>2, <1>3, <1>4, StepRewrites

LEMMA LanesAlways == Spec => []LaneInv
<1>1. Init => LaneInv
  BY InitLanes
<1>2. LaneInv /\ [Next]_vars => LaneInv'
  BY LanesStep
<1>3. QED BY <1>1, <1>2, PTL DEF Spec

(* Through retries, refused submissions, merging and cancellation, the     *)
(* provider lanes and the queue are never overfilled.                      *)
THEOREM LanesCorrect == Spec => []LanesBounded
<1>1. LaneInv => LanesBounded
  BY DEF LaneInv, Lanes, QueueKept, LanesBounded, IInv, Consistent, Entry
<1>2. QED BY <1>1, LanesAlways, PTL

(* No step puts a request in flight past a due one of higher priority.     *)
THEOREM PriorityCorrect == Spec => ServedInPriorityOrder
<1> DEFINE InOrder == \A r, s \in Requests :
                          /\ PutInFlight(r)
                          /\ req'[s].place = "pending"
                          /\ req'[s].wait = 0
                          => req'[s].priority <= req'[r].priority
<1>1. LaneInv /\ [Next]_vars => [InOrder]_vars
  <2> SUFFICES ASSUME LaneInv, Next, NEW r \in Requests, NEW s \in Requests,
                      PutInFlight(r), req'[s].place = "pending", req'[s].wait = 0
               PROVE  req'[s].priority <= req'[r].priority
    OBVIOUS
  <2>1. ~Tick
    BY TickPlaces DEF LaneInv, PutInFlight
  <2>2. PICK table : Rewritten(table)
    BY <2>1, StepRewrites DEF LaneInv
  <2>3. /\ table \in [Requests -> Entry] /\ Dispatch(table)
        /\ table[r].place # "active"
    BY <2>2 DEF Rewritten, PutInFlight
  <2>4. Lanes(table) <= MaxInFlight
    BY <2>2, RewrittenLanes DEF LaneInv
  <2>5. QED BY <2>3, <2>4, DispatchFills DEF PutInFlight
<1> HIDE DEF InOrder
<1>2. Spec => [][InOrder]_vars
  BY <1>1, LanesAlways, PTL DEF Spec
<1>3. QED BY <1>2 DEF ServedInPriorityOrder, InOrder

(* Every step but the clock's leaves the lanes full or nothing due.        *)
THEOREM LanesUsed == Spec => NoIdleLane
<1> DEFINE Used == \/ Tick
                   \/ Cardinality({r \in Requests : req'[r].place = "active"}) = MaxInFlight
                   \/ \A s \in Requests : req'[s].place = "pending" => req'[s].wait > 0
<1>1. LaneInv /\ [Next]_vars => [Used]_vars
  <2> SUFFICES ASSUME LaneInv, Next, ~Tick PROVE Used
    OBVIOUS
  <2>1. PICK table : Rewritten(table)
    BY StepRewrites DEF LaneInv
  <2>2. table \in [Requests -> Entry] /\ Dispatch(table)
    BY <2>1 DEF Rewritten
  <2>3. Lanes(table) <= MaxInFlight
    BY <2>1, RewrittenLanes DEF LaneInv
  <2>4. \/ Lanes(req') = MaxInFlight
        \/ \A s \in Requests : req'[s].place = "pending" => req'[s].wait > 0
    BY <2>2, <2>3, DispatchFills
  <2>5. QED BY <2>4 DEF Lanes, In
<1> HIDE DEF Used
<1>2. Spec => [][Used]_vars
  BY <1>1, LanesAlways, PTL DEF Spec
<1>3. QED BY <1>2, PTL DEF NoIdleLane, Used

-----------------------------------------------------------------------------
(* The contract with the consumers.                                        *)

(* Dependencies are attached only to requests that are not closed.         *)
LEMMA Attaching ==
    ASSUME IInv, [Next]_vars
    PROVE  /\ attached \subseteq attached'
           /\ attached' \ attached
                  \subseteq (Requests \ In(req, "terminal")) \X Dependencies
<1>1. CASE \E r \in Requests, d \in Dependencies, priority \in Priorities :
             Enqueue(r, {d}, priority)
  <2>1. PICK r \in Requests, d \in Dependencies, priority \in Priorities :
             Enqueue(r, {d}, priority)
    BY <1>1
  <2>2. attached' = attached \cup ({r} \X {d}) /\ r \notin In(req, "terminal")
    BY <2>1 DEF Enqueue, In, Outstanding
  <2>3. QED BY <2>2
<1>2. CASE UNCHANGED attached
  BY <1>2
<1>3. QED BY <1>1, <1>2 DEF Next, vars, Advance, Complete, Fail, Cancel, Tick

(* What a closed request told its consumers is one of the verdicts.        *)
LEMMA ClosedVerdict ==
    ASSUME NEW table, NEW results, NEW joined, Consistent(table, results, joined),
           NEW r \in Requests, table[r].place = "terminal"
    PROVE  \E verdict \in Contract!Verdicts : \A d \in Dependencies :
               results[r][d] = IF <<r, d>> \in joined THEN verdict[d] ELSE "NONE"
<1>1. EntryConsistent(r, table[r], results, joined) /\ table[r] \in Entry
  BY DEF Consistent
<1>2. table[r].ending \in Endings
  BY <1>1 DEF EntryConsistent, Entry
<1>3. \A d \in Dependencies :
          IF <<r, d>> \in joined
          THEN results[r][d] \in OutcomesOf(table[r].ending)
          ELSE results[r][d] = "NONE"
  BY <1>1 DEF EntryConsistent
<1>4. CASE table[r].ending = "COMPLETED"
  <2> DEFINE verdict == [d \in Dependencies |->
                            IF <<r, d>> \in joined THEN results[r][d] ELSE "READY"]
  <2>1. verdict \in [Dependencies -> {"READY", "DEGRADED"}]
    BY <1>3, <1>4 DEF OutcomesOf
  <2>2. verdict \in Contract!Verdicts
    BY <2>1 DEF Contract!Verdicts
  <2>3. QED BY <1>3, <2>2
<1>5. ASSUME NEW state \in {"FAILED", "CANCELED", "EXPIRED", "NONE"},
             OutcomesOf(table[r].ending) = {state}
      PROVE  \E verdict \in Contract!Verdicts : \A d \in Dependencies :
                 results[r][d] = IF <<r, d>> \in joined THEN verdict[d] ELSE "NONE"
  <2> DEFINE verdict == [d \in Dependencies |-> state]
  <2>1. verdict \in Contract!Verdicts
    BY DEF Contract!Verdicts
  <2>2. QED BY <1>3, <1>5, <2>1
<1>6. CASE table[r].ending # "COMPLETED"
  <2>1. \E state \in {"FAILED", "CANCELED", "EXPIRED", "NONE"} :
            OutcomesOf(table[r].ending) = {state}
    BY <1>2, <1>6 DEF OutcomesOf, Endings
  <2>2. QED BY <1>5, <2>1
<1>7. QED BY <1>4, <1>6

(* Only the rows of the requests that close in a step change, and what is  *)
(* closed stays closed.                                                    *)
LEMMA Closing ==
    ASSUME IInv, [Next]_vars
    PROVE  /\ In(req, "terminal") \subseteq In(req', "terminal")
           /\ \A r \in Requests \ (In(req', "terminal") \ In(req, "terminal")) :
                  readiness'[r] = readiness[r]
<1>1. CASE Tick
  <2>1. In(req', "terminal") = In(req, "terminal")
    BY <1>1, TickPlaces
  <2>2. QED BY <1>1, <2>1 DEF Tick
<1>2. CASE \E table : Rewritten(table)
  <2>1. PICK table : Rewritten(table)
    BY <1>2
  <2>2. \A r \in Requests : table[r].place = "terminal" => req'[r].place = "terminal"
    BY <2>1, DispatchPlaces DEF Rewritten
  <2>3. QED BY <2>1, <2>2 DEF Rewritten, In
<1>3. CASE UNCHANGED vars
  BY <1>3 DEF vars, In
<1>4. QED BY <1>1, <1>2, <1>3, StepRewrites

(* The coordinator implements its contract: every run is one in which      *)
(* requests close once and answer all they owe in that step, in one kind,  *)
(* or nobody.                                                              *)
THEOREM ContractImplemented == Spec => ImplementsContract
<1>1. Init => Contract!Init
  BY DEF Init, Contract!Init, In, Absent
<1>2. IInv /\ IInv' /\ [Next]_vars => [Contract!Next]_(Contract!vars)
  <2> SUFFICES ASSUME IInv, IInv', [Next]_vars PROVE Contract!Next
    BY DEF Contract!vars
  <2>1. In(req, "terminal") \subseteq Requests /\ In(req', "terminal") \subseteq Requests
    BY DEF In
  <2>2. ASSUME NEW r \in In(req', "terminal") \ In(req, "terminal")
        PROVE  \E verdict \in Contract!Verdicts : \A d \in Dependencies :
                   readiness'[r][d] =
                       IF <<r, d>> \in attached' THEN verdict[d] ELSE "NONE"
    <3>1. r \in Requests /\ req'[r].place = "terminal"
      BY DEF In
    <3>2. Consistent(req', readiness', attached')
      BY DEF IInv, Consistent
    <3>3. QED BY <3>1, <3>2, ClosedVerdict
  <2>3. QED BY <2>1, <2>2, Attaching, Closing DEF Contract!Next, In
<1>3. QED BY <1>1, <1>2, Invariance, PTL DEF Spec, ImplementsContract, Contract!Spec
=============================================================================
