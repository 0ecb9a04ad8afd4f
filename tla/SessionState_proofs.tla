--------------------------- MODULE SessionState_proofs ---------------------------
(***************************************************************************)
(* Proofs about SessionState, for any calendars, consumers and policy.     *)
(***************************************************************************)
EXTENDS SessionState, FiniteSetTheorems, TLAPS

-----------------------------------------------------------------------------
(* The reducer.                                                            *)

(* The policy, constant by constant.                                       *)
LEMMA Policy ==
    /\ ResponseTimeout \in Nat /\ ResponseTimeout >= 1
    /\ RetryBackoff \in Nat /\ RetryBackoff >= 1
    /\ MaximumElapsed \in Nat /\ MaximumElapsed >= ResponseTimeout
    /\ MaximumAttempts \in Nat /\ MaximumAttempts >= 1
BY DeliveryAssumption

(* Starting a cycle keeps the watermarks and begins a new generation.      *)
LEMMA StartCycleSound ==
    ASSUME NEW limit \in [Calendars -> Nat], NEW s, Sound(s, limit)
    PROVE  /\ Sound(StartCycle(s), limit)
           /\ Advances(s, StartCycle(s))
           /\ StartCycle(s).mark = s.mark
<1> USE Policy DEF Sound, Delivery, Past, NoAlert
<1>1. CASE s.phase \notin {"IDLE", "LIVE"}
  BY <1>1 DEF StartCycle, Advances
<1>2. CASE s.phase \in {"IDLE", "LIVE"}
  <2> DEFINE t == StartCycle(s)
  <2>1. t = [s EXCEPT !.phase = "WAITING", !.generation = s.generation + 1, !.attempt = 1,
                   !.budget = MaximumElapsed, !.alert = ResponseTimeout,
                   !.answered = -1, !.buffer = {}, !.affected = {}, !.code = "none"]
    BY <1>2 DEF StartCycle
  <2> HIDE DEF t
  <2>2. t = [phase |-> "WAITING", generation |-> s.generation + 1, attempt |-> 1,
             budget |-> MaximumElapsed, alert |-> ResponseTimeout, answered |-> -1,
             mark |-> s.mark, buffer |-> {}, affected |-> {}, code |-> "none"]
    BY <2>1
  <2>3. "WAITING" \in Phases /\ "none" \in Codes
    BY DEF Phases, Codes
  <2>4. t \in Delivery
    BY <2>2, <2>3
  <2>5. IsFiniteSet({})
    BY FS_EmptySet
  <2>6. Sound(t, limit)
    BY <2>2, <2>4, <2>5
  <2>7. Advances(s, t) /\ t.mark = s.mark
    BY <2>2 DEF Advances
  <2> QED
    BY <2>6, <2>7 DEF t
<1> QED
  BY <1>1, <1>2

(* A restart after a gap or an overflow is a new cycle.                    *)
LEMMA ResynchronizeSound ==
    ASSUME NEW limit \in [Calendars -> Nat], NEW s, Sound(s, limit)
    PROVE  /\ Sound(Resynchronize(s), limit)
           /\ Advances(s, Resynchronize(s))
           /\ Resynchronize(s).mark = s.mark
<1>1. CASE ~(s.phase = "DEGRADED" /\ s.code \in {"revision_gap", "buffer_overflow"})
  BY <1>1 DEF Resynchronize, Advances, Sound, Delivery
<1>2. CASE s.phase = "DEGRADED" /\ s.code \in {"revision_gap", "buffer_overflow"}
  <2> DEFINE u == [s EXCEPT !.phase = "LIVE"]
  <2>1. Resynchronize(s) = StartCycle(u)
    BY <1>2 DEF Resynchronize
  <2>2. u = [phase |-> "LIVE", generation |-> s.generation, attempt |-> s.attempt,
             budget |-> s.budget, alert |-> s.alert, answered |-> s.answered,
             mark |-> s.mark, buffer |-> s.buffer, affected |-> s.affected,
             code |-> s.code]
    BY DEF Sound, Delivery
  <2> HIDE DEF u
  <2>3. u \in Delivery
    BY <2>2 DEF Sound, Delivery, Phases
  <2>4. Sound(u, limit)
    BY <2>2, <2>3 DEF Sound
  <2>5. /\ Sound(StartCycle(u), limit)
        /\ Advances(u, StartCycle(u))
        /\ StartCycle(u).mark = u.mark
    BY <2>4, StartCycleSound
  <2>6. Advances(s, StartCycle(u))
    BY <2>2, <2>5 DEF Advances
  <2> QED
    BY <2>1, <2>2, <2>5, <2>6
<1> QED
  BY <1>1, <1>2

(* Giving up an attempt leads out of waiting and keeps the watermarks.     *)
LEMMA ScheduleRetrySound ==
    ASSUME NEW limit \in [Calendars -> Nat], NEW s, Sound(s, limit),
           NEW code \in Codes, NEW retryable \in BOOLEAN
    PROVE  /\ Sound(ScheduleRetry(s, code, retryable), limit)
           /\ Advances(s, ScheduleRetry(s, code, retryable))
           /\ ScheduleRetry(s, code, retryable).mark = s.mark
<1> DEFINE t == ScheduleRetry(s, code, retryable)
<1>1. /\ s \in Delivery /\ IsFiniteSet(s.buffer)
      /\ \A c \in Calendars : s.mark[c] <= limit[c]
      /\ \A e \in s.buffer : e[2] <= limit[e[1]]
      /\ s.phase = "WAITING" => s.alert \in Past..ResponseTimeout /\ s.attempt # 0
      /\ s.phase = "BACKOFF" => s.attempt < MaximumAttempts
  BY DEF Sound
<1>2. s.attempt \in 0..MaximumAttempts /\ s.generation \in Nat
  BY <1>1 DEF Delivery
<1>3. /\ s = [phase |-> s.phase, generation |-> s.generation, attempt |-> s.attempt,
              budget |-> s.budget, alert |-> s.alert, answered |-> s.answered,
              mark |-> s.mark, buffer |-> s.buffer, affected |-> s.affected,
              code |-> s.code]
  BY <1>1 DEF Delivery
<1>4. CASE t = s
  BY <1>1, <1>2, <1>4 DEF Advances, Sound
<1>5. ASSUME NEW why \in Codes,
             t = [s EXCEPT !.phase = "DEGRADED", !.alert = NoAlert, !.code = why]
      PROVE  Sound(t, limit) /\ Advances(s, t) /\ t.mark = s.mark
  <2> HIDE DEF t
  <2>1. t = [phase |-> "DEGRADED", generation |-> s.generation, attempt |-> s.attempt,
             budget |-> s.budget, alert |-> NoAlert, answered |-> s.answered,
             mark |-> s.mark, buffer |-> s.buffer, affected |-> s.affected,
             code |-> why]
    BY <1>3, <1>5
  <2>2. t \in Delivery
    BY <1>1, <2>1, Policy DEF Delivery, Phases, Past, NoAlert
  <2>3. Sound(t, limit)
    BY <1>1, <2>1, <2>2 DEF Sound
  <2> QED
    BY <1>2, <2>1, <2>3 DEF Advances
<1>6. CASE /\ t = [s EXCEPT !.phase = "BACKOFF", !.alert = RetryBackoff, !.code = code]
           /\ s.attempt < MaximumAttempts
  <2> HIDE DEF t
  <2>1. t = [phase |-> "BACKOFF", generation |-> s.generation, attempt |-> s.attempt,
             budget |-> s.budget, alert |-> RetryBackoff, answered |-> s.answered,
             mark |-> s.mark, buffer |-> s.buffer, affected |-> s.affected,
             code |-> code]
    BY <1>3, <1>6
  <2>2. t \in Delivery
    BY <1>1, <2>1, Policy DEF Delivery, Phases, Past, NoAlert
  <2>3. Sound(t, limit)
    BY <1>1, <1>6, <2>1, <2>2 DEF Sound
  <2>4. Advances(s, t) /\ t.mark = s.mark
    BY <1>2, <2>1 DEF Advances
  <2> QED
    BY <2>3, <2>4 DEF t
<1>7. "attempts_exhausted" \in Codes /\ "elapsed_budget_exhausted" \in Codes
  BY DEF Codes
<1>8. ~Exhausted(s) => s.attempt < MaximumAttempts
  BY <1>2, Policy DEF Exhausted
<1> QED
  BY <1>4, <1>5, <1>6, <1>7, <1>8 DEF ScheduleRetry

(* A retry is a new attempt of the same cycle.                             *)
LEMMA BeginRetrySound ==
    ASSUME NEW limit \in [Calendars -> Nat], NEW s, Sound(s, limit)
    PROVE  /\ Sound(BeginRetry(s), limit)
           /\ Advances(s, BeginRetry(s))
           /\ BeginRetry(s).mark = s.mark
<1>1. CASE BeginRetry(s) = s
  BY <1>1 DEF Advances, Sound, Delivery
<1>2. CASE s.phase = "BACKOFF" /\ s.alert \in {Past, 0}
  <2> DEFINE t == BeginRetry(s)
  <2>1. t = [phase |-> "WAITING", generation |-> s.generation, attempt |-> s.attempt + 1,
             budget |-> s.budget, alert |-> ResponseTimeout, answered |-> Past,
             mark |-> s.mark, buffer |-> s.buffer, affected |-> s.affected,
             code |-> "none"]
    BY <1>2 DEF BeginRetry, Sound, Delivery
  <2> HIDE DEF t
  <2>2. t \in Delivery
    BY <1>2, <2>1, Policy DEF Sound, Delivery, Phases, Codes, Past, NoAlert
  <2>3. s.attempt + 1 # 0
    BY DEF Sound, Delivery
  <2>4. Sound(t, limit)
    BY <2>1, <2>2, <2>3, Policy DEF Sound, Past
  <2>5. Advances(s, t) /\ t.mark = s.mark
    BY <2>1 DEF Advances, Sound, Delivery
  <2> QED
    BY <2>4, <2>5 DEF t
<1> QED
  BY <1>1, <1>2 DEF BeginRetry

(* A delivery state, field by field.                                       *)
LEMMA Fields ==
    ASSUME NEW s \in Delivery
    PROVE  /\ s = [phase |-> s.phase, generation |-> s.generation, attempt |-> s.attempt,
                   budget |-> s.budget, alert |-> s.alert, answered |-> s.answered,
                   mark |-> s.mark, buffer |-> s.buffer, affected |-> s.affected,
                   code |-> s.code]
           /\ s.phase \in Phases /\ s.generation \in Nat
           /\ s.attempt \in 0..MaximumAttempts /\ s.budget \in Past..MaximumElapsed
           /\ s.alert \in NoAlert..(ResponseTimeout + RetryBackoff)
           /\ s.answered \in Past..ResponseTimeout
           /\ s.mark \in [Calendars -> Nat]
           /\ s.buffer \in SUBSET (Calendars \X (Nat \ {0}))
           /\ s.affected \in SUBSET Calendars /\ s.code \in Codes
BY DEF Delivery

(* Time shortens what is left and changes nothing else.                    *)
LEMMA LaterSound ==
    ASSUME NEW low \in Int, NEW high \in Nat, low <= Past, NEW left \in low..high
    PROVE  Later(left) \in low..high
BY DEF Later, Past

LEMMA AgedSound ==
    ASSUME NEW limit \in [Calendars -> Nat], NEW s, Sound(s, limit)
    PROVE  /\ Sound(Aged(s), limit)
           /\ Advances(s, Aged(s))
           /\ Aged(s).mark = s.mark
<1> DEFINE t == Aged(s)
<1>0. t = Aged(s)
  OBVIOUS
<1> HIDE DEF t
<1>1. /\ s \in Delivery /\ IsFiniteSet(s.buffer)
      /\ \A c \in Calendars : s.mark[c] <= limit[c]
      /\ \A e \in s.buffer : e[2] <= limit[e[1]]
      /\ s.phase = "WAITING" => s.alert \in Past..ResponseTimeout /\ s.attempt # 0
      /\ s.phase = "BACKOFF" => s.attempt < MaximumAttempts
  BY DEF Sound
<1>2. t = [phase |-> s.phase, generation |-> s.generation, attempt |-> s.attempt,
           budget |-> Later(s.budget), alert |-> Later(s.alert),
           answered |-> Later(s.answered),
           mark |-> s.mark, buffer |-> s.buffer, affected |-> s.affected,
           code |-> s.code]
  BY <1>0, <1>1 DEF Aged, Delivery
<1>3. /\ Later(s.budget) \in Past..MaximumElapsed
      /\ Later(s.alert) \in NoAlert..(ResponseTimeout + RetryBackoff)
      /\ Later(s.answered) \in Past..ResponseTimeout
      /\ s.phase = "WAITING" => Later(s.alert) \in Past..ResponseTimeout
  <2>1. /\ s.budget \in Past..MaximumElapsed /\ s.answered \in Past..ResponseTimeout
        /\ s.alert \in NoAlert..(ResponseTimeout + RetryBackoff)
    BY <1>1, Fields
  <2> QED
    BY <1>1, <2>1, Policy DEF Later, Past, NoAlert
<1>4. t \in Delivery
  BY <1>1, <1>2, <1>3, Fields DEF Delivery
<1>5. Sound(t, limit)
  BY <1>1, <1>2, <1>3, <1>4 DEF Sound
<1>6. Advances(s, t) /\ t.mark = s.mark
  BY <1>1, <1>2, Fields DEF Advances
<1> QED
  BY <1>5, <1>6 DEF t

(* A stopped consumer has no watermarks left.                              *)
LEMMA StopSound ==
    ASSUME NEW limit \in [Calendars -> Nat], NEW s, Sound(s, limit)
    PROVE  /\ Sound(StopDelivery(s), limit)
           /\ Advances(s, StopDelivery(s))
           /\ StopDelivery(s).phase = "STOPPED"
<1> DEFINE t == StopDelivery(s)
<1>0. t = StopDelivery(s)
  OBVIOUS
<1> HIDE DEF t
<1>1. s \in Delivery
  BY DEF Sound
<1>2. t = [phase |-> "STOPPED", generation |-> s.generation, attempt |-> s.attempt,
           budget |-> s.budget, alert |-> NoAlert, answered |-> Past,
           mark |-> NoRevision, buffer |-> {}, affected |-> {}, code |-> s.code]
  BY <1>0, <1>1 DEF StopDelivery, Delivery
<1>3. NoRevision \in [Calendars -> Nat] /\ \A c \in Calendars : NoRevision[c] = 0
  BY DEF NoRevision
<1>4. t \in Delivery
  BY <1>1, <1>2, <1>3, Fields, Policy DEF Delivery, Phases, Past, NoAlert
<1>5. IsFiniteSet({})
  BY FS_EmptySet
<1>6. Sound(t, limit)
  BY <1>2, <1>3, <1>4, <1>5 DEF Sound
<1>7. Advances(s, t) /\ t.phase = "STOPPED"
  BY <1>1, <1>2, Fields DEF Advances
<1> QED
  BY <1>6, <1>7 DEF t

(* A boundary alert is never that of a waiting consumer.                   *)
LEMMA BoundaryAlertSound ==
    ASSUME NEW limit \in [Calendars -> Nat], NEW s, Sound(s, limit), s.phase = "LIVE"
    PROVE  /\ Sound(WithBoundaryAlert(s), limit)
           /\ Advances(s, WithBoundaryAlert(s))
           /\ WithBoundaryAlert(s).mark = s.mark
           /\ WithBoundaryAlert(s).phase = "LIVE"
<1> DEFINE t == WithBoundaryAlert(s)
<1>1. /\ s \in Delivery /\ IsFiniteSet(s.buffer)
      /\ \A c \in Calendars : s.mark[c] <= limit[c]
      /\ \A e \in s.buffer : e[2] <= limit[e[1]]
  BY DEF Sound
<1>2. t = [phase |-> "LIVE", generation |-> s.generation, attempt |-> s.attempt,
           budget |-> s.budget, alert |-> s.answered + 1, answered |-> s.answered,
           mark |-> s.mark, buffer |-> s.buffer, affected |-> s.affected,
           code |-> s.code]
  BY <1>1, Fields DEF WithBoundaryAlert
<1> HIDE DEF t
<1>3. s.answered + 1 \in NoAlert..(ResponseTimeout + RetryBackoff)
  <2>1. s.answered \in Past..ResponseTimeout
    BY <1>1, Fields
  <2> QED
    BY <2>1, Policy DEF Past, NoAlert
<1>4. t \in Delivery
  BY <1>1, <1>2, <1>3, Fields DEF Delivery
<1>5. Sound(t, limit)
  BY <1>1, <1>2, <1>4 DEF Sound
<1>6. Advances(s, t) /\ t.mark = s.mark /\ t.phase = "LIVE"
  BY <1>1, <1>2, Fields DEF Advances
<1> QED
  BY <1>5, <1>6 DEF t

(* What is contiguous above a watermark stays below the limit.             *)
LEMMA ReachedBounds ==
    ASSUME NEW limit \in [Calendars -> Nat], NEW s \in Delivery, IsFiniteSet(s.buffer),
           NEW c \in Calendars, s.mark[c] <= limit[c],
           \A e \in s.buffer : e[2] <= limit[e[1]]
    PROVE  /\ Reached(s, c) \in Nat
           /\ Reached(s, c) >= s.mark[c] /\ Reached(s, c) <= limit[c]
<1> DEFINE low == s.mark[c]
           high == limit[c]
           found == Contiguous(s, c)
<1>1. low \in Nat /\ high \in Nat /\ low <= high
  BY Fields
<1>2. found \subseteq {c} \X (low + 1 .. high)
  <2>1. s.buffer \subseteq Calendars \X (Nat \ {0})
    BY Fields
  <2>2. found \subseteq s.buffer /\ \A e \in found : e[1] = c /\ e[2] > low
    BY DEF Contiguous
  <2> HIDE DEF found
  <2>3. ASSUME NEW e \in found
        PROVE  e \in {c} \X (low + 1 .. high)
    <3>1. /\ e = <<e[1], e[2]>> /\ e[1] = c
          /\ e[2] \in Nat /\ e[2] > low /\ e[2] <= high
      BY <2>1, <2>2
    <3>2. e[2] \in low + 1 .. high
      BY <1>1, <3>1
    <3> QED
      BY <3>1, <3>2
  <2> QED
    BY <2>3
<1>3. /\ IsFiniteSet({c} \X (low + 1 .. high))
      /\ Cardinality({c} \X (low + 1 .. high)) = high - low
  <2>1. IsFiniteSet({c}) /\ Cardinality({c}) = 1
    BY FS_Singleton
  <2>2. /\ IsFiniteSet(low + 1 .. high)
        /\ Cardinality(low + 1 .. high) = high - low
    <3>1. low + 1 \in Int /\ high \in Int
      BY <1>1
    <3>2. /\ IsFiniteSet(low + 1 .. high)
          /\ Cardinality(low + 1 .. high) =
                IF low + 1 > high THEN 0 ELSE high - (low + 1) + 1
      BY <3>1, FS_Interval
    <3> QED
      BY <1>1, <3>2
  <2> DEFINE one == {c}
             span == low + 1 .. high
  <2>3. IsFiniteSet(one) /\ IsFiniteSet(span)
    BY <2>1, <2>2
  <2> HIDE DEF one, span
  <2>4. /\ IsFiniteSet(one \X span)
        /\ Cardinality(one \X span) = Cardinality(one) * Cardinality(span)
    BY <2>3, FS_Product, Zenon
  <2>5. Cardinality(one) = 1 /\ Cardinality(span) = high - low
    BY <2>1, <2>2 DEF one, span
  <2>6. Cardinality(one \X span) = 1 * (high - low)
    BY <2>4, <2>5
  <2> QED
    BY <1>1, <2>4, <2>6 DEF one, span
<1>4. Cardinality(found) \in Nat /\ Cardinality(found) <= high - low
  <2> HIDE DEF found
  <2>1. IsFiniteSet(found) /\ Cardinality(found) <= high - low
    BY <1>2, <1>3, FS_Subset
  <2> QED
    BY <2>1, FS_CardinalityType
<1> QED
  BY <1>1, <1>4 DEF Reached

(* Reconciling a buffer ends in LIVE or DEGRADED and moves no watermark    *)
(* back.                                                                   *)
LEMMA ReconciledSound ==
    ASSUME NEW limit \in [Calendars -> Nat], NEW s \in Delivery, IsFiniteSet(s.buffer),
           \A c \in Calendars : s.mark[c] <= limit[c],
           \A e \in s.buffer : e[2] <= limit[e[1]]
    PROVE  LET t == Reconciled(s)
           IN  /\ Sound(t, limit)
               /\ t.generation = s.generation /\ t.attempt = s.attempt
               /\ t.phase \in {"LIVE", "DEGRADED"}
               /\ \A c \in Calendars : t.mark[c] >= s.mark[c]
<1> DEFINE mark == [c \in Calendars |-> Reached(s, c)]
           retained == {e \in s.buffer : e[2] > mark[e[1]]}
           affected == {c \in Calendars : mark[c] # 0 /\ \E e \in retained : e[1] = c}
           phase == IF affected = {} THEN "LIVE" ELSE "DEGRADED"
           code == IF affected = {} THEN "none" ELSE "revision_gap"
           t == Reconciled(s)
<1>1. t = [s EXCEPT !.phase = phase, !.mark = mark, !.buffer = retained,
                    !.affected = affected, !.code = code]
  BY DEF Reconciled
<1>2. /\ phase \in {"LIVE", "DEGRADED"} /\ phase \in Phases /\ code \in Codes
      /\ affected \in SUBSET Calendars
      /\ retained \subseteq s.buffer
  BY DEF Phases, Codes
<1>3. mark \in [Calendars -> Nat]
      /\ \A c \in Calendars : mark[c] >= s.mark[c] /\ mark[c] <= limit[c]
  BY ReachedBounds
<1>4. IsFiniteSet(retained) /\ retained \in SUBSET (Calendars \X (Nat \ {0}))
      /\ \A e \in retained : e[2] <= limit[e[1]]
  BY <1>2, FS_Subset, Fields
<1> HIDE DEF t, mark, retained, affected, phase, code
<1>5. t = [phase |-> phase, generation |-> s.generation, attempt |-> s.attempt,
           budget |-> s.budget, alert |-> s.alert, answered |-> s.answered,
           mark |-> mark, buffer |-> retained, affected |-> affected, code |-> code]
  BY <1>1 DEF Delivery
<1>6. t \in Delivery
  BY <1>2, <1>3, <1>4, <1>5, Fields DEF Delivery
<1>7. Sound(t, limit)
  BY <1>2, <1>3, <1>4, <1>5, <1>6 DEF Sound
<1> QED
  BY <1>2, <1>3, <1>5, <1>7 DEF t

(* A transition that was published moves no watermark back, and none at    *)
(* all while a snapshot is awaited.                                        *)
LEMMA ObserveTransitionSound ==
    ASSUME NEW limit \in [Calendars -> Nat], NEW s, Sound(s, limit),
           NEW c \in Calendars, NEW r \in Nat \ {0}, r <= limit[c]
    PROVE  LET t == ObserveTransition(s, c, r)
           IN  /\ Sound(t, limit)
               /\ Advances(s, t)
               /\ \A d \in Calendars : t.mark[d] >= s.mark[d]
<1> DEFINE t == ObserveTransition(s, c, r)
<1>1. /\ s \in Delivery /\ IsFiniteSet(s.buffer)
      /\ \A d \in Calendars : s.mark[d] <= limit[d]
      /\ \A e \in s.buffer : e[2] <= limit[e[1]]
      /\ s.phase = "WAITING" => s.alert \in Past..ResponseTimeout /\ s.attempt # 0
      /\ s.phase = "BACKOFF" => s.attempt < MaximumAttempts
  BY DEF Sound
<1>2. /\ s.mark \in [Calendars -> Nat] /\ s.generation \in Nat
      /\ s.attempt \in 0..MaximumAttempts
  BY <1>1, Fields
<1>3. CASE t = s
  BY <1>1, <1>2, <1>3 DEF Advances, Sound
<1>4. CASE t = [s EXCEPT !.phase = "DEGRADED", !.code = "buffer_overflow",
                         !.affected = @ \cup {c}]
  <2> HIDE DEF t
  <2>1. t = [phase |-> "DEGRADED", generation |-> s.generation, attempt |-> s.attempt,
             budget |-> s.budget, alert |-> s.alert, answered |-> s.answered,
             mark |-> s.mark, buffer |-> s.buffer, affected |-> s.affected \cup {c},
             code |-> "buffer_overflow"]
    BY <1>1, <1>4 DEF Delivery
  <2>2. t \in Delivery
    BY <1>1, <2>1, Fields DEF Delivery, Phases, Codes
  <2>3. Sound(t, limit)
    BY <1>1, <2>1, <2>2 DEF Sound
  <2>4. Advances(s, t) /\ t.mark = s.mark
    BY <1>2, <2>1 DEF Advances
  <2> QED
    BY <1>2, <2>3, <2>4 DEF t
<1> DEFINE u == Buffered(s, c, r)
<1>5. /\ u \in Delivery /\ IsFiniteSet(u.buffer)
      /\ u.phase = s.phase /\ u.generation = s.generation /\ u.attempt = s.attempt
      /\ u.mark = s.mark /\ u.alert = s.alert
      /\ \A e \in u.buffer : e[2] <= limit[e[1]]
  <2>1. u = [s EXCEPT !.buffer = s.buffer \cup {<<c, r>>}]
    BY DEF Buffered
  <2> HIDE DEF u
  <2>2. u = [phase |-> s.phase, generation |-> s.generation, attempt |-> s.attempt,
             budget |-> s.budget, alert |-> s.alert, answered |-> s.answered,
             mark |-> s.mark, buffer |-> s.buffer \cup {<<c, r>>},
             affected |-> s.affected, code |-> s.code]
    BY <1>1, <2>1 DEF Delivery
  <2>3. s.buffer \cup {<<c, r>>} \in SUBSET (Calendars \X (Nat \ {0}))
    BY <1>1, Fields
  <2>4. u \in Delivery
    BY <1>1, <2>2, <2>3, Fields DEF Delivery
  <2>5. IsFiniteSet(s.buffer \cup {<<c, r>>})
    BY <1>1, FS_AddElement
  <2>6. \A e \in s.buffer \cup {<<c, r>>} : e[2] <= limit[e[1]]
    BY <1>1
  <2> QED
    BY <2>2, <2>4, <2>5, <2>6
<1>6. CASE t = u
  <2>1. Sound(u, limit)
    BY <1>1, <1>5 DEF Sound
  <2>2. Advances(s, u)
    BY <1>2, <1>5 DEF Advances
  <2> QED
    BY <1>2, <1>5, <1>6, <2>1, <2>2
<1>7. CASE t = Reconciled(u)
  <2> HIDE DEF t, u
  <2>1. /\ Sound(t, limit)
        /\ t.generation = u.generation /\ t.attempt = u.attempt
        /\ t.phase \in {"LIVE", "DEGRADED"}
        /\ \A d \in Calendars : t.mark[d] >= u.mark[d]
    BY <1>1, <1>5, <1>7, ReconciledSound
  <2>2. Advances(s, t)
    BY <1>2, <1>5, <2>1 DEF Advances
  <2> QED
    BY <1>5, <2>1, <2>2 DEF t
<1>8. \/ t = s
      \/ t = [s EXCEPT !.phase = "DEGRADED", !.code = "buffer_overflow",
                       !.affected = @ \cup {c}]
      \/ t = u \/ t = Reconciled(u)
  BY DEF ObserveTransition
<1> QED
  BY <1>3, <1>4, <1>6, <1>7, <1>8

(* The response of a waiting attempt ends the waiting; if it is not behind *)
(* the watermarks they do not go back.                                     *)
LEMMA ObserveSnapshotSound ==
    ASSUME NEW limit \in [Calendars -> Nat], NEW s, Sound(s, limit), NEW response,
           response.failed \in SUBSET Calendars, response.code \in Codes,
           response.revision \in [Calendars -> Nat],
           Answers(s, response),
           response.failed = {} => \A c \in Calendars :
               response.revision[c] <= limit[c] /\ response.revision[c] >= s.mark[c]
    PROVE  LET t == ObserveSnapshot(s, response)
           IN  /\ Sound(t, limit)
               /\ Advances(s, t)
               /\ t.phase \in {"LIVE", "DEGRADED"}
               /\ \A c \in Calendars : t.mark[c] >= s.mark[c]
<1> DEFINE t == ObserveSnapshot(s, response)
           accepted == [s EXCEPT !.answered = s.alert, !.alert = NoAlert]
           installed == [accepted EXCEPT !.mark = response.revision]
<1>1. /\ s \in Delivery /\ IsFiniteSet(s.buffer)
      /\ \A d \in Calendars : s.mark[d] <= limit[d]
      /\ \A e \in s.buffer : e[2] <= limit[e[1]]
      /\ s.phase = "WAITING" /\ s.alert \in Past..ResponseTimeout
  BY DEF Sound, Answers
<1>2. /\ s.mark \in [Calendars -> Nat] /\ s.generation \in Nat
      /\ s.attempt \in 0..MaximumAttempts
  BY <1>1, Fields
<1>3. CASE response.failed # {}
  <2>1. t = [accepted EXCEPT !.phase = "DEGRADED", !.affected = response.failed,
                             !.code = response.code]
    BY <1>3 DEF ObserveSnapshot
  <2>3. PICK a : a = accepted
    OBVIOUS
  <2> HIDE DEF t
  <2>4. a = [phase |-> s.phase, generation |-> s.generation, attempt |-> s.attempt,
             budget |-> s.budget, alert |-> NoAlert, answered |-> s.alert,
             mark |-> s.mark, buffer |-> s.buffer, affected |-> s.affected,
             code |-> s.code]
    BY <1>1, <2>3 DEF Delivery
  <2>5. t = [a EXCEPT !.phase = "DEGRADED", !.affected = response.failed,
                      !.code = response.code]
    BY <2>1, <2>3
  <2>6. t = [phase |-> "DEGRADED", generation |-> s.generation, attempt |-> s.attempt,
             budget |-> s.budget, alert |-> NoAlert, answered |-> s.alert,
             mark |-> s.mark, buffer |-> s.buffer, affected |-> response.failed,
             code |-> response.code]
    BY <2>4, <2>5
  <2>7. t \in Delivery
    BY <1>1, <2>6, Fields, Policy DEF Delivery, Phases, Past, NoAlert
  <2>8. Sound(t, limit)
    BY <1>1, <2>6, <2>7 DEF Sound
  <2>9. Advances(s, t) /\ t.mark = s.mark /\ t.phase = "DEGRADED"
    BY <1>2, <2>6 DEF Advances
  <2> QED
    BY <1>2, <2>8, <2>9 DEF t
<1>4. CASE response.failed = {}
  <2>1. t = Reconciled(installed)
    BY <1>4 DEF ObserveSnapshot
  <2>2. PICK u : u = [s EXCEPT !.answered = s.alert, !.alert = NoAlert,
                               !.mark = response.revision]
    OBVIOUS
  <2>3. u = [phase |-> s.phase, generation |-> s.generation, attempt |-> s.attempt,
             budget |-> s.budget, alert |-> NoAlert, answered |-> s.alert,
             mark |-> response.revision, buffer |-> s.buffer, affected |-> s.affected,
             code |-> s.code]
    BY <1>1, <2>2 DEF Delivery
  <2>4. u \in Delivery
    BY <1>1, <2>3, Fields, Policy DEF Delivery, Past, NoAlert
  <2>5. installed = u
    BY <2>2
  <2> HIDE DEF t, installed
  <2>6. /\ Sound(t, limit)
        /\ t.generation = u.generation /\ t.attempt = u.attempt
        /\ t.phase \in {"LIVE", "DEGRADED"}
        /\ \A d \in Calendars : t.mark[d] >= u.mark[d]
    BY <1>1, <1>4, <2>1, <2>3, <2>4, <2>5, ReconciledSound
  <2>7. \A d \in Calendars : t.mark[d] >= s.mark[d]
    <3>1. t.mark \in [Calendars -> Nat]
      BY <2>6 DEF Sound, Delivery
    <3> QED
      BY <1>2, <1>4, <2>3, <2>6, <3>1
  <2>8. Advances(s, t)
    BY <1>2, <2>3, <2>6 DEF Advances
  <2> QED
    BY <2>6, <2>7, <2>8 DEF t
<1> QED
  BY <1>3, <1>4

-----------------------------------------------------------------------------
(* The calls and the consumers together.                                   *)

(* What is sound below a limit is sound below a higher one.                *)
LEMMA SoundRises ==
    ASSUME NEW low \in [Calendars -> Nat], NEW high \in [Calendars -> Nat],
           \A c \in Calendars : low[c] <= high[c], NEW s, Sound(s, low)
    PROVE  Sound(s, high)
<1>1. /\ s \in Delivery
      /\ \A c \in Calendars : s.mark[c] <= low[c]
      /\ \A e \in s.buffer : e[2] <= low[e[1]]
  BY DEF Sound
<1>2. \A c \in Calendars : s.mark[c] <= high[c]
  BY <1>1, Fields
<1>3. \A e \in s.buffer : e[2] <= high[e[1]]
  BY <1>1, Fields
<1> QED
  BY <1>2, <1>3 DEF Sound

LEMMA AdvancesTransitive ==
    ASSUME NEW a \in Delivery, NEW b \in Delivery, NEW c \in Delivery,
           Advances(a, b), Advances(b, c)
    PROVE  Advances(a, c)
<1>1. /\ a.generation \in Nat /\ b.generation \in Nat /\ c.generation \in Nat
      /\ a.attempt \in Nat /\ b.attempt \in Nat /\ c.attempt \in Nat
  BY Fields
<1> QED
  BY <1>1 DEF Advances

(* A call is of one kind.                                                  *)
LEMMA FrameKinds ==
    ASSUME NEW frame \in Frames
    PROVE  /\ frame.op = "request" => frame \in Requests
           /\ frame.op = "evaluate" => frame \in Evaluations
           /\ frame.op = "cut" => frame \in SnapshotCuts
           /\ frame.op = "transition" => frame \in Transitions
           /\ frame.op = "response" => frame \in Responses
           /\ frame.op \in {"request", "evaluate", "cut", "transition", "response"}
BY DEF Frames, Requests, Evaluations, SnapshotCuts, Transitions, Responses

LEMMA LengthsType ==
    ASSUME published \in [Calendars -> Seq(1..MaxBoundary)]
    PROVE  /\ Lengths \in [Calendars -> Nat]
           /\ \A c \in Calendars : Lengths[c] = Len(published[c])
BY DEF Lengths

(* Consumers that advance and calendars that publish leave good calls      *)
(* good.                                                                   *)
LEMMA GoodStays ==
    ASSUME consumer \in [Consumers -> Delivery], consumer' \in [Consumers -> Delivery],
           \A n \in Consumers : Advances(consumer[n], consumer'[n]),
           published \in [Calendars -> Seq(1..MaxBoundary)],
           published' \in [Calendars -> Seq(1..MaxBoundary)],
           \A c \in Calendars : Len(published[c]) <= Len(published'[c])
    PROVE  Seq(GoodFrames) \subseteq Seq(GoodFrames')
<1>1. ASSUME NEW q, q.from \in Consumers, q.generation \in Nat, q.attempt \in Nat,
             NotAhead(q)
      PROVE  NotAhead(q)' /\ (Awaited(q)' => Awaited(q) /\ consumer'[q.from].mark = consumer[q.from].mark)
  <2> DEFINE s == consumer[q.from]
             t == consumer'[q.from]
  <2>1. /\ s.generation \in Nat /\ s.attempt \in Nat
        /\ t.generation \in Nat /\ t.attempt \in Nat
    BY <1>1, Fields
  <2>2. Advances(s, t)
    BY <1>1
  <2> QED
    BY <1>1, <2>1, <2>2 DEF NotAhead, Awaited, Advances
<1>2. ASSUME NEW q, q.from \in Consumers, q.generation \in Nat, q.attempt \in Nat,
             NotAhead(q), NEW revision \in Revisions, NEW S \in SUBSET Calendars,
             Installable(q, revision, S)
      PROVE  Installable(q, revision, S)'
  <2>1. ASSUME NEW c \in S
        PROVE  revision[c] <= Len(published'[c])
    <3>1. /\ revision[c] \in Nat /\ revision[c] <= Len(published[c])
          /\ Len(published[c]) \in Nat /\ Len(published'[c]) \in Nat
      BY <1>2 DEF Installable, Revisions
    <3> QED
      BY <3>1
  <2> QED
    BY <1>1, <1>2, <2>1 DEF Installable
<1>3. ASSUME NEW frame \in GoodFrames
      PROVE  frame \in GoodFrames'
  <2>1. frame \in Frames /\ GoodFrame(frame)
    BY DEF GoodFrames
  <2>2. CASE frame.op = "evaluate"
    BY <2>1, <2>2 DEF GoodFrames, GoodFrame
  <2>3. CASE frame.op = "transition"
    <3>1. frame.calendar \in Calendars /\ frame.revision \in Nat
      BY <2>1, <2>3, FrameKinds DEF Transitions
    <3>2. frame.revision <= Len(published[frame.calendar])
      BY <2>1, <2>3 DEF GoodFrame
    <3>3. /\ Len(published[frame.calendar]) \in Nat
          /\ Len(published'[frame.calendar]) \in Nat
      BY <3>1
    <3>4. frame.revision <= Len(published'[frame.calendar])
      BY <3>1, <3>2, <3>3
    <3> QED
      BY <2>1, <2>3, <3>4 DEF GoodFrames, GoodFrame
  <2>4. CASE frame.op = "request"
    <3>1. /\ frame.from \in Consumers /\ frame.generation \in Nat
          /\ frame.attempt \in Nat /\ NotAhead(frame)
      BY <2>1, <2>4, FrameKinds DEF Requests, GoodFrame
    <3> QED
      BY <1>1, <2>1, <2>4, <3>1 DEF GoodFrames, GoodFrame
  <2>5. CASE frame.op = "cut"
    <3> DEFINE q == frame.request
               S == Calendars \ (frame.todo \cup frame.failed)
    <3>1. /\ q.from \in Consumers /\ q.generation \in Nat /\ q.attempt \in Nat
          /\ frame.revision \in Revisions
      BY <2>1, <2>5, FrameKinds DEF SnapshotCuts, Requests
    <3>2. NotAhead(q) /\ Installable(q, frame.revision, S)
      BY <2>1, <2>5 DEF GoodFrame
    <3>3. NotAhead(q)' /\ Installable(q, frame.revision, S)'
      BY <1>1, <1>2, <3>1, <3>2
    <3> QED
      BY <2>1, <2>5, <3>3 DEF GoodFrames, GoodFrame
  <2>6. CASE frame.op = "response"
    <3>1. /\ frame.from \in Consumers /\ frame.generation \in Nat /\ frame.attempt \in Nat
          /\ frame.revision \in Revisions
      BY <2>1, <2>6, FrameKinds DEF Responses
    <3>2. /\ NotAhead(frame)
          /\ frame.failed = {} => Installable(frame, frame.revision, Calendars)
      BY <2>1, <2>6 DEF GoodFrame
    <3>3. /\ NotAhead(frame)'
          /\ frame.failed = {} => Installable(frame, frame.revision, Calendars)'
      BY <1>1, <1>2, <3>1, <3>2
    <3> QED
      BY <2>1, <2>6, <3>3 DEF GoodFrames, GoodFrame
  <2> QED
    BY <2>1, <2>2, <2>3, <2>4, <2>5, <2>6, FrameKinds
<1> QED
  BY <1>3

LEMMA Stacks ==
    ASSUME NEW S, NEW stack \in Seq(S)
    PROVE  /\ stack # <<>> => Head(stack) \in S /\ Tail(stack) \in Seq(S)
           /\ \A a \in S : <<a>> \o stack \in Seq(S)
           /\ \A a \in S, b \in S : <<a, b>> \o stack \in Seq(S)
           /\ <<>> \o stack = stack
OBVIOUS

LEMMA AdvancesReflexive ==
    ASSUME NEW s \in Delivery
    PROVE  Advances(s, s)
<1>1. s.generation \in Nat /\ s.attempt \in Nat
  BY Fields
<1> QED
  BY <1>1 DEF Advances

(* The invariant, in the parts the steps use.                              *)
LEMMA Parts ==
    ASSUME MarksInv
    PROVE  /\ producer \in {"starting", "ready", "stopped"}
           /\ wall \in Cuts
           /\ published \in [Calendars -> Seq(1..MaxBoundary)]
           /\ cycles \in [Consumers -> Cycle]
           /\ consumer \in [Consumers -> Delivery]
           /\ \A n \in Consumers : Sound(consumer[n], Lengths)
           /\ Lengths \in [Calendars -> Nat]
           /\ \A c \in Calendars : Lengths[c] = Len(published[c])
           /\ calls \in Seq(GoodFrames)
           /\ calls # <<>> => /\ Head(calls) \in GoodFrames
                              /\ Head(calls) \in Frames
                              /\ GoodFrame(Head(calls))
                              /\ Tail(calls) \in Seq(GoodFrames)
<1>1. /\ producer \in {"starting", "ready", "stopped"}
      /\ wall \in Cuts
      /\ published \in [Calendars -> Seq(1..MaxBoundary)]
      /\ cycles \in [Consumers -> Cycle]
      /\ consumer \in [Consumers -> Delivery]
      /\ \A n \in Consumers : Sound(consumer[n], Lengths)
      /\ calls \in Seq(GoodFrames)
  BY DEF MarksInv, SessionTypeOK
<1>2. calls # <<>> => Head(calls) \in GoodFrames /\ Tail(calls) \in Seq(GoodFrames)
  BY <1>1, Stacks
<1>3. \A frame \in GoodFrames : frame \in Frames /\ GoodFrame(frame)
  BY DEF GoodFrames
<1> QED
  BY <1>1, <1>2, <1>3, LengthsType

(* The parts make the invariant.                                           *)
LEMMA Whole ==
    ASSUME producer \in {"starting", "ready", "stopped"},
           wall \in Cuts,
           published \in [Calendars -> Seq(1..MaxBoundary)],
           cycles \in [Consumers -> Cycle],
           consumer \in [Consumers -> Delivery],
           \A n \in Consumers : Sound(consumer[n], Lengths),
           calls \in Seq(GoodFrames)
    PROVE  MarksInv
<1>1. GoodFrames \subseteq Frames
  BY DEF GoodFrames
<1>2. calls \in Seq(Frames)
  BY <1>1
<1> QED
  BY <1>2 DEF MarksInv, SessionTypeOK

LEMMA WholeNext ==
    ASSUME producer' \in {"starting", "ready", "stopped"},
           wall' \in Cuts,
           published' \in [Calendars -> Seq(1..MaxBoundary)],
           cycles' \in [Consumers -> Cycle],
           consumer' \in [Consumers -> Delivery],
           \A n \in Consumers : Sound(consumer'[n], Lengths'),
           calls' \in Seq(GoodFrames')
    PROVE  MarksInv'
<1>1. GoodFrames' \subseteq Frames
  BY DEF GoodFrames
<1>2. calls' \in Seq(Frames)
  BY <1>1
<1> QED
  BY <1>2 DEF MarksInv, SessionTypeOK

(* Steps that publish and leave the consumers alone.                       *)
LEMMA ProducerStep ==
    ASSUME MarksInv, UNCHANGED consumer,
           producer' \in {"starting", "ready", "stopped"},
           wall' \in Cuts,
           cycles' \in [Consumers -> Cycle],
           published' \in [Calendars -> Seq(1..MaxBoundary)],
           \A c \in Calendars : Len(published[c]) <= Len(published'[c])
    PROVE  /\ Seq(GoodFrames) \subseteq Seq(GoodFrames')
           /\ calls' \in Seq(GoodFrames') => MarksInv'
<1>1. \A n \in Consumers : consumer'[n] \in Delivery /\ Advances(consumer[n], consumer'[n])
  BY Parts, AdvancesReflexive
<1>2. Seq(GoodFrames) \subseteq Seq(GoodFrames')
  BY <1>1, Parts, GoodStays
<1>3. /\ Lengths \in [Calendars -> Nat] /\ Lengths' \in [Calendars -> Nat]
      /\ \A c \in Calendars : Lengths[c] <= Lengths'[c]
  BY Parts DEF Lengths
<1>4. \A n \in Consumers : Sound(consumer'[n], Lengths')
  BY <1>3, Parts, SoundRises
<1>5. calls' \in Seq(GoodFrames') => MarksInv'
  BY <1>4, Parts, WholeNext
<1> QED
  BY <1>2, <1>5

(* Publishing a calendar lengthens its history, and the transition that is *)
(* delivered is its last.                                                  *)
LEMMA UpdatePublishes ==
    ASSUME MarksInv, calls # <<>>, UNCHANGED consumer,
           NEW c \in Calendars, NEW state \in 1..MaxBoundary, NEW rest,
           UpdateCalendarState(c, state, rest)
    PROVE  /\ published' \in [Calendars -> Seq(1..MaxBoundary)]
           /\ \A d \in Calendars : Len(published[d]) <= Len(published'[d])
           /\ Len(published'[c]) = RevisionAfter(c, state)
           /\ rest \in GoodFrames' => calls' \in Seq(GoodFrames')
<1>0. /\ published \in [Calendars -> Seq(1..MaxBoundary)]
      /\ \A d \in Calendars : published[d] \in Seq(1..MaxBoundary) /\ Len(published[d]) \in Nat
      /\ Tail(calls) \in Seq(GoodFrames)
  BY Parts
<1>1. /\ published' \in [Calendars -> Seq(1..MaxBoundary)]
      /\ \A d \in Calendars : Len(published[d]) <= Len(published'[d])
      /\ Len(published'[c]) = RevisionAfter(c, state)
  <2>1. CASE Differs(c, state)
    <3>1. published' = [published EXCEPT ![c] = Append(published[c], state)]
      BY <2>1 DEF UpdateCalendarState
    <3>2. /\ Append(published[c], state) \in Seq(1..MaxBoundary)
          /\ Len(Append(published[c], state)) = Len(published[c]) + 1
      BY <1>0
    <3> QED
      BY <1>0, <2>1, <3>1, <3>2 DEF RevisionAfter
  <2>2. CASE ~Differs(c, state)
    BY <1>0, <2>2 DEF UpdateCalendarState, RevisionAfter
  <2> QED
    BY <2>1, <2>2
<1>2. Seq(GoodFrames) \subseteq Seq(GoodFrames')
  <2>1. \A n \in Consumers : consumer'[n] \in Delivery /\ Advances(consumer[n], consumer'[n])
    BY Parts, AdvancesReflexive
  <2> QED
    BY <1>1, <2>1, Parts, GoodStays
<1>3. ASSUME rest \in GoodFrames'
      PROVE  calls' \in Seq(GoodFrames')
  <2>1. Tail(calls) \in Seq(GoodFrames')
    BY <1>0, <1>2
  <2>2. CASE ~Differs(c, state)
    <3>1. calls' = <<rest>> \o Tail(calls)
      BY <2>2 DEF UpdateCalendarState, Return
    <3> QED
      BY <1>3, <2>1, <3>1, Stacks
  <2>3. CASE Differs(c, state)
    <3> DEFINE first == Transition(c, Len(published[c]) + 1)
    <3>1. calls' = <<first, rest>> \o Tail(calls)
      BY <2>3 DEF UpdateCalendarState, Return
    <3>2. first \in Transitions
      BY <1>0 DEF Transition, Transitions, Subscribers
    <3>3. first.op = "transition" /\ first.calendar = c /\ first.revision = Len(published[c]) + 1
      BY DEF Transition
    <3>4. first.revision <= Len(published'[c])
      BY <1>0, <1>1, <2>3, <3>3 DEF RevisionAfter
    <3>5. first \in GoodFrames'
      <4> HIDE DEF first
      <4>1. first \in Frames
        BY <3>2 DEF Frames
      <4> QED
        BY <3>3, <3>4, <4>1 DEF GoodFrames, GoodFrame
    <3> HIDE DEF first
    <3> QED
      BY <1>3, <2>1, <3>1, <3>5, Stacks
  <2> QED
    BY <2>2, <2>3
<1> QED
  BY <1>1, <1>3

LEMMA EvaluateSteps ==
    ASSUME MarksInv, OnEvaluate
    PROVE  MarksInv' /\ UNCHANGED consumer
<1> DEFINE frame == Head(calls)
           after(c) == [frame EXCEPT !.todo = @ \ {c}]
<1>1. /\ calls # <<>> /\ frame.op = "evaluate"
      /\ UNCHANGED <<producer, wall, cycles, consumer>>
  BY DEF OnEvaluate, Handles
<1>2. frame \in Evaluations
  BY <1>1, Parts, FrameKinds
<1>3. ASSUME NEW c \in Calendars
      PROVE  after(c) \in GoodFrames /\ after(c) \in GoodFrames'
  <2>1. PICK f : f = after(c)
    OBVIOUS
  <2>2. f \in Evaluations /\ f.op = "evaluate"
    BY <1>2, <2>1 DEF Evaluations
  <2>3. f \in Frames
    BY <2>2 DEF Frames
  <2> QED
    BY <2>1, <2>2, <2>3 DEF GoodFrames, GoodFrame
<1>4. CASE published' = published /\ calls' = Tail(calls)
  BY <1>1, <1>4, Parts, ProducerStep
<1>5. ASSUME NEW c \in frame.todo, published' = published,
             calls' = <<after(c)>> \o Tail(calls)
      PROVE  MarksInv'
  <2>1. c \in Calendars
    BY <1>2 DEF Evaluations
  <2>2. calls' \in Seq(GoodFrames)
    <3> HIDE DEF after
    <3> QED
      BY <1>1, <1>3, <1>5, <2>1, Parts, Stacks
  <2>3. \A d \in Calendars : Len(published[d]) <= Len(published'[d])
    BY <1>5, Parts
  <2>4. Seq(GoodFrames) \subseteq Seq(GoodFrames')
    BY <1>1, <1>5, <2>3, Parts, ProducerStep
  <2> QED
    BY <1>1, <1>5, <2>2, <2>3, <2>4, Parts, ProducerStep
<1>6. ASSUME NEW c \in frame.todo, UpdateCalendarState(c, frame.cut[c], after(c))
      PROVE  MarksInv'
  <2>1. c \in Calendars /\ frame.cut[c] \in 1..MaxBoundary
    BY <1>2 DEF Evaluations, Cuts
  <2> HIDE DEF after
  <2>2. /\ published' \in [Calendars -> Seq(1..MaxBoundary)]
        /\ \A d \in Calendars : Len(published[d]) <= Len(published'[d])
        /\ calls' \in Seq(GoodFrames')
    BY <1>1, <1>3, <1>6, <2>1, UpdatePublishes
  <2> QED
    BY <1>1, <2>2, Parts, ProducerStep
<1>7. \/ published' = published /\ calls' = Tail(calls)
      \/ \E c \in frame.todo : published' = published /\ calls' = <<after(c)>> \o Tail(calls)
      \/ \E c \in frame.todo : UpdateCalendarState(c, frame.cut[c], after(c))
  BY Parts, <1>1, Stacks DEF OnEvaluate, Return
<1> QED
  BY <1>1, <1>4, <1>5, <1>6, <1>7

LEMMA ProducerOrClockSteps ==
    ASSUME MarksInv,
           ProducerReady \/ ProducerEvaluates \/ ProducerStops
              \/ \E c \in Calendars : Boundary(c)
    PROVE  MarksInv' /\ UNCHANGED consumer
<1>1. UNCHANGED <<published, consumer>>
  BY DEF ProducerReady, ProducerEvaluates, ProducerStops, Boundary
<1>2. Evaluation(wall) \in GoodFrames
  <2>1. PICK f : f = Evaluation(wall)
    OBVIOUS
  <2>2. f \in Evaluations /\ f.op = "evaluate"
    BY <2>1, Parts DEF Evaluation, Evaluations
  <2>3. f \in Frames
    BY <2>2 DEF Frames
  <2> QED
    BY <2>1, <2>2, <2>3 DEF GoodFrames, GoodFrame
<1>3. calls' \in Seq(GoodFrames)
  <2>1. calls' = calls \/ calls' = <<Evaluation(wall)>>
    BY DEF ProducerReady, ProducerEvaluates, ProducerStops, Boundary
  <2>2. \A f \in GoodFrames : <<f>> \in Seq(GoodFrames)
    OBVIOUS
  <2> QED
    BY <1>2, <2>1, <2>2, Parts
<1>4. producer' \in {"starting", "ready", "stopped"}
  BY Parts DEF ProducerReady, ProducerEvaluates, ProducerStops, Boundary
<1>5. wall' \in Cuts
  <2>1. wall' = wall \/ \E c \in Calendars : Boundary(c)
    BY DEF ProducerReady, ProducerEvaluates, ProducerStops
  <2>2. ASSUME NEW c \in Calendars, Boundary(c)
        PROVE  wall' \in Cuts
    <3>1. wall \in [Calendars -> 1..MaxBoundary] /\ MaxBoundary \in Nat
      BY Parts, SessionAssumption DEF Cuts
    <3>2. wall[c] + 1 \in 1..MaxBoundary
      BY <2>2, <3>1 DEF Boundary
    <3> QED
      BY <2>2, <3>1, <3>2 DEF Boundary, Cuts
  <2> QED
    BY <2>1, <2>2, Parts
<1>6. cycles' \in [Consumers -> Cycle]
  <2>1. NoCycle \in Cycle
    BY Policy DEF NoCycle, Cycle, Past
  <2> QED
    BY <2>1, Parts DEF ProducerReady, ProducerEvaluates, ProducerStops, Boundary
<1> QED
  BY <1>1, <1>3, <1>4, <1>5, <1>6, Parts, ProducerStep

(* An admitted cycle keeps within the policy.                              *)
LEMMA AdmittedCycleType ==
    ASSUME MarksInv, NEW q \in Requests
    PROVE  AdmittedCycle(q) \in Cycle
<1>1. /\ q.from \in Consumers /\ q.generation \in Nat
      /\ q.attempt \in 1..MaximumAttempts /\ q.left \in Past..ResponseTimeout
  BY DEF Requests
<1>2. NoCycle \in Cycle
  BY Policy DEF NoCycle, Cycle, Past
<1>3. cycles[q.from] \in Cycle
  BY <1>1, Parts
<1>4. Held(q) \in Cycle
  BY <1>2, <1>3 DEF Held
<1>5. [generation |-> q.generation, attempt |-> 0, terminal |-> FALSE,
       expires |-> q.left, budget |-> MaximumElapsed - (ResponseTimeout - q.left)] \in Cycle
  BY <1>1, Policy DEF Cycle, Past
<1>6. ASSUME NEW held \in Cycle
      PROVE  [held EXCEPT !.expires = IF q.left > @ THEN q.left ELSE @] \in Cycle
  <2>1. (IF q.left > held.expires THEN q.left ELSE held.expires) \in Past..ResponseTimeout
    BY <1>1 DEF Cycle
  <2> QED
    BY <2>1 DEF Cycle
<1> QED
  BY <1>4, <1>5, <1>6 DEF AdmittedCycle

LEMMA AnsweredType ==
    ASSUME NEW cycle \in Cycle, NEW q \in Requests
    PROVE  Answered(cycle, q) \in Cycle
<1>1. q.attempt \in 1..MaximumAttempts /\ (q.attempt >= MaximumAttempts) \in BOOLEAN
  BY DEF Requests
<1>2. q.attempt \in 0..MaximumAttempts
  BY <1>1, Policy
<1>3. [cycle EXCEPT !.attempt = q.attempt, !.terminal = q.attempt >= MaximumAttempts] \in Cycle
  BY <1>1, <1>2 DEF Cycle
<1> QED
  BY <1>3 DEF Answered

(* A refusal of an attempt that was begun is a good call.                  *)
LEMMA RefusalGood ==
    ASSUME NEW q \in Requests, NotAhead(q), NEW code \in Codes
    PROVE  Refusal(q, code) \in GoodFrames
<1>1. NoRevision \in Revisions
  BY DEF NoRevision, Revisions
<1>2. PICK f : f = Refusal(q, code)
  OBVIOUS
<1>3. f = [op |-> "response", from |-> q.from, generation |-> q.generation,
           attempt |-> q.attempt, failed |-> Calendars, code |-> code,
           revision |-> NoRevision]
  BY <1>2 DEF Refusal, Response
<1>4. f \in Responses
  BY <1>1, <1>3 DEF Responses, Requests
<1>5. f \in Frames
  BY <1>4 DEF Frames
<1>6. NotAhead(f)
  BY <1>3 DEF NotAhead
<1>7. f.op = "response" /\ f.failed # {}
  BY <1>3, DeliveryAssumption
<1>8. GoodFrame(f)
  BY <1>6, <1>7 DEF GoodFrame
<1> QED
  BY <1>2, <1>5, <1>8 DEF GoodFrames

LEMMA RequestSteps ==
    ASSUME MarksInv, OnRequest
    PROVE  MarksInv' /\ UNCHANGED consumer
<1> DEFINE q == Head(calls)
           cycle == AdmittedCycle(q)
<1>1. /\ calls # <<>> /\ q.op = "request"
      /\ UNCHANGED <<producer, wall, published, consumer>>
  BY DEF OnRequest, Handles
<1>2. q \in Requests /\ NotAhead(q)
  BY <1>1, Parts, FrameKinds DEF GoodFrame
<1>3. cycle \in Cycle /\ Answered(cycle, q) \in Cycle
  BY <1>2, AdmittedCycleType, AnsweredType
<1>4. cycles' \in [Consumers -> Cycle]
  <2>1. \/ cycles' = cycles
        \/ cycles' = [cycles EXCEPT ![q.from] = cycle]
        \/ cycles' = [cycles EXCEPT ![q.from] = Answered(cycle, q)]
    BY DEF OnRequest
  <2> QED
    BY <1>3, <2>1, Parts
<1>5. Cut(q) \in GoodFrames
  <2>1. PICK f : f = Cut(q)
    OBVIOUS
  <2>2. f = [op |-> "cut", request |-> q, cut |-> wall, todo |-> Calendars,
             failed |-> {}, revision |-> NoRevision]
    BY <2>1 DEF Cut
  <2>3. f \in SnapshotCuts
    BY <1>2, <2>2, Parts DEF SnapshotCuts, NoRevision, Revisions
  <2>4. f \in Frames
    BY <2>3 DEF Frames
  <2>5. f.op = "cut" /\ NotAhead(f.request)
    BY <1>2, <2>2
  <2>6. Installable(f.request, f.revision, Calendars \ (f.todo \cup f.failed))
    BY <2>2 DEF Installable
  <2>7. GoodFrame(f)
    BY <2>5, <2>6 DEF GoodFrame
  <2> QED
    BY <2>1, <2>4, <2>7 DEF GoodFrames
<1>6. \/ calls' = <<>> \o Tail(calls)
      \/ \E f \in GoodFrames : calls' = <<f>> \o Tail(calls)
  <2>1. \A code \in Codes : Refusal(q, code) \in GoodFrames
    BY <1>2, RefusalGood
  <2>2. /\ "request_identity_conflict" \in Codes /\ "request_deadline_expired" \in Codes
        /\ "source_not_ready" \in Codes
    BY DEF Codes
  <2>3. \/ calls' = <<>> \o Tail(calls)
        \/ calls' = <<Refusal(q, "request_identity_conflict")>> \o Tail(calls)
        \/ calls' = <<Refusal(q, "request_deadline_expired")>> \o Tail(calls)
        \/ calls' = <<Refusal(q, "source_not_ready")>> \o Tail(calls)
        \/ calls' = <<Cut(q)>> \o Tail(calls)
    BY DEF OnRequest, Return
  <2> QED
    BY <1>5, <2>1, <2>2, <2>3
<1>7. calls' \in Seq(GoodFrames)
  <2>1. Tail(calls) \in Seq(GoodFrames)
    BY <1>1, Parts
  <2>2. /\ <<>> \o Tail(calls) \in Seq(GoodFrames)
        /\ \A f \in GoodFrames : <<f>> \o Tail(calls) \in Seq(GoodFrames)
    BY <2>1, Stacks
  <2> QED
    BY <1>6, <2>2
<1>8. \A d \in Calendars : Len(published[d]) <= Len(published'[d])
  BY <1>1, Parts
<1> QED
  BY <1>1, <1>4, <1>7, <1>8, Parts, ProducerStep

LEMMA CutSteps ==
    ASSUME MarksInv, OnCut
    PROVE  MarksInv' /\ UNCHANGED consumer
<1>0. PICK frame : frame = Head(calls)
  OBVIOUS
<1> DEFINE q == frame.request
           rest(c) == [frame EXCEPT !.todo = @ \ {c}]
           failing(c) == [rest(c) EXCEPT !.failed = @ \cup {c}]
           updated(c) == [rest(c) EXCEPT !.revision[c] = RevisionAfter(c, frame.cut[c])]
<1>1. /\ calls # <<>> /\ frame.op = "cut"
      /\ UNCHANGED <<producer, wall, consumer>>
  BY <1>0 DEF OnCut, Handles
<1>2. /\ frame \in SnapshotCuts
      /\ q \in Requests /\ NotAhead(q)
      /\ Installable(q, frame.revision, Calendars \ (frame.todo \cup frame.failed))
  <2>1. frame \in SnapshotCuts /\ GoodFrame(frame)
    BY <1>0, <1>1, Parts, FrameKinds
  <2> QED
    BY <1>1, <2>1 DEF GoodFrame, SnapshotCuts
<1>3. /\ frame = [op |-> "cut", request |-> q, cut |-> frame.cut, todo |-> frame.todo,
                  failed |-> frame.failed, revision |-> frame.revision]
      /\ frame.cut \in Cuts /\ frame.todo \in SUBSET Calendars
      /\ frame.failed \in SUBSET Calendars /\ frame.revision \in [Calendars -> Nat]
  BY <1>2 DEF SnapshotCuts, Revisions
<1>4. Tail(calls) \in Seq(GoodFrames)
  BY <1>1, Parts
<1>5. ASSUME NEW c \in frame.todo, published' = published, cycles' = cycles,
             calls' = <<failing(c)>> \o Tail(calls)
      PROVE  MarksInv'
  <2>1. PICK f : f = failing(c)
    OBVIOUS
  <2>2. f = [op |-> "cut", request |-> q, cut |-> frame.cut, todo |-> frame.todo \ {c},
             failed |-> frame.failed \cup {c}, revision |-> frame.revision]
    <3>1. PICK g : g = rest(c)
      OBVIOUS
    <3>2. g = [op |-> "cut", request |-> q, cut |-> frame.cut, todo |-> frame.todo \ {c},
               failed |-> frame.failed, revision |-> frame.revision]
      BY <1>3, <3>1
    <3>3. f = [g EXCEPT !.failed = g.failed \cup {c}]
      BY <2>1, <3>1
    <3> QED
      BY <3>2, <3>3
  <2>3. f \in SnapshotCuts
    BY <1>2, <1>3, <2>2 DEF SnapshotCuts, Revisions
  <2>4. Installable(f.request, f.revision, Calendars \ (f.todo \cup f.failed))
    BY <1>2, <1>3, <2>2 DEF Installable
  <2>5. GoodFrame(f)
    BY <1>2, <2>2, <2>4 DEF GoodFrame
  <2>6. f \in GoodFrames
    BY <2>3, <2>5 DEF GoodFrames, Frames
  <2>7. calls' \in Seq(GoodFrames)
    BY <1>4, <1>5, <2>1, <2>6, Stacks
  <2>8. \A d \in Calendars : Len(published[d]) <= Len(published'[d])
    BY <1>5, Parts
  <2> QED
    BY <1>1, <1>5, <2>7, <2>8, Parts, ProducerStep
<1>6. ASSUME NEW c \in frame.todo, cycles' = cycles,
             UpdateCalendarState(c, frame.cut[c], updated(c))
      PROVE  MarksInv'
  <2>1. c \in Calendars /\ frame.cut[c] \in 1..MaxBoundary
    BY <1>3 DEF Cuts
  <2>0. PICK r, f : r = RevisionAfter(c, frame.cut[c]) /\ f = updated(c)
    OBVIOUS
  <2>2. /\ published' \in [Calendars -> Seq(1..MaxBoundary)]
        /\ \A d \in Calendars : Len(published[d]) <= Len(published'[d])
        /\ Len(published'[c]) = r
        /\ f \in GoodFrames' => calls' \in Seq(GoodFrames')
    <3> HIDE DEF updated
    <3> QED
      BY <1>1, <1>6, <2>0, <2>1, UpdatePublishes
  <2>3. r \in Nat
    BY <2>1, <2>2
  <2>4. f = [op |-> "cut", request |-> q, cut |-> frame.cut, todo |-> frame.todo \ {c},
             failed |-> frame.failed, revision |-> [frame.revision EXCEPT ![c] = r]]
    <3>1. PICK g : g = rest(c)
      OBVIOUS
    <3>2. g = [op |-> "cut", request |-> q, cut |-> frame.cut, todo |-> frame.todo \ {c},
               failed |-> frame.failed, revision |-> frame.revision]
      BY <1>3, <3>1
    <3>3. f = [g EXCEPT !.revision = [frame.revision EXCEPT ![c] = r]]
      BY <2>0, <3>1, <3>2
    <3> QED
      BY <3>2, <3>3
  <2>5. f \in SnapshotCuts
    BY <1>2, <1>3, <2>3, <2>4 DEF SnapshotCuts, Revisions
  <2>6. Installable(q, [frame.revision EXCEPT ![c] = r],
                    Calendars \ ((frame.todo \ {c}) \cup frame.failed))'
    <3> SUFFICES ASSUME NEW d \in Calendars \ ((frame.todo \ {c}) \cup frame.failed)
                 PROVE  /\ [frame.revision EXCEPT ![c] = r][d] <= Len(published'[d])
                        /\ Awaited(q) =>
                              [frame.revision EXCEPT ![c] = r][d] >= consumer[q.from].mark[d]
      BY <1>1 DEF Installable, Awaited
    <3>1. /\ Len(published[d]) \in Nat /\ Len(published'[d]) \in Nat
          /\ Len(published[d]) <= Len(published'[d])
      BY <2>2, Parts
    <3>2. CASE d = c
      <4>1. consumer[q.from].mark[c] \in Nat /\ consumer[q.from].mark[c] <= Len(published[c])
        <5>1. q.from \in Consumers
          BY <1>2 DEF Requests
        <5>2. consumer[q.from] \in Delivery /\ Sound(consumer[q.from], Lengths)
          BY <5>1, Parts
        <5> QED
          BY <2>1, <5>2, Parts, Fields DEF Sound
      <4> QED
        BY <1>3, <2>1, <2>2, <2>3, <3>1, <3>2, <4>1
    <3>3. CASE d # c
      <4>1. d \in Calendars \ (frame.todo \cup frame.failed)
        BY <3>3
      <4>2. /\ frame.revision[d] <= Len(published[d])
            /\ Awaited(q) => frame.revision[d] >= consumer[q.from].mark[d]
        BY <1>2, <4>1 DEF Installable
      <4>3. frame.revision[d] \in Nat /\ [frame.revision EXCEPT ![c] = r][d] = frame.revision[d]
        BY <1>3, <3>3
      <4> QED
        BY <3>1, <4>2, <4>3
    <3> QED
      BY <3>2, <3>3
  <2>7. GoodFrame(f)'
    <3>1. f.op = "cut" /\ f.request = q /\ f.todo = frame.todo \ {c} /\ f.failed = frame.failed
          /\ f.revision = [frame.revision EXCEPT ![c] = r]
      BY <2>4
    <3>2. NotAhead(q)'
      BY <1>1, <1>2 DEF NotAhead
    <3> QED
      BY <2>6, <3>1, <3>2 DEF GoodFrame
  <2>8. f \in GoodFrames'
    BY <2>5, <2>7 DEF GoodFrames, Frames
  <2> QED
    BY <1>1, <1>6, <2>2, <2>8, Parts, ProducerStep
<1>7. CASE /\ published' = published
           /\ cycles' = [cycles EXCEPT ![q.from] = Answered(@, q)]
           /\ frame.todo = {}
           /\ \/ calls' = <<Refusal(q, "request_deadline_expired")>> \o Tail(calls)
              \/ calls' = <<Response(q, frame.failed, "current_state_evaluation_failed",
                                     frame.revision)>> \o Tail(calls)
  <2>1. cycles' \in [Consumers -> Cycle]
    <3>1. q.from \in Consumers /\ cycles[q.from] \in Cycle
      BY <1>2, Parts DEF Requests
    <3>2. Answered(cycles[q.from], q) \in Cycle
      BY <1>2, <3>1, AnsweredType
    <3> QED
      BY <1>7, <3>2, Parts
  <2>2. Refusal(q, "request_deadline_expired") \in GoodFrames
    BY <1>2, RefusalGood DEF Codes
  <2>3. Response(q, frame.failed, "current_state_evaluation_failed", frame.revision)
            \in GoodFrames
    <3>1. PICK f : f = Response(q, frame.failed, "current_state_evaluation_failed",
                                frame.revision)
      OBVIOUS
    <3>2. f = [op |-> "response", from |-> q.from, generation |-> q.generation,
               attempt |-> q.attempt, failed |-> frame.failed,
               code |-> "current_state_evaluation_failed", revision |-> frame.revision]
      BY <3>1 DEF Response
    <3>3. f \in Responses
      BY <1>2, <1>3, <3>2 DEF Responses, Requests, Codes, Revisions
    <3>4. NotAhead(f)
      BY <1>2, <3>2 DEF NotAhead
    <3>5. f.failed = {} => Installable(f, f.revision, Calendars)
      BY <1>2, <1>7, <3>2 DEF Installable, Awaited
    <3>6. GoodFrame(f)
      BY <3>2, <3>4, <3>5 DEF GoodFrame
    <3> QED
      BY <3>1, <3>3, <3>6 DEF GoodFrames, Frames
  <2>4. calls' \in Seq(GoodFrames)
    <3>1. \A a \in GoodFrames : <<a>> \o Tail(calls) \in Seq(GoodFrames)
      BY <1>4, Stacks
    <3>2. \E a \in GoodFrames : calls' = <<a>> \o Tail(calls)
      BY <1>7, <2>2, <2>3, Zenon
    <3> QED
      BY <3>1, <3>2, Zenon
  <2>5. \A d \in Calendars : Len(published[d]) <= Len(published'[d])
    BY <1>7, Parts
  <2> QED
    BY <1>1, <1>7, <2>1, <2>4, <2>5, Parts, ProducerStep
<1>8. \/ \E c \in frame.todo : /\ published' = published /\ cycles' = cycles
                              /\ calls' = <<failing(c)>> \o Tail(calls)
      \/ \E c \in frame.todo : /\ cycles' = cycles
                              /\ UpdateCalendarState(c, frame.cut[c], updated(c))
      \/ /\ published' = published
         /\ cycles' = [cycles EXCEPT ![q.from] = Answered(@, q)]
         /\ frame.todo = {}
         /\ \/ calls' = <<Refusal(q, "request_deadline_expired")>> \o Tail(calls)
            \/ calls' = <<Response(q, frame.failed, "current_state_evaluation_failed",
                                   frame.revision)>> \o Tail(calls)
  BY <1>0 DEF OnCut, Return
<1> QED
  BY <1>1, <1>5, <1>6, <1>7, <1>8

(* A consumer that becomes s, and the request it may publish.              *)
LEMMA BecomesStep ==
    ASSUME MarksInv, NEW n \in Consumers, NEW s, Sound(s, Lengths),
           Advances(consumer[n], s),
           \A c \in Calendars : s.mark[c] >= consumer[n].mark[c],
           NEW rest \in Seq(GoodFrames), Becomes(n, s, rest),
           UNCHANGED <<producer, wall, published, cycles>>
    PROVE  MarksInv' /\ MarksAdvance
<1>1. s \in Delivery /\ s.generation \in Nat /\ s.attempt \in 0..MaximumAttempts
  BY Fields DEF Sound
<1>2. /\ consumer \in [Consumers -> Delivery]
      /\ consumer' = [consumer EXCEPT ![n] = s]
      /\ consumer' \in [Consumers -> Delivery]
      /\ consumer'[n] = s
      /\ \A m \in Consumers : m # n => consumer'[m] = consumer[m]
  BY <1>1, Parts DEF Becomes
<1>3. \A m \in Consumers : Advances(consumer[m], consumer'[m])
  BY <1>2, AdvancesReflexive
<1>4. \A m \in Consumers : Sound(consumer'[m], Lengths')
  <2>1. Lengths' = Lengths
    BY DEF Lengths
  <2> QED
    BY <1>2, <2>1, Parts
<1>5. MarksAdvance
  <2>1. \A m \in Consumers, c \in Calendars : consumer[m].mark[c] \in Nat
    BY Parts, Fields
  <2> QED
    BY <1>2, <2>1 DEF MarksAdvance
<1>6. Seq(GoodFrames) \subseteq Seq(GoodFrames')
  <2>1. \A c \in Calendars : Len(published[c]) <= Len(published'[c])
    BY Parts
  <2> QED
    BY <1>2, <1>3, <2>1, Parts, GoodStays
<1>7. ASSUME s.phase = "WAITING"
      PROVE  Request(n, s) \in GoodFrames'
  <2>1. PICK f : f = Request(n, s)
    OBVIOUS
  <2>2. f = [op |-> "request", from |-> n, generation |-> s.generation,
             attempt |-> s.attempt, left |-> ResponseTimeout]
    BY <2>1 DEF Request
  <2>3. s.attempt \in 1..MaximumAttempts
    BY <1>1, <1>7 DEF Sound
  <2>4. f \in Requests
    BY <1>1, <2>2, <2>3, Policy DEF Requests, Past
  <2>5. NotAhead(f)'
    BY <1>1, <1>2, <2>2 DEF NotAhead
  <2>6. GoodFrame(f)'
    BY <2>2, <2>5 DEF GoodFrame
  <2> QED
    BY <2>1, <2>4, <2>6 DEF GoodFrames, Frames
<1>8. calls' \in Seq(GoodFrames')
  <2>1. rest \in Seq(GoodFrames')
    BY <1>6
  <2>2. /\ <<>> \o rest \in Seq(GoodFrames')
        /\ \A f \in GoodFrames' : <<f>> \o rest \in Seq(GoodFrames')
    BY <2>1, Stacks
  <2>3. \/ calls' = <<>> \o rest
        \/ s.phase = "WAITING" /\ calls' = <<Request(n, s)>> \o rest
    BY DEF Becomes
  <2> QED
    BY <1>7, <2>2, <2>3
<1>9. MarksInv'
  BY <1>2, <1>4, <1>8, Parts, WholeNext
<1> QED
  BY <1>5, <1>9

LEMMA TransitionSteps ==
    ASSUME MarksInv, OnTransition
    PROVE  MarksInv' /\ MarksAdvance
<1>0. PICK frame : frame = Head(calls)
  OBVIOUS
<1>1. /\ calls # <<>> /\ frame.op = "transition"
      /\ UNCHANGED <<producer, wall, published, cycles>>
  BY <1>0 DEF OnTransition, Handles
<1>2. /\ frame \in Transitions
      /\ frame.revision <= Lengths[frame.calendar]
  BY <1>0, <1>1, Parts, FrameKinds DEF GoodFrame, Transitions
<1>3. frame.calendar \in Calendars /\ frame.revision \in Nat \ {0}
      /\ frame.to \in SUBSET Consumers
  BY <1>2 DEF Transitions
<1>4. Tail(calls) \in Seq(GoodFrames) /\ Lengths \in [Calendars -> Nat]
  BY <1>1, Parts
<1>5. \A n \in Consumers, c \in Calendars : consumer[n].mark[c] \in Nat
  BY Parts, Fields
<1>6. CASE calls' = <<>> \o Tail(calls) /\ UNCHANGED consumer
  <2>1. calls' \in Seq(GoodFrames)
    BY <1>4, <1>6, Stacks
  <2>2. \A d \in Calendars : Len(published[d]) <= Len(published'[d])
    BY <1>1, Parts
  <2>3. MarksInv'
    BY <1>1, <1>6, <2>1, <2>2, Parts, ProducerStep
  <2> QED
    BY <1>5, <1>6, <2>3 DEF MarksAdvance
<1> DEFINE seen(n) == ObserveTransition(consumer[n], frame.calendar, frame.revision)
           next(n) == IF seen(n).phase = "LIVE" /\ seen(n).mark # consumer[n].mark
                      THEN WithBoundaryAlert(seen(n)) ELSE Resynchronize(seen(n))
           rest(n) == <<[frame EXCEPT !.to = @ \ {n}]>> \o Tail(calls)
<1>7. ASSUME NEW n \in frame.to, Becomes(n, next(n), rest(n))
      PROVE  MarksInv' /\ MarksAdvance
  <2>1. n \in Consumers
    BY <1>3
  <2>2. PICK s : s = consumer[n]
    OBVIOUS
  <2>3. PICK t : t = seen(n)
    OBVIOUS
  <2>4. PICK u : u = next(n)
    OBVIOUS
  <2>5. Sound(s, Lengths) /\ s \in Delivery
    BY <2>1, <2>2, Parts
  <2>6. /\ Sound(t, Lengths) /\ Advances(s, t)
        /\ \A d \in Calendars : t.mark[d] >= s.mark[d]
    BY <1>2, <1>3, <1>4, <2>2, <2>3, <2>5, ObserveTransitionSound
  <2>7. Sound(u, Lengths) /\ Advances(t, u) /\ u.mark = t.mark
    <3>1. (u = WithBoundaryAlert(t) /\ t.phase = "LIVE") \/ u = Resynchronize(t)
      BY <2>2, <2>3, <2>4
    <3> QED
      BY <1>4, <2>6, <3>1, BoundaryAlertSound, ResynchronizeSound
  <2>8. Advances(s, u)
    BY <2>5, <2>6, <2>7, AdvancesTransitive DEF Sound
  <2>9. rest(n) \in Seq(GoodFrames)
    <3>1. PICK f : f = [frame EXCEPT !.to = @ \ {n}]
      OBVIOUS
    <3>2. /\ f \in Transitions /\ f.op = "transition"
          /\ f.calendar = frame.calendar /\ f.revision = frame.revision
      BY <1>2, <3>1 DEF Transitions
    <3>3. f.revision <= Len(published[f.calendar])
      BY <1>2, <1>3, <3>2, Parts
    <3>4. GoodFrame(f)
      BY <3>2, <3>3 DEF GoodFrame
    <3>5. f \in GoodFrames
      BY <3>2, <3>4 DEF GoodFrames, Frames
    <3> QED
      BY <1>4, <3>1, <3>5, Stacks
  <2>10. Becomes(n, u, rest(n))
    BY <1>7, <2>4
  <2> HIDE DEF rest
  <2>11. \A c \in Calendars : u.mark[c] >= consumer[n].mark[c]
    BY <2>2, <2>6, <2>7
  <2>12. Advances(consumer[n], u)
    BY <2>2, <2>8
  <2> QED
    BY <1>1, <2>1, <2>7, <2>9, <2>10, <2>11, <2>12, BecomesStep
<1>8. \/ calls' = <<>> \o Tail(calls) /\ UNCHANGED consumer
      \/ \E n \in frame.to : Becomes(n, next(n), rest(n))
  BY <1>0 DEF OnTransition, Return
<1> QED
  BY <1>6, <1>7, <1>8

LEMMA ResponseSteps ==
    ASSUME MarksInv, OnResponse
    PROVE  MarksInv' /\ MarksAdvance
<1>0. PICK response : response = Head(calls)
  OBVIOUS
<1> DEFINE n == response.from
           retryable == response.failed = {} \/ response.code = "source_not_ready"
<1>1. /\ calls # <<>> /\ response.op = "response"
      /\ UNCHANGED <<producer, wall, published, cycles>>
  BY <1>0 DEF OnResponse, Handles
<1>2. /\ response \in Responses
      /\ response.failed = {} => Installable(response, response.revision, Calendars)
  BY <1>0, <1>1, Parts, FrameKinds DEF GoodFrame
<1>3. /\ n \in Consumers /\ response.failed \in SUBSET Calendars
      /\ response.code \in Codes /\ response.revision \in [Calendars -> Nat]
  BY <1>2 DEF Responses, Revisions
<1>4. Tail(calls) \in Seq(GoodFrames) /\ Lengths \in [Calendars -> Nat]
  BY <1>1, Parts
<1>5. CASE calls' = <<>> \o Tail(calls) /\ UNCHANGED consumer
  <2>1. calls' \in Seq(GoodFrames)
    BY <1>4, <1>5, Stacks
  <2>2. \A d \in Calendars : Len(published[d]) <= Len(published'[d])
    BY <1>1, Parts
  <2>3. MarksInv'
    BY <1>1, <1>5, <2>1, <2>2, Parts, ProducerStep
  <2>4. \A m \in Consumers, c \in Calendars : consumer[m].mark[c] \in Nat
    BY Parts, Fields
  <2> QED
    BY <1>5, <2>3, <2>4 DEF MarksAdvance
<1> DEFINE seen == ObserveSnapshot(consumer[n], response)
           next == IF seen.phase = "LIVE" THEN WithBoundaryAlert(seen)
                   ELSE ScheduleRetry(seen, seen.code, retryable)
<1>6. CASE Answers(consumer[n], response) /\ Becomes(n, next, Tail(calls))
  <2>1. PICK s : s = consumer[n]
    OBVIOUS
  <2>2. PICK t : t = seen
    OBVIOUS
  <2>3. PICK u : u = next
    OBVIOUS
  <2>4. Sound(s, Lengths) /\ s \in Delivery
    BY <1>3, <2>1, Parts
  <2>5. response.failed = {} => \A c \in Calendars :
            response.revision[c] <= Lengths[c] /\ response.revision[c] >= s.mark[c]
    BY <1>2, <1>6, <2>1, Parts DEF Installable, Awaited, Answers
  <2>6. /\ Sound(t, Lengths) /\ Advances(s, t)
        /\ \A c \in Calendars : t.mark[c] >= s.mark[c]
    BY <1>3, <1>4, <1>6, <2>1, <2>2, <2>4, <2>5, ObserveSnapshotSound
  <2>7. Sound(u, Lengths) /\ Advances(t, u) /\ u.mark = t.mark
    <3>1. \/ u = WithBoundaryAlert(t) /\ t.phase = "LIVE"
          \/ u = ScheduleRetry(t, t.code, retryable)
      BY <2>2, <2>3
    <3>2. t.code \in Codes /\ retryable \in BOOLEAN
      BY <2>6, Fields DEF Sound
    <3> HIDE DEF retryable
    <3> QED
      BY <1>4, <2>6, <3>1, <3>2, BoundaryAlertSound, ScheduleRetrySound
  <2>8. Advances(consumer[n], u)
    BY <2>1, <2>4, <2>6, <2>7, AdvancesTransitive DEF Sound
  <2>9. \A c \in Calendars : u.mark[c] >= consumer[n].mark[c]
    BY <2>1, <2>6, <2>7
  <2>10. Becomes(n, u, Tail(calls))
    BY <1>6, <2>3
  <2> QED
    BY <1>1, <1>3, <1>4, <2>7, <2>8, <2>9, <2>10, BecomesStep
<1>7. \/ calls' = <<>> \o Tail(calls) /\ UNCHANGED consumer
      \/ Answers(consumer[n], response) /\ Becomes(n, next, Tail(calls))
  BY <1>0 DEF OnResponse, Return
<1> QED
  BY <1>5, <1>6, <1>7

LEMMA ConsumerSteps ==
    ASSUME MarksInv, NEW n \in Consumers,
           ConsumerStarts(n) \/ Alert(n) \/ ConsumerStops(n)
    PROVE  MarksInv' /\ MarksAdvance
<1>1. PICK s : s = consumer[n]
  OBVIOUS
<1>2. Sound(s, Lengths) /\ s \in Delivery /\ Lengths \in [Calendars -> Nat]
  BY <1>1, Parts
<1>3. <<>> \in Seq(GoodFrames)
  OBVIOUS
<1>4. \A c \in Calendars : s.mark[c] >= s.mark[c]
  BY <1>2, Fields
<1>5. ASSUME NEW t, Becomes(n, t, <<>>), UNCHANGED <<producer, wall, published, cycles>>,
             Sound(t, Lengths), Advances(s, t), t.mark = s.mark
      PROVE  MarksInv' /\ MarksAdvance
  <2>1. \A c \in Calendars : t.mark[c] >= consumer[n].mark[c]
    BY <1>1, <1>4, <1>5
  <2>2. Advances(consumer[n], t)
    BY <1>1, <1>5
  <2> QED
    BY <1>3, <1>5, <2>1, <2>2, BecomesStep
<1>6. CASE ConsumerStarts(n) \/ Alert(n)
  <2>1. /\ UNCHANGED <<producer, wall, published, cycles>>
        /\ \/ Becomes(n, StartCycle(s), <<>>)
           \/ Becomes(n, ScheduleRetry(s, "response_timeout", TRUE), <<>>)
           \/ Becomes(n, BeginRetry(s), <<>>)
    BY <1>1, <1>6 DEF ConsumerStarts, Alert
  <2>2. "response_timeout" \in Codes
    BY DEF Codes
  <2> QED
    BY <1>2, <1>5, <2>1, <2>2, StartCycleSound, ScheduleRetrySound, BeginRetrySound
<1>7. CASE ConsumerStops(n)
  <2>1. PICK t : t = StopDelivery(s)
    OBVIOUS
  <2>2. /\ consumer' = [consumer EXCEPT ![n] = t]
        /\ UNCHANGED <<producer, wall, published, cycles, calls>>
    BY <1>1, <1>7, <2>1 DEF ConsumerStops
  <2>3. Sound(t, Lengths) /\ Advances(s, t) /\ t.phase = "STOPPED"
    BY <1>2, <2>1, StopSound
  <2>4. /\ consumer' \in [Consumers -> Delivery] /\ consumer'[n] = t
        /\ \A m \in Consumers : m # n => consumer'[m] = consumer[m]
    BY <2>2, <2>3, Parts DEF Sound
  <2>5. \A m \in Consumers : Advances(consumer[m], consumer'[m])
    BY <1>1, <2>3, <2>4, Parts, AdvancesReflexive
  <2>6. \A m \in Consumers : Sound(consumer'[m], Lengths')
    <3>1. Lengths' = Lengths
      BY <2>2 DEF Lengths
    <3> QED
      BY <2>3, <2>4, <3>1, Parts
  <2>7. \A c \in Calendars : Len(published[c]) <= Len(published'[c])
    BY <2>2, Parts
  <2>8. calls' \in Seq(GoodFrames')
    BY <2>2, <2>4, <2>5, <2>7, Parts, GoodStays
  <2>9. MarksInv'
    BY <2>2, <2>4, <2>6, <2>8, Parts, WholeNext
  <2>10. MarksAdvance
    <3>1. \A m \in Consumers, c \in Calendars : consumer[m].mark[c] \in Nat
      BY Parts, Fields
    <3> QED
      BY <2>3, <2>4, <3>1 DEF MarksAdvance
  <2> QED
    BY <2>9, <2>10
<1> QED
  BY <1>6, <1>7

(* A tick leaves every call what it is.                                    *)
LEMMA AgedCallGood ==
    ASSUME NEW frame \in GoodFrames
    PROVE  AgedCall(frame) \in GoodFrames
<1>1. frame \in Frames /\ GoodFrame(frame)
  BY DEF GoodFrames
<1>2. PICK f : f = AgedCall(frame)
  OBVIOUS
<1>3. \A left \in Past..ResponseTimeout : Later(left) \in Past..ResponseTimeout
  BY Policy DEF Later, Past
<1>4. CASE frame.op = "request"
  <2>1. frame \in Requests /\ NotAhead(frame)
    BY <1>1, <1>4, FrameKinds DEF GoodFrame
  <2>2. f = [frame EXCEPT !.left = Later(frame.left)]
    BY <1>2, <1>4 DEF AgedCall
  <2>3. Later(frame.left) \in Past..ResponseTimeout
    BY <1>3, <2>1 DEF Requests
  <2>4. f \in Requests
    BY <2>1, <2>2, <2>3 DEF Requests
  <2>5. /\ f.op = "request" /\ f.from = frame.from
        /\ f.generation = frame.generation /\ f.attempt = frame.attempt
    BY <1>4, <2>1, <2>2 DEF Requests
  <2>6. GoodFrame(f)
    BY <2>1, <2>5 DEF GoodFrame, NotAhead
  <2> QED
    BY <1>2, <2>4, <2>6 DEF GoodFrames, Frames
<1>5. CASE frame.op = "cut"
  <2> DEFINE q == frame.request
             S == Calendars \ (frame.todo \cup frame.failed)
  <2>1. frame \in SnapshotCuts /\ q \in Requests
        /\ NotAhead(q) /\ Installable(q, frame.revision, S)
    BY <1>1, <1>5, FrameKinds DEF GoodFrame, SnapshotCuts
  <2>2. PICK p : p = [q EXCEPT !.left = Later(q.left)]
    OBVIOUS
  <2>3. Later(q.left) \in Past..ResponseTimeout
    BY <1>3, <2>1 DEF Requests
  <2>4. /\ p \in Requests /\ p.from = q.from
        /\ p.generation = q.generation /\ p.attempt = q.attempt
    BY <2>1, <2>2, <2>3 DEF Requests
  <2>5. f = [frame EXCEPT !.request = p]
    BY <1>2, <1>5, <2>2 DEF AgedCall
  <2>6. /\ f \in SnapshotCuts /\ f.op = "cut" /\ f.request = p
        /\ f.revision = frame.revision /\ f.todo = frame.todo /\ f.failed = frame.failed
    BY <2>1, <2>4, <2>5 DEF SnapshotCuts
  <2>7. NotAhead(p) /\ Installable(p, frame.revision, S)
    BY <2>1, <2>4 DEF NotAhead, Installable, Awaited
  <2>8. GoodFrame(f)
    BY <2>6, <2>7 DEF GoodFrame
  <2> QED
    BY <1>2, <2>6, <2>8 DEF GoodFrames, Frames
<1>6. CASE frame.op \notin {"request", "cut"}
  BY <1>6 DEF AgedCall
<1> QED
  BY <1>4, <1>5, <1>6

LEMMA TickSteps ==
    ASSUME MarksInv, Tick
    PROVE  MarksInv' /\ MarksAdvance
<1>1. /\ consumer' = [n \in Consumers |-> Aged(consumer[n])]
      /\ cycles' = [n \in Consumers |->
                      [cycles[n] EXCEPT !.expires = Later(@), !.budget = Later(@)]]
      /\ calls' = [i \in DOMAIN calls |-> AgedCall(calls[i])]
      /\ UNCHANGED <<producer, wall, published>>
  BY DEF Tick
<1>2. \A n \in Consumers : /\ Sound(consumer'[n], Lengths)
                           /\ Advances(consumer[n], consumer'[n])
                           /\ consumer'[n].mark = consumer[n].mark
  BY <1>1, Parts, AgedSound
<1>3. consumer' \in [Consumers -> Delivery]
  BY <1>1, <1>2 DEF Sound
<1>4. cycles' \in [Consumers -> Cycle]
  <2>1. ASSUME NEW n \in Consumers
        PROVE  [cycles[n] EXCEPT !.expires = Later(@), !.budget = Later(@)] \in Cycle
    <3>1. PICK cycle : cycle = cycles[n]
      OBVIOUS
    <3>2. cycle \in Cycle
      BY <3>1, Parts
    <3>3. /\ Later(cycle.expires) \in Past..ResponseTimeout
          /\ Later(cycle.budget) \in Past..MaximumElapsed
      BY <3>2, Policy DEF Cycle, Later, Past
    <3>4. [cycle EXCEPT !.expires = Later(cycle.expires), !.budget = Later(cycle.budget)] \in Cycle
      BY <3>2, <3>3 DEF Cycle
    <3> QED
      BY <3>1, <3>4
  <2> QED
    BY <1>1, <2>1
<1>5. calls' \in Seq(GoodFrames)
  <2>1. /\ calls \in Seq(GoodFrames) /\ DOMAIN calls = 1..Len(calls) /\ Len(calls) \in Nat
        /\ \A i \in 1..Len(calls) : calls[i] \in GoodFrames
    BY Parts
  <2>2. \A i \in 1..Len(calls) : AgedCall(calls[i]) \in GoodFrames
    BY <2>1, AgedCallGood
  <2>3. calls' \in [1..Len(calls) -> GoodFrames]
    BY <1>1, <2>1, <2>2
  <2> QED
    BY <2>1, <2>3
<1>6. Seq(GoodFrames) \subseteq Seq(GoodFrames')
  <2>1. \A c \in Calendars : Len(published[c]) <= Len(published'[c])
    <3>1. published' = published
      BY <1>1
    <3>2. \A c \in Calendars : Len(published[c]) \in Nat
      BY Parts
    <3> QED
      BY <3>1, <3>2
  <2> QED
    BY <1>1, <1>2, <1>3, <2>1, Parts, GoodStays
<1>7. Lengths' = Lengths
  BY <1>1 DEF Lengths
<1>8. MarksInv'
  BY <1>1, <1>2, <1>3, <1>4, <1>5, <1>6, <1>7, Parts, WholeNext
<1>9. MarksAdvance
  <2>1. \A m \in Consumers, c \in Calendars : consumer[m].mark[c] \in Nat
    BY Parts, Fields
  <2> QED
    BY <1>2, <2>1 DEF MarksAdvance
<1> QED
  BY <1>8, <1>9

LEMMA InitMarks == SessionInit => MarksInv
<1> SUFFICES ASSUME SessionInit
             PROVE  MarksInv
  OBVIOUS
<1>1. NoRevision \in [Calendars -> Nat] /\ \A c \in Calendars : NoRevision[c] = 0
  BY DEF NoRevision
<1>2. published \in [Calendars -> Seq(1..MaxBoundary)]
  BY DEF SessionInit
<1>3. Lengths \in [Calendars -> Nat] /\ \A c \in Calendars : Lengths[c] \in Nat
  BY <1>2, LengthsType
<1>4. IdleDelivery \in Delivery
  BY <1>1, Policy DEF IdleDelivery, Delivery, Phases, Codes, Past, NoAlert
<1>5. Sound(IdleDelivery, Lengths)
  <2>1. /\ IdleDelivery.phase = "IDLE" /\ IdleDelivery.buffer = {}
        /\ IdleDelivery.mark = NoRevision
    BY DEF IdleDelivery
  <2>2. IsFiniteSet({})
    BY FS_EmptySet
  <2> QED
    BY <1>1, <1>3, <1>4, <2>1, <2>2 DEF Sound
<1>6. NoCycle \in Cycle
  BY Policy DEF NoCycle, Cycle, Past
<1>7. wall \in Cuts
  BY SessionAssumption DEF SessionInit, Cuts
<1>8. <<>> \in Seq(GoodFrames)
  OBVIOUS
<1> QED
  BY <1>2, <1>4, <1>5, <1>6, <1>7, <1>8, Whole DEF SessionInit

LEMMA NextMarks ==
    ASSUME MarksInv, [SessionNext]_vars
    PROVE  MarksInv' /\ MarksAdvance
<1>1. CASE UNCHANGED vars
  <2>1. UNCHANGED <<producer, wall, published, cycles, consumer, calls>>
    BY <1>1 DEF vars
  <2>2. \A c \in Calendars : Len(published[c]) <= Len(published'[c])
    BY <2>1, Parts
  <2>3. MarksInv'
    BY <2>1, <2>2, Parts, ProducerStep
  <2> QED
    BY <2>1, <2>3, Parts, Fields DEF MarksAdvance
<1>2. ASSUME MarksInv', UNCHANGED consumer
      PROVE  MarksInv' /\ MarksAdvance
  <2>1. \A m \in Consumers, c \in Calendars : consumer[m].mark[c] \in Nat
    BY Parts, Fields
  <2> QED
    BY <1>2, <2>1 DEF MarksAdvance
<1>3. CASE OnEvaluate
  BY <1>2, <1>3, EvaluateSteps
<1>4. CASE OnRequest
  BY <1>2, <1>4, RequestSteps
<1>5. CASE OnCut
  BY <1>2, <1>5, CutSteps
<1>6. CASE OnTransition
  BY <1>6, TransitionSteps
<1>7. CASE OnResponse
  BY <1>7, ResponseSteps
<1>8. CASE ProducerReady \/ ProducerEvaluates \/ ProducerStops
              \/ \E c \in Calendars : Boundary(c)
  BY <1>2, <1>8, ProducerOrClockSteps
<1>9. CASE \E n \in Consumers : ConsumerStarts(n) \/ Alert(n) \/ ConsumerStops(n)
  BY <1>9, ConsumerSteps
<1>10. CASE Tick
  BY <1>10, TickSteps
<1> QED
  BY <1>1, <1>3, <1>4, <1>5, <1>6, <1>7, <1>8, <1>9, <1>10 DEF SessionNext, Handler

-----------------------------------------------------------------------------
(* One consumer of one calendar.                                           *)

(* A live consumer leaves LIVE with every new cycle; nothing but a         *)
(* snapshot or a transition leads to it.                                   *)
LEMMA NotLive ==
    ASSUME NEW s \in Delivery
    PROVE  /\ StartCycle(s).phase # "LIVE"
           /\ s.phase # "LIVE" => BeginRetry(s).phase # "LIVE"
           /\ s.phase # "LIVE" => Resynchronize(s).phase # "LIVE"
           /\ s.phase # "DEGRADED" => Resynchronize(s) = s
           /\ s.phase = "DEGRADED" /\ s.code \in {"revision_gap", "buffer_overflow"}
                 => Resynchronize(s).phase # "LIVE"
           /\ \A code, retryable : s.phase # "LIVE"
                 => ScheduleRetry(s, code, retryable).phase # "LIVE"
<1>1. ASSUME NEW t \in Delivery
      PROVE  StartCycle(t).phase # "LIVE"
  <2>1. CASE t.phase \in {"IDLE", "LIVE"}
    <3>1. StartCycle(t).phase = "WAITING"
      BY <1>1, <2>1 DEF StartCycle, Delivery
    <3> QED
      BY <3>1
  <2>2. CASE t.phase \notin {"IDLE", "LIVE"}
    BY <2>2 DEF StartCycle
  <2> QED
    BY <2>1, <2>2
<1>2. s.phase # "LIVE" => BeginRetry(s).phase # "LIVE"
  BY DEF BeginRetry, Delivery
<1>3. s.phase = "DEGRADED" /\ s.code \in {"revision_gap", "buffer_overflow"}
         => Resynchronize(s).phase # "LIVE"
  <2> SUFFICES ASSUME s.phase = "DEGRADED" /\ s.code \in {"revision_gap", "buffer_overflow"}
               PROVE  Resynchronize(s).phase # "LIVE"
    OBVIOUS
  <2>1. PICK u : u = [s EXCEPT !.phase = "LIVE"]
    OBVIOUS
  <2>2. u \in Delivery
    BY <2>1 DEF Delivery, Phases
  <2>3. Resynchronize(s) = StartCycle(u)
    BY <2>1 DEF Resynchronize
  <2> QED
    BY <1>1, <2>2, <2>3
<1>4. s.phase # "DEGRADED" => Resynchronize(s) = s
  BY DEF Resynchronize
<1>5. s.phase # "LIVE" => Resynchronize(s).phase # "LIVE"
  BY <1>3 DEF Resynchronize
<1>6. ASSUME NEW code, NEW retryable, s.phase # "LIVE"
      PROVE  ScheduleRetry(s, code, retryable).phase # "LIVE"
  <2>1. \/ ScheduleRetry(s, code, retryable) = s
        \/ \E why : ScheduleRetry(s, code, retryable)
                       = [s EXCEPT !.phase = "DEGRADED", !.alert = NoAlert, !.code = why]
        \/ ScheduleRetry(s, code, retryable)
              = [s EXCEPT !.phase = "BACKOFF", !.alert = RetryBackoff, !.code = code]
    BY DEF ScheduleRetry
  <2> QED
    BY <1>6, <2>1 DEF Delivery
<1> QED
  BY <1>1, <1>2, <1>3, <1>4, <1>5, <1>6

(* What is reconciled and live has no gap left: it has reached the last    *)
(* revision, from a watermark or a transition of it.                       *)
LEMMA ReconciledReaches ==
    ASSUME NEW limit \in [Calendars -> Nat], NEW s \in Delivery, IsFiniteSet(s.buffer),
           NEW c, Calendars = {c}, s.mark[c] # 0, s.mark[c] <= limit[c],
           \A e \in s.buffer : e[2] <= limit[e[1]],
           limit[c] <= s.mark[c] \/ <<c, limit[c]>> \in s.buffer,
           NEW t, t = Reconciled(s), t.phase = "LIVE"
    PROVE  t.buffer = {} /\ t.mark[c] = limit[c]
<1> DEFINE mark == [d \in Calendars |-> Reached(s, d)]
           retained == {e \in s.buffer : e[2] > mark[e[1]]}
           affected == {d \in Calendars : mark[d] # 0 /\ \E e \in retained : e[1] = d}
<1>1. c \in Calendars /\ limit[c] \in Nat /\ s.mark[c] \in Nat
  BY Fields
<1>2. /\ mark[c] \in Nat /\ mark[c] >= s.mark[c] /\ mark[c] <= limit[c]
      /\ mark[c] # 0
  <2>1. PICK reached : reached = Reached(s, c)
    OBVIOUS
  <2>2. reached \in Nat /\ reached >= s.mark[c] /\ reached <= limit[c]
    BY <1>1, <2>1, ReachedBounds
  <2>3. mark[c] = reached
    BY <1>1, <2>1
  <2> HIDE DEF mark
  <2> QED
    BY <1>1, <2>2, <2>3
<1>3. /\ t.phase = IF affected = {} THEN "LIVE" ELSE "DEGRADED"
      /\ t.mark = mark /\ t.buffer = retained
  BY DEF Reconciled, Delivery
<1>4. affected = {}
  BY <1>3
<1>5. retained = {}
  <2>1. s.buffer \subseteq Calendars \X (Nat \ {0})
    BY Fields
  <2>2. \A e \in retained : e[1] = c
    BY <2>1
  <2> HIDE DEF mark
  <2>3. \A e \in retained : c \in affected
    BY <1>1, <1>2, <2>2
  <2> QED
    BY <1>4, <2>3
<1>6. mark[c] = limit[c]
  <2> HIDE DEF mark
  <2>1. CASE limit[c] <= s.mark[c]
    BY <1>1, <1>2, <2>1
  <2>2. CASE <<c, limit[c]>> \in s.buffer
    <3>1. ~(limit[c] > mark[c])
      BY <1>5, <2>2
    <3> QED
      BY <1>1, <1>2, <3>1
  <2> QED
    BY <2>1, <2>2
<1> QED
  BY <1>3, <1>5, <1>6

(* The last transition leaves a consumer live only when it has reached it. *)
LEMMA TransitionReaches ==
    ASSUME NEW limit \in [Calendars -> Nat], NEW s, Sound(s, limit),
           NEW c, Calendars = {c}, limit[c] # 0,
           s.phase = "LIVE" => s.buffer = {} /\ s.mark[c] # 0,
           NEW t, t = ObserveTransition(s, c, limit[c]),
           NEW u, (t.phase = "LIVE" /\ u = WithBoundaryAlert(t)) \/ u = Resynchronize(t),
           u.phase = "LIVE"
    PROVE  u.buffer = {} /\ u.mark[c] = limit[c]
<1>1. s \in Delivery /\ c \in Calendars /\ limit[c] \in Nat \ {0}
  BY DEF Sound
<1>2. Sound(t, limit) /\ t \in Delivery
  BY <1>1, ObserveTransitionSound DEF Sound
<1>3. t.phase = "LIVE" /\ u.buffer = t.buffer /\ u.mark = t.mark
  <2>1. CASE u = WithBoundaryAlert(t) /\ t.phase = "LIVE"
    BY <1>2, <2>1 DEF WithBoundaryAlert, Delivery
  <2>2. CASE u = Resynchronize(t)
    BY <1>2, <2>2, NotLive
  <2> QED
    BY <2>1, <2>2
<1>4. ~(t.phase = "DEGRADED")
  BY <1>3
<1>5. CASE s.phase = "STOPPED" \/ limit[c] <= s.mark[c] \/ <<c, limit[c]>> \in s.buffer
  <2>1. t = s
    BY <1>5 DEF ObserveTransition
  <2>2. limit[c] <= s.mark[c] /\ s.buffer = {}
    BY <1>3, <1>5, <2>1
  <2>3. s.mark[c] <= limit[c] /\ s.mark[c] \in Nat
    BY <1>1, Fields DEF Sound
  <2> QED
    BY <1>1, <1>3, <2>1, <2>2, <2>3
<1> DEFINE b == Buffered(s, c, limit[c])
<1>6. CASE ~(s.phase = "STOPPED" \/ limit[c] <= s.mark[c] \/ <<c, limit[c]>> \in s.buffer)
  <2>1. t = IF ~HasRoom(s, c)
            THEN [s EXCEPT !.phase = "DEGRADED", !.code = "buffer_overflow",
                           !.affected = @ \cup {c}]
            ELSE IF Buffers(s, c) THEN b ELSE Reconciled(b)
    BY <1>6 DEF ObserveTransition
  <2>2. /\ b.phase = s.phase /\ b.mark = s.mark
        /\ b.buffer = s.buffer \cup {<<c, limit[c]>>} /\ b \in Delivery
    <3>1. b = [s EXCEPT !.buffer = s.buffer \cup {<<c, limit[c]>>}]
      BY DEF Buffered
    <3> HIDE DEF b
    <3>2. s.buffer \cup {<<c, limit[c]>>} \in SUBSET (Calendars \X (Nat \ {0}))
      BY <1>1, Fields
    <3> QED
      BY <1>1, <3>1, <3>2 DEF Delivery
  <2> HIDE DEF b
  <2>3. t = b \/ t = Reconciled(b)
    BY <1>1, <1>4, <2>1 DEF Delivery
  <2>4. ~Buffers(s, c)
    <3> SUFFICES ASSUME Buffers(s, c)
                 PROVE  FALSE
      OBVIOUS
    <3>1. t = b
      BY <1>1, <1>4, <2>1 DEF Delivery
    <3>2. s.phase = "LIVE"
      BY <1>3, <2>2, <3>1
    <3> QED
      BY <3>2 DEF Buffers
  <2>5. t = Reconciled(b)
    BY <1>1, <1>4, <2>1, <2>4 DEF Delivery
  <2>6. /\ IsFiniteSet(b.buffer) /\ b.mark[c] # 0 /\ b.mark[c] <= limit[c]
        /\ \A e \in b.buffer : e[2] <= limit[e[1]]
        /\ <<c, limit[c]>> \in b.buffer
    <3>1. IsFiniteSet(s.buffer) /\ \A e \in s.buffer : e[2] <= limit[e[1]]
      BY DEF Sound
    <3>2. IsFiniteSet(b.buffer)
      <4>1. PICK old, e : old = s.buffer /\ e = <<c, limit[c]>>
        OBVIOUS
      <4>2. IsFiniteSet(old \cup {e})
        BY <3>1, <4>1, FS_AddElement
      <4> QED
        BY <2>2, <4>1, <4>2
    <3>3. s.mark[c] # 0 /\ s.mark[c] <= limit[c]
      BY <1>1, <2>4 DEF Buffers, Sound
    <3> QED
      BY <1>1, <2>2, <3>1, <3>2, <3>3
  <2> QED
    <3>1. t.buffer = {} /\ t.mark[c] = limit[c]
      BY <1>3, <2>2, <2>5, <2>6, ReconciledReaches
    <3> QED
      BY <1>3, <3>1
<1> QED
  BY <1>5, <1>6

(* The response a consumer waits for leaves it live only with the last     *)
(* revisions it reports.                                                   *)
LEMMA SnapshotReaches ==
    ASSUME NEW limit \in [Calendars -> Nat], NEW s, Sound(s, limit), NEW response,
           NEW c, Calendars = {c}, Answers(s, response),
           response.revision \in [Calendars -> Nat],
           response.failed = {} => response.revision[c] = limit[c] /\ limit[c] # 0,
           NEW t, t = ObserveSnapshot(s, response), t.phase = "LIVE"
    PROVE  t.buffer = {} /\ t.mark[c] = limit[c] /\ limit[c] # 0
<1>1. PICK a : a = [s EXCEPT !.answered = s.alert, !.alert = NoAlert]
  OBVIOUS
<1>2. /\ s \in Delivery /\ IsFiniteSet(s.buffer) /\ c \in Calendars
      /\ \A e \in s.buffer : e[2] <= limit[e[1]]
      /\ s.phase = "WAITING" /\ s.alert \in Past..ResponseTimeout
  BY DEF Sound, Answers
<1>3. a \in Delivery /\ a.buffer = s.buffer
  <2>1. a = [phase |-> s.phase, generation |-> s.generation, attempt |-> s.attempt,
             budget |-> s.budget, alert |-> NoAlert, answered |-> s.alert,
             mark |-> s.mark, buffer |-> s.buffer, affected |-> s.affected,
             code |-> s.code]
    BY <1>1, <1>2 DEF Delivery
  <2> QED
    BY <1>2, <2>1, Fields, Policy DEF Delivery, Past, NoAlert
<1>4. response.failed = {}
  <2> SUFFICES ASSUME response.failed # {}
               PROVE  FALSE
    OBVIOUS
  <2>1. t = [a EXCEPT !.phase = "DEGRADED", !.affected = response.failed,
                       !.code = response.code]
    BY <1>1 DEF ObserveSnapshot
  <2> QED
    BY <1>3, <2>1 DEF Delivery
<1>5. PICK b : b = [a EXCEPT !.mark = response.revision]
  OBVIOUS
<1>6. t = Reconciled(b)
  BY <1>1, <1>4, <1>5 DEF ObserveSnapshot
<1>7. /\ b \in Delivery /\ b.buffer = s.buffer /\ b.mark[c] = limit[c]
      /\ limit[c] # 0 /\ limit[c] \in Nat
  BY <1>2, <1>3, <1>4, <1>5 DEF Delivery
<1>8. /\ b \in Delivery /\ IsFiniteSet(b.buffer) /\ b.mark[c] # 0 /\ b.mark[c] <= limit[c]
      /\ \A e \in b.buffer : e[2] <= limit[e[1]]
      /\ limit[c] <= b.mark[c]
  BY <1>2, <1>7
<1>9. t.buffer = {} /\ t.mark[c] = limit[c]
  <2>1. limit \in [Calendars -> Nat] /\ Calendars = {c} /\ t.phase = "LIVE"
    OBVIOUS
  <2>2. limit[c] <= b.mark[c] \/ <<c, limit[c]>> \in b.buffer
    BY <1>8
  <2> QED
    BY ONLY <1>6, <1>8, <2>1, <2>2, ReconciledReaches, SMTT(30)
<1> QED
  BY <1>7, <1>9

-----------------------------------------------------------------------------
(* The stack: what is on top and what is below it.                         *)
LEMMA CurrentParts ==
    ASSUME MarksInv, CurrentInv, calls # <<>>
    PROVE  /\ CurrentTop(Head(calls)) /\ CurrentBelow(Head(calls), Tail(calls))
           /\ LiveOrTold
BY DEF CurrentInv, CurrentCalls

(* What a call says depends on the consumers and what is published.        *)
LEMMA SameCalls ==
    ASSUME UNCHANGED <<consumer, published>>, NEW top, NEW rest
    PROVE  /\ CurrentTop(top) => CurrentTop(top)'
           /\ CurrentBelow(top, rest) => CurrentBelow(top, rest)'
BY DEF CurrentTop, CurrentBelow, AwaitedCut, AwaitedResponse, Awaited, Reports

(* A call takes the place of the top one.                                  *)
LEMMA Replaced ==
    ASSUME MarksInv, CurrentInv, calls # <<>>, Head(calls).op # "transition",
           UNCHANGED <<consumer, published>>, NEW f, f \in GoodFrames',
           calls' = <<f>> \o Tail(calls), CurrentTop(f)
    PROVE  CurrentInv'
<1>1. /\ Tail(calls) \in Seq(GoodFrames)
      /\ CurrentBelow(Head(calls), Tail(calls)) /\ LiveOrTold
  BY Parts, CurrentParts
<1>2. PICK rest : rest = Tail(calls)
  OBVIOUS
<1>3. calls' # <<>> /\ Head(calls') = f /\ Tail(calls') = rest
  BY <1>1, <1>2
<1>4. CurrentTop(f)'
  BY SameCalls
<1>5. CurrentBelow(f, rest)'
  BY <1>1, <1>2 DEF CurrentBelow, AwaitedCut, Awaited
<1>6. CurrentCalls'
  BY <1>3, <1>4, <1>5 DEF CurrentCalls
<1>7. ~Delivers(Head(calls))
  BY DEF Delivers
<1>8. LiveOrTold'
  BY <1>1, <1>7 DEF LiveOrTold
<1> QED
  BY <1>6, <1>8 DEF CurrentInv

(* What is left when the top call returns is in order.                     *)
LEMMA BelowRises ==
    ASSUME NEW top, NEW rest \in Seq(GoodFrames), rest # <<>>, CurrentBelow(top, rest)
    PROVE  CurrentTop(Head(rest)) /\ CurrentBelow(Head(rest), Tail(rest))
<1>1. /\ Len(rest) \in Nat \ {0}
      /\ Head(rest) = rest[1] /\ Len(Tail(rest)) = Len(rest) - 1
      /\ \A i \in 1..Len(Tail(rest)) : /\ Tail(rest)[i] = rest[i + 1]
                                       /\ i + 1 \in 1..Len(rest) /\ i + 1 # 1
  OBVIOUS
<1>2. \A i \in 1..Len(rest) :
         /\ Waits(rest[i])
         /\ AwaitedCut(rest[i]) => i = 1 /\ Reports(rest[i], Calendars \ rest[i].todo)
  BY DEF CurrentBelow
<1>3. PICK head, below : head = Head(rest) /\ below = Tail(rest)
  OBVIOUS
<1>4. Waits(head) /\ (AwaitedCut(head) => Reports(head, Calendars \ head.todo))
  <2>1. 1 \in 1..Len(rest)
    BY <1>1
  <2> QED
    BY <1>1, <1>2, <1>3, <2>1
<1>5. CurrentTop(head)
  <2>1. ~AwaitedResponse(head) /\ ~Delivers(head)
    BY <1>4 DEF Waits, AwaitedResponse
  <2> QED
    BY <1>4, <2>1 DEF CurrentTop
<1>6. \A i \in 1..Len(below) : Waits(below[i]) /\ ~AwaitedCut(below[i])
  BY <1>1, <1>2, <1>3
<1>7. CurrentBelow(head, below)
  BY <1>6 DEF CurrentBelow
<1> QED
  BY <1>3, <1>5, <1>7

(* The top call returns.                                                   *)
LEMMA Popped ==
    ASSUME MarksInv, CurrentInv, calls # <<>>, ~Delivers(Head(calls)),
           UNCHANGED <<consumer, published>>, calls' = Tail(calls)
    PROVE  CurrentInv'
<1>1. /\ Tail(calls) \in Seq(GoodFrames)
      /\ CurrentBelow(Head(calls), Tail(calls)) /\ LiveOrTold
  BY Parts, CurrentParts
<1>2. PICK rest, top : rest = Tail(calls) /\ top = Head(calls)
  OBVIOUS
<1>3. LiveOrTold'
  BY <1>1 DEF LiveOrTold
<1>4. CurrentCalls'
  <2> SUFFICES ASSUME calls' # <<>>
               PROVE  CurrentTop(Head(rest))' /\ CurrentBelow(Head(rest), Tail(rest))'
    BY <1>2 DEF CurrentCalls
  <2>1. rest \in Seq(GoodFrames) /\ rest # <<>> /\ CurrentBelow(top, rest)
    BY <1>1, <1>2
  <2>2. PICK head, below : head = Head(rest) /\ below = Tail(rest)
    OBVIOUS
  <2>3. CurrentTop(head) /\ CurrentBelow(head, below)
    BY <2>1, <2>2, BelowRises
  <2>4. CurrentTop(head)' /\ CurrentBelow(head, below)'
    BY <2>3, SameCalls
  <2> QED
    BY <2>2, <2>4
<1> QED
  BY <1>3, <1>4 DEF CurrentInv

(* A transition is published on top of the call that goes on after it, to  *)
(* every consumer that is live.                                            *)
LEMMA Published ==
    ASSUME MarksInv, CurrentInv, calls # <<>>, Head(calls).op # "transition",
           UNCHANGED consumer, NEW c \in Calendars, NEW state,
           published' = [published EXCEPT ![c] = Append(@, state)],
           NEW f, Waits(f), AwaitedCut(f) => Reports(f, Calendars \ f.todo)',
           calls' = <<Transition(c, Len(published[c]) + 1), f>> \o Tail(calls)
    PROVE  CurrentInv'
<1>1. /\ Tail(calls) \in Seq(GoodFrames)
      /\ CurrentBelow(Head(calls), Tail(calls)) /\ LiveOrTold
      /\ published \in [Calendars -> Seq(1..MaxBoundary)]
  BY Parts, CurrentParts
<1>2. PICK rest : rest = Tail(calls)
  OBVIOUS
<1>3. PICK told : told = Transition(c, Len(published[c]) + 1)
  OBVIOUS
<1>4. /\ told.op = "transition" /\ told.calendar = c /\ told.to = Subscribers
      /\ told.revision = Len(published[c]) + 1
  BY <1>3 DEF Transition
<1>5. /\ calls' # <<>> /\ Head(calls') = told /\ Tail(calls') = <<f>> \o rest
      /\ Len(<<f>> \o rest) = Len(rest) + 1 /\ Len(rest) \in Nat
      /\ (<<f>> \o rest)[1] = f
      /\ \A i \in 2..Len(<<f>> \o rest) : /\ (<<f>> \o rest)[i] = rest[i - 1]
                                          /\ i - 1 \in 1..Len(rest)
  BY <1>1, <1>2, <1>3
<1>6. CurrentTop(told)'
  <2>1. Len(published'[c]) = Len(published[c]) + 1
    BY <1>1
  <2> QED
    BY <1>4, <2>1 DEF CurrentTop, AwaitedCut, AwaitedResponse
<1>7. CurrentBelow(told, <<f>> \o rest)'
  <2>1. \A i \in 1..Len(rest) : Waits(rest[i]) /\ ~AwaitedCut(rest[i])
    BY <1>1, <1>2 DEF CurrentBelow
  <2>2. \A i \in 2..Len(<<f>> \o rest) :
            Waits((<<f>> \o rest)[i]) /\ ~AwaitedCut((<<f>> \o rest)[i])
    BY <1>5, <2>1
  <2>3. PICK below : below = <<f>> \o rest
    OBVIOUS
  <2>4. /\ \A i \in 2..Len(below) : Waits(below[i]) /\ ~AwaitedCut(below[i])
        /\ below[1] = f /\ Len(below) \in Nat
    BY <1>5, <2>2, <2>3
  <2>5. ASSUME NEW i \in 1..Len(below)
        PROVE  /\ Waits(below[i])
               /\ AwaitedCut(below[i])' => /\ i = 1 /\ told.op = "transition"
                                           /\ Reports(below[i], Calendars \ below[i].todo)'
    <3>1. AwaitedCut(below[i])' => AwaitedCut(below[i])
      BY DEF AwaitedCut, Awaited
    <3>2. CASE i = 1
      BY <1>4, <2>4, <3>1, <3>2
    <3>3. CASE i # 1
      <4>1. i \in 2..Len(below)
        BY <2>4, <3>3
      <4> QED
        BY <2>4, <3>1, <4>1
    <3> QED
      BY <3>2, <3>3
  <2> QED
    BY <2>3, <2>5 DEF CurrentBelow
<1>8. CurrentCalls'
  BY <1>2, <1>5, <1>6, <1>7 DEF CurrentCalls
<1>9. LiveOrTold'
  <2>1. ASSUME NEW n \in Consumers, consumer[n].phase = "LIVE"
        PROVE  Delivers(Head(calls'))
    <3>1. n \in Subscribers
      BY <2>1 DEF Subscribers
    <3> QED
      BY <1>4, <1>5, <3>1 DEF Delivers
  <2> QED
    BY <1>1, <1>5, <2>1 DEF LiveOrTold
<1> QED
  BY <1>8, <1>9 DEF CurrentInv

(* Both ways of _update_calendar_state, under a call that goes on.         *)
LEMMA Updated ==
    ASSUME MarksInv, CurrentInv, calls # <<>>, Head(calls).op # "transition",
           UNCHANGED consumer, NEW c \in Calendars, NEW state, NEW f,
           f \in GoodFrames', f.op \in {"evaluate", "cut"},
           UpdateCalendarState(c, state, f),
           AwaitedCut(f) => Reports(f, Calendars \ f.todo)'
    PROVE  CurrentInv'
<1>1. Waits(f) /\ ~AwaitedResponse(f)
  BY DEF Waits, Delivers, AwaitedResponse
<1>2. CASE Differs(c, state)
  <2>1. /\ published' = [published EXCEPT ![c] = Append(@, state)]
        /\ calls' = <<Transition(c, Len(published[c]) + 1), f>> \o Tail(calls)
    BY <1>2 DEF UpdateCalendarState, Return
  <2> QED
    BY <1>1, <2>1, Published
<1>3. CASE ~Differs(c, state)
  <2>1. calls' = <<f>> \o Tail(calls) /\ UNCHANGED published
    BY <1>3 DEF UpdateCalendarState, Return
  <2>2. Reports(f, Calendars \ f.todo)' => Reports(f, Calendars \ f.todo)
    BY <2>1 DEF Reports
  <2>3. CurrentTop(f)
    BY <1>1, <2>2 DEF CurrentTop, Waits
  <2> QED
    BY <2>1, <2>3, Replaced
<1> QED
  BY <1>2, <1>3

(* A call that is awaited was awaited before.                              *)
LEMMA AwaitedBefore ==
    ASSUME MarksInv, NEW n, Consumers = {n}, NEW t, t \in Delivery,
           Advances(consumer[n], t), consumer'[n] = t,
           NEW f, f \in GoodFrames, AwaitedCut(f)' \/ AwaitedResponse(f)'
    PROVE  /\ AwaitedCut(f)' => AwaitedCut(f)
           /\ AwaitedResponse(f)' => AwaitedResponse(f)
           /\ t.generation = consumer[n].generation /\ t.attempt = consumer[n].attempt
<1>1. PICK s : s = consumer[n]
  OBVIOUS
<1>2. /\ s \in Delivery /\ s.generation \in Nat /\ s.attempt \in Nat
      /\ t.generation \in Nat /\ t.attempt \in Nat
  BY <1>1, Parts, Fields
<1>3. ASSUME NEW q, q.from = n, q.generation \in Nat, q.attempt \in Nat,
             NotAhead(q), Awaited(q)'
      PROVE  Awaited(q) /\ t.generation = s.generation /\ t.attempt = s.attempt
  BY <1>1, <1>2, <1>3 DEF NotAhead, Awaited, Advances
<1>4. f \in Frames /\ GoodFrame(f)
  BY DEF GoodFrames
<1>5. CASE AwaitedCut(f)'
  <2>1. PICK q : q = f.request
    OBVIOUS
  <2>2. f.op = "cut" /\ Awaited(q)'
    BY <1>5, <2>1 DEF AwaitedCut
  <2>3. q.from = n /\ q.generation \in Nat /\ q.attempt \in Nat /\ NotAhead(q)
    BY <1>4, <2>1, <2>2, FrameKinds DEF GoodFrame, SnapshotCuts, Requests
  <2>4. Awaited(q) /\ t.generation = s.generation /\ t.attempt = s.attempt
    BY <1>3, <2>2, <2>3
  <2> QED
    BY <1>1, <2>1, <2>2, <2>4 DEF AwaitedCut, AwaitedResponse
<1>6. CASE AwaitedResponse(f)'
  <2>1. f.op = "response" /\ Awaited(f)'
    BY <1>6 DEF AwaitedResponse
  <2>2. f.from = n /\ f.generation \in Nat /\ f.attempt \in Nat /\ NotAhead(f)
    BY <1>4, <2>1, FrameKinds DEF GoodFrame, Responses
  <2>3. Awaited(f) /\ t.generation = s.generation /\ t.attempt = s.attempt
    BY <1>3, <2>1, <2>2
  <2> QED
    BY <1>1, <2>1, <2>3 DEF AwaitedCut, AwaitedResponse
<1> QED
  BY <1>5, <1>6

(* A consumer becomes t, with or without a request, above calls that wait. *)
LEMMA BecomesKeeps ==
    ASSUME MarksInv, NEW n, Consumers = {n}, NEW t, t \in Delivery,
           Advances(consumer[n], t),
           t.phase = "LIVE" => /\ t.buffer = {}
                               /\ \A c \in Calendars : /\ t.mark[c] # 0
                                                       /\ t.mark[c] = Len(published[c]),
           NEW rest \in Seq(GoodFrames), \A i \in 1..Len(rest) : Waits(rest[i]),
           rest # <<>> => CurrentTop(Head(rest)) /\ CurrentBelow(Head(rest), Tail(rest)),
           Becomes(n, t, rest), UNCHANGED published
    PROVE  CurrentInv'
<1>1. /\ consumer' = [consumer EXCEPT ![n] = t] /\ consumer'[n] = t
      /\ consumer[n] \in Delivery
  BY Parts DEF Becomes
<1>2. LiveOrTold'
  BY <1>1 DEF LiveOrTold
<1>3. ASSUME NEW f, f \in GoodFrames
      PROVE  /\ AwaitedCut(f)' => AwaitedCut(f)
             /\ AwaitedResponse(f)' => AwaitedResponse(f)
             /\ AwaitedCut(f)' => /\ t.generation = consumer[n].generation
                                  /\ t.attempt = consumer[n].attempt
                                  /\ t.phase = "WAITING"
  <2>1. AwaitedCut(f)' => t.phase = "WAITING"
    <3>1. PICK q : q = f.request
      OBVIOUS
    <3>2. AwaitedCut(f)' => /\ f \in SnapshotCuts /\ consumer'[q.from].phase = "WAITING"
      BY <1>3, <3>1, FrameKinds DEF AwaitedCut, Awaited, GoodFrames
    <3> QED
      BY <1>1, <3>1, <3>2 DEF SnapshotCuts, Requests
  <2> QED
    BY <1>1, <1>3, <2>1, AwaitedBefore
<1>4. CASE calls' = <<>> \o rest
  <2>1. calls' = rest
    BY <1>4
  <2> SUFFICES ASSUME rest # <<>>
               PROVE  CurrentTop(Head(rest))' /\ CurrentBelow(Head(rest), Tail(rest))'
    BY <1>2, <2>1 DEF CurrentInv, CurrentCalls
  <2>2. PICK top, below : top = Head(rest) /\ below = Tail(rest)
    OBVIOUS
  <2>3. /\ top \in GoodFrames /\ below \in Seq(GoodFrames)
        /\ \A i \in 1..Len(below) : below[i] \in GoodFrames
        /\ CurrentTop(top) /\ CurrentBelow(top, below)
    BY <2>2
  <2>4. CurrentTop(top)'
    BY <1>3, <2>3 DEF CurrentTop, Reports
  <2>5. CurrentBelow(top, below)'
    BY <1>3, <2>3 DEF CurrentBelow, Reports
  <2> QED
    BY <2>2, <2>4, <2>5
<1>5. CASE /\ t.phase = "WAITING" /\ calls' = <<Request(n, t)>> \o rest
           /\ t.generation # consumer[n].generation \/ t.attempt # consumer[n].attempt
  <2>1. PICK q : q = Request(n, t)
    OBVIOUS
  <2>2. calls' # <<>> /\ Head(calls') = q /\ Tail(calls') = rest
    BY <1>5, <2>1
  <2>3. q.op = "request"
    BY <2>1 DEF Request
  <2>4. CurrentTop(q)'
    BY <2>3 DEF CurrentTop, Delivers, AwaitedCut, AwaitedResponse
  <2>5. \A i \in 1..Len(rest) : rest[i] \in GoodFrames
    OBVIOUS
  <2>6. CurrentBelow(q, rest)'
    BY <1>3, <1>5, <2>5 DEF CurrentBelow
  <2> QED
    BY <1>2, <2>2, <2>4, <2>6 DEF CurrentInv, CurrentCalls
<1> QED
  BY <1>4, <1>5 DEF Becomes

(* Evaluations.                                                            *)
LEMMA EvaluateKeeps ==
    ASSUME MarksInv, MarksInv', CurrentInv, OnEvaluate
    PROVE  CurrentInv'
<1>1. PICK frame : frame = Head(calls)
  OBVIOUS
<1>2. /\ calls # <<>> /\ frame.op = "evaluate" /\ UNCHANGED consumer
      /\ frame \in Evaluations
  BY <1>1, Parts, FrameKinds DEF OnEvaluate, Handles
<1>3. ASSUME NEW c, NEW f, f = [frame EXCEPT !.todo = @ \ {c}]
      PROVE  f.op = "evaluate" /\ f \in GoodFrames' /\ CurrentTop(f)
  <2>1. f \in Evaluations /\ f.op = "evaluate"
    BY <1>2, <1>3 DEF Evaluations
  <2>2. f \in GoodFrames'
    BY <2>1 DEF GoodFrames, GoodFrame, Frames
  <2> QED
    BY <2>1, <2>2 DEF CurrentTop, Delivers, AwaitedCut, AwaitedResponse
<1>4. CASE Return(<<>>) /\ UNCHANGED published
  <2>1. calls' = Tail(calls)
    BY <1>2, <1>4, Parts DEF Return
  <2>2. ~Delivers(Head(calls))
    BY <1>1, <1>2 DEF Delivers
  <2> QED
    BY <1>2, <1>4, <2>1, <2>2, Popped
<1>5. ASSUME NEW c, NEW f, f = [frame EXCEPT !.todo = @ \ {c}],
             Return(<<f>>) /\ UNCHANGED published
      PROVE  CurrentInv'
  BY <1>1, <1>2, <1>3, <1>5, Replaced DEF Return
<1>6. ASSUME NEW c \in frame.todo, NEW f, f = [frame EXCEPT !.todo = @ \ {c}],
             UpdateCalendarState(c, frame.cut[c], f)
      PROVE  CurrentInv'
  <2>1. c \in Calendars
    BY <1>2, <1>6 DEF Evaluations
  <2>2. f.op = "evaluate" /\ f \in GoodFrames'
    BY <1>3, <1>6
  <2>3. ~AwaitedCut(f)
    BY <2>2 DEF AwaitedCut
  <2> QED
    BY <1>1, <1>2, <1>6, <2>1, <2>2, <2>3, Updated
<1> QED
  BY <1>1, <1>4, <1>5, <1>6 DEF OnEvaluate

(* Requests: a refusal reports nothing, a cut has reported nothing yet.    *)
LEMMA RequestKeeps ==
    ASSUME MarksInv, MarksInv', CurrentInv, OnRequest
    PROVE  CurrentInv'
<1>1. PICK q : q = Head(calls)
  OBVIOUS
<1>2. /\ calls # <<>> /\ q.op = "request" /\ UNCHANGED <<consumer, published>>
  BY <1>1 DEF OnRequest, Handles
<1>3. ASSUME NEW f, CurrentTop(f), Return(<<f>>)
      PROVE  CurrentInv'
  <2>1. calls' = <<f>> \o Tail(calls) /\ Tail(calls) \in Seq(GoodFrames)
    BY <1>2, <1>3, Parts DEF Return
  <2>2. calls' \in Seq(GoodFrames')
    BY DEF MarksInv
  <2>3. f \in GoodFrames'
    BY <2>1, <2>2
  <2> QED
    BY <1>1, <1>2, <1>3, <2>1, <2>3, Replaced
<1>4. CASE Return(<<>>)
  <2>1. calls' = Tail(calls)
    BY <1>2, <1>4, Parts DEF Return
  <2>2. ~Delivers(Head(calls))
    BY <1>1, <1>2 DEF Delivers
  <2> QED
    BY <1>2, <2>1, <2>2, Popped
<1>5. \A code : CurrentTop(Refusal(q, code))
  <2>1. Calendars # {}
    BY DeliveryAssumption
  <2> QED
    BY <2>1 DEF CurrentTop, Refusal, Response, Delivers, AwaitedCut, AwaitedResponse, Reports
<1>6. CurrentTop(Cut(q))
  BY DEF CurrentTop, Cut, Delivers, AwaitedCut, AwaitedResponse, Reports
<1>7. Return(<<>>) \/ Return(<<Cut(q)>>) \/ \E code : Return(<<Refusal(q, code)>>)
  BY <1>1 DEF OnRequest
<1> QED
  BY <1>3, <1>4, <1>5, <1>6, <1>7

(* Cuts: the revision found or published here is the last of the calendar. *)
LEMMA CutKeeps ==
    ASSUME MarksInv, MarksInv', CurrentInv, OnCut, NEW c, Calendars = {c}
    PROVE  CurrentInv'
<1>1. PICK frame : frame = Head(calls)
  OBVIOUS
<1>2. /\ calls # <<>> /\ frame.op = "cut" /\ UNCHANGED consumer
      /\ frame \in SnapshotCuts /\ CurrentTop(frame) /\ c \in Calendars
      /\ Tail(calls) \in Seq(GoodFrames) /\ Head(calls).op # "transition"
  BY <1>1, Parts, CurrentParts, FrameKinds DEF OnCut, Handles
<1>3. calls' \in Seq(GoodFrames')
  BY DEF MarksInv
<1>4. ASSUME NEW f, CurrentTop(f), Return(<<f>>), UNCHANGED published
      PROVE  CurrentInv'
  <2>1. calls' = <<f>> \o Tail(calls)
    BY <1>4 DEF Return
  <2>2. f \in GoodFrames'
    BY <1>2, <1>3, <2>1
  <2> QED
    BY <1>2, <1>4, <2>1, <2>2, Replaced
<1>5. ASSUME NEW rest, rest = [frame EXCEPT !.todo = @ \ {c}],
             Return(<<[rest EXCEPT !.failed = @ \cup {c}]>>), UNCHANGED published
      PROVE  CurrentInv'
  <2>1. PICK f : f = [rest EXCEPT !.failed = @ \cup {c}]
    OBVIOUS
  <2>2. f.op = "cut" /\ f.failed # {}
    BY <1>2, <1>5, <2>1 DEF SnapshotCuts
  <2>3. CurrentTop(f)
    BY <2>2 DEF CurrentTop, Delivers, AwaitedResponse, Reports
  <2> QED
    BY <1>4, <1>5, <2>1, <2>3
<1>6. ASSUME NEW state, state = frame.cut[c],
             NEW rest, rest = [frame EXCEPT !.todo = @ \ {c}],
             UpdateCalendarState(c, state, [rest EXCEPT !.revision[c] = RevisionAfter(c, state)])
      PROVE  CurrentInv'
  <2>1. PICK f : f = [rest EXCEPT !.revision[c] = RevisionAfter(c, state)]
    OBVIOUS
  <2>2. /\ f.op = "cut" /\ f.revision[c] = RevisionAfter(c, state)
    BY <1>2, <1>6, <2>1 DEF SnapshotCuts, Revisions
  <2>3. state \in 1..MaxBoundary
    BY <1>2, <1>6 DEF SnapshotCuts, Cuts
  <2>4. Len(published'[c]) = RevisionAfter(c, state)
    BY <1>2, <1>6, <2>1, <2>3, UpdatePublishes
  <2>5. RevisionAfter(c, state) # 0
    <3>1. published[c] \in Seq(1..MaxBoundary) /\ Len(published[c]) \in Nat
      BY <1>2, Parts
    <3>2. CASE Differs(c, state)
      BY <3>1, <3>2 DEF RevisionAfter
    <3>3. CASE ~Differs(c, state)
      <4>1. Latest(c) = state /\ state # 0
        BY <2>3, <3>3 DEF Differs
      <4>2. published[c] # <<>>
        BY <4>1 DEF Latest
      <4>3. Len(published[c]) # 0
        BY <3>1, <4>2
      <4> QED
        BY <3>1, <3>3, <4>3 DEF RevisionAfter
    <3> QED
      BY <3>2, <3>3
  <2>6. Reports(f, Calendars \ f.todo)'
    BY <2>2, <2>4, <2>5 DEF Reports
  <2>7. f \in GoodFrames'
    <3>1. \/ calls' = <<f>> \o Tail(calls)
          \/ \E told : calls' = <<told, f>> \o Tail(calls)
      BY <1>6, <2>1 DEF UpdateCalendarState, Return
    <3>2. PICK tail : tail = Tail(calls)
      OBVIOUS
    <3>3. /\ Len(tail) \in Nat
          /\ (<<f>> \o tail)[1] = f /\ 1 \in 1..Len(<<f>> \o tail)
          /\ \A told : /\ (<<told, f>> \o tail)[2] = f
                      /\ 2 \in 1..Len(<<told, f>> \o tail)
      BY <1>2, <3>2
    <3>4. \A i \in 1..Len(calls') : calls'[i] \in GoodFrames'
      BY <1>3
    <3> QED
      BY <3>1, <3>2, <3>3, <3>4
  <2> QED
    BY <1>2, <1>6, <2>1, <2>2, <2>6, <2>7, Updated
<1>7. ASSUME frame.todo = {}, UNCHANGED published,
             \/ Return(<<Refusal(frame.request, "request_deadline_expired")>>)
             \/ Return(<<Response(frame.request, frame.failed,
                                  "current_state_evaluation_failed", frame.revision)>>)
      PROVE  CurrentInv'
  <2>1. CurrentTop(Refusal(frame.request, "request_deadline_expired"))
    <3>1. Calendars # {}
      BY DeliveryAssumption
    <3> QED
      BY <3>1 DEF CurrentTop, Refusal, Response, Delivers, AwaitedCut, AwaitedResponse, Reports
  <2>2. PICK f : f = Response(frame.request, frame.failed,
                              "current_state_evaluation_failed", frame.revision)
    OBVIOUS
  <2>3. /\ f.op = "response" /\ f.from = frame.request.from
        /\ f.generation = frame.request.generation /\ f.attempt = frame.request.attempt
        /\ f.failed = frame.failed /\ f.revision = frame.revision
    BY <2>2 DEF Response
  <2>4. AwaitedResponse(f) => AwaitedCut(frame)
    BY <1>2, <2>3 DEF AwaitedResponse, AwaitedCut, Awaited
  <2>5. AwaitedCut(frame) => Reports(frame, Calendars)
    <3>1. Calendars \ frame.todo = Calendars
      BY <1>7
    <3> QED
      BY <1>2, <3>1 DEF CurrentTop
  <2>6. CurrentTop(f)
    BY <2>3, <2>4, <2>5 DEF CurrentTop, Delivers, AwaitedCut, Reports
  <2> QED
    BY <1>4, <1>7, <2>1, <2>2, <2>6
<1>8. \A d \in frame.todo : d = c
  BY <1>2 DEF SnapshotCuts
<1> QED
  BY <1>1, <1>5, <1>6, <1>7, <1>8 DEF OnCut

(* The response a consumer waits for, or one it does not.                  *)
LEMMA ResponseKeeps ==
    ASSUME MarksInv, MarksInv', CurrentInv, OnResponse,
           NEW n, Consumers = {n}, NEW c, Calendars = {c}
    PROVE  CurrentInv'
<1>1. PICK response : response = Head(calls)
  OBVIOUS
<1>2. /\ calls # <<>> /\ response.op = "response" /\ response \in Responses
      /\ response.from = n /\ response.failed \in SUBSET Calendars
      /\ response.code \in Codes /\ response.revision \in [Calendars -> Nat]
      /\ UNCHANGED <<producer, wall, published, cycles>>
      /\ n \in Consumers /\ c \in Calendars
  BY <1>1, Parts, FrameKinds DEF OnResponse, Handles, Responses, Revisions
<1>3. /\ Tail(calls) \in Seq(GoodFrames) /\ CurrentTop(response)
      /\ CurrentBelow(response, Tail(calls)) /\ GoodFrame(response)
  BY <1>1, <1>2, Parts, CurrentParts
<1>4. CASE Return(<<>>) /\ UNCHANGED consumer
  <2>1. calls' = Tail(calls)
    BY <1>2, <1>3, <1>4 DEF Return
  <2>2. ~Delivers(Head(calls))
    BY <1>1, <1>2 DEF Delivers
  <2> QED
    BY <1>2, <1>4, <2>1, <2>2, Popped
<1>5. PICK s, t : s = consumer[n] /\ t = ObserveSnapshot(s, response)
  OBVIOUS
<1>6. PICK retryable \in BOOLEAN :
         retryable = (response.failed = {} \/ response.code = "source_not_ready")
  OBVIOUS
<1>7. PICK u : u = IF t.phase = "LIVE" THEN WithBoundaryAlert(t)
                   ELSE ScheduleRetry(t, t.code, retryable)
  OBVIOUS
<1>8. CASE Answers(s, response) /\ Becomes(n, u, Tail(calls))
  <2>1. Sound(s, Lengths) /\ s \in Delivery /\ Lengths \in [Calendars -> Nat]
    BY <1>2, <1>5, Parts
  <2>2. AwaitedResponse(response)
    BY <1>2, <1>5, <1>8 DEF AwaitedResponse, Awaited, Answers
  <2>3. response.failed = {} => response.revision[c] = Lengths[c] /\ Lengths[c] # 0
    BY <1>2, <1>3, <2>2, Parts DEF CurrentTop, Reports
  <2>4. response.failed = {} => \A d \in Calendars :
            response.revision[d] <= Lengths[d] /\ response.revision[d] >= s.mark[d]
    BY <1>2, <1>3, <1>5, <2>2, Parts DEF GoodFrame, Installable, AwaitedResponse
  <2>5. Sound(t, Lengths) /\ Advances(s, t) /\ t \in Delivery
    BY <1>2, <1>5, <1>8, <2>1, <2>4, ObserveSnapshotSound DEF Sound
  <2>6. Sound(u, Lengths) /\ Advances(t, u) /\ u.mark = t.mark
    <3>1. t.code \in Codes
      BY <2>5, Fields
    <3> QED
      BY <1>7, <2>1, <2>5, <3>1, BoundaryAlertSound, ScheduleRetrySound
  <2>7. u \in Delivery /\ Advances(consumer[n], u)
    BY <1>5, <2>1, <2>5, <2>6, AdvancesTransitive DEF Sound
  <2>8. u.phase = "LIVE" => t.phase = "LIVE" /\ u.buffer = t.buffer
    <3>1. CASE t.phase = "LIVE"
      BY <1>7, <2>5, <3>1 DEF WithBoundaryAlert, Delivery
    <3>2. CASE t.phase # "LIVE"
      BY <1>7, <2>5, <3>2, NotLive
    <3> QED
      BY <3>1, <3>2
  <2>9. t.phase = "LIVE" => t.buffer = {} /\ t.mark[c] = Lengths[c] /\ Lengths[c] # 0
    <3> SUFFICES ASSUME t.phase = "LIVE"
                 PROVE  t.buffer = {} /\ t.mark[c] = Lengths[c] /\ Lengths[c] # 0
      OBVIOUS
    <3>1. PICK limit : limit = Lengths
      OBVIOUS
    <3>2. /\ limit \in [Calendars -> Nat] /\ Sound(s, limit) /\ Calendars = {c}
          /\ Answers(s, response) /\ response.revision \in [Calendars -> Nat]
          /\ response.failed = {} => response.revision[c] = limit[c] /\ limit[c] # 0
          /\ t = ObserveSnapshot(s, response) /\ t.phase = "LIVE"
      BY <1>2, <1>5, <1>8, <2>1, <2>3, <3>1
    <3>3. t.buffer = {} /\ t.mark[c] = limit[c] /\ limit[c] # 0
      BY ONLY <3>2, SnapshotReaches
    <3> QED
      BY <3>1, <3>3
  <2>10. u.phase = "LIVE" => /\ u.buffer = {}
                             /\ \A d \in Calendars : /\ u.mark[d] # 0
                                                     /\ u.mark[d] = Len(published[d])
    BY <2>6, <2>8, <2>9, Parts
  <2>11. PICK rest : rest = Tail(calls)
    OBVIOUS
  <2>12. /\ rest \in Seq(GoodFrames) /\ CurrentBelow(response, rest)
         /\ \A i \in 1..Len(rest) : Waits(rest[i])
    BY <1>3, <2>11 DEF CurrentBelow
  <2>13. rest # <<>> => CurrentTop(Head(rest)) /\ CurrentBelow(Head(rest), Tail(rest))
    BY <2>12, BelowRises
  <2>14. Becomes(n, u, rest)
    BY <1>8, <2>11
  <2> QED
    BY <1>2, <2>7, <2>10, <2>12, <2>13, <2>14, BecomesKeeps
<1> QED
  BY <1>1, <1>2, <1>4, <1>5, <1>6, <1>7, <1>8 DEF OnResponse

(* A transition: it is the last, and its consumer either reaches it or     *)
(* starts a new cycle.                                                     *)
LEMMA TransitionKeeps ==
    ASSUME MarksInv, MarksInv', CurrentInv, OnTransition,
           NEW n, Consumers = {n}, NEW c, Calendars = {c}
    PROVE  CurrentInv'
<1>1. PICK frame : frame = Head(calls)
  OBVIOUS
<1>2. /\ calls # <<>> /\ frame.op = "transition" /\ frame \in Transitions
      /\ frame.calendar = c /\ frame.revision \in Nat \ {0}
      /\ frame.to \in SUBSET Consumers
      /\ UNCHANGED <<producer, wall, published, cycles>>
      /\ n \in Consumers /\ c \in Calendars
  BY <1>1, Parts, FrameKinds DEF OnTransition, Handles, Transitions
<1>3. /\ Tail(calls) \in Seq(GoodFrames) /\ CurrentTop(frame)
      /\ CurrentBelow(frame, Tail(calls)) /\ LiveOrTold
  BY <1>1, <1>2, Parts, CurrentParts
<1>4. CASE frame.to = {} /\ Return(<<>>) /\ UNCHANGED consumer
  <2>1. calls' = Tail(calls)
    BY <1>2, <1>3, <1>4 DEF Return
  <2>2. ~Delivers(Head(calls))
    BY <1>1, <1>4 DEF Delivers
  <2> QED
    BY <1>2, <1>4, <2>1, <2>2, Popped
<1>5. PICK s, t : s = consumer[n]
                  /\ t = ObserveTransition(consumer[n], frame.calendar, frame.revision)
  OBVIOUS
<1>6. PICK u : u = IF t.phase = "LIVE" /\ t.mark # s.mark
                   THEN WithBoundaryAlert(t) ELSE Resynchronize(t)
  OBVIOUS
<1>7. PICK done : done = [frame EXCEPT !.to = @ \ {n}]
  OBVIOUS
<1>8. PICK rest : rest = Tail(calls)
  OBVIOUS
<1>9. CASE n \in frame.to /\ Becomes(n, u, <<done>> \o rest)
  <2>1. PICK limit : limit = Lengths
    OBVIOUS
  <2>2. /\ Sound(s, limit) /\ s \in Delivery /\ limit \in [Calendars -> Nat]
        /\ limit[c] = Len(published[c])
    BY <1>2, <1>5, <2>1, Parts
  <2>3. frame.revision = limit[c] /\ limit[c] # 0
    BY <1>2, <1>3, <1>9, <2>2 DEF CurrentTop, Delivers
  <2>4. t = ObserveTransition(s, c, limit[c])
    BY <1>2, <1>5, <2>3
  <2>5. Sound(t, limit) /\ Advances(s, t) /\ t \in Delivery
    <3>1. PICK r : r = limit[c]
      OBVIOUS
    <3>2. r \in Nat \ {0} /\ r <= limit[c]
      BY <1>2, <2>2, <2>3, <3>1
    <3>3. t = ObserveTransition(s, c, r)
      BY <2>4, <3>1
    <3>4. Sound(t, limit) /\ Advances(s, t)
      BY <1>2, <2>2, <3>2, <3>3, ObserveTransitionSound
    <3> QED
      BY <3>4 DEF Sound
  <2>6. Sound(u, limit) /\ Advances(t, u)
    BY <1>6, <2>2, <2>5, BoundaryAlertSound, ResynchronizeSound
  <2>7. u \in Delivery /\ Advances(consumer[n], u)
    BY <1>5, <2>2, <2>5, <2>6, AdvancesTransitive DEF Sound
  <2>8. s.phase = "LIVE" => s.buffer = {} /\ s.mark[c] # 0
    BY <1>2, <1>3, <1>5 DEF LiveOrTold
  <2>9. u.phase = "LIVE" => u.buffer = {} /\ u.mark[c] = limit[c]
    <3> SUFFICES ASSUME u.phase = "LIVE"
                 PROVE  u.buffer = {} /\ u.mark[c] = limit[c]
      OBVIOUS
    <3>1. Calendars = {c} /\ u.phase = "LIVE" /\ limit[c] # 0 /\ Sound(s, limit)
          /\ limit \in [Calendars -> Nat]
      BY <2>2, <2>3
    <3>2. (t.phase = "LIVE" /\ u = WithBoundaryAlert(t)) \/ u = Resynchronize(t)
      BY <1>6
    <3> QED
      BY ONLY <2>4, <2>8, <3>1, <3>2, TransitionReaches
  <2>10. u.phase = "LIVE" => /\ u.buffer = {}
                             /\ \A d \in Calendars : /\ u.mark[d] # 0
                                                     /\ u.mark[d] = Len(published[d])
    BY <2>2, <2>3, <2>9
  <2>11. /\ done \in Transitions /\ done.op = "transition" /\ done.to = {}
         /\ done.calendar = c /\ done.revision = frame.revision
    <3>1. frame.to \ {n} = {}
      BY <1>2
    <3> QED
      BY <1>2, <1>7, <3>1 DEF Transitions
  <2>12. done \in GoodFrames
    <3>1. done.revision <= Len(published[done.calendar])
      BY <2>2, <2>3, <2>11
    <3> QED
      BY <2>11, <3>1 DEF GoodFrames, GoodFrame, Frames
  <2>13. CurrentTop(done)
    BY <2>11 DEF CurrentTop, Delivers, AwaitedCut, AwaitedResponse
  <2>14. CurrentBelow(done, rest) /\ \A i \in 1..Len(rest) : Waits(rest[i])
    BY <1>2, <1>3, <1>8, <2>11 DEF CurrentBelow
  <2>15. Waits(done)
    BY <2>11 DEF Waits, Delivers
  <2>16. PICK stack : stack = <<done>> \o rest
    OBVIOUS
  <2>17. /\ stack \in Seq(GoodFrames) /\ Head(stack) = done /\ Tail(stack) = rest
         /\ \A i \in 1..Len(stack) : stack[i] = done \/ \E j \in 1..Len(rest) : stack[i] = rest[j]
    <3>1. /\ rest \in Seq(GoodFrames) /\ Len(rest) \in Nat
      BY <1>3, <1>8
    <3>2. /\ stack \in Seq(GoodFrames) /\ Len(stack) = Len(rest) + 1 /\ stack[1] = done
          /\ Head(stack) = done /\ Tail(stack) = rest
      BY <2>12, <2>16, <3>1
    <3>3. \A i \in 2..Len(stack) : stack[i] = rest[i - 1] /\ i - 1 \in 1..Len(rest)
      BY <2>16, <3>1, <3>2
    <3>4. \A i \in 1..Len(stack) : i = 1 \/ i \in 2..Len(stack)
      BY <3>1, <3>2
    <3> QED
      BY <3>2, <3>3, <3>4
  <2>18. \A i \in 1..Len(stack) : Waits(stack[i])
    BY <2>14, <2>15, <2>17
  <2>19. Becomes(n, u, stack)
    BY <1>9, <2>16
  <2>20. CurrentTop(Head(stack)) /\ CurrentBelow(Head(stack), Tail(stack))
    BY <2>13, <2>14, <2>17
  <2> QED
    BY <1>2, <2>7, <2>10, <2>17, <2>18, <2>19, <2>20, BecomesKeeps
<1>10. \/ frame.to = {} /\ Return(<<>>) /\ UNCHANGED consumer
       \/ n \in frame.to /\ Becomes(n, u, <<done>> \o rest)
  BY <1>1, <1>2, <1>5, <1>6, <1>7, <1>8 DEF OnTransition
<1> QED
  BY <1>4, <1>9, <1>10

(* Between cascades: the producer, the clock of a calendar.                *)
LEMMA ProducerOrClockKeeps ==
    ASSUME MarksInv, CurrentInv,
           \/ ProducerReady \/ ProducerEvaluates \/ ProducerStops
           \/ \E d \in Calendars : Boundary(d)
    PROVE  CurrentInv'
<1>1. UNCHANGED <<consumer, published>> /\ LiveOrTold /\ CurrentCalls
  BY DEF ProducerReady, ProducerEvaluates, ProducerStops, Boundary, CurrentInv
<1>2. CASE UNCHANGED calls
  <2>1. LiveOrTold'
    BY <1>1, <1>2 DEF LiveOrTold
  <2>2. PICK top, rest : top = Head(calls) /\ rest = Tail(calls)
    OBVIOUS
  <2>3. CurrentCalls'
    BY <1>1, <1>2, <2>2, SameCalls DEF CurrentCalls
  <2> QED
    BY <2>1, <2>3 DEF CurrentInv
<1>3. CASE calls = <<>> /\ calls' = <<Evaluation(wall)>>
  <2>1. PICK f : f = Evaluation(wall)
    OBVIOUS
  <2>2. /\ f.op = "evaluate" /\ Head(calls') = f /\ Tail(calls') = <<>>
        /\ Len(<<>>) = 0
    BY <1>3, <2>1 DEF Evaluation
  <2>3. CurrentTop(f)'
    BY <2>2 DEF CurrentTop, Delivers, AwaitedCut, AwaitedResponse
  <2>4. CurrentBelow(f, <<>>)'
    BY <2>2 DEF CurrentBelow
  <2>5. LiveOrTold'
    BY <1>1, <1>3 DEF LiveOrTold
  <2> QED
    BY <2>2, <2>3, <2>4, <2>5 DEF CurrentInv, CurrentCalls
<1> QED
  BY <1>2, <1>3 DEF ProducerReady, ProducerEvaluates, ProducerStops, Boundary, Idle

(* Between cascades: a consumer starts, is alerted or stops.               *)
LEMMA ConsumerKeeps ==
    ASSUME MarksInv, MarksInv', CurrentInv, NEW n, Consumers = {n},
           ConsumerStarts(n) \/ Alert(n) \/ ConsumerStops(n)
    PROVE  CurrentInv'
<1>1. PICK s : s = consumer[n]
  OBVIOUS
<1>2. /\ Sound(s, Lengths) /\ s \in Delivery /\ Lengths \in [Calendars -> Nat]
      /\ n \in Consumers
  BY <1>1, Parts
<1>3. CASE ConsumerStarts(n) \/ Alert(n)
  <2>1. /\ UNCHANGED <<producer, wall, published, cycles>>
        /\ \E t : /\ Becomes(n, t, <<>>)
                  /\ \/ t = StartCycle(s)
                     \/ t = ScheduleRetry(s, "response_timeout", TRUE) /\ s.phase # "LIVE"
                     \/ t = BeginRetry(s) /\ s.phase # "LIVE"
    BY <1>1, <1>3 DEF ConsumerStarts, Alert
  <2>2. PICK t : /\ Becomes(n, t, <<>>)
                 /\ \/ t = StartCycle(s)
                    \/ t = ScheduleRetry(s, "response_timeout", TRUE) /\ s.phase # "LIVE"
                    \/ t = BeginRetry(s) /\ s.phase # "LIVE"
    BY <2>1
  <2>3. "response_timeout" \in Codes
    BY DEF Codes
  <2>4. Sound(t, Lengths) /\ Advances(consumer[n], t)
    <3>1. CASE t = StartCycle(s)
      BY <1>1, <1>2, <3>1, StartCycleSound
    <3>2. CASE t = ScheduleRetry(s, "response_timeout", TRUE)
      BY <1>1, <1>2, <2>3, <3>2, ScheduleRetrySound
    <3>3. CASE t = BeginRetry(s)
      BY <1>1, <1>2, <3>3, BeginRetrySound
    <3> QED
      BY <2>2, <3>1, <3>2, <3>3
  <2>5. t \in Delivery
    BY <2>4 DEF Sound
  <2>6. t.phase # "LIVE"
    BY <1>2, <2>2, NotLive
  <2>7. PICK rest : rest = <<>>
    OBVIOUS
  <2>8. /\ rest \in Seq(GoodFrames) /\ \A i \in 1..Len(rest) : Waits(rest[i])
        /\ Becomes(n, t, rest) /\ UNCHANGED published
    BY <2>1, <2>2, <2>7
  <2> QED
    BY <2>4, <2>5, <2>6, <2>7, <2>8, BecomesKeeps
<1>4. CASE ConsumerStops(n)
  <2>1. /\ calls = <<>> /\ consumer' = [consumer EXCEPT ![n] = StopDelivery(s)]
        /\ UNCHANGED calls
    BY <1>1, <1>4 DEF ConsumerStops, Idle
  <2>2. consumer'[n].phase = "STOPPED"
    BY <1>2, <2>1, Parts, StopSound
  <2> QED
    BY <2>1, <2>2 DEF CurrentInv, CurrentCalls, LiveOrTold
<1> QED
  BY <1>3, <1>4

(* A tick.                                                                 *)
LEMMA AgedSame ==
    ASSUME MarksInv, Tick, NEW f, f \in GoodFrames, NEW g, g = AgedCall(f)
    PROVE  /\ g.op = f.op
           /\ f.op # "request" /\ f.op # "cut" => g = f
           /\ f.op = "cut" => /\ g.todo = f.todo /\ g.failed = f.failed
                              /\ g.revision = f.revision
           /\ AwaitedCut(g)' => AwaitedCut(f)
           /\ AwaitedResponse(g)' => AwaitedResponse(f)
<1>1. f \in Frames
  BY DEF GoodFrames
<1>2. /\ consumer \in [Consumers -> Delivery]
      /\ consumer' = [m \in Consumers |-> Aged(consumer[m])]
  BY Parts DEF Tick
<1>3. ASSUME NEW q, NEW p, p.from = q.from, p.generation = q.generation,
             p.attempt = q.attempt, q.from \in Consumers
      PROVE  Awaited(p)' => Awaited(q)
  <2>1. PICK s : s = consumer[q.from]
    OBVIOUS
  <2>2. s \in Delivery /\ consumer'[p.from] = Aged(s)
    BY <1>2, <1>3, <2>1
  <2>3. /\ Aged(s).phase = s.phase /\ Aged(s).generation = s.generation
        /\ Aged(s).attempt = s.attempt
    BY <2>2 DEF Aged, Delivery
  <2> QED
    BY <1>3, <2>1, <2>2, <2>3 DEF Awaited
<1>4. CASE f.op = "request"
  <2>1. g.op = "request"
    BY <1>1, <1>4, FrameKinds DEF AgedCall, Requests
  <2> QED
    BY <1>4, <2>1 DEF AwaitedCut, AwaitedResponse
<1>5. CASE f.op = "cut"
  <2>1. PICK q, p : q = f.request /\ p = [q EXCEPT !.left = Later(q.left)]
    OBVIOUS
  <2>2. f \in SnapshotCuts /\ q \in Requests /\ q.from \in Consumers
    BY <1>1, <1>5, <2>1, FrameKinds DEF SnapshotCuts, Requests
  <2>3. g = [f EXCEPT !.request = p]
    BY <1>5, <2>1 DEF AgedCall
  <2>4. /\ g.op = "cut" /\ g.todo = f.todo /\ g.failed = f.failed
        /\ g.revision = f.revision /\ g.request = p
    BY <1>5, <2>2, <2>3 DEF SnapshotCuts
  <2>5. p.from = q.from /\ p.generation = q.generation /\ p.attempt = q.attempt
    BY <2>1, <2>2 DEF Requests
  <2>6. Awaited(p)' => Awaited(q)
    BY <1>3, <2>2, <2>5
  <2> QED
    BY <1>5, <2>1, <2>4, <2>6 DEF AwaitedCut, AwaitedResponse
<1>6. CASE f.op \notin {"request", "cut"}
  <2>1. g = f
    BY <1>6 DEF AgedCall
  <2>2. AwaitedResponse(f)' => AwaitedResponse(f)
    <3> SUFFICES ASSUME f.op = "response"
                 PROVE  Awaited(f)' => Awaited(f)
      BY DEF AwaitedResponse
    <3>1. f.from \in Consumers
      BY <1>1, FrameKinds DEF Responses
    <3> QED
      BY <1>3, <3>1
  <2> QED
    BY <1>6, <2>1, <2>2 DEF AwaitedCut
<1> QED
  BY <1>4, <1>5, <1>6

LEMMA TickKeeps ==
    ASSUME MarksInv, MarksInv', CurrentInv, Tick
    PROVE  CurrentInv'
<1>1. /\ consumer' = [m \in Consumers |-> Aged(consumer[m])]
      /\ calls' = [i \in DOMAIN calls |-> AgedCall(calls[i])]
      /\ UNCHANGED published
      /\ calls \in Seq(GoodFrames) /\ consumer \in [Consumers -> Delivery]
      /\ CurrentCalls /\ LiveOrTold
  BY Parts DEF Tick, CurrentInv
<1>2. /\ Len(calls) \in Nat /\ DOMAIN calls = 1..Len(calls)
      /\ calls' \in Seq(GoodFrames') /\ Len(calls') = Len(calls)
      /\ \A i \in 1..Len(calls) : calls[i] \in GoodFrames /\ calls'[i] = AgedCall(calls[i])
  <2>1. calls' \in Seq(GoodFrames')
    BY DEF MarksInv
  <2>2. DOMAIN calls' = 1..Len(calls') /\ Len(calls') \in Nat
    BY <2>1
  <2>3. DOMAIN calls = 1..Len(calls) /\ Len(calls) \in Nat
    BY <1>1
  <2>4. 1..Len(calls') = 1..Len(calls)
    BY <1>1, <2>2, <2>3
  <2>5. Len(calls') = Len(calls)
    <3>1. PICK k, l : k = Len(calls') /\ l = Len(calls)
      OBVIOUS
    <3>2. k \in Nat /\ l \in Nat /\ 1..k = 1..l
      BY <2>2, <2>3, <2>4, <3>1
    <3>3. (k >= 1 => k \in 1..k) /\ (l >= 1 => l \in 1..l)
      BY <3>2
    <3>4. (k >= 1 => k <= l) /\ (l >= 1 => l <= k)
      BY <3>2, <3>3
    <3> QED
      BY <3>1, <3>2, <3>4
  <2> QED
    BY <1>1, <2>1, <2>3, <2>5
<1>3. ASSUME calls # <<>>
      PROVE  /\ calls' # <<>> /\ (Delivers(Head(calls)) => Delivers(Head(calls')))
             /\ CurrentTop(Head(calls))' /\ CurrentBelow(Head(calls), Tail(calls))'
  <2>1. PICK f, g : f = calls[1] /\ g = calls'[1]
    OBVIOUS
  <2>2. /\ Len(calls) >= 1 /\ Head(calls) = f /\ Head(calls') = g /\ calls' # <<>>
        /\ f \in GoodFrames /\ g = AgedCall(f)
    BY <1>2, <1>3, <2>1
  <2>3. CurrentTop(f) /\ CurrentBelow(f, Tail(calls))
    BY <1>1, <1>3, <2>2 DEF CurrentCalls
  <2>4. /\ g.op = f.op
        /\ f.op # "request" /\ f.op # "cut" => g = f
        /\ f.op = "cut" => /\ g.todo = f.todo /\ g.failed = f.failed
                           /\ g.revision = f.revision
        /\ AwaitedCut(g)' => AwaitedCut(f)
        /\ AwaitedResponse(g)' => AwaitedResponse(f)
    BY <2>2, AgedSame
  <2>5. Delivers(f) <=> Delivers(g)
    BY <2>4 DEF Delivers
  <2>6. CurrentTop(g)'
    <3>1. Delivers(g) => g.revision = Len(published'[g.calendar])
      BY <1>1, <2>3, <2>4, <2>5 DEF CurrentTop, Delivers
    <3>2. AwaitedCut(g)' => Reports(g, Calendars \ g.todo)'
      BY <1>1, <2>3, <2>4 DEF CurrentTop, AwaitedCut, Reports
    <3>3. AwaitedResponse(g)' => Reports(g, Calendars)'
      BY <1>1, <2>3, <2>4 DEF CurrentTop, AwaitedResponse, Reports
    <3> QED
      BY <3>1, <3>2, <3>3 DEF CurrentTop
  <2>7. PICK rest, next : rest = Tail(calls) /\ next = Tail(calls')
    OBVIOUS
  <2>8. /\ Len(rest) \in Nat /\ Len(next) = Len(rest)
        /\ \A i \in 1..Len(rest) : rest[i] \in GoodFrames /\ next[i] = AgedCall(rest[i])
    <3>1. /\ Len(rest) = Len(calls) - 1 /\ Len(next) = Len(calls) - 1
          /\ \A i \in 1..(Len(calls) - 1) : /\ rest[i] = calls[i + 1] /\ next[i] = calls'[i + 1]
                                            /\ i + 1 \in 1..Len(calls)
      BY <1>1, <1>2, <1>3, <2>2, <2>7
    <3> QED
      BY <1>2, <2>2, <3>1
  <2>9. ASSUME NEW i \in 1..Len(next)
        PROVE  /\ Waits(next[i])
               /\ AwaitedCut(next[i])' => /\ i = 1 /\ g.op = "transition"
                                          /\ Reports(next[i], Calendars \ next[i].todo)'
    <3>1. PICK a, b : a = rest[i] /\ b = next[i]
      OBVIOUS
    <3>2. a \in GoodFrames /\ b = AgedCall(a) /\ i \in 1..Len(rest)
      BY <2>8, <2>9, <3>1
    <3>3. /\ Waits(a)
          /\ AwaitedCut(a) => i = 1 /\ f.op = "transition" /\ Reports(a, Calendars \ a.todo)
      <4>1. CurrentBelow(f, rest)
        BY <2>3, <2>7
      <4> QED
        BY <3>1, <3>2, <4>1 DEF CurrentBelow
    <3>4. /\ b.op = a.op
          /\ a.op # "request" /\ a.op # "cut" => b = a
          /\ a.op = "cut" => /\ b.todo = a.todo /\ b.failed = a.failed
                             /\ b.revision = a.revision
          /\ AwaitedCut(b)' => AwaitedCut(a)
      BY <3>2, AgedSame
    <3>5. Waits(b)
      BY <3>3, <3>4 DEF Waits, Delivers
    <3>6. AwaitedCut(b)' => Reports(b, Calendars \ b.todo)'
      BY <1>1, <3>3, <3>4 DEF AwaitedCut, Reports
    <3> QED
      BY <2>4, <3>1, <3>3, <3>4, <3>5, <3>6
  <2>10. CurrentBelow(g, next)'
    BY <2>9 DEF CurrentBelow
  <2> QED
    BY <2>2, <2>5, <2>6, <2>7, <2>10
<1>4. CurrentCalls'
  <2>1. calls' # <<>> => calls # <<>>
    BY <1>2
  <2> QED
    BY <1>3, <2>1 DEF CurrentCalls
<1>5. LiveOrTold'
  <2>1. ASSUME NEW m \in Consumers
        PROVE  /\ consumer'[m].phase = consumer[m].phase
               /\ consumer'[m].buffer = consumer[m].buffer
               /\ consumer'[m].mark = consumer[m].mark
    <3>1. PICK s : s = consumer[m] /\ s \in Delivery
      BY <1>1
    <3>2. consumer'[m] = Aged(s)
      BY <1>1, <3>1
    <3> QED
      BY <3>1, <3>2 DEF Aged, Delivery
  <2> QED
    BY <1>1, <1>3, <2>1 DEF LiveOrTold
<1> QED
  BY <1>4, <1>5 DEF CurrentInv

LEMMA InitCurrent == SessionInit => CurrentInv
<1>1. IdleDelivery.phase = "IDLE"
  BY DEF IdleDelivery
<1> QED
  BY <1>1 DEF SessionInit, CurrentInv, CurrentCalls, LiveOrTold

(* One consumer of one calendar.                                           *)
OneOfEach == \E n, c : Consumers = {n} /\ Calendars = {c}

LEMMA NextCurrent ==
    ASSUME OneOfEach, MarksInv, MarksInv', CurrentInv, [SessionNext]_vars
    PROVE  CurrentInv'
<1>1. PICK n, c : Consumers = {n} /\ Calendars = {c}
  BY DEF OneOfEach
<1>2. CASE UNCHANGED vars
  <2>1. UNCHANGED <<published, consumer, calls>>
    BY <1>2 DEF vars
  <2>2. PICK top, rest : top = Head(calls) /\ rest = Tail(calls)
    OBVIOUS
  <2>3. CurrentCalls'
    BY <2>1, <2>2, SameCalls DEF CurrentInv, CurrentCalls
  <2>4. LiveOrTold'
    BY <2>1 DEF CurrentInv, LiveOrTold
  <2> QED
    BY <2>3, <2>4 DEF CurrentInv
<1>3. CASE OnEvaluate
  BY <1>3, EvaluateKeeps
<1>4. CASE OnRequest
  BY <1>4, RequestKeeps
<1>5. CASE OnCut
  BY <1>1, <1>5, CutKeeps
<1>6. CASE OnTransition
  BY <1>1, <1>6, TransitionKeeps
<1>7. CASE OnResponse
  BY <1>1, <1>7, ResponseKeeps
<1>8. CASE ProducerReady \/ ProducerEvaluates \/ ProducerStops
              \/ \E d \in Calendars : Boundary(d)
  BY <1>8, ProducerOrClockKeeps
<1>9. CASE \E m \in Consumers : ConsumerStarts(m) \/ Alert(m) \/ ConsumerStops(m)
  BY <1>1, <1>9, ConsumerKeeps
<1>10. CASE Tick
  BY <1>10, TickKeeps
<1> QED
  BY <1>2, <1>3, <1>4, <1>5, <1>6, <1>7, <1>8, <1>9, <1>10 DEF SessionNext, Handler

-----------------------------------------------------------------------------
(* The theorems.                                                           *)

(* The inductive invariant: no watermark, buffered revision or call in     *)
(* progress is ahead of what SessionStateActor has published, and what is  *)
(* on its way to a waiting consumer is not behind its watermarks.          *)
THEOREM SessionMarksInv == SessionSpec => []MarksInv
<1>1. SessionInit => MarksInv
  BY InitMarks
<1>2. MarksInv /\ [SessionNext]_vars => MarksInv'
  BY NextMarks
<1> QED
  BY <1>1, <1>2, PTL DEF SessionSpec

(* Attempts, deadlines, alerts and budgets stay inside the delivery policy *)
(* on both sides of the bus, for any policy, calendars and consumers.      *)
THEOREM SessionTypeCorrect == SessionSpec => []SessionTypeOK
<1>1. MarksInv => SessionTypeOK
  BY DEF MarksInv
<1> QED
  BY <1>1, SessionMarksInv, PTL

(* No watermark of a running consumer ever goes back, however evaluations, *)
(* requests and transitions nest.                                          *)
THEOREM SessionMarksAdvance == SessionSpec => MarksOnlyAdvance
<1>1. MarksInv /\ [SessionNext]_vars => [MarksAdvance]_vars
  BY NextMarks
<1> QED
  BY <1>1, SessionMarksInv, PTL DEF SessionSpec, MarksOnlyAdvance

(* Outside any cascade of calls, a live consumer holds the last revision   *)
(* of its calendar (observe_session_transition), for one consumer of one   *)
(* calendar: whatever the policy, the boundaries and the faults of the     *)
(* calendar, and however evaluations, requests and transitions nest.       *)
THEOREM LiveStaysCurrent == OneOfEach /\ SessionSpec => []LiveIsCurrent
<1>1. SessionInit => CurrentInv
  BY InitCurrent
<1>2. OneOfEach /\ MarksInv /\ MarksInv' /\ CurrentInv /\ [SessionNext]_vars => CurrentInv'
  BY NextCurrent
<1>3. CurrentInv => LiveIsCurrent
  BY DEF CurrentInv, LiveOrTold, LiveIsCurrent, Idle
<1>4. CASE OneOfEach
  <2>1. MarksInv /\ MarksInv' /\ CurrentInv /\ [SessionNext]_vars => CurrentInv'
    BY <1>2, <1>4
  <2> QED
    BY <1>1, <1>3, <2>1, SessionMarksInv, PTL DEF SessionSpec
<1> QED
  BY <1>4

=============================================================================
