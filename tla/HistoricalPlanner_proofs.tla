----------------------- MODULE HistoricalPlanner_proofs -----------------------
(***************************************************************************)
(* Proofs about HistoricalPlanner and the resolver of HistoricalWindows,   *)
(* for all calendars, demands, policies and limits.                        *)
(***************************************************************************)
EXTENDS HistoricalPlanner, FiniteSetTheorems, SequenceTheorems, WellFoundedInduction, TLAPS

-----------------------------------------------------------------------------
(* The arithmetic of completed intervals.                                  *)
LEMMA Division ==
    ASSUME NEW t \in Int, NEW i \in Nat \ {0}
    PROVE  t \div i \in Int /\ t % i \in 0..(i - 1) /\ t = i * (t \div i) + (t % i)
OBVIOUS

LEMMA Quotient ==
    ASSUME NEW a \in Int, NEW q \in Int, NEW i \in Nat \ {0}, a >= i * q
    PROVE  a \div i >= q
OBVIOUS

(* What begins after the last completed interval is complete after now.    *)
LEMMA BoundaryLater ==
    ASSUME NEW a \in Int, NEW t \in Nat, NEW i \in Nat \ {0}, a >= CompletedBoundary(t, i)
    PROVE  FirstCompletedBoundary(a, i) \in Nat /\ FirstCompletedBoundary(a, i) > t
<1>1. /\ t \div i \in Int /\ t % i \in 0..(i - 1) /\ t = i * (t \div i) + (t % i)
      /\ a \div i \in Int
  <2>1. t \in Int
    OBVIOUS
  <2>2. QED BY <2>1, Division
<1>2. a >= i * (t \div i)
  BY <1>1 DEF CompletedBoundary
<1>3. a \div i >= t \div i
  BY <1>1, <1>2, Quotient
<1>4. (a \div i + 1) * i >= (t \div i + 1) * i
  BY <1>1, <1>3
<1>5. (a \div i + 1) * i \in Int /\ (a \div i + 1) * i > t
  BY <1>1, <1>4
<1>6. QED BY <1>5 DEF FirstCompletedBoundary

LEMMA CompletedEarlier ==
    ASSUME NEW t \in Nat, NEW i \in Nat \ {0}
    PROVE  CompletedBoundary(t, i) \in Int /\ CompletedBoundary(t, i) <= t
BY Division DEF CompletedBoundary

-----------------------------------------------------------------------------
(* A finite set of sessions has a first and a last one.                    *)
LEMMA Smallest ==
    ASSUME NEW N \in SUBSET Nat, N # {}
    PROVE  \E n \in N : \A m \in N : n <= m
<1>1. PICK n \in N : \A m \in N : <<m, n>> \notin OpToRel(<, Nat)
  BY NatLessThanWellFounded, WFMin
<1>2. ASSUME NEW m \in N PROVE n <= m
  <2>1. m \in Nat /\ n \in Nat /\ <<m, n>> \in Nat \X Nat
    OBVIOUS
  <2>2. m < n => <<m, n>> \in OpToRel(<, Nat)
    BY <2>1 DEF OpToRel
  <2>3. ~(m < n)
    BY <1>1, <2>2, Zenon
  <2>4. QED BY <2>1, <2>3
<1>3. QED BY <1>2

(* By one key, and by a second among equals.                               *)
Above(f, g, w, v) == f[v] < f[w] \/ (f[v] = f[w] /\ g[v] <= g[w])

LEMMA Greatest ==
    ASSUME NEW T, NEW f \in [T -> Int], NEW g \in [T -> Int],
           NEW S \in SUBSET T, IsFiniteSet(S), S # {}
    PROVE  \E w \in S : \A v \in S : Above(f, g, w, v)
<1> DEFINE Top(s) == \E w \in s : \A v \in s : Above(f, g, w, v)
           Bad(s) == s # {} /\ ~Top(s)
           N == {n \in Nat : \E s \in SUBSET S : Bad(s) /\ Cardinality(s) = n}
<1>1. ASSUME NEW s \in SUBSET S
      PROVE  /\ IsFiniteSet(s) /\ Cardinality(s) \in Nat
             /\ \A x \in s : Cardinality(s \ {x}) = Cardinality(s) - 1
  BY FS_Subset, FS_CardinalityType, FS_RemoveElement
<1>2. ASSUME NEW s \in SUBSET S, Bad(s)
      PROVE  \E x \in s : Bad(s \ {x})
  <2>1. PICK x \in s : TRUE
    BY <1>2
  <2>2. ASSUME NEW w \in s \ {x}, \A v \in s \ {x} : Above(f, g, w, v)
        PROVE  Top(s)
    <3>1. f[w] \in Int /\ f[x] \in Int /\ g[w] \in Int /\ g[x] \in Int
      BY <2>1
    <3>2. Above(f, g, x, x) /\ (Above(f, g, w, x) \/ Above(f, g, x, w))
      BY <3>1 DEF Above
    <3>3. CASE Above(f, g, w, x)
      BY <2>2, <3>3
    <3>4. CASE Above(f, g, x, w)
      <4>1. ASSUME NEW v \in s \ {x} PROVE Above(f, g, x, v)
        <5>1. f[v] \in Int /\ g[v] \in Int /\ Above(f, g, w, v)
          BY <2>2
        <5>2. QED BY <3>1, <3>4, <5>1 DEF Above
      <4>2. QED BY <2>1, <3>2, <4>1
    <3>5. QED BY <3>2, <3>3, <3>4
  <2>3. s \ {x} # {}
    <3>1. SUFFICES ASSUME s = {x} PROVE FALSE
      BY <2>1
    <3>2. f[x] \in Int /\ g[x] \in Int
      BY <2>1
    <3>3. Above(f, g, x, x)
      BY <3>2 DEF Above
    <3>4. QED BY <1>2, <3>1, <3>3
  <2>4. ~Top(s \ {x})
    BY <1>2, <2>2
  <2>5. QED BY <2>1, <2>3, <2>4
<1>3. ASSUME Bad(S) PROVE FALSE
  <2>1. Cardinality(S) \in N
    BY <1>1, <1>3
  <2>2. N \in SUBSET Nat /\ N # {}
    BY <2>1
  <2> HIDE DEF N
  <2>3. PICK n \in N : \A m \in N : n <= m
    BY <2>2, Smallest
  <2>4. PICK s \in SUBSET S : Bad(s) /\ Cardinality(s) = n
    BY <2>3 DEF N
  <2> HIDE DEF Bad
  <2>5. PICK x \in s : Bad(s \ {x})
    BY <1>2, <2>4
  <2>6. s \ {x} \in SUBSET S /\ Cardinality(s \ {x}) \in Nat
    BY <1>1, <2>4
  <2>7. Cardinality(s \ {x}) \in N
    BY <2>5, <2>6 DEF N
  <2>8. Cardinality(s \ {x}) = n - 1 /\ n \in Nat
    BY <1>1, <2>2, <2>3, <2>4
  <2>9. QED BY <2>3, <2>7, <2>8
<1>4. QED BY <1>3

-----------------------------------------------------------------------------
(* Sessions, and the part of one that a window means.                      *)
Timed(w) == w.from \in Int /\ w.to \in Int

Sessioned(S) == IsFiniteSet(S) /\ \A w \in S : Timed(w)

LEMMA BoundaryTimed ==
    ASSUME NEW b, BoundaryTyped(b), NEW date \in Int, NEW row,
           row.open \in Int, row.close \in Int
    PROVE  Boundary(b, date, row) \in Int
<1>1. CASE b.kind = "schedule_boundary"
  <2>1. b.days * Day \in Int
    BY DayAssumption DEF BoundaryTyped
  <2>2. QED BY <1>1, <2>1 DEF Boundary
<1>2. CASE b.kind # "schedule_boundary"
  <2>1. b.value \in Int /\ b.zone \in Int /\ (date + b.days) * Day \in Int
    BY <1>2, DayAssumption DEF BoundaryTyped
  <2>2. QED BY <1>2, <2>1 DEF Boundary
<1>3. QED BY <1>1, <1>2

LEMMA PhaseWindowTimed ==
    ASSUME NEW phase, BoundaryTyped(phase.start), BoundaryTyped(phase.end),
           NEW date \in Int, NEW row, row.open \in Int, row.close \in Int
    PROVE  Sessioned(PhaseWindows(phase, date, row))
<1> DEFINE start == Boundary(phase.start, date, row)
           end == Boundary(phase.end, date, row)
           from == IF phase.constraint = "clip" THEN MaxOf(start, row.open) ELSE start
           to == IF phase.constraint = "clip" THEN MinOf(end, row.close) ELSE end
           window == [date |-> date, phase |-> phase.name, from |-> from, to |-> to]
<1>1. start \in Int /\ end \in Int
  BY BoundaryTimed
<1>2. from \in Int /\ to \in Int
  BY <1>1 DEF MaxOf, MinOf
<1>3. PhaseWindows(phase, date, row) \in {{}, {window}}
  BY DEF PhaseWindows
<1>4. Timed(window)
  BY <1>2 DEF Timed
<1> HIDE DEF window
<1>5. IsFiniteSet({}) /\ IsFiniteSet({window})
  BY FS_EmptySet, FS_Singleton
<1>6. QED BY <1>3, <1>4, <1>5 DEF Sessioned

LEMMA ProjectionTimed ==
    ASSUME NEW d, DefinitionTyped(d), NEW first \in Int, NEW last \in Int
    PROVE  Sessioned(Projection(d, first, last).windows)
<1> DEFINE dates == (first..last) \cap DOMAIN d.rows
           Of(phase, date) == PhaseWindows(phase, date, d.rows[date])
           parts == {Of(phase, date) : phase \in d.phases, date \in dates}
<1>1. IsFiniteSet(dates)
  <2>1. IsFiniteSet(first..last)
    BY FS_Interval
  <2>2. QED BY <2>1, FS_Subset
<1>2. ASSUME NEW phase \in d.phases, NEW date \in dates PROVE Sessioned(Of(phase, date))
  BY PhaseWindowTimed DEF DefinitionTyped
<1>3. IsFiniteSet(d.phases \X dates)
  BY <1>1, FS_Product DEF DefinitionTyped
<1>4. IsFiniteSet(parts)
  <2> DEFINE f == [x \in d.phases \X dates |-> Of(x[1], x[2])]
             image == {f[x] : x \in d.phases \X dates}
  <2>1. f \in [d.phases \X dates -> image]
    OBVIOUS
  <2>2. \A y \in image : \E x \in d.phases \X dates : f[x] = y
    OBVIOUS
  <2>3. f \in Surjection(d.phases \X dates, image)
    BY <2>1, <2>2 DEF Surjection
  <2>4. IsFiniteSet(image)
    <3> HIDE DEF f, image
    <3>1. QED BY <1>3, <2>3, FS_Surjection
  <2>5. parts \subseteq image
    <3>1. ASSUME NEW phase \in d.phases, NEW date \in dates PROVE Of(phase, date) \in image
      <4>1. <<phase, date>> \in d.phases \X dates /\ f[<<phase, date>>] = Of(phase, date)
        OBVIOUS
      <4> HIDE DEF f, Of
      <4>2. QED BY <4>1
    <3>2. ASSUME NEW part \in parts PROVE part \in image
      <4>1. PICK phase \in d.phases : \E date \in dates : part = Of(phase, date)
        OBVIOUS
      <4>2. PICK date \in dates : part = Of(phase, date)
        BY <4>1
      <4> HIDE DEF image, Of
      <4>3. QED BY <3>1, <4>2
    <3> HIDE DEF image, parts
    <3>3. QED BY <3>2
  <2> HIDE DEF parts, image
  <2>6. QED BY <2>4, <2>5, FS_Subset
<1>5. \A part \in parts : Sessioned(part)
  BY <1>2
<1> HIDE DEF parts
<1>6. IsFiniteSet(UNION parts)
  BY <1>4, <1>5, FS_UNION DEF Sessioned
<1>7. Projection(d, first, last).windows = UNION parts
  BY DEF Projection, parts
<1>8. QED BY <1>5, <1>6, <1>7 DEF Sessioned

Shaped == Whole \cup {"OPENING_RANGE", "POWER_HOUR", "NAMED_PHASE_SLICE"}

LEMMA ShapeTimed ==
    ASSUME NEW window \in Shaped, NEW policy, ValidPolicy(window, policy),
           SuppliedValid(policy), NEW w, Timed(w)
    PROVE  Timed(Shape(window, w, policy))
<1>1. CASE "seconds" \in DOMAIN policy
  <2>1. "offset" \in DOMAIN policy
    BY <1>1 DEF Shaped, Whole, Previous, ValidPolicy, Expected, Relative
  <2>2. policy.offset \in Int /\ policy.seconds \in Int
    BY <1>1, <2>1 DEF SuppliedValid
  <2>3. policy.offset * Second \in Int /\ policy.seconds * Second \in Int
    BY <2>2, UnitAssumption
  <2> DEFINE start == (IF policy.anchor = "start" THEN w.from ELSE w.to) + policy.offset * Second
             shape == [from |-> MaxOf(w.from, start),
                       to |-> MinOf(w.to, start + policy.seconds * Second)]
  <2>4. start \in Int
    BY <2>3 DEF Timed
  <2>5. Shape(window, w, policy) = shape
    BY <1>1 DEF Shape
  <2> HIDE DEF start
  <2>6. Timed(shape)
    BY <2>3, <2>4 DEF Timed, MaxOf, MinOf
  <2>7. QED BY <2>5, <2>6
<1>2. CASE "seconds" \notin DOMAIN policy
  <2>1. CASE window \in Whole
    BY <1>2, <2>1 DEF Shape, Timed, Whole
  <2>2. CASE window \in {"OPENING_RANGE", "POWER_HOUR"}
    <3>1. "minutes" \in DOMAIN policy
      BY <1>2, <2>2 DEF Whole, Previous, Fixed, ValidPolicy, Expected
    <3>2. policy.minutes * Minute \in Int
      BY <3>1, UnitAssumption DEF SuppliedValid
    <3>3. QED BY <1>2, <2>2, <3>2 DEF Shape, Timed, MaxOf, MinOf, Whole
  <2>3. CASE window = "NAMED_PHASE_SLICE"
    <3>1. "startMinutes" \in DOMAIN policy /\ "endMinutes" \in DOMAIN policy
      BY <1>2, <2>3 DEF Whole, Previous, Fixed, ValidPolicy, Expected
    <3>2. policy.startMinutes * Minute \in Int /\ policy.endMinutes * Minute \in Int
      BY <3>1, UnitAssumption DEF SuppliedValid
    <3>3. QED BY <1>2, <2>3, <3>2 DEF Shape, Timed, Whole
  <2>4. QED BY <2>1, <2>2, <2>3 DEF Shaped
<1>3. QED BY <1>1, <1>2

(* The sessions that the windows choose.                                   *)
LEMMA ChosenSessions ==
    ASSUME NEW S, Sessioned(S), S # {}
    PROVE  FirstOf(S) \in S /\ LastOf(S) \in S /\ LatestStarted(S) \in S
<1> DEFINE from == [w \in S |-> w.from]
           to == [w \in S |-> w.to]
           back == [w \in S |-> -w.to]
           none == [w \in S |-> 0]
<1>1. /\ from \in [S -> Int] /\ to \in [S -> Int] /\ back \in [S -> Int] /\ none \in [S -> Int]
      /\ IsFiniteSet(S) /\ S \in SUBSET S
  BY DEF Sessioned, Timed
<1>2. \E w \in S : \A v \in S : v.to < w.to \/ (v.to = w.to /\ v.from <= w.from)
  <2>1. \E w \in S : \A v \in S : Above(to, from, w, v)
    BY <1>1, Greatest
  <2>2. QED BY <2>1 DEF Above
<1>3. \E w \in S : \A v \in S : v.from < w.from \/ (v.from = w.from /\ v.to <= w.to)
  <2>1. \E w \in S : \A v \in S : Above(from, to, w, v)
    BY <1>1, Greatest
  <2>2. QED BY <2>1 DEF Above
<1>4. \E w \in S : \A v \in S : w.to <= v.to
  <2>1. \E w \in S : \A v \in S : Above(back, none, w, v)
    BY <1>1, Greatest
  <2>2. PICK w \in S : \A v \in S : back[v] <= back[w]
    <3>1. PICK w \in S : \A v \in S : Above(back, none, w, v)
      BY <2>1
    <3>2. QED BY <1>1, <3>1 DEF Above
  <2>3. ASSUME NEW v \in S PROVE w.to <= v.to
    <3>1. -v.to <= -w.to /\ v.to \in Int /\ w.to \in Int
      BY <2>2 DEF Sessioned, Timed
    <3>2. QED BY <3>1
  <2>4. QED BY <2>3
<1>5. QED BY <1>2, <1>3, <1>4 DEF FirstOf, LastOf, LatestStarted

LEMMA LastSessionsTimed ==
    ASSUME NEW S, Sessioned(S), S # {}, NEW n \in Nat \ {0}
    PROVE  Sessioned(LastSessions(S, n)) /\ LastSessions(S, n) # {}
<1>1. LastSessions(S, n) \subseteq S
  BY DEF LastSessions
<1>2. Sessioned(LastSessions(S, n))
  BY <1>1, FS_Subset DEF Sessioned
<1>3. PICK w \in S : \A v \in S : ~(v.to > w.to)
  <2> DEFINE to == [w \in S |-> w.to]
  <2>1. to \in [S -> Int] /\ IsFiniteSet(S) /\ S \in SUBSET S
    BY DEF Sessioned, Timed
  <2>2. PICK w \in S : \A v \in S : Above(to, to, w, v)
    BY <2>1, Greatest
  <2>3. ASSUME NEW v \in S PROVE ~(v.to > w.to)
    <3>1. v.to \in Int /\ w.to \in Int /\ (v.to < w.to \/ v.to = w.to)
      BY <2>2 DEF Above, Sessioned, Timed
    <3>2. QED BY <3>1
  <2>4. QED BY <2>3
<1>4. {v \in S : v.to > w.to} = {}
  BY <1>3
<1>5. Cardinality({v \in S : v.to > w.to}) < n
  BY <1>4, FS_EmptySet
<1>6. w \in LastSessions(S, n)
  BY <1>5 DEF LastSessions
<1>7. QED BY <1>2, <1>6

(* Of whatever sessions a projection has near an instant.                  *)
LEMMA SelectedTimed ==
    ASSUME NEW window \in Windows \ (Fixed \cup {"RECENT_COMPLETED"}),
           NEW policy, ValidPolicy(window, policy), SuppliedValid(policy),
           NEW near, Sessioned(near), NEW p, NEW t, NEW completed
    PROVE  \A s \in Selected(window, near, p, t, completed, policy) : Timed(s)
<1> DEFINE done == Completed(near, completed)
           shapes == {Shape(window, w, policy) : w \in near}
           started == {s \in shapes : s.from < completed}
           today == {w \in near : w.date = TradeDate(p, t)}
           selected == Selected(window, near, p, t, completed, policy)
<1>1. Sessioned(done) /\ Sessioned(today)
  <2>1. done \subseteq near /\ today \subseteq near
    BY DEF Completed
  <2>2. QED BY <2>1, FS_Subset DEF Sessioned
<1>2. CASE window \in Previous
  <2>1. selected = IF done = {} THEN {} ELSE {LastOf(done)}
    BY <1>2 DEF Selected, Previous
  <2>2. QED BY <1>1, <2>1, ChosenSessions DEF Sessioned
<1>3. CASE window = "PREVIOUS_SESSIONS"
  <2> DEFINE last == LastSessions(done, policy.sessions)
             spanned == [from |-> FirstOf(last).from, to |-> LastOf(last).to]
  <2>1. selected = IF Cardinality(done) < policy.sessions THEN {} ELSE {spanned}
    BY <1>3 DEF Selected, Previous
  <2>2. CASE Cardinality(done) < policy.sessions
    BY <2>1, <2>2
  <2>3. CASE ~(Cardinality(done) < policy.sessions)
    <3>1. "sessions" \in DOMAIN policy
      BY <1>3 DEF ValidPolicy, Expected, Whole, Previous, Fixed
    <3>2. policy.sessions \in Nat \ {0}
      BY <3>1 DEF SuppliedValid
    <3>3. done # {}
      <4>1. done = {} => Cardinality(done) = 0
        BY FS_EmptySet
      <4>2. QED BY <2>3, <3>2, <4>1
    <3>4. Sessioned(last) /\ last # {}
      BY <1>1, <3>2, <3>3, LastSessionsTimed
    <3> HIDE DEF last
    <3>5. Timed(FirstOf(last)) /\ Timed(LastOf(last))
      BY <3>4, ChosenSessions DEF Sessioned
    <3>6. Timed(spanned)
      BY <3>5 DEF Timed
    <3>7. QED BY <2>1, <2>3, <3>6
  <2>4. QED BY <2>2, <2>3
<1>4. CASE window \in Shaped
  <2>1. \A s \in shapes : Timed(s)
    BY <1>4, ShapeTimed DEF Sessioned
  <2>2. IsFiniteSet(shapes)
    <3> DEFINE f == [w \in near |-> Shape(window, w, policy)]
    <3>1. f \in [near -> shapes] /\ \A s \in shapes : \E w \in near : f[w] = s
      OBVIOUS
    <3>2. f \in Surjection(near, shapes)
      BY <3>1 DEF Surjection
    <3> HIDE DEF f, shapes
    <3>3. QED BY <3>2, FS_Surjection DEF Sessioned
  <2>3. Sessioned(started)
    <3>1. started \subseteq shapes
      OBVIOUS
    <3> HIDE DEF shapes, started
    <3>2. QED BY <2>1, <2>2, <3>1, FS_Subset DEF Sessioned
  <2>4. \/ selected = {}
        \/ started # {} /\ selected = {LatestStarted(started)}
        \/ today # {} /\ selected = {Shape(window, LatestStarted(today), policy)}
    <3>1. window \notin Previous /\ window # "PREVIOUS_SESSIONS"
      BY <1>4 DEF Shaped, Whole, Previous
    <3>2. selected = IF window = "POWER_HOUR" /\ "fallback" \in DOMAIN policy /\ policy.fallback
                     THEN IF started = {} THEN {} ELSE {LatestStarted(started)}
                     ELSE IF today = {} THEN {}
                          ELSE {Shape(window, LatestStarted(today), policy)}
      BY <3>1 DEF Selected
    <3> HIDE DEF selected, started, today
    <3>3. QED BY <3>2
  <2>5. started # {} => Timed(LatestStarted(started))
    <3> HIDE DEF started
    <3>1. QED BY <2>3, ChosenSessions DEF Sessioned
  <2>6. today # {} => Timed(Shape(window, LatestStarted(today), policy))
    <3> HIDE DEF today
    <3>1. today # {} => Timed(LatestStarted(today))
      BY <1>1, ChosenSessions DEF Sessioned
    <3>2. QED BY <1>4, <3>1, ShapeTimed
  <2> HIDE DEF selected, started, today
  <2>7. \A s \in selected : Timed(s)
    BY <2>4, <2>5, <2>6
  <2>8. QED BY <2>7 DEF selected
<1>5. QED BY <1>2, <1>3, <1>4 DEF Windows, Shaped

LEMMA BoundsResult ==
    ASSUME NEW from \in Int, NEW to \in Int, NEW completed \in Int, NEW t \in Nat, completed <= t
    PROVE  \/ Bounds(from, to, completed) = Failure
           \/ \E a, b \in Nat : a < b /\ b <= t /\ Bounds(from, to, completed) = Found(a, b)
<1> DEFINE clipped == MinOf(to, completed)
<1>1. clipped \in Int /\ clipped <= completed
  BY DEF MinOf
<1>2. Bounds(from, to, completed)
          = IF from < 0 \/ clipped <= from THEN Failure ELSE Found(from, clipped)
  BY DEF Bounds
<1> HIDE DEF clipped
<1>3. CASE from < 0 \/ clipped <= from
  BY <1>2, <1>3
<1>4. CASE ~(from < 0 \/ clipped <= from)
  <2>1. from \in Nat /\ clipped \in Nat /\ from < clipped /\ clipped <= t
    BY <1>1, <1>4
  <2>2. QED BY <1>2, <1>4, <2>1
<1>5. QED BY <1>3, <1>4

(* What a calendar view may be, and what the resolver may answer.          *)
Viewed(calendar) == calendar = NoCalendar \/ Sessioned(calendar.windows)

Later(t) == {Unavailable(at) : at \in {at \in Nat : at > t}}
Within(t) == {Found(range[1], range[2]) :
                  range \in {x \in Nat \X Nat : x[1] < x[2] /\ x[2] <= t}}

Answered(t) == {Failure} \cup Later(t) \cup Within(t)

LEMMA BoundsAnswered ==
    ASSUME NEW from \in Int, NEW to \in Int, NEW t \in Nat, NEW interval \in Nat \ {0}
    PROVE  Bounds(from, to, CompletedBoundary(t, interval)) \in {Failure} \cup Within(t)
<1> DEFINE completed == CompletedBoundary(t, interval)
           found == Bounds(from, to, completed)
<1>1. completed \in Int /\ completed <= t
  BY CompletedEarlier
<1> HIDE DEF completed
<1>2. \/ found = Failure
      \/ \E a, b \in Nat : a < b /\ b <= t /\ found = Found(a, b)
  BY <1>1, BoundsResult
<1>3. ASSUME NEW a \in Nat, NEW b \in Nat, a < b, b <= t
      PROVE  Found(a, b) \in Within(t)
  <2>1. <<a, b>> \in {x \in Nat \X Nat : x[1] < x[2] /\ x[2] <= t}
    BY <1>3
  <2>2. Found(a, b) = Found(<<a, b>>[1], <<a, b>>[2])
    OBVIOUS
  <2>3. QED BY <2>1, <2>2 DEF Within
<1> HIDE DEF found
<1>4. found \in {Failure} \cup Within(t)
  BY <1>2, <1>3
<1>5. QED BY <1>4 DEF found, completed

(* For every window, policy and calendar, whatever its sessions: a range   *)
(* that the resolver returns is not empty and ends before the instant it   *)
(* is asked at, and a retry that it names is still to come.                *)
THEOREM ResolverCorrect ==
    ASSUME NEW window \in Windows, NEW policy, SuppliedValid(policy),
           NEW calendar, Viewed(calendar), NEW interval \in Nat \ {0}, NEW t \in Nat
    PROVE  Resolve(window, policy, calendar, interval, t) \in Answered(t)
<1> DEFINE completed == CompletedBoundary(t, interval)
           recent == IF "observations" \in DOMAIN policy THEN policy.observations * interval
                     ELSE policy.minutes * Minute
           near == PhaseWindowsNear(calendar, t, policy.phase)
           selected == Selected(window, near, calendar, t, completed, policy)
           shape == CHOOSE s \in selected : TRUE
           found == Resolve(window, policy, calendar, interval, t)
<1>1. completed \in Int /\ completed <= t
  BY CompletedEarlier
<1>2. CASE ~ValidPolicy(window, policy) \/ completed <= 0
  BY <1>2 DEF Resolve, Answered
<1>3. CASE /\ ValidPolicy(window, policy) /\ ~(completed <= 0)
           /\ window = "RECENT_COMPLETED"
  <2>1. recent \in Int
    <3>1. CASE "observations" \in DOMAIN policy
      <4>1. policy.observations \in Nat
        BY <3>1 DEF SuppliedValid
      <4>2. policy.observations * interval \in Int
        BY <4>1
      <4>3. QED BY <3>1, <4>2
    <3>2. CASE "observations" \notin DOMAIN policy
      <4>1. "minutes" \in DOMAIN policy
        BY <1>3, <3>2 DEF ValidPolicy, Expected, Whole, Previous, Fixed
      <4>2. policy.minutes * Minute \in Int
        BY <4>1, UnitAssumption DEF SuppliedValid
      <4>3. QED BY <3>2, <4>2
    <3>3. QED BY <3>1, <3>2
  <2>2. found = Bounds(completed - recent, completed, completed)
    BY <1>3 DEF Resolve
  <2> HIDE DEF recent, found
  <2>3. completed - recent \in Int
    BY <1>1, <2>1
  <2>4. found \in {Failure} \cup Within(t)
    BY <1>1, <2>2, <2>3, BoundsAnswered
  <2>5. QED BY <2>4 DEF Answered, found
<1>4. CASE /\ ValidPolicy(window, policy) /\ ~(completed <= 0)
           /\ window # "RECENT_COMPLETED" /\ calendar # NoCalendar /\ window \in Fixed
  <2>1. "start" \in DOMAIN policy /\ "end" \in DOMAIN policy
    BY <1>4 DEF ValidPolicy, Expected, Fixed, Whole, Previous
  <2>2. policy.start \in Int /\ policy.end \in Int
    BY <2>1 DEF SuppliedValid
  <2>3. found = Bounds(policy.start, policy.end, completed)
    BY <1>4 DEF Resolve
  <2>4. QED BY <2>2, <2>3, BoundsAnswered DEF Answered
<1>5. CASE /\ ValidPolicy(window, policy) /\ ~(completed <= 0)
           /\ window # "RECENT_COMPLETED" /\ calendar # NoCalendar /\ window \notin Fixed
  <2>1. Sessioned(near)
    <3>1. Sessioned(calendar.windows)
      BY <1>5 DEF Viewed
    <3>2. near \subseteq calendar.windows
      BY DEF PhaseWindowsNear
    <3>3. QED BY <3>1, <3>2, FS_Subset DEF Sessioned
  <2> HIDE DEF near, completed
  <2>2. \A s \in selected : Timed(s)
    BY <1>5, <2>1, SelectedTimed
  <2>3. selected # {} => shape.from \in Int /\ shape.to \in Int
    <3> HIDE DEF selected
    <3>1. selected # {} => shape \in selected
      OBVIOUS
    <3>2. QED BY <2>2, <3>1 DEF Timed
  <2>4. \/ found = Failure
        \/ /\ selected # {} /\ shape.from >= completed
           /\ found = Unavailable(FirstCompletedBoundary(shape.from, interval))
        \/ selected # {} /\ found = Bounds(shape.from, shape.to, completed)
    <3>1. found = IF ~ Answers(calendar, t) \/ TradeDate(calendar, t) = None THEN Failure
                  ELSE IF selected = {} \/ shape.to <= shape.from THEN Failure
                  ELSE IF shape.from >= completed
                  THEN Unavailable(FirstCompletedBoundary(shape.from, interval))
                  ELSE Bounds(shape.from, shape.to, completed)
      BY <1>5 DEF Resolve, near, completed
    <3> HIDE DEF selected, shape, found
    <3>2. QED BY <3>1
  <2> HIDE DEF selected, shape, found
  <2>5. CASE /\ selected # {} /\ shape.from >= completed
             /\ found = Unavailable(FirstCompletedBoundary(shape.from, interval))
    <3>1. /\ FirstCompletedBoundary(shape.from, interval) \in Nat
          /\ FirstCompletedBoundary(shape.from, interval) > t
      BY <2>3, <2>5, BoundaryLater DEF completed
    <3>2. found \in Later(t)
      BY <2>5, <3>1 DEF Later
    <3>3. QED BY <3>2 DEF Answered, found
  <2>6. CASE selected # {} /\ found = Bounds(shape.from, shape.to, completed)
    <3>1. found \in {Failure} \cup Within(t)
      BY <2>3, <2>6, BoundsAnswered DEF completed
    <3>2. QED BY <3>1 DEF Answered, found
  <2>7. found = Failure => found \in Answered(t)
    BY DEF Answered
  <2>8. QED BY <2>4, <2>5, <2>6, <2>7 DEF found
<1>6. CASE /\ ValidPolicy(window, policy) /\ ~(completed <= 0)
           /\ window # "RECENT_COMPLETED" /\ calendar = NoCalendar
  BY <1>6 DEF Resolve, Answered
<1>7. QED BY <1>2, <1>3, <1>4, <1>5, <1>6

-----------------------------------------------------------------------------
(* The request cycle.  An attempt is left whenever a retry is due.         *)
CycleOK(s) ==
    /\ s \in States
    /\ s.attempt <= MaximumAttempts
    /\ s.phase = "WAITING" <=> s.request # NoRequest
    /\ s.phase \in {"WAITING", "BACKOFF"} <=> s.alert # Never
    /\ s.phase \in {"WAITING", "BACKOFF"} => s.attempt > 0 /\ s.started # Never
    /\ s.phase = "BACKOFF" => s.attempt < MaximumAttempts

LEMMA Fields ==
    ASSUME NEW s \in States
    PROVE  /\ s.phase \in Phases /\ s.generation \in Nat /\ s.pending \in SUBSET Calendars
           /\ s.start \in Int /\ s.end \in Int /\ s.request \in RequestIds
           /\ s.attempt \in Nat /\ s.started \in Int /\ s.alert \in Int
BY DEF States

LEMMA StartCycleKeeps ==
    ASSUME NEW s, CycleOK(s), NEW ids \in SUBSET Calendars, NEW from \in Int, NEW to \in Int,
           NEW t \in Nat
    PROVE  CycleOK(StartCycle(s, ids, from, to, t))
<1> DEFINE n == s.generation + 1
           begun == [phase |-> "WAITING", generation |-> n, pending |-> ids, start |-> from,
                     end |-> to, request |-> [generation |-> n, attempt |-> 1],
                     attempt |-> 1, started |-> t, alert |-> t + ResponseTimeout]
<1>1. n \in Nat /\ n # 0
  BY Fields DEF CycleOK
<1>2. StartCycle(s, ids, from, to, t) \in {s, begun}
  BY DEF StartCycle
<1> HIDE DEF n
<1>3. [generation |-> n, attempt |-> 1] \in RequestIds
  BY <1>1 DEF RequestIds
<1>4. t + ResponseTimeout \in Nat /\ 1 <= MaximumAttempts /\ Never = -1
  BY PolicyAssumption DEF Never
<1>5. begun \in States
  BY <1>1, <1>3, <1>4 DEF States, Phases
<1>6. [generation |-> n, attempt |-> 1] # NoRequest
  BY <1>1 DEF NoRequest
<1>7. CycleOK(begun)
  BY <1>4, <1>5, <1>6 DEF CycleOK
<1>8. QED BY <1>2, <1>7

LEMMA EndedKeeps ==
    ASSUME NEW s, CycleOK(s), NEW phase \in Terminal \cup {"READY"}
    PROVE  CycleOK(Ended(s, phase)) /\ Ended(s, phase).phase = phase
<1>1. s \in States /\ s.attempt <= MaximumAttempts
  BY DEF CycleOK
<1>2. NoRequest \in RequestIds /\ Never \in Int /\ phase \in Phases
  BY DEF NoRequest, RequestIds, Never, Terminal, Phases
<1>3. Ended(s, phase) \in States
  BY <1>1, <1>2 DEF Ended, States
<1>4. /\ Ended(s, phase).phase = phase /\ Ended(s, phase).request = NoRequest
      /\ Ended(s, phase).alert = Never /\ Ended(s, phase).attempt = s.attempt
  BY <1>1 DEF Ended, States
<1>5. phase \notin {"WAITING", "BACKOFF"}
  BY DEF Terminal
<1>6. QED BY <1>1, <1>3, <1>4, <1>5 DEF CycleOK

LEMMA PendingKeeps ==
    ASSUME NEW s, CycleOK(s), NEW ids \in SUBSET Calendars
    PROVE  /\ CycleOK(RetainPending(s, ids))
           /\ RetainPending(s, ids).pending = ids /\ RetainPending(s, ids).phase = s.phase
           /\ RetainPending(s, ids).start = s.start /\ RetainPending(s, ids).end = s.end
<1>1. s \in States
  BY DEF CycleOK
<1>2. RetainPending(s, ids) \in States
  BY <1>1 DEF RetainPending, States
<1>3. /\ RetainPending(s, ids).phase = s.phase /\ RetainPending(s, ids).request = s.request
      /\ RetainPending(s, ids).alert = s.alert /\ RetainPending(s, ids).attempt = s.attempt
      /\ RetainPending(s, ids).started = s.started /\ RetainPending(s, ids).pending = ids
      /\ RetainPending(s, ids).start = s.start /\ RetainPending(s, ids).end = s.end
  BY <1>1 DEF RetainPending, States
<1>4. QED BY <1>2, <1>3 DEF CycleOK

LEMMA ReadyKeeps ==
    ASSUME NEW s, CycleOK(s)
    PROVE  /\ CycleOK(ReadyProjection(s)) /\ ReadyProjection(s).phase = "READY"
           /\ ReadyProjection(s).start = s.start /\ ReadyProjection(s).end = s.end
<1> DEFINE e == Ended(s, "READY")
<1>1. CycleOK(e) /\ e.phase = "READY"
  BY EndedKeeps
<1>2. e.start = s.start /\ e.end = s.end
  BY DEF Ended, CycleOK, States
<1>3. ReadyProjection(s) = RetainPending(e, {})
  BY DEF ReadyProjection, RetainPending
<1> HIDE DEF e
<1>4. QED BY <1>1, <1>2, <1>3, PendingKeeps

(* From a backoff there is always an attempt left to make.                 *)
LEMMA ScheduleKeeps ==
    ASSUME NEW s, CycleOK(s), s.phase = "WAITING", NEW t \in Nat, NEW notBefore \in Int
    PROVE  LET next == ScheduleRetry(s, t, notBefore)
           IN  /\ CycleOK(next) /\ next.phase \in {"FAILED", "BACKOFF"}
               /\ next.pending = s.pending /\ next.start = s.start /\ next.end = s.end
<1> DEFINE alert == IF t + RetryBackoff >= notBefore THEN t + RetryBackoff ELSE notBefore
           ended == Ended(s, "FAILED")
           backoff == [s EXCEPT !.phase = "BACKOFF", !.request = NoRequest, !.alert = alert]
<1>1. s \in States /\ s.attempt \in Nat /\ s.started # Never /\ s.attempt > 0
  BY Fields DEF CycleOK
<1>2. alert \in Nat
  BY PolicyAssumption
<1>3. /\ CycleOK(ended) /\ ended.phase = "FAILED" /\ ended.pending = s.pending
      /\ ended.start = s.start /\ ended.end = s.end
  BY <1>1, EndedKeeps DEF Terminal, Ended, States
<1>4. \/ ScheduleRetry(s, t, notBefore) = ended
      \/ ~(s.attempt >= MaximumAttempts) /\ ScheduleRetry(s, t, notBefore) = backoff
  BY DEF ScheduleRetry
<1> HIDE DEF alert
<1>5. NoRequest \in RequestIds /\ "BACKOFF" \in Phases /\ alert # Never
  BY <1>2 DEF NoRequest, RequestIds, Never, Phases
<1>6. backoff \in States
  <2> HIDE DEF ended
  <2>1. s \in States /\ alert \in Int
    BY <1>1, <1>2
  <2>2. QED BY <1>5, <2>1 DEF States
<1>7. /\ backoff.phase = "BACKOFF" /\ backoff.request = NoRequest /\ backoff.alert = alert
      /\ backoff.attempt = s.attempt /\ backoff.started = s.started
      /\ backoff.pending = s.pending /\ backoff.start = s.start /\ backoff.end = s.end
  BY <1>1 DEF States
<1> HIDE DEF backoff, ended
<1>8. s.attempt < MaximumAttempts => CycleOK(backoff)
  BY <1>1, <1>5, <1>6, <1>7, PolicyAssumption DEF CycleOK
<1>9. ~(s.attempt >= MaximumAttempts) => s.attempt < MaximumAttempts
  BY <1>1, PolicyAssumption
<1>10. QED BY <1>3, <1>4, <1>7, <1>8, <1>9

LEMMA BeginRetryKeeps ==
    ASSUME NEW s, CycleOK(s), s.phase = "BACKOFF", NEW t \in Nat, s.alert <= t
    PROVE  /\ CycleOK(BeginRetry(s, t)) /\ BeginRetry(s, t).phase = "WAITING"
           /\ BeginRetry(s, t).pending = s.pending
           /\ BeginRetry(s, t).start = s.start /\ BeginRetry(s, t).end = s.end
<1> DEFINE n == s.attempt + 1
           again == [s EXCEPT !.phase = "WAITING", !.attempt = n,
                              !.request = [generation |-> s.generation, attempt |-> n],
                              !.alert = t + ResponseTimeout]
<1>1. /\ s \in States /\ s.attempt \in Nat /\ s.generation \in Nat /\ s.alert \in Int
      /\ s.started # Never /\ s.attempt < MaximumAttempts
  BY Fields DEF CycleOK
<1>2. BeginRetry(s, t) = again
  BY <1>1 DEF BeginRetry, States
<1>3. n \in Nat /\ n # 0 /\ n > 0 /\ n <= MaximumAttempts
  BY <1>1, PolicyAssumption
<1> HIDE DEF n
<1>4. t + ResponseTimeout \in Nat /\ t + ResponseTimeout # Never
  BY PolicyAssumption DEF Never
<1>5. /\ [generation |-> s.generation, attempt |-> n] \in RequestIds
      /\ [generation |-> s.generation, attempt |-> n] # NoRequest
  BY <1>1, <1>3 DEF RequestIds, NoRequest
<1>6. again \in States
  <2> DEFINE id == [generation |-> s.generation, attempt |-> n]
             alert == t + ResponseTimeout
  <2>1. s \in States /\ alert \in Int /\ id \in RequestIds /\ n \in Nat /\ "WAITING" \in Phases
    BY <1>1, <1>3, <1>4, <1>5 DEF Phases
  <2>2. again = [s EXCEPT !.phase = "WAITING", !.attempt = n, !.request = id, !.alert = alert]
    OBVIOUS
  <2> HIDE DEF id, alert, again
  <2>3. QED BY <2>1, <2>2 DEF States
<1>7. /\ again.phase = "WAITING" /\ again.attempt = n /\ again.alert = t + ResponseTimeout
      /\ again.request = [generation |-> s.generation, attempt |-> n]
      /\ again.started = s.started
      /\ again.pending = s.pending /\ again.start = s.start /\ again.end = s.end
  BY <1>1 DEF States
<1> HIDE DEF again
<1>8. CycleOK(again)
  BY <1>1, <1>3, <1>4, <1>5, <1>6, <1>7 DEF CycleOK
<1>9. QED BY <1>2, <1>7, <1>8

-----------------------------------------------------------------------------
(* Planning.  What is true of a book of demands at the instant t.          *)
Entries == [place : Places, asOf : Int, retry : Int, from : Int, to : Int]

EntryOK(e, t) ==
    /\ e \in Entries /\ e.asOf <= t
    /\ e.place \in {"pending", "deferred", "planned"} => e.asOf \in Instants
    /\ e.place = "deferred" => e.retry > e.asOf
    /\ e.place = "planned" => e.from >= 0 /\ e.from < e.to /\ e.to <= e.asOf

BookOK(book, t) ==
    /\ book \in [Demands -> Entries]
    /\ \A d \in Demands : EntryOK(book[d], t)

LEMMA InstantTyped ==
    ASSUME NEW t \in Instants
    PROVE  t \in Nat /\ t <= LastTick
BY PlannerAssumption DEF Instants

LEMMA DatesTyped ==
    ASSUME NEW t \in Instants
    PROVE  /\ Start(t) \in Int /\ End(t) \in Int
           /\ DatesOf(Start(t), End(t)) \in Int \X Int
           /\ DatesOf(Start(t), End(t)) \in Views \ {NoDates}
<1>1. Start(t) \in Int /\ End(t) \in Int
  <2>1. LookbackDays * Day \in Int /\ LookaheadDays * Day \in Int
    BY PlannerAssumption, DayAssumption
  <2>2. QED BY <2>1, InstantTyped DEF Start, End, MaxOf
<1>2. ASSUME NEW from \in Int, NEW to \in Int
      PROVE  DatesOf(from, to) \in Int \X Int /\ DatesOf(from, to) # NoDates
  <2>1. from \div Day \in Int /\ (to - 1) \div Day \in Int
    BY DayAssumption, Division
  <2>2. QED BY <2>1 DEF DatesOf, NoDates
<1>3. QED BY <1>1, <1>2 DEF Views

LEMMA ViewOK ==
    ASSUME NEW c \in Calendars, NEW dates \in Views
    PROVE  Viewed(View(c, dates))
<1>1. CASE dates = NoDates
  BY <1>1 DEF View, Viewed
<1>2. CASE dates # NoDates
  <2>1. dates \in Int \X Int
    BY <1>2, DatesTyped DEF Views
  <2>2. dates[1] \in Int /\ dates[2] \in Int
    BY <2>1
  <2>3. Sessioned(Projection(Definition[c], dates[1], dates[2]).windows)
    BY <2>2, PlannerAssumption, ProjectionTimed
  <2>4. QED BY <1>2, <2>3 DEF View, Viewed
<1>3. QED BY <1>1, <1>2

LEMMA ResolutionOK ==
    ASSUME NEW d \in Demands, NEW dates \in Views, NEW t \in Instants
    PROVE  Resolution[d][dates][t] \in Answered(t)
<1>1. /\ Asked[d].calendar \in Calendars /\ Asked[d].window \in Windows
      /\ SuppliedValid(Asked[d].policy) /\ Asked[d].interval \in Nat \ {0} /\ t \in Nat
  BY PlannerAssumption, InstantTyped
<1>2. Viewed(View(Asked[d].calendar, dates))
  BY <1>1, ViewOK
<1>3. Resolve(Asked[d].window, Asked[d].policy, View(Asked[d].calendar, dates),
              Asked[d].interval, t) \in Answered(t)
  BY <1>1, <1>2, ResolverCorrect
<1>4. QED BY <1>3 DEF Resolution

LEMMA AnswerKinds ==
    ASSUME NEW t \in Nat, NEW found \in Answered(t)
    PROVE  /\ found.kind = "unavailable" => found.retry \in Nat /\ found.retry > t
           /\ found.kind = "resolved" =>
                 /\ found.from \in Nat /\ found.to \in Nat
                 /\ found.from < found.to /\ found.to <= t
<1>1. CASE found = Failure
  BY <1>1 DEF Failure
<1>2. CASE found \in Later(t)
  BY <1>2 DEF Later, Unavailable
<1>3. CASE found \in Within(t)
  <2>1. PICK range \in {x \in Nat \X Nat : x[1] < x[2] /\ x[2] <= t} :
            found = Found(range[1], range[2])
    BY <1>3 DEF Within
  <2>2. /\ range[1] \in Nat /\ range[2] \in Nat /\ range[1] < range[2] /\ range[2] <= t
    BY <2>1
  <2>3. QED BY <2>1, <2>2 DEF Found
<1>4. QED BY <1>1, <1>2, <1>3 DEF Answered

(* A demand that stays pending waits for its calendar; a deferred one      *)
(* is tried again later than it was tried; a plan covers the past.         *)
LEMMA PlannedKeeps ==
    ASSUME NEW d \in Demands, NEW dates \in Views, NEW t \in Instants,
           NEW e, EntryOK(e, t), e.place = "pending"
    PROVE  /\ EntryOK(Planned(d, e, dates), t)
           /\ Planned(d, e, dates).asOf = e.asOf
           /\ Planned(d, e, dates).place = "pending" => dates = NoDates
<1> DEFINE found == Resolution[d][dates][e.asOf]
           deferred == [e EXCEPT !.place = "deferred", !.retry = found.retry]
           planned == [e EXCEPT !.place = "planned", !.from = found.from, !.to = found.to]
           rejected == [e EXCEPT !.place = "rejected"]
<1>1. e \in Entries /\ e.asOf \in Instants /\ e.asOf \in Int /\ e.asOf <= t
  BY DEF EntryOK, Entries
<1>2. found \in Answered(e.asOf) /\ e.asOf \in Nat
  BY <1>1, ResolutionOK, InstantTyped
<1>3. \/ Planned(d, e, dates) = e /\ dates = NoDates
      \/ Planned(d, e, dates) = deferred /\ found.kind = "unavailable"
      \/ Planned(d, e, dates) = planned /\ found.kind = "resolved"
      \/ Planned(d, e, dates) = rejected
  BY DEF Planned
<1> HIDE DEF found
<1>4. /\ found.kind = "unavailable" => found.retry \in Int /\ found.retry > e.asOf
      /\ found.kind = "resolved" => /\ found.from \in Int /\ found.to \in Int
                                    /\ found.from >= 0 /\ found.from < found.to
                                    /\ found.to <= e.asOf
  BY <1>2, AnswerKinds
<1>5. {"deferred", "planned", "rejected"} \subseteq Places
  BY DEF Places
<1>6. found.kind = "unavailable" => /\ deferred \in Entries /\ deferred.place = "deferred"
                                    /\ deferred.asOf = e.asOf /\ deferred.retry = found.retry
  BY <1>1, <1>4, <1>5 DEF Entries
<1>7. found.kind = "resolved" => /\ planned \in Entries /\ planned.place = "planned"
                                 /\ planned.asOf = e.asOf
                                 /\ planned.from = found.from /\ planned.to = found.to
  BY <1>1, <1>4, <1>5 DEF Entries
<1>8. rejected \in Entries /\ rejected.place = "rejected" /\ rejected.asOf = e.asOf
  BY <1>1, <1>5 DEF Entries
<1> HIDE DEF deferred, planned, rejected
<1>9. found.kind = "unavailable" => EntryOK(deferred, t)
  BY <1>1, <1>4, <1>6 DEF EntryOK
<1>10. found.kind = "resolved" => EntryOK(planned, t)
  BY <1>1, <1>4, <1>7 DEF EntryOK
<1>11. EntryOK(rejected, t)
  BY <1>1, <1>8 DEF EntryOK
<1>12. QED BY <1>3, <1>6, <1>7, <1>8, <1>9, <1>10, <1>11

LEMMA PlanPendingKeeps ==
    ASSUME NEW t \in Instants, NEW book, BookOK(book, t), NEW views \in [Calendars -> Views]
    PROVE  /\ BookOK(PlanPending(book, views), t)
           /\ \A d \in Demands : PlanPending(book, views)[d].place = "pending"
                                     => views[Asked[d].calendar] = NoDates
<1> DEFINE after == PlanPending(book, views)
<1>1. ASSUME NEW d \in Demands
      PROVE  /\ EntryOK(after[d], t)
             /\ after[d].place = "pending" => views[Asked[d].calendar] = NoDates
  <2>1. EntryOK(book[d], t) /\ views[Asked[d].calendar] \in Views
    BY PlannerAssumption DEF BookOK
  <2>2. after[d] = IF book[d].place # "pending" THEN book[d]
                   ELSE Planned(d, book[d], views[Asked[d].calendar])
    BY DEF PlanPending
  <2> HIDE DEF after
  <2>3. QED BY <2>1, <2>2, PlannedKeeps
<1>2. after \in [Demands -> Entries]
  <2>1. after = [d \in Demands |-> after[d]]
    BY DEF PlanPending
  <2>2. \A d \in Demands : after[d] \in Entries
    BY <1>1 DEF EntryOK
  <2> HIDE DEF after
  <2>3. QED BY <2>1, <2>2
<1> HIDE DEF after
<1>3. BookOK(after, t)
  BY <1>1, <1>2 DEF BookOK
<1>4. QED BY <1>1, <1>3 DEF after

LEMMA PendingOK ==
    ASSUME NEW t \in Instants, NEW e
    PROVE  /\ EntryOK(Pending(e, t), t)
           /\ Pending(e, t).place = "pending" /\ Pending(e, t).asOf = t
<1>1. t \in Int /\ Never \in Int /\ {"absent", "pending"} \subseteq Places
  BY InstantTyped DEF Never, Places
<1>2. Nothing \in Entries
  BY <1>1 DEF Nothing, Entries
<1>3. /\ Pending(e, t) \in Entries
      /\ Pending(e, t).place = "pending" /\ Pending(e, t).asOf = t
  BY <1>1, <1>2 DEF Pending, Entries
<1>4. QED BY <1>1, <1>3 DEF EntryOK

(* What OnDemand, RetryDeferred and Revision do first.                     *)
LEMMA ReleasedKeeps ==
    ASSUME now \in Instants, NEW book, BookOK(book, now), NEW ids
    PROVE  /\ BookOK(Released(book, ids), now)
           /\ \A d \in Demands : Released(book, ids)[d]
                                     = IF d \in ids THEN Pending(book[d], now) ELSE book[d]
<1> DEFINE after == Released(book, ids)
<1>1. \A d \in Demands : after[d] = IF d \in ids THEN Pending(book[d], now) ELSE book[d]
  BY DEF Released
<1>2. after = [d \in Demands |-> after[d]]
  BY DEF Released
<1> HIDE DEF after
<1>3. ASSUME NEW d \in Demands PROVE EntryOK(after[d], now)
  <2>1. EntryOK(Pending(book[d], now), now)
    BY PendingOK
  <2>2. EntryOK(book[d], now)
    BY DEF BookOK
  <2>3. QED BY <1>1, <2>1, <2>2
<1>4. after \in [Demands -> Entries]
  BY <1>2, <1>3 DEF EntryOK
<1>5. BookOK(after, now)
  BY <1>3, <1>4 DEF BookOK
<1>6. QED BY <1>1, <1>5 DEF after

(* The timer is set for the earliest retry, and exists if there is one.    *)
LEMMA EarliestRetryCorrect ==
    ASSUME NEW t \in Instants, NEW book, BookOK(book, t)
    PROVE  /\ EarliestRetry(book) \in Int
           /\ \A d \in Demands : book[d].place = "deferred"
                  => EarliestRetry(book) # Never /\ EarliestRetry(book) <= book[d].retry
<1> DEFINE retries == {book[d].retry : d \in {x \in Demands : book[x].place = "deferred"}}
<1>1. ASSUME NEW d \in Demands, book[d].place = "deferred" PROVE book[d].retry \in Nat
  <2>1. EntryOK(book[d], t) /\ book[d].asOf \in Instants
    BY <1>1 DEF BookOK, EntryOK
  <2>2. book[d].retry \in Int /\ book[d].retry > book[d].asOf /\ book[d].asOf \in Nat
    BY <1>1, <2>1, InstantTyped DEF EntryOK, Entries
  <2>3. QED BY <2>2
<1>2. retries \in SUBSET Nat
  BY <1>1
<1>3. \A d \in Demands : book[d].place = "deferred" => book[d].retry \in retries
  OBVIOUS
<1>4. EarliestRetry(book) = IF retries = {} THEN Never ELSE Min(retries)
  BY DEF EarliestRetry
<1> HIDE DEF retries
<1>5. CASE retries = {}
  BY <1>3, <1>4, <1>5 DEF Never
<1>6. CASE retries # {}
  <2>1. \E x \in retries : \A y \in retries : x <= y
    BY <1>2, <1>6, Smallest
  <2>2. Min(retries) \in retries /\ \A y \in retries : Min(retries) <= y
    BY <2>1 DEF Min
  <2>3. EarliestRetry(book) \in Nat /\ \A y \in retries : EarliestRetry(book) <= y
    BY <1>2, <1>4, <1>6, <2>2
  <2>4. QED BY <1>3, <2>3 DEF Never
<1>7. QED BY <1>5, <1>6

-----------------------------------------------------------------------------
(* What is left to do after a synchronous call: a revision leaves the      *)
(* planning of its calendars until its own cycle has been begun.           *)
Ops == {"begin", "request", "plan"}
Beginning == {<<"begin">>, <<"begin", "plan">>}
Requesting == {<<"request">>, <<"request", "plan">>}
BeforePlan == {<<"plan">>, <<"begin", "plan">>, <<"request", "plan">>}
Stacks == {<<>>, <<"plan">>} \cup Beginning \cup Requesting

LEMMA Pair ==
    ASSUME NEW op \in Ops
    PROVE  <<op>> \o <<"plan">> = <<op, "plan">>
<1> DEFINE a == <<op>>
           b == <<"plan">>
           c == <<op, "plan">>
           s == a \o b
<1>1. a \in Seq(Ops) /\ b \in Seq(Ops) /\ c \in Seq(Ops)
  BY DEF Ops
<1>2. /\ Len(a) = 1 /\ Len(b) = 1 /\ Len(c) = 2
      /\ a[1] = op /\ b[1] = "plan" /\ c[1] = op /\ c[2] = "plan"
  OBVIOUS
<1> HIDE DEF a, b, c
<1>3. /\ s \in Seq(Ops) /\ Len(s) = Len(a) + Len(b)
      /\ \A i \in 1 .. Len(a) + Len(b) : s[i] = IF i <= Len(a) THEN a[i] ELSE b[i - Len(a)]
  BY <1>1, ConcatProperties
<1> HIDE DEF s
<1>4. \A i \in 1 .. Len(s) : s[i] = c[i]
  BY <1>2, <1>3
<1>5. s = c
  BY <1>1, <1>2, <1>3, <1>4, SeqEqual
<1>6. QED BY <1>5 DEF s, a, b, c

LEMMA Pushed ==
    ASSUME NEW op \in Ops
    PROVE  /\ <<op>> \o <<>> = <<op>> /\ <<op>> \o <<"plan">> = <<op, "plan">>
           /\ <<>> \o <<>> = <<>> /\ <<>> \o <<"plan">> = <<"plan">>
<1>1. <<op>> \o <<>> = <<op>> /\ <<>> \o <<>> = <<>>
  OBVIOUS
<1>2. <<>> \o <<"plan">> = <<"plan">>
  OBVIOUS
<1>3. QED BY <1>1, <1>2, Pair

LEMMA Stack ==
    ASSUME calls \in Stacks
    PROVE  /\ Handles("begin") => calls \in Beginning
           /\ Handles("request") => calls \in Requesting
           /\ Handles("plan") => calls = <<"plan">> /\ Tail(calls) = <<>>
           /\ calls \in Beginning \cup Requesting =>
                 IF calls \in BeforePlan THEN Tail(calls) = <<"plan">> ELSE Tail(calls) = <<>>
<1>1. CASE calls = <<>>
  BY <1>1 DEF Handles, Beginning, Requesting
<1>2. CASE calls = <<"begin">>
  BY <1>2 DEF Handles, Beginning, Requesting, BeforePlan
<1>3. CASE calls = <<"request">>
  BY <1>3 DEF Handles, Beginning, Requesting, BeforePlan
<1>4. CASE calls = <<"plan">>
  BY <1>4 DEF Handles, Beginning, Requesting, BeforePlan
<1>5. CASE calls = <<"begin", "plan">>
  BY <1>5 DEF Handles, Beginning, Requesting, BeforePlan
<1>6. CASE calls = <<"request", "plan">>
  BY <1>6 DEF Handles, Beginning, Requesting, BeforePlan
<1>7. QED BY <1>1, <1>2, <1>3, <1>4, <1>5, <1>6 DEF Stacks, Beginning, Requesting

LEMMA Apart ==
    /\ Beginning \cap Requesting = {} /\ <<"plan">> \notin Beginning \cup Requesting
    /\ <<>> \notin Beginning \cup Requesting \cup BeforePlan /\ <<>> # <<"plan">>
    /\ <<"begin">> \notin BeforePlan /\ <<"request">> \notin BeforePlan
BY DEF Beginning, Requesting, BeforePlan

(* A call that returns leaves the planning behind it where it was.         *)
LEMMA Returned ==
    ASSUME calls \in Stacks
    PROVE  /\ Handles("plan") /\ Return(<<>>) => calls' = <<>>
           /\ calls \in Beginning \cup Requesting =>
                 /\ Return(<<>>) => /\ calls' \in {<<>>, <<"plan">>}
                                    /\ calls' \in BeforePlan <=> calls \in BeforePlan
                 /\ Return(<<"begin">>) => /\ calls' \in Beginning
                                           /\ calls' \in BeforePlan <=> calls \in BeforePlan
                 /\ Return(<<"request">>) => /\ calls' \in Requesting
                                             /\ calls' \in BeforePlan <=> calls \in BeforePlan
<1>1. Handles("plan") /\ Return(<<>>) => calls' = <<>>
  BY Stack, Pushed DEF Return, Ops
<1>2. CASE calls \in Beginning \cup Requesting /\ calls \in BeforePlan
  <2>1. Tail(calls) = <<"plan">>
    BY <1>2, Stack
  <2>2. /\ Return(<<>>) => calls' = <<"plan">>
        /\ Return(<<"begin">>) => calls' = <<"begin", "plan">>
        /\ Return(<<"request">>) => calls' = <<"request", "plan">>
    BY <2>1, Pushed DEF Return, Ops
  <2>3. QED BY <1>1, <1>2, <2>2 DEF Beginning, Requesting, BeforePlan
<1>3. CASE calls \in Beginning \cup Requesting /\ calls \notin BeforePlan
  <2>1. Tail(calls) = <<>>
    BY <1>3, Stack
  <2>2. /\ Return(<<>>) => calls' = <<>>
        /\ Return(<<"begin">>) => calls' = <<"begin">>
        /\ Return(<<"request">>) => calls' = <<"request">>
    BY <2>1, Pushed DEF Return, Ops
  <2>3. QED BY <1>1, <1>3, <2>2, Apart DEF Beginning, Requesting
<1>4. QED BY <1>1, <1>2, <1>3

-----------------------------------------------------------------------------
(* The inductive invariant of the planner.  Each calendar without a        *)
(* projection is awaited: it is asked for, or the cycle that will ask for  *)
(* it is about to begin, or the last cycle ended for good.                 *)
TypedInv ==
    /\ now \in Instants /\ active \in BOOLEAN /\ held \in [Calendars -> Views]
    /\ refresh \in SUBSET Calendars /\ timer \in Int /\ calls \in Stacks
    /\ BookOK(demands, now)
    /\ ~active => calls = <<>>

CycleKept ==
    /\ CycleOK(cycle)
    /\ calls \in Requesting => cycle.phase = "WAITING"
    /\ cycle.phase \in {"WAITING", "BACKOFF"} =>
          \E t \in Instants : cycle.start = Start(t) /\ cycle.end = End(t)

FreshKept == active /\ cycle.phase = "READY" => Wanted = {} \/ calls \in Beginning

Awaited(c) ==
    \/ cycle.phase \in Terminal
    \/ cycle.phase \in {"IDLE", "READY"} /\ calls \in Beginning
    \/ cycle.phase \in {"WAITING", "BACKOFF"} /\ c \in cycle.pending

AwaitKept == active => \A c \in Calendars : held[c] = NoDates => Awaited(c)

DemandsKept ==
    active => \A d \in Demands :
        /\ demands[d].place = "pending" =>
              held[Asked[d].calendar] = NoDates \/ calls \in BeforePlan
        /\ demands[d].place = "deferred" => timer # Never /\ timer <= demands[d].retry

PlannerInv == TypedInv /\ CycleKept /\ FreshKept /\ AwaitKept /\ DemandsKept

(* What each planning leaves: nothing pending but for want of a calendar,  *)
(* and an alert for everything that is deferred.                           *)
LEMMA InstallKeeps ==
    ASSUME now \in Instants, NEW book, BookOK(book, now), NEW views \in [Calendars -> Views],
           Install(PlanPending(book, views))
    PROVE  /\ BookOK(demands', now) /\ timer' \in Int
           /\ \A d \in Demands :
                 /\ demands'[d].place = "pending" => views[Asked[d].calendar] = NoDates
                 /\ demands'[d].place = "deferred" =>
                       timer' # Never /\ timer' <= demands'[d].retry
<1>1. demands' = PlanPending(book, views) /\ timer' = EarliestRetry(PlanPending(book, views))
  BY DEF Install
<1>2. /\ BookOK(PlanPending(book, views), now)
      /\ \A d \in Demands : PlanPending(book, views)[d].place = "pending"
                                => views[Asked[d].calendar] = NoDates
  BY PlanPendingKeeps
<1>3. QED BY <1>1, <1>2, EarliestRetryCorrect

LEMMA Replanned ==
    ASSUME TypedInv, NEW ids, Install(PlanPending(Released(demands, ids), held))
    PROVE  /\ BookOK(demands', now) /\ timer' \in Int
           /\ \A d \in Demands :
                 /\ demands'[d].place = "pending" => held[Asked[d].calendar] = NoDates
                 /\ demands'[d].place = "deferred" =>
                       timer' # Never /\ timer' <= demands'[d].retry
BY ReleasedKeeps, InstallKeeps DEF TypedInv

(* OnBegin starts a cycle, repeats a request, or leaves the cycle alone.   *)
LEMMA Begun ==
    ASSUME TypedInv, CycleKept, OnBegin
    PROVE  /\ calls \in Beginning /\ CycleOK(cycle')
           /\ \/ Wanted = {} /\ cycle' = cycle /\ Return(<<>>)
              \/ /\ Wanted # {} /\ cycle.phase \in {"IDLE", "READY"}
                 /\ cycle'.phase = "WAITING" /\ cycle'.pending = Wanted
                 /\ cycle'.start = Start(now) /\ cycle'.end = End(now)
                 /\ Return(<<"request">>)
              \/ /\ Wanted # {} /\ cycle.phase \notin {"IDLE", "READY"} /\ cycle' = cycle
                 /\ Return(IF cycle.phase = "WAITING" THEN <<"request">> ELSE <<>>)
<1>1. calls \in Beginning /\ CycleOK(cycle)
  BY Stack DEF OnBegin, TypedInv, CycleKept
<1>2. CASE Wanted = {}
  BY <1>1, <1>2 DEF OnBegin
<1>3. CASE Wanted # {}
  <2>1. /\ cycle' = StartCycle(cycle, Wanted, Start(now), End(now), now)
        /\ Return(IF cycle'.phase = "WAITING" THEN <<"request">> ELSE <<>>)
    BY <1>3 DEF OnBegin
  <2>2. /\ Wanted \in SUBSET Calendars /\ Start(now) \in Int /\ End(now) \in Int
        /\ now \in Nat
    BY DatesTyped, InstantTyped DEF TypedInv, Wanted
  <2>3. CycleOK(cycle')
    BY <1>1, <2>1, <2>2, StartCycleKeeps
  <2>4. CASE cycle.phase \in {"IDLE", "READY"}
    <3>1. /\ cycle'.phase = "WAITING" /\ cycle'.pending = Wanted
          /\ cycle'.start = Start(now) /\ cycle'.end = End(now)
      BY <2>1, <2>4 DEF StartCycle
    <3>2. QED BY <1>1, <1>3, <2>1, <2>3, <2>4, <3>1
  <2>5. CASE cycle.phase \notin {"IDLE", "READY"}
    <3>1. cycle' = cycle
      BY <2>1, <2>5 DEF StartCycle
    <3>2. QED BY <1>1, <1>3, <2>1, <2>3, <2>5, <3>1
  <2>6. QED BY <2>4, <2>5
<1>4. QED BY <1>2, <1>3

LEMMA DatesInView ==
    ASSUME CycleKept, cycle.phase \in {"WAITING", "BACKOFF"}
    PROVE  Dates \in Views /\ Dates # NoDates
<1>1. PICK t \in Instants : cycle.start = Start(t) /\ cycle.end = End(t)
  BY DEF CycleKept
<1>2. Dates = DatesOf(Start(t), End(t))
  BY <1>1 DEF Dates
<1>3. QED BY <1>2, DatesTyped

(* What an answered request stores, and how it leaves the cycle: complete, *)
(* ended, or in backoff for the calendars that were not accepted.          *)
Stored(accepted) ==
    /\ accepted \subseteq cycle.pending
    /\ held' = [c \in Calendars |-> IF c \in accepted THEN Dates ELSE held[c]]
    /\ refresh' = refresh \ accepted
    /\ Install(PlanPending(demands, held'))
    /\ \/ cycle'.phase = "READY" /\ Return(<<"begin">>)
       \/ cycle'.phase \in Terminal /\ Return(<<>>)
       \/ /\ cycle'.phase = "BACKOFF" /\ cycle'.pending = cycle.pending \ accepted
          /\ cycle'.start = cycle.start /\ cycle'.end = cycle.end
          /\ Return(<<>>)

LEMMA AfterProjectionsOK ==
    ASSUME CycleOK(cycle), cycle.phase = "WAITING", now \in Nat, NEW response,
           response.unavailable \in SUBSET cycle.pending, response.retry \in Int
    PROVE  LET next == AfterProjections(response)
           IN  /\ CycleOK(next)
               /\ \/ next.phase = "READY" \/ next.phase \in Terminal
                  \/ /\ next.phase = "BACKOFF" /\ next.pending = response.unavailable
                     /\ next.start = cycle.start /\ next.end = cycle.end
<1> DEFINE next == AfterProjections(response)
           kept == RetainPending(cycle, response.unavailable)
<1>1. cycle.pending \in SUBSET Calendars
  BY Fields DEF CycleOK
<1>2. /\ CycleOK(kept) /\ kept.phase = "WAITING" /\ kept.pending = response.unavailable
      /\ kept.start = cycle.start /\ kept.end = cycle.end
  BY <1>1, PendingKeeps
<1>3. \/ next = ReadyProjection(cycle)
      \/ next = ScheduleRetry(kept, now, response.retry)
      \/ next = Ended(cycle, "REJECTED") \/ next = Ended(cycle, "FAILED")
  BY DEF AfterProjections
<1> HIDE DEF next, kept
<1>4. CASE next = ReadyProjection(cycle)
  BY <1>4, ReadyKeeps DEF next
<1>5. CASE next = ScheduleRetry(kept, now, response.retry)
  BY <1>2, <1>5, ScheduleKeeps DEF next, Terminal
<1>6. CASE next = Ended(cycle, "REJECTED") \/ next = Ended(cycle, "FAILED")
  BY <1>6, EndedKeeps DEF next, Terminal
<1>7. QED BY <1>3, <1>4, <1>5, <1>6

LEMMA Answer ==
    ASSUME TypedInv, CycleKept, OnRequest
    PROVE  /\ calls \in Requesting /\ cycle.phase = "WAITING"
           /\ \/ Return(<<>>) /\ UNCHANGED <<cycle, held, refresh, demands, timer>>
              \/ CycleOK(cycle') /\ \E accepted : Stored(accepted)
<1>1. calls \in Requesting /\ cycle.phase = "WAITING" /\ CycleOK(cycle) /\ now \in Nat
  BY Stack, InstantTyped DEF OnRequest, TypedInv, CycleKept
<1>2. CASE producer \in {"down", "stopped"}
  BY <1>1, <1>2 DEF OnRequest
<1>3. CASE producer \notin {"down", "stopped"}
  <2>1. PICK failing \in SUBSET Faulty :
            /\ held' = [c \in Calendars |-> IF c \in cycle.pending \ Response(failing).unavailable
                                            THEN Dates ELSE held[c]]
            /\ refresh' = refresh \ (cycle.pending \ Response(failing).unavailable)
            /\ Install(PlanPending(demands, held'))
            /\ cycle' = AfterProjections(Response(failing))
            /\ Return(IF cycle'.phase = "READY" THEN <<"begin">> ELSE <<>>)
    BY <1>3 DEF OnRequest
  <2> DEFINE response == Response(failing)
             accepted == cycle.pending \ response.unavailable
  <2>2. response.unavailable \in SUBSET cycle.pending
    BY DEF Response, Unprojected
  <2>3. response.retry \in Int
    BY <1>1, PlannerAssumption DEF Response, Never
  <2> HIDE DEF response
  <2>4. /\ CycleOK(cycle')
        /\ \/ cycle'.phase = "READY" \/ cycle'.phase \in Terminal
           \/ /\ cycle'.phase = "BACKOFF" /\ cycle'.pending = response.unavailable
              /\ cycle'.start = cycle.start /\ cycle'.end = cycle.end
    BY <1>1, <2>1, <2>2, <2>3, AfterProjectionsOK DEF response
  <2>5. response.unavailable = cycle.pending \ accepted /\ accepted \subseteq cycle.pending
    BY <2>2
  <2>6. /\ held' = [c \in Calendars |-> IF c \in accepted THEN Dates ELSE held[c]]
        /\ refresh' = refresh \ accepted /\ Install(PlanPending(demands, held'))
    BY <2>1 DEF response
  <2>7. /\ cycle'.phase = "READY" => Return(<<"begin">>)
        /\ cycle'.phase # "READY" => Return(<<>>)
    BY <2>1
  <2>8. "READY" \notin Terminal
    BY DEF Terminal
  <2> HIDE DEF accepted
  <2>9. Stored(accepted)
    BY <2>4, <2>5, <2>6, <2>7, <2>8 DEF Stored
  <2>10. QED BY <1>1, <2>4, <2>9
<1>4. QED BY <1>2, <1>3

LEMMA HeldAfter ==
    ASSUME TypedInv, CycleKept, cycle.phase = "WAITING", NEW accepted, Stored(accepted)
    PROVE  /\ held' \in [Calendars -> Views]
           /\ \A c \in Calendars : held'[c] = NoDates => held[c] = NoDates /\ c \notin accepted
<1>1. Dates \in Views /\ Dates # NoDates
  BY DatesInView
<1>2. held' = [c \in Calendars |-> IF c \in accepted THEN Dates ELSE held[c]]
  BY DEF Stored
<1>3. QED BY <1>1, <1>2 DEF TypedInv

LEMMA TypedStep ==
    ASSUME PlannerInv, Next
    PROVE  TypedInv'
<1>1. /\ TypedInv /\ CycleKept /\ now \in Nat
      /\ now \in Instants /\ active \in BOOLEAN /\ held \in [Calendars -> Views]
      /\ refresh \in SUBSET Calendars /\ timer \in Int /\ calls \in Stacks
      /\ BookOK(demands, now) /\ (~active => calls = <<>>)
  BY InstantTyped DEF PlannerInv, TypedInv
<1>2. ASSUME NEW d \in Demands, OnDemand(d) PROVE TypedInv'
  <2>1. BookOK(demands', now) /\ timer' \in Int
    BY <1>1, <1>2, Replanned DEF OnDemand
  <2>2. QED BY <1>1, <1>2, <2>1 DEF OnDemand, TypedInv
<1>3. CASE RetryDeferred
  <2>1. BookOK(demands', now) /\ timer' \in Int
    BY <1>1, <1>3, Replanned DEF RetryDeferred
  <2>2. QED BY <1>1, <1>3, <2>1 DEF RetryDeferred, TypedInv
<1>4. CASE OnPlan
  <2>1. BookOK(demands', now) /\ timer' \in Int
    BY <1>1, <1>4, InstallKeeps DEF OnPlan
  <2>2. calls' = <<>>
    BY <1>1, <1>4, Returned DEF OnPlan
  <2>3. QED BY <1>1, <1>4, <2>1, <2>2 DEF OnPlan, TypedInv, Stacks
<1>5. CASE OnBegin
  <2>1. calls' \in Stacks
    BY <1>1, <1>5, Begun, Returned DEF Stacks
  <2>2. active
    BY <1>1, <1>5 DEF OnBegin, Handles
  <2>3. UNCHANGED <<now, active, held, refresh, demands, timer>>
    BY <1>5 DEF OnBegin
  <2>4. QED BY <1>1, <2>1, <2>2, <2>3 DEF TypedInv
<1>6. CASE OnRequest
  <2>1. active /\ UNCHANGED <<now, active>>
    BY <1>1, <1>6 DEF OnRequest, Handles
  <2>2. calls \in Requesting /\ cycle.phase = "WAITING"
    BY <1>1, <1>6, Answer
  <2>3. CASE Return(<<>>) /\ UNCHANGED <<cycle, held, refresh, demands, timer>>
    <3>1. calls' \in Stacks
      BY <1>1, <2>2, <2>3, Returned DEF Stacks
    <3>2. QED BY <1>1, <2>1, <2>3, <3>1 DEF TypedInv
  <2>4. ASSUME NEW accepted, Stored(accepted) PROVE TypedInv'
    <3>1. held' \in [Calendars -> Views]
      BY <1>1, <2>2, <2>4, HeldAfter
    <3>2. BookOK(demands', now) /\ timer' \in Int
      BY <1>1, <2>4, <3>1, InstallKeeps DEF Stored
    <3>3. refresh' \in SUBSET Calendars
      BY <1>1, <2>4 DEF Stored
    <3>4. calls' \in Stacks
      BY <1>1, <2>2, <2>4, Returned DEF Stored, Stacks
    <3>5. QED BY <1>1, <2>1, <3>1, <3>2, <3>3, <3>4 DEF TypedInv
  <2>5. QED BY <1>1, <1>6, <2>3, <2>4, Answer
<1>7. CASE ProjectionAlert
  BY <1>1, <1>7 DEF ProjectionAlert, TypedInv, Stacks, Requesting
<1>8. ASSUME NEW c \in Calendars, Revision(c) PROVE TypedInv'
  <2>1. BookOK(demands', now)
    BY <1>1, <1>8, ReleasedKeeps DEF Revision
  <2>2. refresh' \in SUBSET Calendars /\ calls' \in Stacks
    BY <1>1, <1>8 DEF Revision, Stacks, Beginning
  <2>3. active /\ UNCHANGED <<now, active, held, timer>>
    BY <1>8 DEF Revision
  <2>4. QED BY <1>1, <2>1, <2>2, <2>3 DEF TypedInv
<1>9. CASE ProducerMoves
  <2>1. UNCHANGED <<now, active, held, refresh, demands, timer, calls>>
    BY <1>9 DEF ProducerMoves
  <2>2. QED BY <1>1, <2>1 DEF TypedInv
<1>10. CASE Stop
  <2>1. BookOK(demands', now)
    <3>1. ASSUME NEW e, EntryOK(e, now), e.place = "deferred"
          PROVE  EntryOK([e EXCEPT !.place = "dropped"], now)
      BY <3>1 DEF EntryOK, Entries, Places
    <3>2. \A d \in Demands : EntryOK(demands'[d], now)
      BY <1>1, <1>10, <3>1 DEF Stop, BookOK
    <3>3. demands' = [d \in Demands |-> demands'[d]]
      BY <1>10 DEF Stop
    <3>4. QED BY <3>2, <3>3 DEF BookOK, EntryOK
  <2>2. timer' \in Int /\ calls' = <<>> /\ active' = FALSE
    BY <1>10 DEF Stop, Idle, Never
  <2>3. UNCHANGED <<now, held, refresh, calls>>
    BY <1>10 DEF Stop
  <2>4. QED BY <1>1, <2>1, <2>2, <2>3 DEF TypedInv
<1>11. CASE Tick
  <2>1. now' = now + 1 /\ now' \in Instants
    BY <1>1, <1>11, PlannerAssumption DEF Tick, Instants
  <2>2. UNCHANGED <<active, held, refresh, demands, timer, calls>>
    BY <1>11 DEF Tick
  <2>3. ASSUME NEW d \in Demands PROVE EntryOK(demands[d], now')
    <3>1. EntryOK(demands[d], now) /\ demands[d].asOf \in Int
      BY <1>1 DEF BookOK, EntryOK, Entries
    <3>2. QED BY <1>1, <2>1, <3>1 DEF EntryOK
  <2>4. BookOK(demands', now')
    BY <1>1, <2>2, <2>3 DEF BookOK
  <2>5. QED BY <1>1, <2>1, <2>2, <2>4 DEF TypedInv
<1>12. QED BY <1>2, <1>3, <1>4, <1>5, <1>6, <1>7, <1>8, <1>9, <1>10, <1>11 DEF Next

LEMMA CycleStep ==
    ASSUME PlannerInv, Next
    PROVE  CycleKept'
<1>1. TypedInv /\ CycleKept /\ now \in Instants /\ now \in Nat
  BY InstantTyped DEF PlannerInv, TypedInv
<1>2. CASE cycle' = cycle /\ calls' \notin Requesting
  BY <1>1, <1>2 DEF CycleKept
<1>3. ASSUME NEW d \in Demands, OnDemand(d) PROVE CycleKept'
  BY <1>2, <1>3, Apart DEF OnDemand, Idle
<1>4. CASE RetryDeferred
  BY <1>2, <1>4, Apart DEF RetryDeferred, Idle
<1>5. CASE OnPlan
  <2>1. calls' = <<>> /\ cycle' = cycle
    BY <1>1, <1>5, Returned DEF OnPlan, TypedInv
  <2>2. QED BY <1>2, <2>1, Apart
<1>6. CASE OnBegin
  <2>1. calls \in Beginning /\ CycleOK(cycle') /\ calls \in Stacks
    BY <1>1, <1>6, Begun DEF TypedInv
  <2>2. CASE cycle' = cycle
    <3>1. calls' \in Requesting => cycle.phase = "WAITING"
      BY <1>1, <1>6, <2>1, <2>2, Begun, Returned, Apart
    <3>2. QED BY <1>1, <2>2, <3>1 DEF CycleKept
  <2>3. CASE cycle'.phase = "WAITING" /\ cycle'.start = Start(now) /\ cycle'.end = End(now)
    BY <1>1, <2>1, <2>3 DEF CycleKept
  <2>4. QED BY <1>1, <1>6, <2>2, <2>3, Begun
<1>7. CASE OnRequest
  <2>1. calls \in Requesting /\ cycle.phase = "WAITING" /\ calls \in Stacks
    BY <1>1, <1>7, Answer DEF TypedInv
  <2>2. CASE Return(<<>>) /\ UNCHANGED <<cycle, held, refresh, demands, timer>>
    BY <1>2, <2>1, <2>2, Returned, Apart
  <2>3. ASSUME CycleOK(cycle'), NEW accepted, Stored(accepted) PROVE CycleKept'
    <3>1. calls' \notin Requesting
      BY <2>1, <2>3, Returned, Apart DEF Stored
    <3>2. /\ cycle'.phase \in {"WAITING", "BACKOFF"} =>
                cycle'.start = cycle.start /\ cycle'.end = cycle.end
      BY <2>3 DEF Stored, Terminal
    <3>3. QED BY <1>1, <2>1, <2>3, <3>1, <3>2 DEF CycleKept
  <2>4. QED BY <1>1, <1>7, <2>2, <2>3, Answer
<1>8. CASE ProjectionAlert
  <2>1. CycleOK(cycle) /\ cycle.alert <= now /\ cycle.phase \in {"WAITING", "BACKOFF"}
    BY <1>1, <1>8 DEF ProjectionAlert, CycleKept, CycleOK
  <2>2. CASE cycle.phase = "WAITING"
    <3>1. cycle' = ScheduleRetry(cycle, now, Never) /\ calls' = <<>>
      BY <1>8, <2>2 DEF ProjectionAlert
    <3>2. CycleOK(cycle') /\ cycle'.start = cycle.start /\ cycle'.end = cycle.end
      BY <1>1, <2>1, <2>2, <3>1, ScheduleKeeps DEF Never
    <3>3. QED BY <1>1, <2>2, <3>1, <3>2, Apart DEF CycleKept
  <2>3. CASE cycle.phase = "BACKOFF"
    <3>1. cycle' = BeginRetry(cycle, now)
      BY <1>8, <2>3 DEF ProjectionAlert
    <3>2. /\ CycleOK(cycle') /\ cycle'.phase = "WAITING"
          /\ cycle'.start = cycle.start /\ cycle'.end = cycle.end
      BY <1>1, <2>1, <2>3, <3>1, BeginRetryKeeps
    <3>3. QED BY <1>1, <2>3, <3>2 DEF CycleKept
  <2>4. QED BY <2>1, <2>2, <2>3
<1>9. ASSUME NEW c \in Calendars, Revision(c) PROVE CycleKept'
  <2>1. calls' \in Beginning /\ cycle' = cycle
    BY <1>9 DEF Revision, Beginning
  <2>2. QED BY <1>2, <2>1, Apart
<1>10. CASE ProducerMoves
  BY <1>2, <1>10, Apart DEF ProducerMoves, Idle
<1>11. CASE Stop
  <2>1. cycle' = Ended(cycle, "STOPPED") /\ calls' = <<>>
    BY <1>11 DEF Stop, Idle
  <2>2. CycleOK(cycle') /\ cycle'.phase = "STOPPED"
    BY <1>1, <2>1, EndedKeeps DEF CycleKept, Terminal
  <2>3. QED BY <2>1, <2>2, Apart DEF CycleKept
<1>12. CASE Tick
  BY <1>2, <1>12, Apart DEF Tick, Idle
<1>13. QED BY <1>3, <1>4, <1>5, <1>6, <1>7, <1>8, <1>9, <1>10, <1>11, <1>12 DEF Next

(* After its alert a cycle waits again, backs off, or has failed.          *)
LEMMA Alerted ==
    ASSUME TypedInv, CycleKept, ProjectionAlert
    PROVE  /\ cycle.phase \in {"WAITING", "BACKOFF"}
           /\ cycle'.phase \in {"WAITING", "BACKOFF", "FAILED"}
           /\ cycle'.pending = cycle.pending
<1>1. CycleOK(cycle) /\ cycle.alert <= now /\ cycle.phase \in {"WAITING", "BACKOFF"}
      /\ now \in Nat
  BY InstantTyped DEF ProjectionAlert, TypedInv, CycleKept, CycleOK
<1>2. CASE cycle.phase = "WAITING"
  <2>1. cycle' = ScheduleRetry(cycle, now, Never)
    BY <1>2 DEF ProjectionAlert
  <2>2. QED BY <1>1, <1>2, <2>1, ScheduleKeeps DEF Never
<1>3. CASE cycle.phase = "BACKOFF"
  <2>1. cycle' = BeginRetry(cycle, now)
    BY <1>3 DEF ProjectionAlert
  <2>2. QED BY <1>1, <1>3, <2>1, BeginRetryKeeps
<1>4. QED BY <1>1, <1>2, <1>3

LEMMA FreshStep ==
    ASSUME PlannerInv, Next
    PROVE  FreshKept'
<1>1. TypedInv /\ CycleKept /\ FreshKept /\ calls \in Stacks
  BY DEF PlannerInv, TypedInv
<1>2. CASE /\ UNCHANGED <<active, cycle, held, refresh>>
           /\ calls' \in Beginning \/ calls \notin Beginning
  BY <1>1, <1>2 DEF FreshKept, Wanted
<1>3. ASSUME NEW d \in Demands, OnDemand(d) PROVE FreshKept'
  BY <1>2, <1>3, Apart DEF OnDemand, Idle
<1>4. CASE RetryDeferred
  BY <1>2, <1>4, Apart DEF RetryDeferred, Idle
<1>5. CASE OnPlan
  BY <1>1, <1>2, <1>5, Stack, Apart DEF OnPlan
<1>6. CASE OnBegin
  <2>1. UNCHANGED <<active, held, refresh>>
    BY <1>6 DEF OnBegin
  <2>2. \/ Wanted = {} /\ cycle' = cycle
        \/ cycle'.phase = "WAITING"
        \/ cycle.phase \notin {"IDLE", "READY"} /\ cycle' = cycle
    BY <1>1, <1>6, Begun
  <2>3. QED BY <2>1, <2>2 DEF FreshKept, Wanted
<1>7. CASE OnRequest
  <2>1. calls \in Requesting /\ cycle.phase = "WAITING"
    BY <1>1, <1>7, Answer
  <2>2. ASSUME NEW accepted, Stored(accepted) PROVE FreshKept'
    <3>1. cycle'.phase = "READY" => calls' \in Beginning
      BY <1>1, <2>1, <2>2, Returned DEF Stored, Terminal
    <3>2. QED BY <3>1 DEF FreshKept
  <2>3. UNCHANGED cycle => FreshKept'
    BY <2>1 DEF FreshKept
  <2>4. QED BY <1>1, <1>7, <2>2, <2>3, Answer
<1>8. CASE ProjectionAlert
  BY <1>1, <1>8, Alerted DEF FreshKept
<1>9. ASSUME NEW c \in Calendars, Revision(c) PROVE FreshKept'
  BY <1>9 DEF Revision, Beginning, FreshKept
<1>10. CASE ProducerMoves
  BY <1>2, <1>10, Apart DEF ProducerMoves, Idle
<1>11. CASE Stop
  BY <1>11 DEF Stop, FreshKept
<1>12. CASE Tick
  BY <1>2, <1>12, Apart DEF Tick, Idle
<1>13. QED BY <1>3, <1>4, <1>5, <1>6, <1>7, <1>8, <1>9, <1>10, <1>11, <1>12 DEF Next

LEMMA AwaitStep ==
    ASSUME PlannerInv, Next
    PROVE  AwaitKept'
<1>1. TypedInv /\ CycleKept /\ AwaitKept /\ calls \in Stacks
  BY DEF PlannerInv, TypedInv
<1>2. CASE /\ UNCHANGED <<active, cycle, held>>
           /\ calls' \in Beginning \/ calls \notin Beginning
  BY <1>1, <1>2 DEF AwaitKept, Awaited
<1>3. ASSUME NEW d \in Demands, OnDemand(d) PROVE AwaitKept'
  BY <1>2, <1>3, Apart DEF OnDemand, Idle
<1>4. CASE RetryDeferred
  BY <1>2, <1>4, Apart DEF RetryDeferred, Idle
<1>5. CASE OnPlan
  BY <1>1, <1>2, <1>5, Stack, Apart DEF OnPlan
<1>6. CASE OnBegin
  <2>1. UNCHANGED <<active, held>>
    BY <1>6 DEF OnBegin
  <2>2. CASE Wanted = {}
    BY <2>1, <2>2 DEF AwaitKept, Wanted
  <2>3. CASE cycle'.phase = "WAITING" /\ cycle'.pending = Wanted
    BY <2>1, <2>3 DEF AwaitKept, Awaited, Wanted
  <2>4. CASE cycle.phase \notin {"IDLE", "READY"} /\ cycle' = cycle
    BY <1>1, <2>1, <2>4 DEF AwaitKept, Awaited
  <2>5. QED BY <1>1, <1>6, <2>2, <2>3, <2>4, Begun
<1>7. CASE OnRequest
  <2>1. calls \in Requesting /\ cycle.phase = "WAITING" /\ active' = active
    BY <1>1, <1>7, Answer DEF OnRequest
  <2>2. CASE UNCHANGED <<cycle, held, refresh, demands, timer>>
    BY <1>2, <2>1, <2>2, Apart
  <2>3. ASSUME NEW accepted, Stored(accepted) PROVE AwaitKept'
    <3>1. SUFFICES ASSUME active', NEW c \in Calendars, held'[c] = NoDates PROVE Awaited(c)'
      BY DEF AwaitKept
    <3>2. held[c] = NoDates /\ c \notin accepted
      BY <1>1, <2>1, <2>3, <3>1, HeldAfter
    <3>3. c \in cycle.pending
      BY <1>1, <2>1, <3>1, <3>2 DEF AwaitKept, Awaited, Terminal
    <3>4. cycle'.phase = "READY" => calls' \in Beginning
      BY <1>1, <2>1, <2>3, Returned DEF Stored, Terminal
    <3>5. QED BY <2>3, <3>2, <3>3, <3>4 DEF Stored, Awaited
  <2>4. QED BY <1>1, <1>7, <2>2, <2>3, Answer
<1>8. CASE ProjectionAlert
  <2>1. UNCHANGED <<active, held>>
    BY <1>8 DEF ProjectionAlert
  <2>2. /\ cycle.phase \in {"WAITING", "BACKOFF"} /\ cycle'.pending = cycle.pending
        /\ cycle'.phase \in {"WAITING", "BACKOFF", "FAILED"}
    BY <1>1, <1>8, Alerted
  <2>3. QED BY <1>1, <2>1, <2>2 DEF AwaitKept, Awaited, Terminal
<1>9. ASSUME NEW c \in Calendars, Revision(c) PROVE AwaitKept'
  <2>1. UNCHANGED <<active, cycle, held>> /\ calls' \in Beginning
    BY <1>9 DEF Revision, Beginning
  <2>2. QED BY <1>2, <2>1
<1>10. CASE ProducerMoves
  BY <1>2, <1>10, Apart DEF ProducerMoves, Idle
<1>11. CASE Stop
  BY <1>11 DEF Stop, AwaitKept
<1>12. CASE Tick
  BY <1>2, <1>12, Apart DEF Tick, Idle
<1>13. QED BY <1>3, <1>4, <1>5, <1>6, <1>7, <1>8, <1>9, <1>10, <1>11, <1>12 DEF Next

LEMMA DemandsStep ==
    ASSUME PlannerInv, Next
    PROVE  DemandsKept'
<1>1. TypedInv /\ CycleKept /\ DemandsKept /\ calls \in Stacks
      /\ now \in Instants /\ BookOK(demands, now)
  BY DEF PlannerInv, TypedInv
<1>2. CASE /\ UNCHANGED <<active, held, demands, timer>>
           /\ calls' \in BeforePlan <=> calls \in BeforePlan
  BY <1>1, <1>2 DEF DemandsKept
<1>3. ASSUME NEW d \in Demands, OnDemand(d) PROVE DemandsKept'
  <2>1. held' = held /\ Install(PlanPending(Released(demands, {d}), held))
    BY <1>3 DEF OnDemand
  <2>2. QED BY <1>1, <2>1, Replanned DEF DemandsKept
<1>4. CASE RetryDeferred
  <2>1. held' = held /\ \E due : Install(PlanPending(Released(demands, due), held))
    BY <1>4 DEF RetryDeferred
  <2>2. QED BY <1>1, <2>1, Replanned DEF DemandsKept
<1>5. CASE OnPlan
  <2>1. held' = held /\ held \in [Calendars -> Views] /\ Install(PlanPending(demands, held))
    BY <1>1, <1>5 DEF OnPlan, TypedInv
  <2>2. QED BY <1>1, <2>1, InstallKeeps DEF DemandsKept
<1>6. CASE OnBegin
  <2>1. UNCHANGED <<active, held, demands, timer>>
    BY <1>6 DEF OnBegin
  <2>2. calls' \in BeforePlan <=> calls \in BeforePlan
    BY <1>1, <1>6, Begun, Returned
  <2>3. QED BY <1>2, <2>1, <2>2
<1>7. CASE OnRequest
  <2>1. calls \in Requesting /\ cycle.phase = "WAITING" /\ active' = active
    BY <1>1, <1>7, Answer DEF OnRequest
  <2>2. CASE Return(<<>>) /\ UNCHANGED <<cycle, held, refresh, demands, timer>>
    BY <1>1, <1>2, <2>1, <2>2, Returned
  <2>3. ASSUME NEW accepted, Stored(accepted) PROVE DemandsKept'
    <3>1. held' \in [Calendars -> Views]
      BY <1>1, <2>1, <2>3, HeldAfter
    <3>2. Install(PlanPending(demands, held'))
      BY <2>3 DEF Stored
    <3>3. \A d \in Demands :
              /\ demands'[d].place = "pending" => held'[Asked[d].calendar] = NoDates
              /\ demands'[d].place = "deferred" => timer' # Never /\ timer' <= demands'[d].retry
      BY <1>1, <3>1, <3>2, InstallKeeps
    <3>4. QED BY <3>3 DEF DemandsKept
  <2>4. QED BY <1>1, <1>7, <2>2, <2>3, Answer
<1>8. CASE ProjectionAlert
  <2>1. UNCHANGED <<active, held, demands, timer>> /\ calls = <<>>
        /\ calls' \in {<<>>, <<"request">>}
    BY <1>8 DEF ProjectionAlert, Idle
  <2>2. QED BY <1>2, <2>1, Apart
<1>9. ASSUME NEW c \in Calendars, Revision(c) PROVE DemandsKept'
  <2>1. calls' \in BeforePlan /\ UNCHANGED <<active, timer>>
    BY <1>9 DEF Revision, BeforePlan
  <2>2. PICK ids : demands' = Released(demands, ids)
    BY <1>9 DEF Revision
  <2>3. ASSUME NEW d \in Demands, demands'[d].place = "deferred" PROVE demands'[d] = demands[d]
    BY <1>1, <2>2, <2>3, ReleasedKeeps, PendingOK
  <2>4. QED BY <1>1, <2>1, <2>3 DEF DemandsKept
<1>10. CASE ProducerMoves
  BY <1>2, <1>10 DEF ProducerMoves
<1>11. CASE Stop
  BY <1>11 DEF Stop, DemandsKept
<1>12. CASE Tick
  BY <1>2, <1>12 DEF Tick
<1>13. QED BY <1>3, <1>4, <1>5, <1>6, <1>7, <1>8, <1>9, <1>10, <1>11, <1>12 DEF Next

LEMMA InitPlanner == Init => PlannerInv
<1> SUFFICES ASSUME Init PROVE PlannerInv
  OBVIOUS
<1>1. now \in Instants /\ now \in Nat
  BY PlannerAssumption DEF Init, Instants
<1>2. TypedInv
  <2>1. EntryOK(Nothing, now) /\ Nothing \in Entries
    BY <1>1 DEF Nothing, EntryOK, Entries, Places, Never
  <2>2. BookOK(demands, now)
    BY <2>1 DEF Init, BookOK
  <2>3. held \in [Calendars -> Views] /\ timer \in Int
    BY DEF Init, Views, Never
  <2>4. QED BY <1>1, <2>2, <2>3 DEF Init, TypedInv, Stacks, Beginning
<1>3. calls \in Beginning /\ calls \notin Requesting /\ cycle.phase = "IDLE"
  BY Apart DEF Init, Beginning, IdleProjection
<1>4. CycleOK(cycle)
  <2>1. IdleProjection \in States
    BY DEF IdleProjection, States, Phases, RequestIds, NoRequest, Never
  <2>2. QED BY <2>1, PolicyAssumption DEF Init, IdleProjection, CycleOK
<1>5. CycleKept /\ FreshKept /\ AwaitKept
  BY <1>3, <1>4 DEF CycleKept, FreshKept, AwaitKept, Awaited
<1>6. DemandsKept
  BY DEF Init, DemandsKept, Nothing
<1>7. QED BY <1>2, <1>5, <1>6 DEF PlannerInv

LEMMA PlannerStutter ==
    ASSUME PlannerInv, UNCHANGED vars
    PROVE  PlannerInv'
<1>1. TypedInv'
  BY DEF PlannerInv, TypedInv, vars
<1>2. CycleKept'
  BY DEF PlannerInv, CycleKept, vars
<1>3. FreshKept' /\ AwaitKept'
  BY DEF PlannerInv, FreshKept, AwaitKept, Awaited, Wanted, vars
<1>4. DemandsKept'
  BY DEF PlannerInv, DemandsKept, vars
<1>5. QED BY <1>1, <1>2, <1>3, <1>4 DEF PlannerInv

LEMMA NextPlanner == PlannerInv /\ [Next]_vars => PlannerInv'
<1>1. ASSUME PlannerInv, Next PROVE PlannerInv'
  BY <1>1, TypedStep, CycleStep, FreshStep, AwaitStep, DemandsStep DEF PlannerInv
<1>2. QED BY <1>1, PlannerStutter

LEMMA PlannerKeeps == Spec => []PlannerInv
BY InitPlanner, NextPlanner, PTL DEF Spec

(* start_projection_cycle and its successors, for any retry policy: an     *)
(* attempt is never made beyond maximum_attempts, a request is outstanding *)
(* exactly while one is awaited, and an alert is set exactly while the     *)
(* cycle has something to wait for.                                        *)
THEOREM CycleCorrect == Spec => []CycleInv
<1>1. PlannerInv => CycleInv
  <2> SUFFICES ASSUME PlannerInv PROVE CycleInv
    OBVIOUS
  <2>1. CycleKept /\ calls \in Stacks
    BY DEF PlannerInv, TypedInv
  <2>2. calls # <<>> /\ Head(calls) = "request" => cycle.phase = "WAITING"
    BY <2>1, Stack DEF Handles, CycleKept
  <2>3. QED BY <2>1, <2>2 DEF CycleInv, CycleKept, CycleOK
<1>2. QED BY <1>1, PlannerKeeps, PTL

(* _retain_projections: when a cycle is complete and the planner rests, no *)
(* calendar lacks its projection and no revision asks for another one.     *)
THEOREM FreshCorrect == Spec => []ReadyIsFresh
<1>1. PlannerInv => ReadyIsFresh
  BY Apart DEF PlannerInv, FreshKept, ReadyIsFresh, Idle
<1>2. QED BY <1>1, PlannerKeeps, PTL

(* No demand is forgotten, whatever the calendars, the failures and the    *)
(* revisions: a pending one waits for a calendar that is asked for, unless *)
(* the cycle ended for good, and a deferred one has an alert in time.      *)
THEOREM RememberedCorrect == Spec => []NothingForgotten
<1>1. PlannerInv => NothingForgotten
  <2> SUFFICES ASSUME PlannerInv, Idle, active, NEW d \in Demands
               PROVE  /\ demands[d].place = "pending" =>
                            /\ held[Asked[d].calendar] = NoDates
                            /\ \/ cycle.phase \in Terminal
                               \/ cycle.alert # Never /\ Asked[d].calendar \in cycle.pending
                      /\ demands[d].place = "deferred" =>
                            timer # Never /\ timer <= demands[d].retry
    BY DEF NothingForgotten
  <2>1. CycleOK(cycle) /\ AwaitKept /\ DemandsKept
    BY DEF PlannerInv, CycleKept
  <2>2. calls \notin Beginning /\ calls \notin BeforePlan
    BY Apart DEF Idle
  <2>3. Asked[d].calendar \in Calendars
    BY PlannerAssumption
  <2>4. demands[d].place = "pending" => held[Asked[d].calendar] = NoDates
    BY <2>1, <2>2 DEF DemandsKept
  <2>5. demands[d].place = "pending" => Awaited(Asked[d].calendar)
    BY <2>1, <2>3, <2>4 DEF AwaitKept
  <2>6. QED BY <2>1, <2>2, <2>4, <2>5 DEF Awaited, CycleOK, DemandsKept
<1>2. QED BY <1>1, PlannerKeeps, PTL

(* Every plan that is published covers a range that is not empty and was   *)
(* over when it was made.                                                  *)
PlansAreOver ==
    \A d \in Demands : demands[d].place = "planned" =>
        /\ 0 <= demands[d].from /\ demands[d].from < demands[d].to
        /\ demands[d].to <= demands[d].asOf /\ demands[d].asOf <= now

THEOREM PlansOver == Spec => []PlansAreOver
<1>1. PlannerInv => PlansAreOver
  <2> SUFFICES ASSUME PlannerInv, NEW d \in Demands, demands[d].place = "planned"
               PROVE  /\ 0 <= demands[d].from /\ demands[d].from < demands[d].to
                      /\ demands[d].to <= demands[d].asOf /\ demands[d].asOf <= now
    BY DEF PlansAreOver
  <2>1. EntryOK(demands[d], now)
    BY DEF PlannerInv, TypedInv, BookOK
  <2>2. demands[d].from \in Int
    BY <2>1 DEF EntryOK, Entries
  <2>3. QED BY <2>1, <2>2 DEF EntryOK
<1>2. QED BY <1>1, PlannerKeeps, PTL

(* A deferred demand that is looked at again, by its alert, a repetition   *)
(* or a revision, is deferred to an instant still to come: _retry_deferred *)
(* never sets an alert that is due already.                                *)
RetriesAreLater ==
    [][\A d \in Demands :
          demands[d].place = "deferred" /\ demands'[d].place = "deferred"
          /\ demands'[d] # demands[d] => demands'[d].retry > now]_vars

LEMMA DeferredAgain ==
    ASSUME TypedInv, NEW ids, demands' = PlanPending(Released(demands, ids), held),
           NEW d \in Demands, demands[d].place = "deferred", demands'[d].place = "deferred",
           demands'[d] # demands[d]
    PROVE  demands'[d].retry > now
<1> DEFINE book == Released(demands, ids)
           e == book[d]
           views == held[Asked[d].calendar]
<1>1. now \in Instants /\ BookOK(demands, now) /\ views \in Views
  BY PlannerAssumption DEF TypedInv
<1>2. e = IF d \in ids THEN Pending(demands[d], now) ELSE demands[d]
  BY <1>1, ReleasedKeeps
<1>3. demands'[d] = IF e.place # "pending" THEN e ELSE Planned(d, e, views)
  BY DEF PlanPending
<1> HIDE DEF book, e, views
<1>4. e = Pending(demands[d], now) /\ e.place = "pending" /\ e.asOf = now /\ EntryOK(e, now)
  BY <1>1, <1>2, <1>3, PendingOK
<1>5. EntryOK(demands'[d], now) /\ demands'[d].asOf = now
  BY <1>1, <1>3, <1>4, PlannedKeeps
<1>6. QED BY <1>5 DEF EntryOK

THEOREM RetriesLater == Spec => RetriesAreLater
<1> DEFINE Later1 == \A d \in Demands :
              demands[d].place = "deferred" /\ demands'[d].place = "deferred"
              /\ demands'[d] # demands[d] => demands'[d].retry > now
<1>1. PlannerInv /\ [Next]_vars => [Later1]_vars
  <2> SUFFICES ASSUME PlannerInv, Next, NEW d \in Demands, demands[d].place = "deferred",
                      demands'[d].place = "deferred", demands'[d] # demands[d]
               PROVE  demands'[d].retry > now
    OBVIOUS
  <2>1. TypedInv /\ CycleKept /\ now \in Instants /\ BookOK(demands, now)
    BY DEF PlannerInv, TypedInv
  <2>2. CASE \E ids : demands' = PlanPending(Released(demands, ids), held)
    BY <2>1, <2>2, DeferredAgain
  <2>3. CASE \E views : demands' = PlanPending(demands, views)
    BY <2>3 DEF PlanPending
  <2>4. ASSUME NEW c \in Demands, OnDemand(c)
        PROVE  \E ids : demands' = PlanPending(Released(demands, ids), held)
    BY <2>4 DEF OnDemand, Install
  <2>5. RetryDeferred => \E ids : demands' = PlanPending(Released(demands, ids), held)
    BY DEF RetryDeferred, Install
  <2>6. OnPlan => \E views : demands' = PlanPending(demands, views)
    BY DEF OnPlan, Install
  <2>7. OnBegin \/ ProjectionAlert \/ ProducerMoves \/ Tick => demands' = demands
    BY DEF OnBegin, ProjectionAlert, ProducerMoves, Tick
  <2>8. OnRequest => demands' = demands \/ \E views : demands' = PlanPending(demands, views)
    BY <2>1, Answer DEF Stored, Install
  <2>9. ASSUME NEW c \in Calendars, Revision(c) PROVE FALSE
    <3>1. PICK ids : demands' = Released(demands, ids)
      BY <2>9 DEF Revision
    <3>2. QED BY <2>1, <3>1, ReleasedKeeps, PendingOK
  <2>10. Stop => FALSE
    BY <2>1 DEF Stop, BookOK, EntryOK, Entries
  <2>11. QED BY <2>2, <2>3, <2>4, <2>5, <2>6, <2>7, <2>8, <2>9, <2>10 DEF Next
<1>2. QED BY <1>1, PlannerKeeps, PTL DEF Spec, RetriesAreLater
=============================================================================
