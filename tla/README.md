# A TLA+ verification development for Markeitech V2

Markeitech V2 is a live market-data platform built on NautilusTrader. One
process runs a set of *actors* on one event-loop thread; they talk over
Nautilus' message bus, which is **synchronous**: `publish_signal` runs every
subscriber's handler before it returns, and a handler may publish in turn.
Beside that thread run a few worker threads (PostgreSQL writes, Discord posts,
resource sampling). PostgreSQL is the durable audit store.

The modules here are translated from the Python under
`src/src/markeitech`. `PROJECT.json` ties every definition to its lines
(`map`), every hazard to the properties aimed at it (`hazards`) and every
property to a plausible bug in the code that it catches (`mutants`).

## 1. Inventory

| Part (source) | State | Operations | Works with |
|---|---|---|---|
| Historical execution (`acquisition/historical_execution.py`) | `_pending`, `_active`, `_terminal` | enqueue, advance, complete, fail, cancel; each ends in a dispatch round | called by the acquisition actor; calls the provider port |
| Data acquisition actor (`system/acquisition.py`, `acquisition/historical_native.py`) | startup gate, held plans and demands, instrument tracker | signals, plans, instrument and bar callbacks, poll timer, stop | the two coordinators, Nautilus data engine, the bus |
| Observation demand (`acquisition/demand.py`, `coordinator.py`, `native.py`) | demands per consumer, active subscriptions | request, cancel, expire, observe, reconcile | acquisition actor; provider subscribe/unsubscribe |
| Persistence worker (`system/persistence.py` 594-736) | queue, `_closed`, `_stop_enqueued`, batch, counters, results | submit, close (actor's thread); the batch loop (its own thread) | the audit store |
| Audit store (`system/persistence.py` 178-592) | rows, run record | write batch, start/close run, migrations | PostgreSQL |
| Operational persistence actor (`system/persistence.py` 738-1250) | incidents per failure code, pending recoveries, lost count, readiness | audited signals, poll, readiness request and alert, stop, dispose | worker, System Control |
| System Control (`system/actor.py`, `control.py`) | global state, component failures, gates | readiness, failure, recovery, resource health, evaluation alert, stop, fault | every actor, over the bus |
| Resource sampler and health evaluator (`system/resource_*.py`) | latest sample; confirmation counts, cooldown | sample, evaluate, staleness check | System Control |
| Historical planner (`system/historical_planner.py`) | demands waiting for calendar evidence | demand, calendar answer, retry, give up | calendar delivery, acquisition actor |
| Session state (`intelligence/actors.py` 134-755) | revision and last state of each calendar, snapshot cycle of each requester | evaluation timer, boundary alert, snapshot request, stop | its consumers, over the bus |
| Session state delivery (`intelligence/session_state_delivery.py`; used in `actors.py` 982-1267 and `system/historical_planner.py` 312-551) | phase, attempt, watermarks, buffered transitions, one alert | start, transition, snapshot, timeout, retry, boundary, stop | the session state actor |
| Calendar projection delivery (`intelligence/calendar_delivery.py`) | request cycle | request, response, deadline | planner, session state actor |
| Evidence health (`intelligence/evidence.py`, `actors.py`) | latest evidence and freshness by source | observe, classify | bus |
| Discord webhook (`system/discord.py`) | queue, worker thread | health signal, stop | System Control's signals |
| Run lifecycle (`cli.py`, `system/cli.py`, `node.py`) | child processes and their groups, signal handlers, the run record | check, start PostgreSQL, start run, run, close run; signals at any moment | children, audit store, helper process |
| Analytical entities (`intelligence/entities.py`) | latest revision of each entity | admit, restore, remove; eviction under limits | library |
| Metric admission (`intelligence/metric_value_admission.py`) | latest value of each subject | admit | library |
| Startup barrier (`intelligence/metric_producer_manifest.py` 412-556) | acknowledgements, contradictions, the seal | acknowledge, evaluate | library |
| Producer manifest (same file, 158-330, 567-586) | none | construction | library |
| Bar validation (`intelligence/historical_bar_validation.py`) | none between calls | validate a batch | library |
| Configuration (`system/config.py`) | none | load and cross-check | all |
| Contracts, composition | none that a step changes | validation | all |

Composition (`system/composition.py`) puts System Control, operational
persistence, the resource sampler and evaluator, and optionally Discord in the
active plan. The registrations of the session state, evidence health, planner
and acquisition actors are commented out there at this commit
(`composition.py` from line 237); the actors are implemented and tested, and the
modules take them as those registrations wire them. The entity book, metric
admission, the startup barrier, the manifest and bar validation are library
code: `intelligence/__init__.py` exports it and the tests call it, no actor does
yet.

**What is hard here.** Signals nest: a failure report published from the middle
of a loop runs System Control, whose own signal is audited by the actor that is
still in the loop. The persistence queue is shared by two threads with
check-then-act sequences. Commits may be lost or only their acknowledgement.
Provider answers carry no identity. Timeouts, retries and refused submissions
share one path. Startup gates open in any order. Shutdown walks a list that its
own body changes.

**What makes each part correct.**

- *Historical execution*: lanes and queue stay within the policy; priority is
  respected; attempts are counted; every dependency gets the outcome of the
  request it shares; everything accepted ends.
- *Acquisition actor*: nothing starts before the gate and nothing stays behind
  after it; budgets hold through retries and sharing; an answer belongs to the
  request it settles; shutdown leaves nothing.
- *Persistence*: every admitted record gets one result, in order; the ledger is
  ordered and free of repetition; "stored" means durable; a clean close drains;
  critical records have their reserve.
- *Global health*: READY is earned and not missed; the actors agree on active
  incidents; a loss at startup is fatal; recovery completes by itself.
- *Observation demand*: what the provider is subscribed to is what active
  demands require, failures and retries included.
- *Evidence health*: HEALTHY means recent, a failure shows at once, silence ends
  in UNAVAILABLE, and a stream that is delivered is not held dead.
- *Resource alerts*: a level that lasts is reported; the channel and the
  evaluator agree unless the cooldown says otherwise.
- *Planner and projections*: no demand is forgotten; a plan is the completed
  part of the session the calendar gives, whatever part of the calendar was
  held; a cycle ends; an alert at its instant decides.
- *Books and gates*: numbers without gaps, limits without needless refusals, a
  seal that is final and in time, a verdict on bars that does not depend on
  their order, a manifest without circles, a configuration its readers can use.
- *Start of a run*: no system after a cancelled check, no process left behind, a
  record that says how the run ended.
- *Session state delivery*: transitions are applied once, in revision order, or
  a resynchronisation is under way; watermarks never go back; synchronisation
  ends; a consumer that calls itself live holds what was published.

## 2. Modules

| Module | Models |
|---|---|
| `HistoricalExecution` | `HistoricalExecutionCoordinator` |
| `ReadinessContract` | abstract: what historical execution promises its consumers |
| `HistoricalAcquisition` | the historical path of `DataAcquisitionActor`, around `HistoricalExecution` |
| `PersistenceWorker` | `PersistenceWorker` and the store's batch write |
| `SystemControl` | `SystemControlActor` and the state machine of `control.py` |
| `OperationalHealth` | `OperationalPersistenceActor` composed with `SystemControl`, the worker reduced to what health depends on, the resource actors as an environment |
| `SessionStateDelivery` | the pure reducer of `session_state_delivery.py` |
| `SessionState` | `SessionStateActor` and its consumers around that reducer |
| `TradingCalendar` | projections of a calendar and their evaluation (`intelligence/session.py`) |
| `HistoricalWindows` | the resolver of symbolic windows (`acquisition/historical_windows.py`) |
| `CalendarDelivery` | the pure functions of `calendar_delivery.py` |
| `HistoricalPlanner` | `HistoricalEvidencePlannerActor` and the projection side of `SessionStateActor`, around these three |
| `ObservationDemand` | `DemandReconciler` and `AcquisitionCoordinator` as operators |
| `ProviderSubscriptions` | the coordinator under any caller and any failing port |
| `EvidencePolicy` | thresholds, fixed and learned, and what the loader admits of them |
| `EvidenceHealth` | the live path of `DataAcquisitionActor` with `EvidenceHealthActor`, around these |
| `ResourceAlerts` | sampler, health evaluator, Discord actor and its posting thread |
| `EntityBook`, `MetricAdmission` | `EntityStateBook`, the admission of metric values |
| `Revisions` | these two side by side |
| `ProducerManifest`, `StartupReadiness` | what a manifest must satisfy; the startup barrier |
| `Declarations` | `ProducerManifest` and `Configuration` side by side |
| `BarValidation` | the validation of a batch of completed bars |
| `Configuration` | the checks of `config.py` across fields and sections, and what the components take for granted |
| `RunLifecycle` | the start command: children, signals, the run and its record |
| `*_proofs` | theorems and proofs about the module they extend |
| `MC*` | small instances for TLC |

Definitions whose comment starts with "Fault:" are not part of a model: they are
the plausible bugs each property is shown to catch, written beside the
definition they would replace.

### HistoricalExecution

`req[r]` folds the three dictionaries into one table: `place` says which one
holds the request, `attempt`, `priority` and `deps` are its fields, `ending`
records the terminal event. Clocks become what is left to wait (`wait`): the
backoff of a pending request or the time to expiry of an active one, so no clock
value needs a bound. `Dispatch` is `_dispatch` as a relation: which due requests
were accepted and which refused by the port, subject to the sort order and the
free lanes. Every operation includes its dispatch round. Two operations that
change nothing (a rejected enqueue, a cancel of an unknown request) are not
steps.

`ReadinessContract` states the promise without queues, lanes, attempts or time:
a request closes once, dependencies attach only while it is open, closing
answers all of them in one step with one kind of outcome, and answers are
final. It keeps the one exception the code has (a request may close silently),
which the run `historical_refusal` exhibits on its own.

### HistoricalAcquisition

Adds the gate (`released`, `missing`), held plans, plan limits, native answers
without identity (`wire` counts the answers still possible, `FirstActive` is
`active_request_ids[0]`) and shutdown. A handler that walks a collection takes
one step per element; `mode` keeps other handlers out until it is through,
because actors run to completion. Answers are delivered in any order and may be
lost.

### PersistenceWorker

Each access to something the two threads share is a step of its own:
`Submit`/`PutNoWait`/`QueueFull`/`CountAccepted` and
`Close`/`PutStop`/`CloseReturns` for the actor's thread, `Get`, `Fill`,
`Filled`, `Write`, `WriteRaises`, `CountSettled`, `Report` for the worker.
`WriteRaises` may have committed (a lost acknowledgement) or not. PostgreSQL is
external: a transaction is atomic and `ON CONFLICT DO NOTHING` skips rows that
are there.

### SystemControl and OperationalHealth

`calls` is the stack of handlers the synchronous bus has still to run; its head
runs next and replaces itself by the calls it makes. Where a signal has two
subscribers both orders are allowed. Only the worker thread and the passing of
time interleave with a cascade; timers and other actors act when the stack is
empty (`Quiet`). A transition outside `_ALLOWED_TRANSITIONS` raises in a handler
nobody catches: in the model that call is stuck, so deadlock checking shows that
no order of events asks for one.

`_lost_event_count` and sequence numbers grow, but the code only compares them
with values taken earlier: `current` says "no loss since this recovery record
was queued". `ledger` is a history variable: `complete`, `gap` (a known loss
PostgreSQL does not name), `named` (a stored recovery record names every loss).

### SessionStateDelivery and SessionState

`SessionStateDelivery` has no variables: one operator per function of the
reducer, from a state and an input to the next state. A transition is its
calendar and its revision, because nothing on the bus changes one; the identity
checks that end in the phase CONFLICT therefore always pass and that phase is
left out, as are replayed requests, which no consumer sends. Times are what is
left of them in ticks, as above.

`SessionState` is the composition. `calls` is again the stack of the synchronous
bus: a published transition goes to each subscriber in any order, a subscriber
that sees a gap restarts and requests a snapshot before the publisher goes on,
and the producer answers that request by evaluating its calendars inside its own
evaluation. An evaluation keeps the `cut` it began with, as the code keeps
`now_ns`, so an outer one may publish an older state as a newer revision.
`published[c]` holds the states published for calendar `c`, its length is
`_revisions[c]`; `wall[c]` is what the clock would give. Evaluation of a `Faulty`
calendar may raise at any time. Time passes between any two calls. A response
reaches every consumer and is stale for all but the requester. Producer and
consumers have the same policy, as composition gives it to both, so `retry_at`
is never later than the consumer's own backoff. The grace after a boundary is
left out: the alert of a consumer may come before the producer's, which only
adds behaviours.

`MarksInv` at the end of the module is the inductive invariant of the proofs.

### TradingCalendar, HistoricalWindows, CalendarDelivery, HistoricalPlanner

A calendar has a row for each trading date with open, close and break; its
phases begin and end at local times or at columns of the row, clipped, omitted
or unconstrained, and its corrections remove breaks they describe exactly.
`Projection` makes segments and windows of a range of rows as `session.py` does,
with its coverage, and `Evaluate` gives the state at an instant. A time zone is
a constant shift.
`HistoricalWindows` resolves a symbolic window at an instant into a range, a
first instant at which to try again, or a failure. `CalendarDelivery` has one
operator per function of the request cycle. All three are operators without
state.

`HistoricalPlanner` is the composition: `demands[d]` folds `_pending`,
`_deferred` and the published plans into one place, `cycle` is the projection
state, `calls` the synchronous bus as in `SessionState`, with the projection
request answered by the producer inside the publication. A
response may be missing, a refusal or carry failures. Installed session states appear as
revisions that come as late as they like, since `SessionState` models how they
come. The clock is a number here, because plans are made of instants.

### ObservationDemand, ProviderSubscriptions, EvidenceHealth

`Reconciled` is one reconciliation of all streams at once: streams do not
influence each other, so the order in which the code walks them cannot be seen
in the result; the events are kept per stream, in order. Its `failing` says
which port calls raise. `ProviderSubscriptions` adds the callers: any demand,
cancellation, expiry or plain reconciliation. `EvidenceHealth` uses the same
operators behind the acquisition actor, and adds the gate, the demands held
until it opens, lifecycle events, the evidence actor's five inputs and its
timer. What the recency statistics learn is any mean and deviation: the
thresholds that follow are exact (`Adaptive`).

### ResourceAlerts

A sample, its evaluation and the submission of its card are one step, because
the bus is synchronous; the posting thread takes, posts and reports in steps of
its own. The sampler's timer and the staleness timer are due independently.
Ages stop counting where the code stops distinguishing them.

### EntityBook, MetricAdmission, StartupReadiness, ProducerManifest, BarValidation, Configuration

Each is the code's own class or function, with the fields that decide anything.
`BarValidation` takes the observations one by one, as the loop does, so that a
batch in any order is a behaviour. `Configuration` states what the loader
refuses (`LoadSystemConfig`), for one file or for an operator's and the policy
it names (`Splits`, `Assembled`), and, separately, what its readers take for
granted and cannot check (`ProjectionServed`, `CalendarsServed`,
`EvidenceServed`, `FilesKept`): the property relates the two. A comparison that
only restates a check of the loader is not among them.

### RunLifecycle

`wrapper` is `_run_process` of the child at work: where it is, which handlers are
installed, which signal cancelled it, whether the grace period is over. A signal
may come between any two steps, handled or by default. The child and its
descendants end when they like. Then `system` is `main` of `system/cli.py`, step
by step, each of which may raise; a statement that raises may have taken effect.

## 3. Runs

| Run | Question | Bounds | States, time |
|---|---|---|---|
| `historical_execution` | limits, order, outcomes, termination, contract | 3 requests, 2 consumers, 2 priorities, 1 lane, queue of 2, 2 attempts, timeout and backoff of one tick | 82 thousand, 80 s |
| `historical_refusal` | is every consumer answered? No | as above | counterexample |
| `historical_acquisition` | gate, budgets, attribution, shutdown | 3 requests, 2 consumers, 1 lane, queue of 3, budget of 3 observations | 3.1 million, 70 s |
| `late_answer` | are late answers ignored? No | as above | counterexample |
| `persistence_worker` | losses, order, reserve, durability, close | 4 records, queue of 3 with 1 reserved, batches of 2, 2 attempts | 152 thousand, 30 s |
| `operational_health` | READY, agreement, startup losses | queue of 2 with 1 reserved, 5 failure codes, 3 incident identities, 2 unread records | 5.0 million, 2 min |
| `operational_recovery` | does recovery complete? | queue of 2, 1 unread record, resources normal | 0.5 million, 70 s |
| `session_order` | is a live consumer current, does synchronisation end? | 1 calendar that may fail, 1 consumer, 4 boundaries, 2 attempts, buffer of 1, budget of 3 ticks | 47 thousand, 15 s |
| `session_state` | watermarks and convergence with nested requests | 1 calendar, 2 consumers, 3 boundaries, 2 attempts, buffer of 1, budget of 2 ticks | 0.5 million, 2 min |
| `stale_live` | are buffered transitions never evicted? They are | as `session_state` | counterexample |
| `historical_planner` | no demand forgotten, plans match the calendar, retries decide, cycles end | 2 demands, for a window of the current and one of the previous session, 2 calendars of days of three ticks of which one may fail, 2 attempts, 12 ticks | 189 thousand, 20 s |
| `live_support` | alerts, subscriptions, evidence, books, barrier, bars, manifests, configurations, the start of a run | see below | 141 thousand, 1 min |

Why the bounds are enough. Three requests over one lane are the least with one
running, one waiting and one to overtake it; a queue of two is reached and
refuses; two attempts give one retry and one last attempt. In
`HistoricalAcquisition` the third request is twice as long, so the budget of 3
binds before the queue does. Four records over a queue of three make the queue
full, the batch both full and partial, and let the sentinel arrive in each
place. With two unread records in a queue of two, recovery records compete with
the signals they report about. `MaxRecords` and `MaxUnread` are the only bounds
that the code does not have: how many records are offered at all, and how far
the worker may be behind when another actor publishes. The incident identities
are recycled: `NewIncident` picks one that nothing refers to under the same key,
which is the only place where it is compared, so three stand for any number.

A capacity of one for critical and normal records together would never recover:
the recovery records of two codes would each be rejected for the other, and each
rejection is a new loss. The loader requires more normal capacity than that
(`system/config.py:351`), so the runs use two.

Two consumers are the least for a request nested in another consumer's
transition; a buffer of one overflows at the second transition and still holds
one across a gap; three boundaries give the revisions 2 and 3 that overtake each
other. The runs have one calendar: the code keeps order per calendar, and
`MarksInv` and `MarksOnlyAdvance` are proved for any set of them. `LiveIsCurrent`
does depend on it, and is not true of two (see `stale_live` in section 4);
`SyncSettles` and `LiveSeesTheWall` are checked for one calendar only. `session_order` needs a budget of three ticks: with two, the budget ends every cycle before the
attempts do. `MaxBoundary` is the only bound the code does not have.

`live_support` checks ten parts that share no state. `part` says which one a
behaviour is about; the others stand still, so the states of the parts add up
instead of multiplying. Alerts: two levels of confirmation, a cooldown, a window
of growth of two, a queue of one card. Subscriptions: two streams, one without
a native method, four demands of which two agree and one does not, three that
expire, every set of failing port calls. Evidence: one stream with two claims
and an adaptive policy, one session phase. Entities: four of two types and
instruments under limits of 3, 2 and 1, so that every scope can be the violated
one and an entity can violate two. Metrics: three subjects for two places, two
contents, three revisions, four offers. Barrier: two consumers and a stranger,
two contents. Bars: a request of two intervals, batches of up to four, bars that
differ from a good one in one field each; lineages and references that fit into
a payload one by one and not together, with the bound on either the first to be
exceeded, in a merged pair or in the whole batch only. Run: two signals, of three kinds, at
any moment. Manifests and configurations are checked as they are offered: every
way in which three claims can need each other, every assignment of two series
to two instances; a good configuration and those that differ from it in one
value, on either side of each limit; and the good one split over two files in
every way, each key of the shared sections in either, both or neither, other
sections in the wrong file, wrong versions.

`historical_planner` takes two calendars so that one may fail while the other
comes, one with a date without session and one with overnight sessions and a
break that a correction removes, and a day of three ticks: the selector's
interval is no longer than a session, which is the one fact about the instants
that `RetryResolves` needs. The demands of the run use two of the windows;
`PlansAreExact` also resolves the others, at every instant and for three
intervals, and compares what they give at two instants (`WindowsConsistent`).
A window whose first complete interval falls after its trade date is deferred
to an instant at which it means another session; the code has no other answer,
and the comparison stays within a trade date. `Horizon`, `MaxLate` and `LastTick` are
bounds of the model; time is otherwise unbounded.

`HistoricalAcquisition`, `HistoricalPlanner` and `live_support` switch deadlock
checking off because their actors stop, the clock of the planner ends, or, in
`live_support`, a declaration needs no step.
Everywhere else every state has a successor; the worker's thread ends, but its
caller may call `close` again.

Fairness. *Historical execution*: time passes and the poll timer calls
`advance`; nothing is assumed of the provider, of consumers or of cancellation.
*Worker*: the thread keeps running; nothing is assumed of PostgreSQL, whose
failures are bounded by the retry policy, or of the caller. *Health*: handlers
return and the worker thread runs (weak); timers of the event loop are served
although other callbacks keep the loop busy (strong, since the empty stack they
need comes and goes). *Session state*: calls return, time passes, the evaluation
timer comes (weak), and a due alert is served although faulty evaluations keep
the loop busy (strong); no boundary need pass and nobody need stop. *Planner*: calls return and the clock
runs, and an alert that is due is served within `MaxLate`. *Alerts*: the two
timers and the posting thread run; nothing is assumed of the webhook or of a
sample. *Evidence*: the evaluation timer runs. `RecoversWhenCalm` assumes in its statement that
disturbances stop, failed writes among them.

## 4. Findings

- `historical_refusal`: a request whose last submission is refused inside
  `_dispatch` ends, but its readiness results are dropped
  (`historical_execution.py:444` extends only the events), while
  `docs/architecture/market-data-and-acquisition.md:146` says that each consumer
  separately reaches an outcome.
- `late_answer`: an empty answer that arrives after its request expired settles
  the next request in the lane (`system/acquisition.py:281`), while the same
  document, line 151, says that late responses are ignored. `WrongAnswerOnlyWhenLate`
  delimits it: with one lane, an answer on time always finds its own request.
  The instance takes bars of one request as invalid for another (`Fits = {}`),
  which is the case most favourable to the code.

- `stale_live`: `SessionStateDeliveryState` says that buffered transitions are
  never silently evicted (`session_state_delivery.py:110`). A nested evaluation
  delivers revision 3 before revision 2; the consumer that sees the gap restarts
  and its buffer is cleared (line 269); the producer refuses the new cycle while
  the old one is unexpired (`actors.py:497`), and a refusal is not retried; then
  revision 2 arrives, is contiguous, and the consumer is live without revision
  3. The alert that opens a cycle from LIVE waits for the old attempt to expire
  (`actors.py:1250`); a restart after a gap does not. The next boundary alert
  repairs it, which `LiveSeesTheWall` checks. It needs a second consumer whose
  own overflow requests a snapshot inside the same publication. With one
  consumer of one calendar the claim holds: `LiveIsCurrent`. With one consumer
  of two calendars (`Calendars = {c1, c2}`, `MaxBoundary = 3`; 2 is too small)
  TLC refutes `LiveIsCurrent` too: a restart loses revision 3 of `c1`, its cycle
  is refused as expired and leaves the consumer DEGRADED, and the next
  contiguous transition of `c2` empties `affected_calendar_ids` and makes it LIVE
  (line 765). A boundary alert of `c1` is what finds the gap again.

Disagreements met on the way that no run of its own shows:

- Lifecycle events name a stream and not a claim (`system/acquisition.py:541`),
  so releasing one of two claims makes a stream that is still delivered
  UNAVAILABLE until another event of it comes, and a second claim stops it from
  learning its recency. `EvidenceInv` says exactly this much: a delivered stream
  is held dead only if a claim on it was released or its unsubscription failed.
  `docs/architecture/session-evidence-health.md:138` calls unavailable what was
  rejected or failed.
- A WARNING within the cooldown is suppressed and never sent later; `AlertInv`
  says that this is the only way in which the channel disagrees with the
  evaluator.
- `system/cli.py` starts the helper process after `start_run` and before the
  `try` (line 110): if that raises, the record stays open although nothing
  crashed. `RunInv` counts an exception among the ways to leave it open.
- A signal between `Popen` and the installation of the handlers (`cli.py:388`),
  or after their restoration, ends the command and leaves its child running;
  `docs/operations/developer-setup.md:88` excludes that only for a wrapper that returns,
  and so does `RunInv`.
- A complete batch with one more bar that starts between its intervals makes the
  result of `validate_historical_bars_result` raise instead of rejecting it;
  It also raises when the lineage of a pair of duplicates or of a batch exceeds
  64 entries or its evidence references 256. `ValidationInv` says that nothing
  else does, and that a batch which fits as a whole never fails for the order in
  which its duplicates are merged.
- After a projection cycle has ended for good `start_projection_cycle` does
  nothing, so demands for its calendars wait for ever; `NothingForgotten` makes
  that exception.

## 5. Proofs

Eight modules hold the theorems; all are proved for every value of the constants
that satisfies the named assumptions, which TLC evaluates on the runs. The names
of the lemmas are the argument; what follows says which invariant is inductive
and why the property alone is not.

**`HistoricalExecution_proofs`** (`ExecutionAssumption`). `TypeCorrect`:
`TypeOK` is inductive; one lemma on `Dispatch` (a typed table stays typed
whatever is accepted or refused) serves every operation. `OutcomesCorrect`: the
property speaks of `attached`, the code of the `deps` of an entry that is
deleted when the request ends; the strengthening says that an outstanding
entry's `deps` are exactly the attached dependencies and have no outcome yet,
and that an ended or absent entry has none left to report. `LanesCorrect`
(`LaneInv`): rewriting entries moves none into a lane but through `Dispatch`,
which counts the busy lanes first, and no queue outgrows its limit.
`PriorityCorrect` and `LanesUsed` are action properties: no step hands a request
to the provider and leaves a due one of higher priority waiting, and none leaves
a free lane beside a due request. Of requests of one priority nothing is claimed:
the code takes them by `request_id`. `ContractImplemented` is the refinement of
`ReadinessContract`: the initial states map, and every step maps to one of the
contract or to a stutter.

**`PersistenceWorker_proofs`** (`WorkerAssumption`), with `Inv == TypeOK /\
WorkerPlaces /\ CallerPlaces /\ SentinelLast /\ AcceptedInOrder`.
`AcceptedInOrderAlways`: no admitted record is lost, repeated or overtaken.
`CleanClose`: `SentinelLast` makes it hold: once `closed` is set no record is
being put, so the sentinel is the last thing ever admitted, and a worker that
has seen it has an empty queue behind it. `LedgerFaithfulAlways` (`LedgerInv`)
says of the batch in hand that the table holds none of it before an attempt has
committed and all of it afterwards, whether or not the write returned, and that
admitted records carry increasing numbers. The theorem says that rows are in the
order of offering, none twice, and that what is reported as stored is held; a
batch given up after a lost acknowledgement may be held all the same. `AdmissionAccountedAlways` needs that
the check which admitted a normal record still holds when it is put (only this
thread puts, the worker only takes), and a balance of the counters that counts
the record in the caller's hand and the batch the worker has not counted yet.
The helper `Fresh` of the model (a record not used so far) states the choice of
a record without a fold over the sequence.

**`HistoricalAcquisition_proofs`** (`AcquisitionAssumption`). `ActorRefines`:
`AcqSpec => Init /\ [][Next]_vars` of `HistoricalExecution`, step by step, so
the theorems on the coordinator hold inside the actor. `BudgetCorrect` is about
the sum of the observations of the plans under way; the sum over a finite set is
taken apart by removing and adding one demand. `GateCorrect` adds that a
starting actor is ready, `StopCorrect` that whatever is queued or in flight
during the shutdown loop is still listed for cancellation, also what an earlier
cancellation dispatched; held plans are not looked at and may remain.
`AcqTypeCorrect`: `AcqTypeOK`. `AttributionOnOneLane`
is the positive half of the finding on wrong answers: with one lane a wrong
attribution needs a late answer. `AnswerInv` bounds the answers on their way to
a request by its submissions, without which the type is not inductive.
`SortedIds` is stated through `Position` instead of a recursive sort.

**`HistoricalPlanner_proofs`** (`PlannerAssumption`, the schedule's
`DefinitionTyped` and `Windows`). `ResolverCorrect` is about values: for every
window, policy, calendar, interval and instant a range that is returned is not
empty and over, and a retry that is named is still to come. `PlannerInv` proves
`CycleCorrect`, `FreshCorrect` and `RememberedCorrect` together, because each
needs the others: `FreshKept`, that a complete cycle wants nothing unless the
next one is about to begin; `AwaitKept`, that a calendar without a projection is
asked for, or will be, or the cycle ended for good; `DemandsKept`, that a
pending demand waits for such a calendar and a deferred one has its alert;
`CycleKept`, the shape of the cycle and the window of dates it was begun for.
`PlansOver` and `RetriesLater` lift `ResolverCorrect` to the runs. The tables
`Resolution`, `Projectable` and `Identity` are functions of one argument that
yield functions, and the boundaries a provider supplies are typed by
`BoundaryTyped` and `SuppliedValid`, so that what the model takes from outside
is an assumption with a name.

**`SessionState_proofs`** (`DeliveryAssumption`, `SessionAssumption`).
`SessionMarksInv`: `SessionTypeOK` alone is not inductive: a request is typed
only because a waiting consumer has begun an attempt, and a retry only because
an attempt was left. `Sound` adds that, and that no watermark or buffered
revision is ahead of what was published; `GoodFrame` says of a call that its
attempt is not ahead of its consumer and that a snapshot still awaited is not
behind the consumer's watermarks. Every operator of the reducer keeps `Sound`
and `Advances` (one lemma each); `GoodStays` carries every call on the stack
over any step that advances consumers and lengthens `published`.
`SessionTypeCorrect` and `SessionMarksAdvance` follow. `LiveStaysCurrent`
(`LiveIsCurrent`) is about one consumer of one calendar (`OneOfEach`, the instance
of `session_order`), the only case in which the claim is true, for any policy,
number of boundaries and failing evaluations. `CurrentInv` says what makes it so
inside a cascade: a live consumer lags behind only the transition that is on its
way to it (`LiveOrTold`); that transition is the last of its calendar, and the
snapshot it waits for reports the last revision (`CurrentTop`); and a cut below
anything but its own transition is awaited no longer (`CurrentBelow`), because
whatever overtook it made the consumer begin a new cycle. TLC checked `CurrentInv`
on that instance first.

**`LiveSupport_proofs`**: the components of the live path, one section each.
`BarrierCorrect` (`ReadinessInv`) needs types and that an unsealed barrier has
heard nothing after its deadline. `AdmissionCorrect` (`AdmissionInv`) holds of
any subjects and contents.
`DemandsFollowed` (`DemandInv`) needs only the shape of the coordinator beside
it: each operation ends in a reconciliation that leaves subscribed what is
demanded, except what a port call refused, whatever it found.
`ValidationCorrect` (`ValidationInv`): `VInv` says of the loop over the rows
that what is retained of a key is an observation that was taken, but for where it is
from (`RetainedKept`), that each reason stands for a fact about the batch as
a whole (`ReasonsKept`), that without a conflict all that was taken is
equivalent to what is retained (`ConflictsKept`), and that what is retained
carries no lineage and no reference that was not taken, without a conflict all
of it, the loop stopping only for a merged pair that carries too much
(`CarriedKept`). With that, a batch that fits into a payload as a whole is
never stopped in the loop (`CarriedReturns`). `ObservationValid` states the shape of a row, and
`RequestAssumption` that bounds are naturals, because an unbounded record is not
something a proof can reason about. `AlertsCorrect` (`AlertInv`): `AlertKept`
adds which accepted card is in the thread's hands and which are in the queue,
with the sentinel of `close` behind them, and that the last card about resources
agrees with the evaluator. `EvidenceCorrect` (`EvidenceInv`): a verdict of HEALTHY
is worth something only between judgements, so `EInv` says (`Fit`) that the age
behind it exceeds the widest threshold by at most one evaluation interval, the
one that is overdue, whatever thresholds were learned; that a stream whose last
event was an end or a failure has been judged UNAVAILABLE; and (`EndsSpared`)
that such a stream is still subscribed only if it was spared. The operations of a
poll are a recursive function on sets of demands (`Performed`, the greatest id
last), and what one operation keeps all of them keep. `BookCorrect` (`BookInv`)
needs beside the property only the shape of the book. Its difficulty is the loop
that evicts: from a book within its limits only the scopes of the new entity can
exceed one, each by one, so two rounds are enough, and a round without a
candidate (`Blocked`) means that no other choice would have done either.
`RevisionsCorrect` (`RevisionsInv`) puts the books of entities and of metrics
side by side.

**`OperationalHealth_proofs`** (`ControlAssumption`, `HealthAssumption`): the
message bus delivers while the caller waits, so between two states of rest there
are cascades of nested calls of two actors. `HInv` therefore speaks of the set
of pending calls (`Stack`) and, with `Due`, of what each of them still has to
bring about: a pending failure report carries the incident the persistence actor
keeps, a pending recovery is of a code that is no longer failing, a pending
resource signal carries the level of the monitor. `AgreeKept` and `MonitorKept`
say that the two sides agree or a call is pending that will make them;
`ControlKept` that READY has its gates open and that a running controller with
open gates is READY unless its evaluation is still pending; `FlightKept` that a
recovery record is in flight in one place only; `LedgerKept` that a loss no
stored record names keeps a failure open or about to be opened. When the stack
is empty this is `FailuresAlwaysAgree`, `ReadyAlwaysEarned`, `ReadyNeverMissed`
and `StartupLossAlwaysFatal`. TLC checked `HInv` on the instance of the run
before it was proved. `HealthAssumption` asks for three incidents: a code that
fails, recovers and fails again needs an identity that is neither the old one
nor that of another code, as UUIDs always give. `Noticed` removes the stored
codes by `Kept` and `Place` instead of a filter, whose definition is recursive.

**`RunStart_proofs`**. `LoadedServes`: whatever the loader accepts, in one file or in two, satisfies
what its readers take for granted (`ConfigurationInv`); of two files, that each
key comes from the one that decides it (`SplitKept`). It is a theorem about values, so it holds
of every configuration and not only of those offered to TLC. `DeclarationsCorrect`
(`DeclarationsInv`) adds that of every manifest: `VisitFinds` is the correctness
of the depth-first search of `_reject_dependency_cycles`. `Begins` says what a
visit may count on: the claims of the path lead to those it is to visit, what has
been visited is closed under needs, free of circles and apart from the path;
`Finds` that it ends with a circle, or with all it was to visit among the visited
and the same facts. A call is measured by the claims off the path and, among
equals, by those still to visit; that measure gives both the existence of the
recursive function (`VisitExists`) and the induction. The part on learned
thresholds, `AdaptiveRises`, is not obvious from the code: `max(minimum,
previous + 1)` under a `min` with the maximum keeps three ages strictly apart
only because the loader orders minima and maxima. `RunCorrect` (`RunInv`, from
`LifecycleAssumption`), for any number of signals: `RunInv` speaks of the end of
a command; `ChildInv` adds what is known on the way (a child that is waited for
has ended exactly if it has a code, and a forwarded signal is remembered until
the command ends), `RecordInv` what the row and the error are at each step of
`main`.

Proving found places where the model could not be reasoned about: `CASE`s whose
guards overlapped (`CalendarDelivery`, `HistoricalPlanner`, `HistoricalWindows`,
`TradingCalendar`) leave the choice of the branch open in TLA+, whereas TLC
takes the first true one; they are `IF` chains now, in the order of the code.
Types of what comes from outside the model are assumptions with names instead of
habits of the instance. Where a fold over a sorted sequence stood for a loop
(`EvidenceHealth`, `ProducerManifest`) there is now a recursive function on the
set of what is left, which takes the next id itself: its existence and what it
keeps are proved by induction on the size of that set.

### Only model-checked

- Liveness (`EveryRequestEnds`, `EveryRecordSettled`, `RecoversWhenCalm`,
  `SyncSettles`, `LiveSeesTheWall`, `CycleSettles`, `SteadyLevelReported`,
  `SilenceNoticed`), which is beyond this prover.
- The other half of `RetryResolves` (a retry at its exact instant decides the
  demand), which holds only of schedules whose sessions outlast the interval, and
  `PlansAreExact`, which compares the resolver with a reference definition over
  sessions. Sums, unions and maxima over finite sets are proved where
  they occur, from a smallest counterexample; what a recursive function or a fold
  computes for every sequence is not.

## 6. What is left out

Wording of events, logging, field validation of messages and dataclasses,
UUIDs and hashes (identities are model values), PostgreSQL's SQL, NautilusTrader
itself (its bus, timers and data engine appear as the code uses them), psutil
and HTTP. The schedule provider appears in `TradingCalendar` as the rows it
gives; changes of a zone's offset are left out.

No module: composition (a list of actors), schema migrations (SQL under a lock),
the message contracts of bars, metrics and calendars (validation of fields), the
system diagram tool.

Partly modelled: the historical and the live path of `DataAcquisitionActor` are
separate modules that share no state but the startup gate; the run of the
historical path with one attempt and a raising port is left out; of the
configuration, the checks of a single field's type and range; of sessions, the
reading of a provider's schedule. Hazards without a property carry a note in
`PROJECT.json`.

## 7. Plan

1. The two paths of `DataAcquisitionActor` in one module, with `HistoricalPlanner`
   upstream and `SessionState` in place of the revisions that come as they like.
2. `ResourceAlerts` composed with `SystemControl` in place of the environment of
   `OperationalHealth`.
3. `AuditQueue`: an abstract bounded queue, implemented by `PersistenceWorker`
   and used by `OperationalHealth`.
4. Theorems: type correctness of `OperationalHealth` as a theorem of its own;
   `PlansAreExact`, which needs that projected windows of a calendar are in order
   and apart.
