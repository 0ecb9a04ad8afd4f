---------------------------- MODULE ResourceAlerts ----------------------------
(* The path of a resource alert: the sampler reads the host on a timer, the *)
(* evaluator of the health actor confirms a changed level over consecutive  *)
(* samples, and the Discord actor hands a card to a thread that posts it.   *)
(* Signals are delivered synchronously, so a sample, its evaluation and the *)
(* submission of its card are one step; the posting thread interleaves.     *)
(* Time is relative: ages are counted in sample intervals up to the limit   *)
(* beyond which they make no difference.                                    *)
EXTENDS Naturals, Sequences, FiniteSetsExt, SequencesExt, Functions

CONSTANTS
    Readings,       \* what the sampler may read: [available, rss, fds]
    CriticalAt,     \* threshold of each metric with a critical one
    WarningAt,      \* threshold of each metric with a warning one
    Confirmations,  \* consecutive samples for "WARNING" and "CRITICAL"
    Recovery,       \* consecutive samples for a less severe level
    Cooldown,       \* intervals between two cards, unless critical
    Window,         \* samples of memory growth
    StaleWarning, StaleCritical,  \* intervals without a sample
    QueueCapacity,
    MaxUnread,      \* bound of the model: results the thread leaves unread
    NoReading       \* a metric the platform does not give

Levels == {"NORMAL", "WARNING", "CRITICAL"}

ASSUME AlertAssumption ==
    /\ Confirmations \in [{"WARNING", "CRITICAL"} -> Nat \ {0}]
    /\ {Recovery, Window, QueueCapacity, MaxUnread} \subseteq Nat \ {0}
    /\ Cooldown \in Nat
    /\ StaleWarning \in Nat \ {0} /\ StaleCritical \in Nat /\ StaleWarning < StaleCritical

VARIABLES
    mode,        \* of the actors: "off", "running", "stop", "stopped", "dispose", "disposed"
    due,         \* timers whose callback has not run in this interval
    level,       \* the evaluator: [state, candidate, count, quiet]
    growth,      \* resident memory of the last samples
    silent,      \* intervals since the last sample, or since the start
    queue,       \* of the worker: cards, and the sentinel of close
    worker,      \* the thread: "idle", "posting", "reporting" or "ended"
    unread,      \* results the actor has not read
    stopQueued,  \* close has queued its sentinel
    \* History.
    assessed,    \* the last assessment
    accepted,    \* cards not yet posted, the one in the thread's hands first
    told,        \* the level of the last resource card that was posted
    last,        \* the last resource card: "none", "pending", "told" or "lost"
    hushed,      \* the last transition came within the cooldown of a card
    clean        \* close returned TRUE in on_stop

alertVars == <<mode, due, level, growth, silent, queue, worker, unread,
               stopQueued, assessed, accepted, told, last, hushed, clean>>
threadVars == <<worker, unread>>
closeVars == <<stopQueued, clean>>

Card(about, state) == [about |-> about, state |-> state]
Stop == Card("STOP", "STOP")
Timers == {"sample", "staleness"}

------------------------------------------------------------------------------
(* Assessment of a sample.                                                  *)

LowerIsWorse == {"host_memory_available_percent"}

(* Growth is measured from the oldest sample of the window; descriptors     *)
(* count only where the platform gives them.                                *)
Observations(reading, history) ==
    [m \in {"host_memory_available_percent", "rss_growth_bytes"} |->
        IF m = "rss_growth_bytes" THEN reading.rss - history[1] ELSE reading.available]
    @@ [m \in {"open_fd_ratio"} \ (IF reading.fds = NoReading THEN {"open_fd_ratio"} ELSE {}) |->
            reading.fds]

Breached(observed, thresholds) ==
    \E m \in DOMAIN thresholds \cap DOMAIN observed :
        IF m \in LowerIsWorse THEN observed[m] <= thresholds[m] ELSE observed[m] >= thresholds[m]

Assess(observed) ==
    CASE Breached(observed, CriticalAt) -> "CRITICAL"
      [] ~Breached(observed, CriticalAt) /\ Breached(observed, WarningAt) -> "WARNING"
      [] OTHER -> "NORMAL"

Remembered(history, rss) ==
    LET all == Append(history, rss)
    IN  IF Len(all) > Window THEN Tail(all) ELSE all

(* What a check for staleness assesses: nothing while samples are recent.   *)
Staleness ==
    CASE silent >= StaleCritical -> {"CRITICAL"}
      [] silent < StaleCritical /\ silent >= StaleWarning -> {"WARNING"}
      [] OTHER -> {}

------------------------------------------------------------------------------
(* The evaluator.                                                           *)

Severity == [NORMAL |-> 0, WARNING |-> 1, CRITICAL |-> 2]

RequiredSamples(target) ==
    IF Severity[target] < Severity[level.state] THEN Recovery ELSE Confirmations[target]

(* Fault: recoveries keep to the cooldown as well.                          *)
NotificationCooledDown(target) == target = "CRITICAL" \/ level.quiet >= Cooldown
NotificationEligible(target) == target # "WARNING" \/ level.quiet >= Cooldown

(* Fault: a repeated assessment starts the confirmation anew.               *)
CountedAnew(target) == 1
Counted(target) == IF target = level.candidate THEN level.count + 1 ELSE 1

Confirmed(target) == target # level.state /\ Counted(target) >= RequiredSamples(target)

Advanced(target) ==
    IF target = level.state \/ Confirmed(target)
    THEN [state |-> target, candidate |-> "none", count |-> 0,
          quiet |-> IF Confirmed(target) /\ target # "NORMAL" /\ NotificationEligible(target)
                    THEN 0 ELSE level.quiet]
    ELSE [level EXCEPT !.candidate = target, !.count = Counted(target)]

Pending(cards) == \E i \in DOMAIN cards : cards[i].about = "RESOURCE"

(* An actor that submits a card: it is dropped when the queue is full.      *)
Submit(card) ==
    LET room == Len(queue) < QueueCapacity
    IN  /\ queue' = IF room THEN Append(queue, card) ELSE queue
        /\ accepted' = IF room THEN Append(accepted, card) ELSE accepted
        /\ last' = IF card.about = "SYSTEM" THEN last
                    ELSE IF room THEN "pending" ELSE "lost"

(* The evaluator advances; a transition is published, and the Discord actor *)
(* makes a card of it unless the evaluator found it not eligible.           *)
Advance(target) ==
    /\ assessed' = target
    /\ level' = Advanced(target)
    /\ hushed' = IF Confirmed(target) THEN target = "WARNING" /\ level.quiet < Cooldown
                 ELSE hushed
    /\ IF Confirmed(target) /\ NotificationEligible(target)
       THEN Submit(Card("RESOURCE", target))
       ELSE UNCHANGED <<queue, accepted, last>>

------------------------------------------------------------------------------
AlertInit ==
    /\ mode \in {"off", "running"}
    /\ due = {} /\ silent = 0 /\ growth = <<>>
    /\ level = [state |-> "NORMAL", candidate |-> "none", count |-> 0, quiet |-> Cooldown]
    /\ queue = <<>> /\ worker = "idle" /\ unread = 0 /\ stopQueued = FALSE
    /\ assessed = "NORMAL" /\ accepted = <<>> /\ told = "NORMAL"
    /\ last = "none" /\ hushed = FALSE /\ clean = FALSE

UpTo(limit, age) == IF age < limit THEN age + 1 ELSE limit

(* An interval ends when the callbacks of its timers have run.              *)
AlertTick ==
    /\ mode = "running" /\ due = {}
    /\ due' = Timers
    /\ silent' = UpTo(StaleCritical, silent)
    /\ level' = [level EXCEPT !.quiet = UpTo(Cooldown, @)]
    /\ UNCHANGED <<mode, growth, queue, threadVars, closeVars,
                   assessed, accepted, told, last, hushed>>

Fires(timer) == mode = "running" /\ timer \in due /\ due' = due \ {timer}

(* _sample, and on_signal of the health actor, which receives the sample    *)
(* and, the first time, announces that monitoring works.                    *)
Sampled ==
    /\ Fires("sample")
    /\ \E reading \in Readings :
          LET history == Remembered(growth, reading.rss)
          IN  growth' = history /\ Advance(Assess(Observations(reading, history)))
    /\ silent' = 0
    /\ UNCHANGED <<mode, threadVars, closeVars, told>>

(* The sample could not be taken or made into an event: _sample counts the  *)
(* exception and waits for the next interval.                               *)
SampleFails ==
    /\ Fires("sample")
    /\ UNCHANGED <<mode, level, growth, silent, queue, threadVars, closeVars,
                   assessed, accepted, told, last, hushed>>

CheckStaleness ==
    /\ Fires("staleness")
    /\ IF Staleness = {}
       THEN UNCHANGED <<level, queue, assessed, accepted, last, hushed>>
       ELSE \E target \in Staleness : Advance(target)
    /\ UNCHANGED <<mode, growth, silent, threadVars, closeVars, told>>

(* System Control publishes a state, which is a card of the same worker.    *)
SystemHealth ==
    /\ mode = "running"
    /\ Submit(Card("SYSTEM", "READY"))
    /\ UNCHANGED <<mode, due, level, growth, silent, threadVars, closeVars,
                   assessed, told, hushed>>

(* The actor reads the results of its worker on a timer of its own.         *)
DrainResults ==
    /\ mode = "running" /\ unread > 0
    /\ unread' = 0
    /\ UNCHANGED <<mode, due, level, growth, silent, queue, worker, closeVars,
                   assessed, accepted, told, last, hushed>>

------------------------------------------------------------------------------
(* The thread of the worker.                                                *)

Take ==
    /\ worker = "idle" /\ queue # <<>> /\ unread < MaxUnread
    /\ worker' = IF Head(queue) = Stop THEN "ended" ELSE "posting"
    /\ queue' = Tail(queue)
    /\ UNCHANGED <<mode, due, level, growth, silent, unread, closeVars,
                   assessed, accepted, told, last, hushed>>

(* The post answers, or raises; either way the card is counted.             *)
Post ==
    /\ worker = "posting"
    /\ worker' = "reporting"
    /\ accepted' = Tail(accepted)
    /\ \E delivered \in BOOLEAN :
          IF Head(accepted).about = "RESOURCE"
          THEN /\ told' = IF delivered THEN Head(accepted).state ELSE told
               /\ last' = IF last = "lost" \/ Pending(Tail(accepted)) THEN last
                          ELSE IF delivered THEN "told" ELSE "lost"
          ELSE UNCHANGED <<told, last>>
    /\ UNCHANGED <<mode, due, level, growth, silent, queue, unread, closeVars,
                   assessed, hushed>>

Report ==
    /\ worker = "reporting"
    /\ worker' = "idle" /\ unread' = unread + 1
    /\ UNCHANGED <<mode, due, level, growth, silent, queue, closeVars,
                   assessed, accepted, told, last, hushed>>

------------------------------------------------------------------------------
(* on_stop and on_dispose of the Discord actor, after the timers are gone   *)
(* and with them any use of the evaluator's samples.  Both call close,      *)
(* which waits for room for its sentinel, then for the thread, and gives up *)
(* at its deadline.                                                         *)

Closing == mode \in {"stop", "dispose"}

StopActors ==
    /\ mode = "running"
    /\ mode' = "stop" /\ due' = {} /\ growth' = <<>> /\ silent' = 0
    /\ level' = [level EXCEPT !.candidate = "none", !.count = 0, !.quiet = Cooldown]
    /\ assessed' = level.state
    /\ UNCHANGED <<queue, threadVars, closeVars,
                   accepted, told, last, hushed>>

Dispose ==
    /\ mode = "stopped"
    /\ mode' = "dispose"
    /\ UNCHANGED <<due, level, growth, silent, queue, threadVars, closeVars,
                   assessed, accepted, told, last, hushed>>

QueueSentinel ==
    /\ Closing /\ ~stopQueued /\ Len(queue) < QueueCapacity
    /\ queue' = Append(queue, Stop) /\ stopQueued' = TRUE
    /\ UNCHANGED <<mode, due, level, growth, silent, threadVars, clean,
                   assessed, accepted, told, last, hushed>>

(* on_stop reads the results that are there once close has returned.        *)
CloseReturns(done) ==
    /\ mode' = IF mode = "stop" THEN "stopped" ELSE "disposed"
    /\ clean' = IF mode = "stop" THEN done ELSE clean
    /\ unread' = IF mode = "stop" THEN 0 ELSE unread
    /\ UNCHANGED <<due, level, growth, silent, queue, worker, stopQueued,
                   assessed, accepted, told, last, hushed>>

(* Fault: close does not wait for the thread.                               *)
CloseUnjoined == Closing /\ stopQueued /\ CloseReturns(TRUE)
CloseSucceeds == Closing /\ stopQueued /\ worker = "ended" /\ CloseReturns(TRUE)

CloseTimesOut ==
    /\ Closing
    /\ IF stopQueued THEN worker # "ended" ELSE Len(queue) >= QueueCapacity
    /\ CloseReturns(FALSE)

------------------------------------------------------------------------------
AlertNext ==
    \/ AlertTick \/ Sampled \/ SampleFails \/ CheckStaleness \/ SystemHealth \/ DrainResults
    \/ Take \/ Post \/ Report
    \/ StopActors \/ Dispose \/ QueueSentinel \/ CloseSucceeds \/ CloseTimesOut

(* Timers fire while their actor runs, and the thread is never left waiting *)
(* by the scheduler.  Nothing forces a sample to succeed.                   *)
AlertFairness ==
    /\ WF_alertVars(AlertTick)
    /\ WF_alertVars(Sampled \/ SampleFails)
    /\ WF_alertVars(CheckStaleness)
    /\ WF_alertVars(DrainResults)
    /\ WF_alertVars(Take \/ Post \/ Report)

AlertSpec == AlertInit /\ [][AlertNext]_alertVars /\ AlertFairness

------------------------------------------------------------------------------
(* When no resource card is under way and the last one arrived, the channel *)
(* shows the level of the evaluator, except for a warning that came within  *)
(* the cooldown of an earlier card: the code never sends that one later.    *)
ChannelAgrees ==
    last \in {"none", "told"} /\ told # level.state
    => level.state = "WARNING" /\ hushed

(* A close that on_stop reports as complete has posted every accepted card  *)
(* and left no result unread.                                               *)
CleanCloseSettles == clean => accepted = <<>> /\ queue = <<>> /\ unread = 0

AlertInv == ChannelAgrees /\ CleanCloseSettles

(* A level that every assessment finds from some moment on becomes the      *)
(* state of the evaluator, and so does CRITICAL when samples cease: neither *)
(* failed samples nor the two timers' order delay it for ever.              *)
SteadyLevelReported ==
    /\ \A s \in Levels :
          <>[](mode = "running" /\ assessed = s) => <>[](level.state = s)
    /\ <>[](mode = "running") /\ <>[][~Sampled]_alertVars => <>[](level.state = "CRITICAL")
=============================================================================
