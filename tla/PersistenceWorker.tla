-------------------------- MODULE PersistenceWorker --------------------------
(***************************************************************************)
(* PersistenceWorker (src/src/markeitech/system/persistence.py): the       *)
(* bounded queue between the persistence actor's thread and the thread     *)
(* that writes batches of audit records to PostgreSQL.                     *)
(*                                                                         *)
(* Only the actor's thread calls submit, close and snapshot; each of them  *)
(* interleaves with the worker thread between any two accesses to what     *)
(* they share: the queue, the results queue and the counters.              *)
(***************************************************************************)
EXTENDS Integers, Sequences, FiniteSets

CONSTANTS
    QueueCapacity,     \* persistence.queue_capacity
    CriticalReserve,   \* persistence.critical_queue_reserve
    BatchSize,         \* persistence.write_batch_size
    MaxAttempts,       \* persistence.write_max_attempts
    MaxRecords,        \* bound: how many records the actor offers
    STOP               \* the sentinel close() enqueues

Record == [seq : 1..MaxRecords, critical : BOOLEAN]

(* What the configuration loader accepts.                                  *)
ASSUME WorkerAssumption ==
    /\ QueueCapacity \in Nat \ {0}
    /\ CriticalReserve \in 0..(QueueCapacity - 1)
    /\ BatchSize \in 1..QueueCapacity
    /\ MaxAttempts \in Nat \ {0}
    /\ MaxRecords \in Nat
    /\ STOP \notin Record

VARIABLES
    caller,    \* the actor's thread: where it is, and the record in hand
    closed,    \* _closed
    stopped,   \* _stop_enqueued
    sequence,  \* the records offered so far (the actor's _sequence)
    pending,   \* _pending
    worker,    \* the worker thread: where it is, its attempt and batch
    results,   \* everything put in the results queue, in order
    counters,  \* _accepted, _stored, _failed and _rejected
    rows,      \* external: the rows PostgreSQL holds, in insertion order
    admitted   \* history: everything put in the queue, in order

workerVars == <<worker, results, rows>>
actorVars == <<caller, closed, stopped, sequence, admitted>>
vars == <<actorVars, workerVars, pending, counters>>

NormalCapacity == QueueCapacity - CriticalReserve

Init ==
    /\ caller = [pc |-> "idle", item |-> STOP, closing |-> "none"]
    /\ closed = FALSE
    /\ stopped = FALSE
    /\ sequence = 0
    /\ pending = <<>>
    /\ worker = [pc |-> "get", attempt |-> 0, batch |-> <<>>,
                 stop |-> FALSE, ok |-> FALSE]
    /\ results = <<>>
    /\ counters = [accepted |-> 0, stored |-> 0, failed |-> 0, rejected |-> 0]
    /\ rows = <<>>
    /\ admitted = <<>>

Increment(counter, amount) ==
    counters' = [counters EXCEPT ![counter] = @ + amount]

Put(item) ==
    /\ Len(pending) < QueueCapacity
    /\ pending' = Append(pending, item)
    /\ admitted' = Append(admitted, item)

-----------------------------------------------------------------------------
(* submit: the admission check, then put_nowait, then the counter.         *)

(* Fault: records are taken after close.                                   *)
AdmitsWhenClosed(critical) == critical \/ Len(pending) < NormalCapacity

(* Fault: the reserve is not kept for critical records.                    *)
AdmitsWithoutReserve(critical) == ~closed

Admits(critical) == ~closed /\ (critical \/ Len(pending) < NormalCapacity)

Submit(critical) ==
    /\ caller.pc = "idle"
    /\ sequence < MaxRecords
    /\ sequence' = sequence + 1
    /\ \/ /\ Admits(critical)
          /\ caller' = [caller EXCEPT
                           !.pc = "put",
                           !.item = [seq |-> sequence', critical |-> critical]]
          /\ UNCHANGED counters
       \/ /\ ~Admits(critical)
          /\ Increment("rejected", 1)
          /\ UNCHANGED caller
    /\ UNCHANGED <<closed, stopped, pending, admitted, workerVars>>

PutNoWait ==
    /\ caller.pc = "put"
    /\ Put(caller.item)
    /\ caller' = [caller EXCEPT !.pc = "count"]
    /\ UNCHANGED <<closed, stopped, sequence, counters, workerVars>>

QueueFull ==
    /\ caller.pc = "put"
    /\ Len(pending) = QueueCapacity
    /\ Increment("rejected", 1)
    /\ caller' = [caller EXCEPT !.pc = "idle"]
    /\ UNCHANGED <<closed, stopped, sequence, pending, admitted, workerVars>>

CountAccepted ==
    /\ caller.pc = "count"
    /\ Increment("accepted", 1)
    /\ caller' = [caller EXCEPT !.pc = "idle"]
    /\ UNCHANGED <<closed, stopped, sequence, pending, admitted, workerVars>>

-----------------------------------------------------------------------------
(* close: may be called again after it timed out (on_stop, on_dispose).    *)

Close ==
    /\ caller.pc = "idle"
    /\ closed' = TRUE
    /\ caller' = [caller EXCEPT !.pc = IF stopped THEN "join" ELSE "stop"]
    /\ UNCHANGED <<stopped, sequence, pending, admitted, counters, workerVars>>

PutStop ==
    /\ caller.pc = "stop"
    /\ Put(STOP)
    /\ stopped' = TRUE
    /\ caller' = [caller EXCEPT !.pc = "join"]
    /\ UNCHANGED <<closed, sequence, counters, workerVars>>

Closed == caller.pc = "join" /\ worker.pc = "done"

(* The deadline passes with the queue still full, or before the thread has *)
(* ended; otherwise the join succeeds.                                     *)
CloseReturns ==
    /\ \/ caller.pc = "stop" /\ Len(pending) = QueueCapacity
       \/ caller.pc = "join"
    /\ caller' = [caller EXCEPT
                     !.pc = "idle",
                     !.closing = IF Closed THEN "drained" ELSE "timeout"]
    /\ UNCHANGED <<closed, stopped, sequence, pending, admitted, counters, workerVars>>

-----------------------------------------------------------------------------
(* _run: a blocking get, then get_nowait until the batch is full.          *)

Take(item) == pending # <<>> /\ item = Head(pending) /\ pending' = Tail(pending)

Get ==
    /\ worker.pc = "get"
    /\ \/ /\ Take(STOP)
          /\ worker' = [worker EXCEPT !.pc = "done", !.stop = TRUE]
       \/ \E item \in Record :
             /\ Take(item)
             /\ worker' = [worker EXCEPT !.pc = "fill", !.batch = <<item>>]
    /\ UNCHANGED <<actorVars, results, counters, rows>>

Fill ==
    /\ worker.pc = "fill"
    /\ Len(worker.batch) < BatchSize
    /\ \E item \in Record :
          /\ Take(item)
          /\ worker' = [worker EXCEPT !.batch = Append(@, item)]
    /\ UNCHANGED <<actorVars, results, counters, rows>>

ToWrite(w) == [w EXCEPT !.pc = "write", !.attempt = 1]

(* Fault: the sentinel ends the thread before its batch is written.        *)
SentinelDropsBatch(w) == [w EXCEPT !.pc = "done", !.batch = <<>>, !.stop = TRUE]

SentinelInBatch(w) == [ToWrite(w) EXCEPT !.stop = TRUE]

(* The batch is full, the queue is empty, or the sentinel came up.         *)
Filled ==
    /\ worker.pc = "fill"
    /\ \/ /\ Len(worker.batch) = BatchSize \/ pending = <<>>
          /\ worker' = ToWrite(worker)
          /\ UNCHANGED pending
       \/ /\ Len(worker.batch) < BatchSize
          /\ Take(STOP)
          /\ worker' = SentinelInBatch(worker)
    /\ UNCHANGED <<actorVars, results, counters, rows>>

-----------------------------------------------------------------------------
(* _write_with_retries: one transaction per attempt.                       *)

Held(row) == \E i \in DOMAIN rows : rows[i] = row

(* The rows of a batch that the table does not hold, in their order.       *)
Fresh(batch) ==
    LET new == {i \in DOMAIN batch : ~Held(batch[i])}
    IN  [k \in 1..Cardinality(new) |->
            batch[CHOOSE i \in new : Cardinality({j \in new : j <= i}) = k]]

(* INSERT ... ON CONFLICT DO NOTHING, all rows in one transaction.         *)
Committed == rows' = rows \o Fresh(worker.batch)

(* Fault: the transaction may be left uncommitted.                         *)
WriteUnchecked ==
    /\ worker.pc = "write"
    /\ Committed \/ UNCHANGED rows
    /\ worker' = [worker EXCEPT !.pc = "count", !.ok = TRUE]
    /\ UNCHANGED <<actorVars, pending, results, counters>>

Write ==
    /\ worker.pc = "write"
    /\ Committed
    /\ worker' = [worker EXCEPT !.pc = "count", !.ok = TRUE]
    /\ UNCHANGED <<actorVars, pending, results, counters>>

(* Fault: the last failure is not caught and ends the thread.              *)
RaisedUncaught(w) ==
    IF w.attempt < MaxAttempts
    THEN [w EXCEPT !.attempt = @ + 1]
    ELSE [w EXCEPT !.pc = "done", !.ok = FALSE]

Raised(w) ==
    IF w.attempt < MaxAttempts
    THEN [w EXCEPT !.attempt = @ + 1]
    ELSE [w EXCEPT !.pc = "count", !.ok = FALSE]

(* The connection fails before the commit, or after it with its            *)
(* acknowledgement lost; the batch is retried or given up.                 *)
WriteRaises ==
    /\ worker.pc = "write"
    /\ Committed \/ UNCHANGED rows
    /\ worker' = Raised(worker)
    /\ UNCHANGED <<actorVars, pending, results, counters>>

CountSettled ==
    /\ worker.pc = "count"
    /\ Increment(IF worker.ok THEN "stored" ELSE "failed", Len(worker.batch))
    /\ worker' = [worker EXCEPT !.pc = "report"]
    /\ UNCHANGED <<actorVars, pending, results, rows>>

Report ==
    /\ worker.pc = "report"
    /\ results' = Append(results, [record |-> Head(worker.batch), stored |-> worker.ok])
    /\ worker' = [worker EXCEPT
                     !.batch = Tail(@),
                     !.pc = IF Len(worker.batch) > 1 THEN "report"
                            ELSE IF worker.stop THEN "done" ELSE "get"]
    /\ UNCHANGED <<actorVars, pending, counters, rows>>

Worker == \/ Get \/ Fill \/ Filled \/ Write \/ WriteRaises
          \/ CountSettled \/ Report

Caller == \/ \E critical \in BOOLEAN : Submit(critical)
          \/ PutNoWait \/ QueueFull \/ CountAccepted
          \/ Close \/ PutStop \/ CloseReturns

Next == Worker \/ Caller

(* The worker thread keeps running, whatever PostgreSQL answers.           *)
Spec == Init /\ [][Next]_vars /\ WF_vars(Worker)

-----------------------------------------------------------------------------
Settled == [i \in DOMAIN results |-> results[i].record]

(* The types of what the two threads hold.                                 *)
TypeOK ==
    /\ caller \in [pc : {"idle", "put", "count", "stop", "join"},
                   item : Record \cup {STOP},
                   closing : {"none", "timeout", "drained"}]
    /\ closed \in BOOLEAN
    /\ stopped \in BOOLEAN
    /\ sequence \in 0..MaxRecords
    /\ pending \in Seq(Record \cup {STOP})
    /\ Len(pending) <= QueueCapacity
    /\ worker \in [pc : {"get", "fill", "write", "count", "report", "done"},
                   attempt : 0..MaxAttempts,
                   batch : Seq(Record), stop : BOOLEAN, ok : BOOLEAN]
    /\ results \in Seq([record : Record, stored : BOOLEAN])
    /\ counters \in [{"accepted", "stored", "failed", "rejected"} -> Nat]
    /\ admitted \in Seq(Record \cup {STOP})

(* Every admitted record is settled once, in the order of admission, and   *)
(* none is lost between the queue, the batch and the results: through      *)
(* retries, given-up batches and a sentinel that arrives in mid-batch.     *)
AcceptedInOrder ==
    Settled \o worker.batch \o (IF worker.stop THEN <<STOP>> ELSE <<>>) \o pending
        = admitted

(* PostgreSQL holds the records in the order they were offered and none    *)
(* twice, even when the acknowledgement of a commit is lost and the batch  *)
(* is written again.                                                       *)
LedgerInOrder ==
    \A i, j \in DOMAIN rows : i < j => rows[i].seq < rows[j].seq

(* A record reported as stored is in PostgreSQL.                           *)
StoredIsDurable ==
    \A i \in DOMAIN results : results[i].stored => Held(results[i].record)

(* Rows are in the order of offering, none twice, and what is reported as  *)
(* stored is held.  The converse is not claimed: a batch given up after a  *)
(* lost acknowledgement is held although it is reported as failed.         *)
LedgerFaithful == LedgerInOrder /\ StoredIsDurable

(* A close that reports success left nothing behind: every admitted record *)
(* has a result, and none is waiting in the queue or in a batch.           *)
CleanCloseDrains ==
    caller.closing = "drained" => Settled \o <<STOP>> = admitted

(* Normal admissions cannot consume the capacity reserved for critical     *)
(* records, although the check and the put are two steps.                  *)
ReserveKept ==
    Cardinality({i \in DOMAIN pending :
                    pending[i] \in Record /\ ~pending[i].critical})
        <= NormalCapacity

(* The numbers a snapshot gives add up: rejected and accepted records are  *)
(* all the records offered, and the derived number of pending records is   *)
(* exactly those the worker has not counted, never negative.               *)
CountersBalance ==
    caller.pc \notin {"put", "count"} =>
        /\ counters.accepted + counters.rejected = sequence
        /\ counters.accepted - counters.stored - counters.failed
             = Cardinality({i \in DOMAIN pending : pending[i] # STOP})
               + IF worker.pc = "report" THEN 0 ELSE Len(worker.batch)

(* What submit admits is within the capacities, and what the counters say  *)
(* of it is true.                                                          *)
AdmissionAccounted == ReserveKept /\ CountersBalance

(* Every admitted record gets its result, and a thread told to stop ends:  *)
(* whatever fails, and whether or not close timed out before.              *)
EveryRecordSettled ==
    /\ \A n \in 1..MaxRecords :
          n \in DOMAIN admitted /\ admitted[n] # STOP ~> n \in DOMAIN results
    /\ stopped ~> worker.pc = "done"
=============================================================================
