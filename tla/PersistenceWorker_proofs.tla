----------------------- MODULE PersistenceWorker_proofs -----------------------
(***************************************************************************)
(* Proofs about PersistenceWorker for every capacity, batch size, number   *)
(* of attempts and number of records.  Inv adds to the types and to the    *)
(* flow of records what each thread's position says about the batch, the   *)
(* sentinel and the shutdown flags.  LedgerInv adds what PostgreSQL holds, *)
(* and AdmissionInv the reserve and the counters.                          *)
(***************************************************************************)
EXTENDS PersistenceWorker, SequenceTheorems, FiniteSetTheorems, TLAPS

Item == Record \cup {STOP}

(* What the worker thread's position says.                                 *)
WorkerPlaces ==
    /\ worker.pc \in {"get", "fill"} => ~worker.stop
    /\ worker.pc \in {"get", "done"} => worker.batch = <<>>
    /\ worker.pc \notin {"get", "done"} => worker.batch # <<>>
    /\ worker.pc = "done" => worker.stop

(* What the actor's thread has done about shutdown: a record is put only   *)
(* before close, and the sentinel once, after it.                          *)
CallerPlaces ==
    /\ caller.pc = "put" => ~closed /\ caller.item \in Record
    /\ caller.pc = "stop" => closed /\ ~stopped
    /\ caller.pc = "join" => stopped
    /\ stopped => closed
    /\ caller.closing = "drained" => worker.pc = "done"

(* The sentinel is the last thing ever put in the queue.                   *)
SentinelLast ==
    /\ ~stopped => ~worker.stop /\ \A i \in 1..Len(pending) : pending[i] # STOP
    /\ \A i \in 1..Len(pending) : pending[i] = STOP => i = Len(pending)
    /\ worker.stop => pending = <<>>

Inv ==
    /\ TypeOK
    /\ WorkerPlaces
    /\ CallerPlaces
    /\ SentinelLast
    /\ AcceptedInOrder

-----------------------------------------------------------------------------
(* Sequences: moving an element from the front of one to the end of        *)
(* another, and appending to a concatenation.                              *)

LEMMA AppendToConcat ==
    ASSUME NEW T, NEW a \in Seq(T), NEW b \in Seq(T), NEW x \in T
    PROVE  a \o Append(b, x) = Append(a \o b, x)
<1>1. Append(b, x) = b \o <<x>>
  BY AppendIsConcat
<1>2. a \o b \in Seq(T)
  BY ConcatProperties
<1>3. Append(a \o b, x) = (a \o b) \o <<x>>
  BY <1>2, AppendIsConcat
<1>4. <<x>> \in Seq(T)
  OBVIOUS
<1>5. (a \o b) \o <<x>> = a \o (b \o <<x>>)
  BY <1>4, ConcatAssociative
<1> QED BY <1>1, <1>3, <1>5

LEMMA HeadAndTail ==
    ASSUME NEW T, NEW b \in Seq(T), b # <<>>
    PROVE  /\ Head(b) \in T
           /\ Tail(b) \in Seq(T)
           /\ b = <<Head(b)>> \o Tail(b)
<1>1. Len(b) \in Nat \ {0}
  BY EmptySeq
<1>2. SubSeq(b, 1, Len(b)) = <<b[1]>> \o SubSeq(b, 1 + 1, Len(b))
  BY <1>1, SubSeqRecursiveFirst
<1>3. SubSeq(b, 1, Len(b)) = b
  BY SubSeqFull
<1>4. Tail(b) = SubSeq(b, 2, Len(b))
  BY TailIsSubSeq
<1>5. Head(b) = b[1] /\ Head(b) \in T /\ Tail(b) \in Seq(T)
  BY HeadTailProperties
<1> QED BY <1>2, <1>3, <1>4, <1>5

LEMMA MoveHead ==
    ASSUME NEW T, NEW a \in Seq(T), NEW b \in Seq(T), b # <<>>
    PROVE  Append(a, Head(b)) \o Tail(b) = a \o b
<1>1. Head(b) \in T /\ Tail(b) \in Seq(T) /\ b = <<Head(b)>> \o Tail(b)
  BY HeadAndTail
<1>2. <<Head(b)>> \in Seq(T)
  BY <1>1
<1>3. Append(a, Head(b)) = a \o <<Head(b)>>
  BY <1>1, AppendIsConcat
<1>4. (a \o <<Head(b)>>) \o Tail(b) = a \o (<<Head(b)>> \o Tail(b))
  BY <1>1, <1>2, ConcatAssociative
<1> QED BY <1>1, <1>3, <1>4

-----------------------------------------------------------------------------
(* The flow of records: results, then batch, then sentinel, then queue.    *)

Outcome == [record : Record, stored : BOOLEAN]

SettledIn(log) == [i \in DOMAIN log |-> log[i].record]

Flow(log, batch, stop, queue) ==
    SettledIn(log) \o batch \o (IF stop THEN <<STOP>> ELSE <<>>) \o queue

LEMMA SettledType ==
    ASSUME NEW log \in Seq(Outcome)
    PROVE  /\ SettledIn(log) \in Seq(Record)
           /\ SettledIn(log) \in Seq(Item)
           /\ Len(SettledIn(log)) = Len(log)
           /\ \A i \in 1..Len(log) : SettledIn(log)[i] = log[i].record
<1>1. Len(log) \in Nat /\ DOMAIN log = 1..Len(log)
  BY LenProperties
<1>2. \A i \in 1..Len(log) : log[i] \in Outcome
  BY ElementOfSeq
<1>3. SettledIn(log) \in [1..Len(log) -> Record]
  BY <1>1, <1>2 DEF SettledIn, Outcome
<1>4. SettledIn(log) \in Seq(Record)
  BY <1>1, <1>3
<1>5. SettledIn(log) \in Seq(Item)
  BY <1>4, SeqMonotonic DEF Item
<1> QED BY <1>1, <1>3, <1>4, <1>5, LenProperties DEF SettledIn

LEMMA SettledAppend ==
    ASSUME NEW log \in Seq(Outcome), NEW e \in Outcome
    PROVE  SettledIn(Append(log, e)) = Append(SettledIn(log), e.record)
<1> DEFINE more == Append(log, e)
<1>1. /\ more \in Seq(Outcome)
      /\ Len(more) = Len(log) + 1
      /\ \A i \in 1..Len(log) : more[i] = log[i]
      /\ more[Len(log) + 1] = e
  BY AppendProperties
<1>2. Len(log) \in Nat
  BY LenProperties
<1>3. e.record \in Record
  BY DEF Outcome
<1>4. /\ SettledIn(log) \in Seq(Record)
      /\ Len(SettledIn(log)) = Len(log)
      /\ \A i \in 1..Len(log) : SettledIn(log)[i] = log[i].record
  BY SettledType
<1>5. /\ Append(SettledIn(log), e.record) \in Seq(Record)
      /\ Len(Append(SettledIn(log), e.record)) = Len(log) + 1
      /\ \A i \in 1..Len(log) :
             Append(SettledIn(log), e.record)[i] = SettledIn(log)[i]
      /\ Append(SettledIn(log), e.record)[Len(log) + 1] = e.record
  BY <1>3, <1>4, AppendProperties
<1> HIDE DEF more
<1>6. /\ SettledIn(more) \in Seq(Record)
      /\ Len(SettledIn(more)) = Len(more)
      /\ \A i \in 1..Len(more) : SettledIn(more)[i] = more[i].record
  BY <1>1, SettledType
<1>7. \A i \in 1..Len(SettledIn(more)) :
          SettledIn(more)[i] = Append(SettledIn(log), e.record)[i]
  BY <1>1, <1>2, <1>4, <1>5, <1>6
<1>8. SettledIn(more) = Append(SettledIn(log), e.record)
  BY <1>1, <1>5, <1>6, <1>7, SeqEqual
<1> QED BY <1>8 DEF more

(* The parts of a flow are sequences of items.                             *)
LEMMA FlowTypes ==
    ASSUME NEW log \in Seq(Outcome), NEW b \in Seq(Record), NEW stop \in BOOLEAN
    PROVE  /\ SettledIn(log) \in Seq(Item)
           /\ b \in Seq(Item)
           /\ SettledIn(log) \o b \in Seq(Item)
           /\ (IF stop THEN <<STOP>> ELSE <<>>) \in Seq(Item)
           /\ SettledIn(log) \o b \o (IF stop THEN <<STOP>> ELSE <<>>) \in Seq(Item)
<1>1. SettledIn(log) \in Seq(Item)
  BY SettledType
<1>2. b \in Seq(Item)
  BY SeqMonotonic DEF Item
<1>3. (IF stop THEN <<STOP>> ELSE <<>>) \in Seq(Item)
  <2>1. STOP \in Item
    BY DEF Item
  <2>2. <<STOP>> \in Seq(Item) /\ <<>> \in Seq(Item)
    BY <2>1
  <2> QED BY <2>2
<1>4. SettledIn(log) \o b \in Seq(Item)
  BY <1>1, <1>2, ConcatProperties
<1>5. SettledIn(log) \o b \o (IF stop THEN <<STOP>> ELSE <<>>) \in Seq(Item)
  BY <1>3, <1>4, ConcatProperties
<1> QED BY <1>1, <1>2, <1>3, <1>4, <1>5

(* What is put in the queue comes last in the flow.                        *)
LEMMA FlowPut ==
    ASSUME NEW log \in Seq(Outcome), NEW b \in Seq(Record), NEW stop \in BOOLEAN,
           NEW queue \in Seq(Item), NEW x \in Item
    PROVE  Flow(log, b, stop, Append(queue, x)) = Append(Flow(log, b, stop, queue), x)
  BY SMTT(30), FlowTypes, AppendToConcat DEF Flow

(* A record taken from the queue into the batch stays where it was.        *)
LEMMA FlowTake ==
    ASSUME NEW log \in Seq(Outcome), NEW b \in Seq(Record),
           NEW queue \in Seq(Item), queue # <<>>, Head(queue) \in Record
    PROVE  Flow(log, Append(b, Head(queue)), FALSE, Tail(queue))
               = Flow(log, b, FALSE, queue)
<1>1. /\ SettledIn(log) \in Seq(Item) /\ b \in Seq(Item)
      /\ SettledIn(log) \o b \in Seq(Item)
  BY FlowTypes
<1>2. Head(queue) \in Item
  BY DEF Item
<1>3. SettledIn(log) \o Append(b, Head(queue)) = Append(SettledIn(log) \o b, Head(queue))
  BY <1>1, <1>2, AppendToConcat
<1>4. Append(SettledIn(log) \o b, Head(queue)) \in Seq(Item)
  BY <1>1, <1>2, AppendProperties
<1>5. Append(SettledIn(log) \o b, Head(queue)) \o <<>>
          = Append(SettledIn(log) \o b, Head(queue))
  BY <1>4, ConcatEmptySeq
<1>6. (SettledIn(log) \o b) \o <<>> = SettledIn(log) \o b
  BY <1>1, ConcatEmptySeq
<1>7. Append(SettledIn(log) \o b, Head(queue)) \o Tail(queue)
          = (SettledIn(log) \o b) \o queue
  BY <1>1, MoveHead
<1> QED BY <1>3, <1>5, <1>6, <1>7 DEF Flow

(* So does the sentinel.                                                   *)
LEMMA FlowStop ==
    ASSUME NEW log \in Seq(Outcome), NEW b \in Seq(Record),
           NEW queue \in Seq(Item), queue # <<>>, Head(queue) = STOP
    PROVE  Flow(log, b, TRUE, Tail(queue)) = Flow(log, b, FALSE, queue)
<1>1. SettledIn(log) \o b \in Seq(Item)
  BY FlowTypes
<1>2. STOP \in Item
  BY DEF Item
<1>3. Append(SettledIn(log) \o b, STOP) = (SettledIn(log) \o b) \o <<STOP>>
  BY <1>1, <1>2, AppendIsConcat
<1>4. (SettledIn(log) \o b) \o <<>> = SettledIn(log) \o b
  BY <1>1, ConcatEmptySeq
<1>5. Append(SettledIn(log) \o b, STOP) \o Tail(queue) = (SettledIn(log) \o b) \o queue
  BY <1>1, MoveHead
<1> QED BY <1>3, <1>4, <1>5 DEF Flow

(* So does a record of the batch when its result is put.                   *)
LEMMA FlowReport ==
    ASSUME NEW log \in Seq(Outcome), NEW b \in Seq(Record), b # <<>>,
           NEW ok \in BOOLEAN, NEW stop \in BOOLEAN, NEW queue \in Seq(Item)
    PROVE  Flow(Append(log, [record |-> Head(b), stored |-> ok]), Tail(b), stop, queue)
               = Flow(log, b, stop, queue)
<1> DEFINE e == [record |-> Head(b), stored |-> ok]
<1>1. Head(b) \in Record
  BY HeadAndTail
<1>2. e \in Outcome /\ e.record = Head(b)
  BY <1>1 DEF Outcome
<1>3. SettledIn(Append(log, e)) = Append(SettledIn(log), Head(b))
  BY <1>2, SettledAppend
<1>4. SettledIn(log) \in Seq(Record)
  BY SettledType
<1>5. Append(SettledIn(log), Head(b)) \o Tail(b) = SettledIn(log) \o b
  BY <1>4, MoveHead
<1> QED BY <1>3, <1>5 DEF Flow

LEMMA InOrderIsFlow ==
    /\ AcceptedInOrder <=> Flow(results, worker.batch, worker.stop, pending) = admitted
    /\ AcceptedInOrder' <=>
           Flow(results', worker'.batch, worker'.stop, pending') = admitted'
  BY DEF AcceptedInOrder, Settled, Flow, SettledIn

-----------------------------------------------------------------------------
(* The invariant holds initially.                                          *)
LEMMA InvInit == Init => Inv
<1> SUFFICES ASSUME Init PROVE Inv
  OBVIOUS
<1> USE WorkerAssumption
<1>1. <<>> \in Seq(Record) /\ <<>> \in Seq(Item) /\ <<>> \in Seq(Outcome) /\ Len(<<>>) = 0
  OBVIOUS
<1>2. TypeOK
  <2>1. counters \in [{"accepted", "stored", "failed", "rejected"} -> Nat]
    BY DEF Init
  <2>2. caller \in [pc : {"idle", "put", "count", "stop", "join"},
                    item : Record \cup {STOP},
                    closing : {"none", "timeout", "drained"}]
    BY DEF Init
  <2>3. worker \in [pc : {"get", "fill", "write", "count", "report", "done"},
                    attempt : 0..MaxAttempts,
                    batch : Seq(Record), stop : BOOLEAN, ok : BOOLEAN]
    BY <1>1 DEF Init
  <2>4. closed \in BOOLEAN /\ stopped \in BOOLEAN
    BY DEF Init
  <2>5. sequence \in 0..MaxRecords
    BY DEF Init
  <2>6. Len(pending) <= QueueCapacity
    <3>1. pending = <<>> /\ Len(<<>>) = 0
      BY EmptySeq DEF Init
    <3>2. 0 <= QueueCapacity
      OBVIOUS
    <3> QED BY <3>1, <3>2
  <2>7. /\ pending \in Seq(Record \cup {STOP}) /\ admitted \in Seq(Record \cup {STOP})
        /\ results \in Seq([record : Record, stored : BOOLEAN])
    BY <1>1 DEF Init, Item, Outcome
  <2> QED BY <2>1, <2>2, <2>3, <2>4, <2>5, <2>6, <2>7 DEF TypeOK
<1>3. WorkerPlaces /\ CallerPlaces /\ SentinelLast
  BY <1>1 DEF Init, WorkerPlaces, CallerPlaces, SentinelLast
<1>4. AcceptedInOrder
  <2>1. SettledIn(<<>>) \in Seq(Item) /\ Len(SettledIn(<<>>)) = 0
    BY <1>1, SettledType
  <2>2. SettledIn(<<>>) = <<>>
    BY <2>1, EmptySeq
  <2>3. <<>> \o <<>> = <<>>
    BY <1>1, ConcatEmptySeq
  <2> QED BY <2>2, <2>3, InOrderIsFlow DEF Init, Flow
<1> QED BY <1>2, <1>3, <1>4 DEF Inv

-----------------------------------------------------------------------------
(* Counting is safe at every amount.                                       *)
LEMMA IncrementTyped ==
    ASSUME TypeOK, NEW c \in {"accepted", "stored", "failed", "rejected"},
           NEW n \in Nat, Increment(c, n)
    PROVE  counters' \in [{"accepted", "stored", "failed", "rejected"} -> Nat]
  BY SMTT(30) DEF TypeOK, Increment

(* Steps that move neither the queue, the batch nor the results.           *)
LEMMA SubmitInv ==
    ASSUME Inv, NEW critical \in BOOLEAN, Submit(critical)
    PROVE  Inv'
<1>1. TypeOK'
  <2>1. counters' \in [{"accepted", "stored", "failed", "rejected"} -> Nat]
    BY IncrementTyped DEF Inv, Submit, TypeOK
  <2>2. sequence' \in 0..MaxRecords
    BY SMTT(30), WorkerAssumption DEF Inv, TypeOK, Submit
  <2>3. [seq |-> sequence', critical |-> critical] \in Record
    BY SMTT(30), WorkerAssumption DEF Inv, TypeOK, Submit, Record
  <2> QED BY <2>1, <2>2, <2>3 DEF Inv, TypeOK, Submit, workerVars
<1>2. WorkerPlaces' /\ SentinelLast' /\ AcceptedInOrder'
  BY DEF Inv, Submit, WorkerPlaces, SentinelLast, AcceptedInOrder, Settled, workerVars
<1>3. CallerPlaces'
  <2>1. CASE Admits(critical)
    <3>1. [seq |-> sequence', critical |-> critical] \in Record
      BY SMTT(30), WorkerAssumption DEF Inv, TypeOK, Submit, Record
    <3> QED BY <2>1, <3>1 DEF Inv, TypeOK, Submit, Admits, CallerPlaces, workerVars
  <2>2. CASE ~Admits(critical)
    BY <2>2 DEF Inv, Submit, CallerPlaces, workerVars
  <2> QED BY <2>1, <2>2
<1> QED BY <1>1, <1>2, <1>3 DEF Inv

LEMMA CallerCountInv ==
    ASSUME Inv, QueueFull \/ CountAccepted
    PROVE  Inv'
<1>1. TypeOK'
  <2>1. counters' \in [{"accepted", "stored", "failed", "rejected"} -> Nat]
    BY IncrementTyped DEF Inv, QueueFull, CountAccepted
  <2> QED BY <2>1 DEF Inv, TypeOK, QueueFull, CountAccepted, workerVars
<1>2. WorkerPlaces' /\ SentinelLast' /\ AcceptedInOrder'
  BY DEF Inv, QueueFull, CountAccepted, WorkerPlaces, SentinelLast,
         AcceptedInOrder, Settled, workerVars
<1>3. CallerPlaces'
  BY DEF Inv, TypeOK, QueueFull, CountAccepted, CallerPlaces, workerVars
<1> QED BY <1>1, <1>2, <1>3 DEF Inv

LEMMA CloseInv ==
    ASSUME Inv, Close \/ CloseReturns
    PROVE  Inv'
<1>1. TypeOK'
  BY DEF Inv, TypeOK, Close, CloseReturns, workerVars
<1>2. WorkerPlaces' /\ SentinelLast' /\ AcceptedInOrder'
  BY DEF Inv, Close, CloseReturns, WorkerPlaces, SentinelLast,
         AcceptedInOrder, Settled, workerVars
<1>3. CallerPlaces'
  <2>1. CASE Close
    BY <2>1 DEF Inv, TypeOK, Close, CallerPlaces, workerVars
  <2>2. CASE CloseReturns
    <3>1. caller'.pc = "idle" /\ (caller'.closing = "drained" => worker.pc = "done")
      BY <2>2 DEF Inv, TypeOK, CloseReturns, Closed
    <3>2. closed' = closed /\ stopped' = stopped /\ worker' = worker
      BY <2>2 DEF CloseReturns, workerVars
    <3> QED BY <3>1, <3>2 DEF Inv, CallerPlaces
  <2> QED BY <2>1, <2>2
<1> QED BY <1>1, <1>2, <1>3 DEF Inv

LEMMA WriteInv ==
    ASSUME Inv, Write \/ WriteRaises
    PROVE  Inv'
<1>1. worker.attempt \in 0..MaxAttempts /\ worker.pc = "write"
  BY DEF Inv, TypeOK, Write, WriteRaises
<1>2. /\ worker' \in [pc : {"get", "fill", "write", "count", "report", "done"},
                      attempt : 0..MaxAttempts,
                      batch : Seq(Record), stop : BOOLEAN, ok : BOOLEAN]
      /\ worker'.batch = worker.batch /\ worker'.stop = worker.stop
      /\ worker'.pc \in {"write", "count"}
  <2>1. CASE worker' = [worker EXCEPT !.pc = "count", !.ok = TRUE]
    BY <2>1 DEF Inv, TypeOK
  <2>2. CASE worker' = [worker EXCEPT !.pc = "count", !.ok = FALSE]
    BY <2>2 DEF Inv, TypeOK
  <2>3. CASE worker.attempt < MaxAttempts /\ worker' = [worker EXCEPT !.attempt = @ + 1]
    <3>1. worker.attempt + 1 \in 0..MaxAttempts
      BY <1>1, <2>3, WorkerAssumption
    <3> QED BY <1>1, <2>3, <3>1 DEF Inv, TypeOK
  <2> QED BY <2>1, <2>2, <2>3 DEF Write, WriteRaises, Raised
<1>3. /\ UNCHANGED <<caller, closed, stopped, sequence, admitted>>
      /\ UNCHANGED <<pending, results, counters>>
  BY DEF Write, WriteRaises, actorVars
<1>4. TypeOK'
  BY <1>2, <1>3 DEF Inv, TypeOK
<1>5. WorkerPlaces' /\ SentinelLast' /\ CallerPlaces'
  BY <1>1, <1>2, <1>3 DEF Inv, WorkerPlaces, SentinelLast, CallerPlaces
<1>6. AcceptedInOrder'
  BY <1>2, <1>3 DEF Inv, AcceptedInOrder, Settled
<1> QED BY <1>4, <1>5, <1>6 DEF Inv

LEMMA CountSettledInv ==
    ASSUME Inv, CountSettled
    PROVE  Inv'
<1>1. TypeOK'
  <2>1. Len(worker.batch) \in Nat
    BY LenProperties DEF Inv, TypeOK
  <2>2. counters' \in [{"accepted", "stored", "failed", "rejected"} -> Nat]
    BY <2>1, IncrementTyped DEF Inv, CountSettled
  <2> QED BY <2>2 DEF Inv, TypeOK, CountSettled, actorVars
<1>2. worker'.batch = worker.batch /\ worker'.stop = worker.stop
  BY DEF Inv, TypeOK, CountSettled
<1>3. WorkerPlaces' /\ SentinelLast' /\ CallerPlaces'
  BY <1>2 DEF Inv, TypeOK, CountSettled, WorkerPlaces, SentinelLast,
              CallerPlaces, actorVars
<1>4. AcceptedInOrder'
  BY <1>2 DEF Inv, CountSettled, AcceptedInOrder, Settled, actorVars
<1> QED BY <1>1, <1>3, <1>4 DEF Inv

-----------------------------------------------------------------------------
(* Putting a record, or the sentinel, in the queue.                        *)

LEMMA PutTyped ==
    ASSUME TypeOK, NEW x \in Item, Put(x)
    PROVE  /\ pending' \in Seq(Item) /\ admitted' \in Seq(Item)
           /\ Len(pending') = Len(pending) + 1 /\ Len(pending') <= QueueCapacity
           /\ \A i \in 1..Len(pending) : pending'[i] = pending[i]
           /\ pending'[Len(pending) + 1] = x
<1>1. pending \in Seq(Item) /\ admitted \in Seq(Item)
  BY DEF TypeOK, Item
<1>2. Len(pending) \in Nat
  BY <1>1, LenProperties
<1> QED BY <1>1, <1>2, AppendProperties, WorkerAssumption DEF Put

LEMMA PutInOrder ==
    ASSUME Inv, NEW x \in Item, Put(x), UNCHANGED workerVars
    PROVE  AcceptedInOrder'
<1>1. /\ results \in Seq(Outcome) /\ worker.batch \in Seq(Record)
      /\ worker.stop \in BOOLEAN /\ pending \in Seq(Item)
  BY DEF Inv, TypeOK, Item, Outcome
<1>2. Flow(results, worker.batch, worker.stop, Append(pending, x))
          = Append(Flow(results, worker.batch, worker.stop, pending), x)
  BY <1>1, FlowPut
<1> QED BY <1>2, InOrderIsFlow DEF Inv, Put, workerVars

LEMMA PutNoWaitInv ==
    ASSUME Inv, PutNoWait
    PROVE  Inv'
<1>1. caller.item \in Record /\ ~closed /\ ~stopped
  BY DEF Inv, CallerPlaces, PutNoWait
<1>2. caller.item \in Item /\ caller.item # STOP /\ Put(caller.item)
  BY <1>1, WorkerAssumption DEF Item, PutNoWait
<1>3. Len(pending) \in Nat
  BY LenProperties DEF Inv, TypeOK
<1>4. TypeOK'
  BY <1>2, PutTyped DEF Inv, TypeOK, PutNoWait, Item, workerVars
<1>5. SentinelLast'
  BY <1>1, <1>2, <1>3, PutTyped DEF Inv, SentinelLast, PutNoWait, workerVars
<1>6. WorkerPlaces' /\ CallerPlaces'
  BY <1>1 DEF Inv, TypeOK, WorkerPlaces, CallerPlaces, PutNoWait, workerVars
<1>7. AcceptedInOrder'
  BY <1>2, PutInOrder DEF PutNoWait
<1> QED BY <1>4, <1>5, <1>6, <1>7 DEF Inv

LEMMA PutStopInv ==
    ASSUME Inv, PutStop
    PROVE  Inv'
<1>1. closed /\ ~stopped
  BY DEF Inv, CallerPlaces, PutStop
<1>2. STOP \in Item /\ Put(STOP)
  BY DEF Item, PutStop
<1>3. Len(pending) \in Nat
  BY LenProperties DEF Inv, TypeOK
<1>4. TypeOK'
  BY <1>2, PutTyped DEF Inv, TypeOK, PutStop, Item, workerVars
<1>5. SentinelLast'
  BY <1>1, <1>2, <1>3, PutTyped DEF Inv, SentinelLast, PutStop, workerVars
<1>6. WorkerPlaces' /\ CallerPlaces'
  BY <1>1 DEF Inv, TypeOK, WorkerPlaces, CallerPlaces, PutStop, workerVars
<1>7. AcceptedInOrder'
  BY <1>2, PutInOrder DEF PutStop
<1> QED BY <1>4, <1>5, <1>6, <1>7 DEF Inv

-----------------------------------------------------------------------------
(* Taking the head of the queue.                                           *)

LEMMA TakeTyped ==
    ASSUME Inv, NEW x, Take(x)
    PROVE  /\ pending \in Seq(Item) /\ pending # <<>> /\ Head(pending) = x
           /\ pending' = Tail(pending) /\ pending' \in Seq(Item)
           /\ Len(pending') = Len(pending) - 1 /\ Len(pending') <= QueueCapacity
           /\ pending[1] = x
           /\ \A i \in 1..Len(pending') : pending'[i] = pending[i + 1]
<1>1. pending \in Seq(Item) /\ pending # <<>> /\ Head(pending) = x /\ pending' = Tail(pending)
  BY DEF Inv, TypeOK, Take, Item
<1>2. Len(pending) \in Nat \ {0} /\ Len(pending) <= QueueCapacity
  BY <1>1, EmptySeq DEF Inv, TypeOK
<1>3. /\ Tail(pending) \in Seq(Item) /\ Len(Tail(pending)) = Len(pending) - 1
      /\ Head(pending) = pending[1]
      /\ \A i \in 1..Len(Tail(pending)) : Tail(pending)[i] = pending[i + 1]
  BY <1>1, <1>2, HeadTailProperties
<1> QED BY <1>1, <1>2, <1>3, WorkerAssumption

(* A queue whose head is the sentinel holds nothing else.                  *)
LEMMA TakenStop ==
    ASSUME Inv, Take(STOP)
    PROVE  pending' = <<>> /\ stopped
<1>1. Len(pending) \in Nat \ {0}
  BY TakeTyped, EmptySeq
<1>2. 1 \in 1..Len(pending) /\ pending[1] = STOP
  BY <1>1, TakeTyped
<1>3. stopped /\ Len(pending) = 1
  BY <1>2 DEF Inv, SentinelLast
<1> QED BY <1>3, TakeTyped, EmptySeq

LEMMA TakenRecord ==
    ASSUME Inv, NEW x \in Record, Take(x), worker'.stop = worker.stop,
           stopped' = stopped
    PROVE  SentinelLast' /\ ~worker.stop
<1>1. Len(pending) \in Nat \ {0}
  BY TakeTyped, EmptySeq
<1>2. ~worker.stop
  BY TakeTyped DEF Inv, SentinelLast
<1>3. \A i \in 1..Len(pending') : i + 1 \in 1..Len(pending) /\ pending'[i] = pending[i + 1]
  BY <1>1, TakeTyped
<1>4. \A i \in 1..Len(pending') : pending'[i] = STOP => i = Len(pending')
  BY <1>1, <1>3, TakeTyped DEF Inv, SentinelLast
<1> QED BY <1>2, <1>3, <1>4 DEF Inv, SentinelLast

LEMMA GetInv ==
    ASSUME Inv, Get
    PROVE  Inv'
<1>1. /\ worker.pc = "get" /\ worker.batch = <<>> /\ ~worker.stop
      /\ results \in Seq(Outcome) /\ pending \in Seq(Item)
      /\ UNCHANGED <<caller, closed, stopped, sequence, admitted>>
      /\ UNCHANGED <<results, counters>>
  BY DEF Inv, TypeOK, WorkerPlaces, Get, actorVars, Outcome, Item
<1>2. CASE Take(STOP) /\ worker' = [worker EXCEPT !.pc = "done", !.stop = TRUE]
  <2>1. pending' = <<>> /\ stopped
    BY <1>2, TakenStop
  <2>2. /\ worker' \in [pc : {"get", "fill", "write", "count", "report", "done"},
                        attempt : 0..MaxAttempts,
                        batch : Seq(Record), stop : BOOLEAN, ok : BOOLEAN]
        /\ worker'.pc = "done" /\ worker'.batch = <<>> /\ worker'.stop = TRUE
    BY <1>1, <1>2 DEF Inv, TypeOK
  <2>3. TypeOK'
    BY <1>1, <1>2, <2>2, TakeTyped DEF Inv, TypeOK, Item
  <2>4. WorkerPlaces' /\ CallerPlaces'
    BY <1>1, <2>2 DEF Inv, WorkerPlaces, CallerPlaces
  <2>5. SentinelLast'
    BY <1>1, <2>1, <2>2, EmptySeq DEF SentinelLast
  <2>6. AcceptedInOrder'
    <3>1. <<>> \in Seq(Record)
      OBVIOUS
    <3>2. pending # <<>> /\ Head(pending) = STOP /\ pending' = Tail(pending)
      BY <1>2 DEF Take
    <3>3. Flow(results, <<>>, TRUE, Tail(pending)) = Flow(results, <<>>, FALSE, pending)
      BY <1>1, <3>1, <3>2, FlowStop
    <3>4. worker.stop = FALSE
      BY <1>1 DEF Inv, TypeOK
    <3> QED BY <1>1, <2>2, <3>2, <3>3, <3>4, InOrderIsFlow DEF Inv
  <2> QED BY <2>3, <2>4, <2>5, <2>6 DEF Inv
<1>3. ASSUME NEW item \in Record, Take(item),
             worker' = [worker EXCEPT !.pc = "fill", !.batch = <<item>>]
      PROVE  Inv'
  <2>1. /\ worker' \in [pc : {"get", "fill", "write", "count", "report", "done"},
                        attempt : 0..MaxAttempts,
                        batch : Seq(Record), stop : BOOLEAN, ok : BOOLEAN]
        /\ worker'.pc = "fill" /\ worker'.batch = <<item>> /\ worker'.stop = FALSE
    <3>1. <<item>> \in Seq(Record)
      BY <1>3
    <3> QED BY <1>1, <1>3, <3>1 DEF Inv, TypeOK
  <2>2. TypeOK'
    BY <1>1, <1>3, <2>1, TakeTyped DEF Inv, TypeOK, Item
  <2>3. WorkerPlaces' /\ CallerPlaces'
    BY <1>1, <2>1 DEF Inv, WorkerPlaces, CallerPlaces
  <2>4. SentinelLast'
    BY <1>1, <1>3, <2>1, TakenRecord
  <2>5. AcceptedInOrder'
    <3>1. <<>> \in Seq(Record) /\ <<item>> = Append(<<>>, item)
      OBVIOUS
    <3>2. Flow(results, Append(<<>>, item), FALSE, Tail(pending))
              = Flow(results, <<>>, FALSE, pending)
      BY ZenonT(40), <1>1, <1>3, <3>1, TakeTyped, FlowTake
    <3> QED BY <1>1, <1>3, <2>1, <3>1, <3>2, TakeTyped, InOrderIsFlow DEF Inv
  <2> QED BY <2>2, <2>3, <2>4, <2>5 DEF Inv
<1> QED BY <1>2, <1>3 DEF Get

LEMMA FillInv ==
    ASSUME Inv, Fill
    PROVE  Inv'
<1>1. /\ worker.pc = "fill" /\ ~worker.stop /\ worker.batch \in Seq(Record)
      /\ results \in Seq(Outcome) /\ pending \in Seq(Item)
      /\ UNCHANGED <<caller, closed, stopped, sequence, admitted>>
      /\ UNCHANGED <<results, counters>>
  BY DEF Inv, TypeOK, WorkerPlaces, Fill, actorVars, Outcome, Item
<1>2. PICK item \in Record :
          Take(item) /\ worker' = [worker EXCEPT !.batch = Append(@, item)]
  BY DEF Fill
<1>3. /\ Append(worker.batch, item) \in Seq(Record)
      /\ Append(worker.batch, item) # <<>>
  <2>1. /\ Append(worker.batch, item) \in Seq(Record)
        /\ Len(Append(worker.batch, item)) = Len(worker.batch) + 1
    BY <1>1, AppendProperties
  <2>2. Len(worker.batch) \in Nat
    BY <1>1, LenProperties
  <2> QED BY <2>1, <2>2, EmptySeq
<1>4. /\ worker' \in [pc : {"get", "fill", "write", "count", "report", "done"},
                      attempt : 0..MaxAttempts,
                      batch : Seq(Record), stop : BOOLEAN, ok : BOOLEAN]
      /\ worker'.pc = "fill" /\ worker'.batch = Append(worker.batch, item)
      /\ worker'.stop = FALSE
  BY <1>1, <1>2, <1>3 DEF Inv, TypeOK
<1>5. TypeOK'
  BY <1>1, <1>2, <1>4, TakeTyped DEF Inv, TypeOK, Item
<1>6. WorkerPlaces' /\ CallerPlaces'
  BY <1>1, <1>3, <1>4 DEF Inv, WorkerPlaces, CallerPlaces
<1>7. SentinelLast'
  BY <1>1, <1>2, <1>4, TakenRecord
<1>8. AcceptedInOrder'
  <2>1. Flow(results, Append(worker.batch, item), FALSE, Tail(pending))
            = Flow(results, worker.batch, FALSE, pending)
    BY <1>1, <1>2, TakeTyped, FlowTake
  <2> QED BY <1>1, <1>2, <1>4, <2>1, TakeTyped, InOrderIsFlow DEF Inv
<1> QED BY <1>5, <1>6, <1>7, <1>8 DEF Inv

LEMMA FilledInv ==
    ASSUME Inv, Filled
    PROVE  Inv'
<1>1. /\ worker.pc = "fill" /\ ~worker.stop /\ worker.batch \in Seq(Record)
      /\ worker.batch # <<>>
      /\ results \in Seq(Outcome) /\ pending \in Seq(Item)
      /\ UNCHANGED <<caller, closed, stopped, sequence, admitted>>
      /\ UNCHANGED <<results, counters>>
  BY DEF Inv, TypeOK, WorkerPlaces, Filled, actorVars, Outcome, Item
<1>2. 1 \in 0..MaxAttempts
  BY WorkerAssumption
<1>3. CASE worker' = ToWrite(worker) /\ UNCHANGED pending
  <2>1. /\ worker' \in [pc : {"get", "fill", "write", "count", "report", "done"},
                        attempt : 0..MaxAttempts,
                        batch : Seq(Record), stop : BOOLEAN, ok : BOOLEAN]
        /\ worker'.pc = "write" /\ worker'.batch = worker.batch
        /\ worker'.stop = worker.stop
    BY <1>2, <1>3 DEF Inv, TypeOK, ToWrite
  <2>2. TypeOK'
    BY <1>1, <1>3, <2>1 DEF Inv, TypeOK
  <2>3. WorkerPlaces' /\ CallerPlaces' /\ SentinelLast'
    BY <1>1, <1>3, <2>1 DEF Inv, WorkerPlaces, CallerPlaces, SentinelLast
  <2>4. AcceptedInOrder'
    BY <1>1, <1>3, <2>1 DEF Inv, AcceptedInOrder, Settled
  <2> QED BY <2>2, <2>3, <2>4 DEF Inv
<1>4. CASE Take(STOP) /\ worker' = SentinelInBatch(worker)
  <2>1. /\ worker' \in [pc : {"get", "fill", "write", "count", "report", "done"},
                        attempt : 0..MaxAttempts,
                        batch : Seq(Record), stop : BOOLEAN, ok : BOOLEAN]
        /\ worker'.pc = "write" /\ worker'.batch = worker.batch
        /\ worker'.stop = TRUE
    BY <1>2, <1>4 DEF Inv, TypeOK, SentinelInBatch, ToWrite
  <2>2. pending' = <<>> /\ stopped
    BY <1>4, TakenStop
  <2>3. TypeOK'
    BY <1>1, <1>4, <2>1, TakeTyped DEF Inv, TypeOK, Item
  <2>4. WorkerPlaces' /\ CallerPlaces'
    BY <1>1, <2>1 DEF Inv, WorkerPlaces, CallerPlaces
  <2>5. SentinelLast'
    BY <1>1, <2>1, <2>2, EmptySeq DEF SentinelLast
  <2>6. AcceptedInOrder'
    <3>1. pending # <<>> /\ Head(pending) = STOP /\ pending' = Tail(pending)
      BY <1>4 DEF Take
    <3>2. Flow(results, worker.batch, TRUE, Tail(pending))
              = Flow(results, worker.batch, FALSE, pending)
      BY <1>1, <3>1, FlowStop
    <3>3. worker.stop = FALSE
      BY <1>1 DEF Inv, TypeOK
    <3> QED BY <1>1, <2>1, <3>1, <3>2, <3>3, InOrderIsFlow DEF Inv
  <2> QED BY <2>3, <2>4, <2>5, <2>6 DEF Inv
<1> QED BY <1>3, <1>4 DEF Filled

-----------------------------------------------------------------------------
(* Putting the first result of a batch.                                    *)
LEMMA ReportInv ==
    ASSUME Inv, Report
    PROVE  Inv'
<1> DEFINE e == [record |-> Head(worker.batch), stored |-> worker.ok]
<1>1. /\ worker.pc = "report" /\ worker.batch \in Seq(Record) /\ worker.batch # <<>>
      /\ worker.ok \in BOOLEAN /\ worker.stop \in BOOLEAN
      /\ results \in Seq(Outcome) /\ pending \in Seq(Item)
      /\ results' = Append(results, e)
      /\ UNCHANGED <<caller, closed, stopped, sequence, admitted>>
      /\ UNCHANGED <<pending, counters>>
  BY DEF Inv, TypeOK, WorkerPlaces, Report, actorVars, Outcome, Item
<1>2. /\ Tail(worker.batch) \in Seq(Record)
      /\ Len(worker.batch) \in Nat \ {0}
      /\ Len(Tail(worker.batch)) = Len(worker.batch) - 1
  BY <1>1, HeadTailProperties, EmptySeq
<1>3. (Tail(worker.batch) = <<>>) <=> ~(Len(worker.batch) > 1)
  <2>1. Tail(worker.batch) = <<>> => Len(Tail(worker.batch)) = 0
    BY EmptySeq
  <2>2. Tail(worker.batch) # <<>> => Len(Tail(worker.batch)) \in Nat \ {0}
    BY <1>2, EmptySeq
  <2> QED BY <1>2, <2>1, <2>2
<1>4. /\ worker' \in [pc : {"get", "fill", "write", "count", "report", "done"},
                      attempt : 0..MaxAttempts,
                      batch : Seq(Record), stop : BOOLEAN, ok : BOOLEAN]
      /\ worker'.batch = Tail(worker.batch) /\ worker'.stop = worker.stop
      /\ worker'.pc = IF Len(worker.batch) > 1 THEN "report"
                      ELSE IF worker.stop THEN "done" ELSE "get"
  BY <1>1, <1>2 DEF Inv, TypeOK, Report
<1>5. TypeOK'
  <2>1. e \in Outcome
    BY <1>1, HeadAndTail DEF Outcome
  <2>2. results' \in Seq(Outcome)
    BY <1>1, <2>1, AppendProperties
  <2> QED BY <1>1, <1>4, <2>2 DEF Inv, TypeOK, Outcome
<1>6. WorkerPlaces'
  BY <1>1, <1>3, <1>4 DEF WorkerPlaces
<1>7. CallerPlaces' /\ SentinelLast'
  BY <1>1, <1>4 DEF Inv, CallerPlaces, SentinelLast
<1>8. AcceptedInOrder'
  <2>1. Flow(results', Tail(worker.batch), worker.stop, pending)
            = Flow(results, worker.batch, worker.stop, pending)
    BY <1>1, FlowReport
  <2> QED BY <1>1, <1>4, <2>1, InOrderIsFlow DEF Inv
<1> QED BY <1>5, <1>6, <1>7, <1>8 DEF Inv

-----------------------------------------------------------------------------
LEMMA InvNext == Inv /\ [Next]_vars => Inv'
<1> SUFFICES ASSUME Inv, [Next]_vars PROVE Inv'
  OBVIOUS
<1>1. CASE Worker
  BY <1>1, GetInv, FillInv, FilledInv, WriteInv, CountSettledInv, ReportInv DEF Worker
<1>2. CASE Caller
  BY <1>2, SubmitInv, PutNoWaitInv, CallerCountInv, CloseInv, PutStopInv DEF Caller
<1>3. CASE UNCHANGED vars
  BY ZenonT(40), <1>3 DEF Inv, TypeOK, WorkerPlaces, CallerPlaces, SentinelLast,
              AcceptedInOrder, Settled, vars, actorVars, workerVars
<1> QED BY <1>1, <1>2, <1>3 DEF Next

-----------------------------------------------------------------------------
(* The ledger: what PostgreSQL holds, in terms of what was admitted.       *)

(* Admitted records carry increasing sequence numbers, none beyond the     *)
(* last one offered, and only the sentinel follows close.                  *)
InSequence ==
    /\ \A i \in 1..Len(admitted) : admitted[i] # STOP => admitted[i].seq <= sequence
    /\ \A i, j \in 1..Len(admitted) : i < j =>
          admitted[i] # STOP /\ (admitted[j] # STOP => admitted[i].seq < admitted[j].seq)
    /\ ~stopped => \A i \in 1..Len(admitted) : admitted[i] # STOP
    /\ caller.pc = "put" =>
          /\ caller.item.seq = sequence
          /\ \A i \in 1..Len(admitted) :
                admitted[i] # STOP => admitted[i].seq < sequence

(* Every row of the table is one of the first records of the log.          *)
FromFirst(table, log, limit) ==
    \A r \in 1..Len(table) : \E k \in 1..limit : table[r] = log[k]

In(table, row) == \E i \in 1..Len(table) : table[i] = row

AllIn(table, batch) == \A i \in 1..Len(batch) : In(table, batch[i])

Ordered(table) == \A i, j \in 1..Len(table) : i < j => table[i].seq < table[j].seq

Durable(table, log) == \A i \in 1..Len(log) : log[i].stored => In(table, log[i].record)

Finished == Len(results)

Reached == Len(results) + Len(worker.batch)

(* A batch in hand is in the table as a whole or not at all: not yet if    *)
(* no attempt has committed, wholly once one has, and for certain when     *)
(* the write returned.                                                     *)
Ledger ==
    /\ rows \in Seq(Record)
    /\ Ordered(rows)
    /\ Durable(rows, results)
    /\ worker.pc \in {"get", "fill", "done"} => FromFirst(rows, admitted, Finished)
    /\ worker.pc = "write" =>
          \/ FromFirst(rows, admitted, Finished)
          \/ AllIn(rows, worker.batch) /\ FromFirst(rows, admitted, Reached)
    /\ worker.pc \in {"count", "report"} =>
          /\ FromFirst(rows, admitted, Reached)
          /\ worker.ok => AllIn(rows, worker.batch)

LedgerInv == Inv /\ InSequence /\ Ledger

LEMMA PutAdmitted ==
    ASSUME TypeOK, NEW x \in Item, Put(x)
    PROVE  /\ Len(admitted) \in Nat /\ Len(admitted') = Len(admitted) + 1
           /\ \A i \in 1..Len(admitted) : admitted'[i] = admitted[i]
           /\ admitted'[Len(admitted) + 1] = x
<1>1. admitted \in Seq(Item)
  BY DEF TypeOK, Item
<1>2. Len(admitted) \in Nat
  BY <1>1, LenProperties
<1> QED BY <1>1, <1>2, AppendProperties DEF Put

(* Where the results and the batch stand in the log of admissions.         *)
LEMMA Positions ==
    ASSUME Inv
    PROVE  /\ Len(results) \in Nat /\ Len(worker.batch) \in Nat /\ Len(admitted) \in Nat
           /\ Len(results) + Len(worker.batch) <= Len(admitted)
           /\ \A i \in 1..Len(results) : admitted[i] = results[i].record
           /\ \A i \in 1..Len(worker.batch) :
                 admitted[Len(results) + i] = worker.batch[i]
<1> DEFINE a == SettledIn(results)
           b == worker.batch
           c == IF worker.stop THEN <<STOP>> ELSE <<>>
<1>1. /\ results \in Seq(Outcome) /\ b \in Seq(Record) /\ worker.stop \in BOOLEAN
      /\ pending \in Seq(Item) /\ admitted \in Seq(Item)
  BY DEF Inv, TypeOK, Outcome, Item
<1>2. /\ a \in Seq(Item) /\ b \in Seq(Item) /\ a \o b \in Seq(Item)
      /\ c \in Seq(Item) /\ (a \o b) \o c \in Seq(Item)
  BY <1>1, FlowTypes
<1>3. /\ Len(a) = Len(results)
      /\ \A i \in 1..Len(results) : a[i] = results[i].record
  BY <1>1, SettledType
<1>4. ((a \o b) \o c) \o pending = admitted
  BY InOrderIsFlow DEF Inv, Flow
<1> HIDE DEF a, b, c
<1>5. /\ Len(a) \in Nat /\ Len(b) \in Nat /\ Len(c) \in Nat /\ Len(pending) \in Nat
      /\ Len(admitted) \in Nat
  BY <1>1, <1>2, LenProperties
<1>6. /\ Len(a \o b) = Len(a) + Len(b)
      /\ \A i \in 1..Len(a) + Len(b) :
            (a \o b)[i] = IF i <= Len(a) THEN a[i] ELSE b[i - Len(a)]
  BY <1>2, ConcatProperties
<1>7. /\ Len((a \o b) \o c) = Len(a \o b) + Len(c)
      /\ \A i \in 1..Len(a \o b) + Len(c) :
            ((a \o b) \o c)[i] = IF i <= Len(a \o b) THEN (a \o b)[i]
                                 ELSE c[i - Len(a \o b)]
  BY <1>2, ConcatProperties
<1>8. /\ Len(((a \o b) \o c) \o pending) = Len((a \o b) \o c) + Len(pending)
      /\ \A i \in 1..Len((a \o b) \o c) + Len(pending) :
            (((a \o b) \o c) \o pending)[i] =
                IF i <= Len((a \o b) \o c) THEN ((a \o b) \o c)[i]
                ELSE pending[i - Len((a \o b) \o c)]
  BY <1>1, <1>2, ConcatProperties
<1>9. \A i \in 1..Len(a) + Len(b) :
         admitted[i] = IF i <= Len(a) THEN a[i] ELSE b[i - Len(a)]
  BY <1>4, <1>5, <1>6, <1>7, <1>8
<1>10. Len(a) + Len(b) <= Len(admitted)
  BY <1>4, <1>5, <1>6, <1>7, <1>8
<1>11. \A i \in 1..Len(a) : admitted[i] = a[i]
  BY <1>5, <1>9
<1>12. \A i \in 1..Len(b) : admitted[Len(a) + i] = b[i]
  <2> SUFFICES ASSUME NEW i \in 1..Len(b) PROVE admitted[Len(a) + i] = b[i]
    OBVIOUS
  <2>1. Len(a) + i \in 1..Len(a) + Len(b) /\ ~(Len(a) + i <= Len(a))
        /\ Len(a) + i - Len(a) = i
    BY <1>5
  <2> QED BY <1>9, <2>1
<1> QED BY <1>3, <1>5, <1>10, <1>11, <1>12 DEF b

(* A batch of which nothing is held is inserted whole, and one of which    *)
(* everything is held not at all.                                          *)
LEMMA FreshRows ==
    ASSUME NEW batch \in Seq(Record), rows \in Seq(Record)
    PROVE  /\ AllIn(rows, batch) => rows \o Fresh(batch) = rows
           /\ (\A i \in 1..Len(batch) : ~In(rows, batch[i])) => Fresh(batch) = batch
<1> DEFINE new == {i \in 1..Len(batch) : ~In(rows, batch[i])}
           pick(k) == CHOOSE i \in new : Cardinality({j \in new : j <= i}) = k
<1>1. /\ DOMAIN batch = 1..Len(batch) /\ Len(batch) \in Nat
      /\ DOMAIN rows = 1..Len(rows)
      /\ batch = [k \in 1..Len(batch) |-> batch[k]]
  BY LenProperties
<1>2. Fresh(batch) = [k \in 1..Cardinality(new) |-> batch[pick(k)]]
  BY <1>1 DEF Fresh, Held, In
<1>3. ASSUME AllIn(rows, batch) PROVE rows \o Fresh(batch) = rows
  <2>1. new = {}
    BY <1>3 DEF AllIn
  <2>2. Cardinality(new) = 0
    BY <2>1, FS_EmptySet
  <2> HIDE DEF pick, new
  <2>3. Fresh(batch) \in [1..0 -> Record]
    <3>1. Fresh(batch) = [k \in 1..0 |-> batch[pick(k)]]
      BY <1>2, <2>2
    <3>2. \A k \in 1..0 : batch[pick(k)] \in Record
      OBVIOUS
    <3> QED BY <3>1, <3>2
  <2>4. Fresh(batch) \in Seq(Record) /\ Len(Fresh(batch)) = 0
    BY <2>3
  <2>5. Fresh(batch) = <<>>
    BY <2>4, EmptySeq
  <2> QED BY <2>5, ConcatEmptySeq
<1>4. ASSUME \A i \in 1..Len(batch) : ~In(rows, batch[i]) PROVE Fresh(batch) = batch
  <2>1. new = 1..Len(batch)
    BY <1>4
  <2>2. \A n \in Nat : Cardinality(1..n) = n
    <3> SUFFICES ASSUME NEW n \in Nat PROVE Cardinality(1..n) = n
      OBVIOUS
    <3>1. Cardinality(1..n) = IF 1 > n THEN 0 ELSE n - 1 + 1
      BY FS_Interval
    <3> QED BY <3>1
  <2>3. \A k \in 1..Len(batch) : pick(k) = k
    <3> SUFFICES ASSUME NEW k \in 1..Len(batch) PROVE pick(k) = k
      OBVIOUS
    <3>1. \A i \in 1..Len(batch) : {j \in new : j <= i} = 1..i
      BY <1>1, <2>1
    <3>2. \A i \in 1..Len(batch) : Cardinality({j \in new : j <= i}) = i
      <4> SUFFICES ASSUME NEW i \in 1..Len(batch)
                   PROVE  Cardinality({j \in new : j <= i}) = i
        OBVIOUS
      <4>1. i \in Nat
        BY <1>1
      <4>2. {j \in new : j <= i} = 1..i
        BY <3>1
      <4> HIDE DEF new
      <4> QED BY <2>2, <4>1, <4>2
    <3> QED BY <2>1, <3>2
  <2>4. Cardinality(new) = Len(batch)
    BY <1>1, <2>1, <2>2
  <2> HIDE DEF pick, new
  <2>5. [k \in 1..Len(batch) |-> batch[pick(k)]] = [k \in 1..Len(batch) |-> batch[k]]
    BY <2>3
  <2> QED BY <1>1, <1>2, <2>4, <2>5
<1> QED BY <1>3, <1>4

(* A transaction that commits puts the whole batch in the table, after     *)
(* everything it held and each row once, whether or not an earlier attempt *)
(* already committed it.                                                   *)
LEMMA Commits ==
    ASSUME LedgerInv, worker.pc = "write", Committed
    PROVE  /\ rows' \in Seq(Record)
           /\ Ordered(rows')
           /\ Durable(rows', results)
           /\ AllIn(rows', worker.batch)
           /\ FromFirst(rows', admitted, Reached)
<1> DEFINE b == worker.batch
           n == Len(results)
           m == Len(worker.batch)
<1>1. /\ rows \in Seq(Record) /\ b \in Seq(Record)
      /\ Ordered(rows) /\ Durable(rows, results)
      /\ rows' = rows \o Fresh(b)
  BY DEF LedgerInv, Ledger, Inv, TypeOK, Committed
<1>2. /\ n \in Nat /\ m \in Nat /\ Len(admitted) \in Nat /\ n + m <= Len(admitted)
      /\ \A i \in 1..n : admitted[i] = results[i].record
      /\ \A i \in 1..m : admitted[n + i] = b[i]
  BY Positions DEF LedgerInv
<1>3. CASE AllIn(rows, b) /\ FromFirst(rows, admitted, Reached)
  <2>1. rows' = rows
    BY <1>1, <1>3, FreshRows
  <2> QED BY <1>1, <1>3, <2>1
<1>4. CASE FromFirst(rows, admitted, Finished)
  <2>1. /\ \A r \in 1..Len(rows) : rows[r] \in Record
        /\ \A i \in 1..m : b[i] \in Record
        /\ Len(rows) \in Nat
    BY <1>1, ElementOfSeq, LenProperties
  <2>2. \A r \in 1..Len(rows) : \A i \in 1..m : rows[r].seq < b[i].seq
    <3> SUFFICES ASSUME NEW r \in 1..Len(rows), NEW i \in 1..m
                 PROVE  rows[r].seq < b[i].seq
      OBVIOUS
    <3>1. PICK k \in 1..n : rows[r] = admitted[k]
      BY <1>4 DEF FromFirst, Finished
    <3>2. /\ k \in 1..Len(admitted) /\ n + i \in 1..Len(admitted) /\ k < n + i
          /\ admitted[n + i] = b[i]
      BY <1>2
    <3>3. admitted[n + i] # STOP
      BY <2>1, <3>2, WorkerAssumption
    <3> QED BY <3>1, <3>2, <3>3 DEF LedgerInv, InSequence
  <2>3. \A i \in 1..m : ~In(rows, b[i])
    <3> SUFFICES ASSUME NEW i \in 1..m, NEW r \in 1..Len(rows), rows[r] = b[i]
                 PROVE  FALSE
      BY DEF In
    <3>1. b[i].seq < b[i].seq /\ b[i].seq \in Nat
      BY <2>1, <2>2, WorkerAssumption DEF Record
    <3> QED BY <3>1
  <2>4. rows' = rows \o b
    BY <1>1, <2>3, FreshRows
  <2>5. /\ rows' \in Seq(Record) /\ Len(rows') = Len(rows) + m
        /\ \A i \in 1..Len(rows) + m :
              rows'[i] = IF i <= Len(rows) THEN rows[i] ELSE b[i - Len(rows)]
    BY <1>1, <2>4, ConcatProperties
  <2>6. \A i \in 1..Len(rows) : rows'[i] = rows[i] /\ i \in 1..Len(rows')
    BY <1>2, <2>1, <2>5
  <2>7. \A i \in 1..m : rows'[Len(rows) + i] = b[i] /\ Len(rows) + i \in 1..Len(rows')
    <3> SUFFICES ASSUME NEW i \in 1..m
                 PROVE  rows'[Len(rows) + i] = b[i] /\ Len(rows) + i \in 1..Len(rows')
      OBVIOUS
    <3>1. /\ Len(rows) + i \in 1..Len(rows) + m /\ ~(Len(rows) + i <= Len(rows))
          /\ Len(rows) + i - Len(rows) = i
      BY <1>2, <2>1
    <3> QED BY <2>5, <3>1
  <2>8. \A i \in 1..Len(rows') : i \in 1..Len(rows) \/ \E j \in 1..m : i = Len(rows) + j
    <3> SUFFICES ASSUME NEW i \in 1..Len(rows'), i \notin 1..Len(rows)
                 PROVE  \E j \in 1..m : i = Len(rows) + j
      OBVIOUS
    <3>1. i - Len(rows) \in 1..m /\ i = Len(rows) + (i - Len(rows))
      BY <1>2, <2>1, <2>5
    <3> QED BY <3>1
  <2>9. Ordered(rows')
    <3> SUFFICES ASSUME NEW i \in 1..Len(rows'), NEW j \in 1..Len(rows'), i < j
                 PROVE  rows'[i].seq < rows'[j].seq
      BY DEF Ordered
    <3>1. CASE i \in 1..Len(rows) /\ j \in 1..Len(rows)
      BY <1>1, <2>6, <3>1 DEF Ordered
    <3>2. CASE i \in 1..Len(rows) /\ \E y \in 1..m : j = Len(rows) + y
      BY <2>2, <2>6, <2>7, <3>2
    <3>3. CASE \E x \in 1..m : i = Len(rows) + x
      <4>1. PICK x \in 1..m : i = Len(rows) + x
        BY <3>3
      <4>2. PICK y \in 1..m : j = Len(rows) + y
        <5>1. j \notin 1..Len(rows)
          BY <1>2, <2>1, <4>1
        <5> QED BY <2>8, <5>1
      <4>3. rows'[i] = admitted[n + x] /\ rows'[j] = admitted[n + y]
        BY <1>2, <2>7, <4>1, <4>2
      <4>4. /\ n + x \in 1..Len(admitted) /\ n + y \in 1..Len(admitted)
            /\ n + x < n + y
        BY <1>2, <2>1, <4>1, <4>2
      <4>5. admitted[n + y] # STOP
        BY <1>2, <2>1, WorkerAssumption
      <4> QED BY <4>3, <4>4, <4>5 DEF LedgerInv, InSequence
    <3> QED BY <2>8, <3>1, <3>2, <3>3
  <2>10. Durable(rows', results)
    BY <1>1, <2>6 DEF Durable, In
  <2>11. AllIn(rows', b)
    BY <2>7 DEF AllIn, In
  <2>12. FromFirst(rows', admitted, Reached)
    <3> SUFFICES ASSUME NEW r \in 1..Len(rows')
                 PROVE  \E k \in 1..n + m : rows'[r] = admitted[k]
      BY DEF FromFirst, Reached
    <3>1. CASE r \in 1..Len(rows)
      <4>1. PICK k \in 1..n : rows[r] = admitted[k]
        BY <1>4, <3>1 DEF FromFirst, Finished
      <4>2. k \in 1..n + m
        BY <1>2
      <4> QED BY <2>6, <3>1, <4>1, <4>2
    <3>2. CASE \E j \in 1..m : r = Len(rows) + j
      <4>1. PICK j \in 1..m : r = Len(rows) + j
        BY <3>2
      <4>2. n + j \in 1..n + m /\ rows'[r] = admitted[n + j]
        BY <1>2, <2>7, <4>1
      <4> QED BY <4>2
    <3> QED BY <2>8, <3>1, <3>2
  <2> QED BY <2>5, <2>9, <2>10, <2>11, <2>12
<1>5. \/ FromFirst(rows, admitted, Finished)
      \/ AllIn(rows, b) /\ FromFirst(rows, admitted, Reached)
  BY DEF LedgerInv, Ledger
<1> QED BY <1>3, <1>4, <1>5

LEMMA InSequenceInit == Init => InSequence
<1>1. Init => Len(admitted) = 0
  BY EmptySeq DEF Init
<1> QED BY <1>1 DEF Init, InSequence

LEMMA InSequenceNext ==
    ASSUME Inv, InSequence, [Next]_vars
    PROVE  InSequence'
<1>1. /\ admitted \in Seq(Item) /\ Len(admitted) \in Nat /\ sequence \in Nat
      /\ \A i \in 1..Len(admitted) : admitted[i] \in Record \cup {STOP}
  <2>1. admitted \in Seq(Item)
    BY DEF Inv, TypeOK, Item
  <2> QED BY <2>1, LenProperties, ElementOfSeq, WorkerAssumption DEF Inv, TypeOK, Item
<1>2. \A r \in Record : r.seq \in Nat /\ r # STOP
  BY WorkerAssumption DEF Record
<1>3. ASSUME NEW critical \in BOOLEAN, Submit(critical) PROVE InSequence'
  <2>1. admitted' = admitted /\ stopped' = stopped /\ sequence' = sequence + 1
    BY <1>3 DEF Submit
  <2>2. caller'.pc = "put" => caller'.item.seq = sequence'
    <3>1. CASE Admits(critical)
      <4>1. caller' = [caller EXCEPT
                          !.pc = "put",
                          !.item = [seq |-> sequence', critical |-> critical]]
        BY <1>3, <3>1 DEF Submit
      <4>2. caller'.item = [seq |-> sequence', critical |-> critical]
        BY <4>1 DEF Inv, TypeOK
      <4> QED BY <4>2
    <3>2. CASE ~Admits(critical)
      BY <1>3, <3>2 DEF Submit
    <3> QED BY <3>1, <3>2
  <2>3. \A i \in 1..Len(admitted) : admitted[i] # STOP => admitted[i].seq < sequence + 1
    BY <1>1, <1>2 DEF InSequence
  <2>4. \A i \in 1..Len(admitted) : admitted[i] # STOP => admitted[i].seq <= sequence + 1
    BY <1>1, <1>2 DEF InSequence
  <2> QED BY <2>1, <2>2, <2>3, <2>4 DEF InSequence
<1>4. CASE PutNoWait
  <2>1. /\ caller.item \in Record /\ ~stopped /\ stopped' = stopped
        /\ sequence' = sequence /\ caller'.pc = "count" /\ Put(caller.item)
    BY <1>4 DEF Inv, TypeOK, CallerPlaces, PutNoWait
  <2>2. /\ caller.item # STOP /\ caller.item \in Item /\ caller.item.seq = sequence
        /\ \A i \in 1..Len(admitted) : admitted[i] # STOP /\ admitted[i].seq < sequence
    BY <1>2, <1>4, <2>1 DEF InSequence, PutNoWait, Item
  <2>3. /\ Len(admitted') = Len(admitted) + 1
        /\ \A i \in 1..Len(admitted) : admitted'[i] = admitted[i]
        /\ admitted'[Len(admitted) + 1] = caller.item
    BY <2>1, <2>2, PutAdmitted DEF Inv
  <2>4. \A i \in 1..Len(admitted') : i \in 1..Len(admitted) \/ i = Len(admitted) + 1
    BY <1>1, <2>3
  <2>5. \A i \in 1..Len(admitted') : admitted'[i] # STOP /\ admitted'[i].seq <= sequence
    BY <1>1, <1>2, <2>2, <2>3, <2>4
  <2>6. \A i, j \in 1..Len(admitted') : i < j => admitted'[i].seq < admitted'[j].seq
    <3> SUFFICES ASSUME NEW i \in 1..Len(admitted'), NEW j \in 1..Len(admitted'), i < j
                 PROVE  admitted'[i].seq < admitted'[j].seq
      OBVIOUS
    <3>1. i \in 1..Len(admitted)
      BY <1>1, <2>3
    <3>2. CASE j \in 1..Len(admitted)
      BY <2>2, <2>3, <3>1, <3>2 DEF InSequence
    <3>3. CASE j = Len(admitted) + 1
      BY <2>2, <2>3, <3>1, <3>3
    <3> QED BY <2>4, <3>2, <3>3
  <2> QED BY <2>1, <2>5, <2>6 DEF InSequence
<1>5. CASE PutStop
  <2>1. /\ ~stopped /\ stopped' = TRUE /\ sequence' = sequence /\ caller'.pc = "join"
        /\ Put(STOP) /\ STOP \in Item
    BY <1>5 DEF Inv, TypeOK, CallerPlaces, PutStop, Item
  <2>2. /\ Len(admitted') = Len(admitted) + 1
        /\ \A i \in 1..Len(admitted) : admitted'[i] = admitted[i]
        /\ admitted'[Len(admitted) + 1] = STOP
    BY <2>1, PutAdmitted DEF Inv
  <2>3. \A i \in 1..Len(admitted') : i \in 1..Len(admitted) \/ i = Len(admitted) + 1
    BY <1>1, <2>2
  <2>4. \A i \in 1..Len(admitted') : admitted'[i] # STOP => admitted'[i].seq <= sequence
    BY <2>2, <2>3 DEF InSequence
  <2>5. \A i, j \in 1..Len(admitted') : i < j =>
           admitted'[i] # STOP /\ (admitted'[j] # STOP => admitted'[i].seq < admitted'[j].seq)
    <3> SUFFICES ASSUME NEW i \in 1..Len(admitted'), NEW j \in 1..Len(admitted'), i < j
                 PROVE  /\ admitted'[i] # STOP
                        /\ admitted'[j] # STOP => admitted'[i].seq < admitted'[j].seq
      OBVIOUS
    <3>1. i \in 1..Len(admitted) /\ admitted'[i] = admitted[i]
      BY <1>1, <2>2
    <3> QED BY <2>1, <2>2, <2>3, <3>1 DEF InSequence
  <2> QED BY <2>1, <2>4, <2>5 DEF InSequence
<1>6. CASE QueueFull \/ CountAccepted \/ Close \/ CloseReturns \/ Worker \/ UNCHANGED vars
  <2>1. UNCHANGED <<admitted, stopped, sequence>>
    BY <1>6 DEF QueueFull, CountAccepted, Close, CloseReturns, Worker, Get, Fill, Filled,
                Write, WriteRaises, CountSettled, Report, vars, actorVars
  <2>2. caller'.pc = "put" => caller' = caller
    BY <1>6 DEF QueueFull, CountAccepted, Close, CloseReturns, Worker, Get, Fill, Filled,
                Write, WriteRaises, CountSettled, Report, vars, actorVars, Inv, TypeOK
  <2> QED BY <2>1, <2>2 DEF InSequence
<1> QED BY <1>3, <1>4, <1>5, <1>6 DEF Next, Caller

(* The log of admissions is only ever appended to, so a table explained by *)
(* its beginning stays so.                                                 *)
LEMMA LogGrows ==
    ASSUME Inv, [Next]_vars, NEW limit \in 0..Len(admitted),
           FromFirst(rows, admitted, limit)
    PROVE  FromFirst(rows, admitted', limit)
<1>1. Len(admitted) \in Nat
  <2>1. admitted \in Seq(Item)
    BY DEF Inv, TypeOK, Item
  <2> QED BY <2>1, LenProperties
<1>2. \A k \in 1..Len(admitted) : admitted'[k] = admitted[k]
  <2>1. CASE PutNoWait
    <3>1. caller.item \in Item /\ Put(caller.item)
      BY <2>1 DEF Inv, TypeOK, PutNoWait, Item
    <3> QED BY <3>1, PutAdmitted DEF Inv
  <2>2. CASE PutStop
    <3>1. STOP \in Item /\ Put(STOP)
      BY <2>2 DEF PutStop, Item
    <3> QED BY <3>1, PutAdmitted DEF Inv
  <2>3. CASE ~PutNoWait /\ ~PutStop
    <3>1. admitted' = admitted
      BY <2>3 DEF Next, Caller, Submit, QueueFull, CountAccepted, Close, CloseReturns,
                  Worker, Get, Fill, Filled, Write, WriteRaises, CountSettled, Report,
                  vars, actorVars
    <3> QED BY <3>1
  <2> QED BY <2>1, <2>2, <2>3
<1>3. \A k \in 1..limit : k \in 1..Len(admitted)
  BY <1>1
<1> QED BY <1>2, <1>3 DEF FromFirst

LEMMA LedgerInit == Init => Ledger
<1> SUFFICES ASSUME Init PROVE Ledger
  OBVIOUS
<1>1. /\ rows \in Seq(Record) /\ Len(rows) = 0 /\ Len(results) = 0
      /\ worker.pc = "get"
  BY EmptySeq DEF Init
<1>2. 1..0 = {}
  OBVIOUS
<1> QED BY <1>1, <1>2 DEF Ledger, Ordered, Durable, FromFirst

(* A write, or an attempt that failed before or after its commit.          *)
LEMMA WriteLedger ==
    ASSUME LedgerInv, Write \/ WriteRaises
    PROVE  Ledger'
<1>1. /\ worker.pc = "write" /\ results' = results /\ admitted' = admitted
      /\ worker'.batch = worker.batch /\ worker'.pc \in {"write", "count"}
      /\ worker'.pc = "count" => worker'.ok = FALSE \/ Write
  <2>1. CASE Write
    BY <2>1 DEF Write, LedgerInv, Inv, TypeOK, actorVars
  <2>2. CASE WriteRaises /\ worker.attempt < MaxAttempts
    BY <2>2 DEF WriteRaises, Raised, LedgerInv, Inv, TypeOK, actorVars
  <2>3. CASE WriteRaises /\ ~(worker.attempt < MaxAttempts)
    BY <2>3 DEF WriteRaises, Raised, LedgerInv, Inv, TypeOK, actorVars
  <2> QED BY <2>1, <2>2, <2>3
<1>2. Reached' = Reached /\ Finished' = Finished
  BY <1>1 DEF Reached, Finished
<1>3. CASE Committed
  <2>1. /\ rows' \in Seq(Record) /\ Ordered(rows') /\ Durable(rows', results')
        /\ AllIn(rows', worker'.batch) /\ FromFirst(rows', admitted', Reached')
    BY <1>1, <1>2, <1>3, Commits
  <2> QED BY <1>1, <2>1 DEF Ledger
<1>4. CASE rows' = rows /\ ~Write
  <2>1. Len(results) \in Nat /\ Len(worker.batch) \in Nat
    BY Positions DEF LedgerInv
  <2>2. FromFirst(rows, admitted, Finished) => FromFirst(rows, admitted, Reached)
    <3>1. \A k \in 1..Finished : k \in 1..Reached
      BY <2>1 DEF Finished, Reached
    <3> QED BY <3>1 DEF FromFirst
  <2>3. /\ rows' \in Seq(Record) /\ Ordered(rows') /\ Durable(rows', results')
        /\ \/ FromFirst(rows', admitted', Finished')
           \/ AllIn(rows', worker'.batch) /\ FromFirst(rows', admitted', Reached')
        /\ FromFirst(rows', admitted', Reached')
    BY <1>1, <1>2, <1>4, <2>2 DEF LedgerInv, Ledger
  <2>4. worker'.pc = "count" => ~worker'.ok
    BY <1>1, <1>4
  <2> QED BY <1>1, <2>3, <2>4 DEF Ledger
<1> QED BY <1>3, <1>4 DEF Write, WriteRaises

LEMMA ReportLedger ==
    ASSUME LedgerInv, Report
    PROVE  Ledger'
<1> DEFINE e == [record |-> Head(worker.batch), stored |-> worker.ok]
<1>1. /\ worker.pc = "report" /\ worker.batch \in Seq(Record) /\ worker.batch # <<>>
      /\ worker.ok \in BOOLEAN /\ results \in Seq(Outcome) /\ results' = Append(results, e)
      /\ rows' = rows /\ admitted' = admitted
      /\ worker'.batch = Tail(worker.batch) /\ worker'.ok = worker.ok
      /\ worker'.pc = IF Len(worker.batch) > 1 THEN "report"
                      ELSE IF worker.stop THEN "done" ELSE "get"
  BY DEF LedgerInv, Inv, TypeOK, WorkerPlaces, Report, actorVars, Outcome
<1>2. /\ Len(worker.batch) \in Nat \ {0} /\ Head(worker.batch) = worker.batch[1]
      /\ Head(worker.batch) \in Record
      /\ Len(worker'.batch) = Len(worker.batch) - 1
      /\ \A i \in 1..Len(worker'.batch) : worker'.batch[i] = worker.batch[i + 1]
  BY <1>1, HeadTailProperties, EmptySeq
<1>3. /\ Len(results) \in Nat /\ Len(results') = Len(results) + 1
      /\ \A i \in 1..Len(results) : results'[i] = results[i]
      /\ results'[Len(results) + 1] = e
  <2>1. e \in Outcome
    BY <1>1, <1>2 DEF Outcome
  <2> QED BY <1>1, <2>1, LenProperties, AppendProperties
<1>4. /\ rows \in Seq(Record) /\ Ordered(rows) /\ Durable(rows, results)
      /\ FromFirst(rows, admitted, Reached)
      /\ worker.ok => AllIn(rows, worker.batch)
  BY <1>1 DEF LedgerInv, Ledger
<1>5. Reached' = Reached
  <2>1. Len(worker'.batch) = Len(worker.batch) - 1 /\ Len(worker.batch) \in Nat
    BY <1>2
  <2>2. Len(results') = Len(results) + 1 /\ Len(results) \in Nat
    BY <1>3
  <2>3. Reached' = Len(results') + Len(worker'.batch)
    BY DEF Reached
  <2>4. (Len(results) + 1) + (Len(worker.batch) - 1) = Len(results) + Len(worker.batch)
    <3>1. \A x, y \in Nat : (x + 1) + (y - 1) = x + y
      OBVIOUS
    <3> QED BY ZenonT(30), <2>1, <2>2, <3>1
  <2> QED BY ZenonT(30), <2>1, <2>2, <2>3, <2>4 DEF Reached
<1>6. worker'.pc \in {"get", "done"} => Finished' = Reached
  BY <1>1, <1>2, <1>3 DEF Reached, Finished
<1>7. Durable(rows, results')
  <2> SUFFICES ASSUME NEW i \in 1..Len(results'), results'[i].stored
               PROVE  In(rows, results'[i].record)
    BY DEF Durable
  <2>1. CASE i \in 1..Len(results)
    BY <1>3, <1>4, <2>1 DEF Durable
  <2>2. CASE i = Len(results) + 1
    <3>1. worker.ok /\ results'[i].record = worker.batch[1] /\ 1 \in 1..Len(worker.batch)
      BY <1>2, <1>3, <2>2
    <3> QED BY <1>4, <3>1 DEF AllIn
  <2> QED BY <1>3, <2>1, <2>2
<1>8. worker'.ok => AllIn(rows, worker'.batch)
  <2>1. \A i \in 1..Len(worker'.batch) : i + 1 \in 1..Len(worker.batch)
    BY <1>2
  <2> QED BY <1>1, <1>2, <1>4, <2>1 DEF AllIn
<1>9. worker'.pc \in {"report", "get", "done"}
  BY <1>1
<1> HIDE DEF e
<1> QED BY <1>1, <1>4, <1>5, <1>6, <1>7, <1>8, <1>9 DEF Ledger

LEMMA LedgerNext ==
    ASSUME LedgerInv, [Next]_vars
    PROVE  Ledger'
<1>1. /\ Len(results) \in Nat /\ Len(worker.batch) \in Nat
      /\ Len(results) \in 0..Len(admitted) /\ Reached \in 0..Len(admitted)
  BY Positions DEF LedgerInv, Reached
<1>2. CASE Write \/ WriteRaises
  BY <1>2, WriteLedger
<1>3. CASE Report
  BY <1>3, ReportLedger
<1>4. CASE UNCHANGED workerVars
  <2>1. worker' = worker /\ results' = results /\ rows' = rows
    BY <1>4 DEF workerVars
  <2>2. FromFirst(rows, admitted, Finished) => FromFirst(rows, admitted', Finished)
    BY <1>1, LogGrows DEF LedgerInv, Finished
  <2>3. FromFirst(rows, admitted, Reached) => FromFirst(rows, admitted', Reached)
    BY <1>1, LogGrows DEF LedgerInv
  <2> QED BY <2>1, <2>2, <2>3 DEF LedgerInv, Ledger, Finished, Reached
<1>5. CASE Get \/ Fill \/ Filled
  <2>1. /\ worker.pc \in {"get", "fill"} /\ worker'.pc \in {"fill", "write", "done"}
        /\ rows' = rows /\ results' = results /\ admitted' = admitted
    BY <1>5 DEF LedgerInv, Inv, TypeOK, Get, Fill, Filled, ToWrite, SentinelInBatch,
                actorVars
  <2> QED BY <2>1 DEF LedgerInv, Ledger, Finished
<1>6. CASE CountSettled
  <2>1. /\ worker.pc = "count" /\ worker'.pc = "report" /\ worker'.batch = worker.batch
        /\ worker'.ok = worker.ok
        /\ rows' = rows /\ results' = results /\ admitted' = admitted
    BY <1>6 DEF LedgerInv, Inv, TypeOK, CountSettled, actorVars
  <2> QED BY <2>1 DEF LedgerInv, Ledger, Reached
<1>7. Caller => UNCHANGED workerVars
  BY DEF Caller, Submit, PutNoWait, QueueFull, CountAccepted, Close, PutStop, CloseReturns
<1>8. UNCHANGED vars => UNCHANGED workerVars
  BY DEF vars
<1> QED BY <1>2, <1>3, <1>4, <1>5, <1>6, <1>7, <1>8 DEF Next, Worker

-----------------------------------------------------------------------------
(* Admission: the reserve and the counters.                                *)

(* The positions of a queue that normal records take.                      *)
Normal(queue) == {i \in 1..Len(queue) : queue[i] \in Record /\ ~queue[i].critical}

(* The records of a queue: all of it but a sentinel at its end.            *)
Waiting(queue) ==
    IF queue # <<>> /\ queue[Len(queue)] = STOP THEN Len(queue) - 1 ELSE Len(queue)

(* The check that admitted a normal record still holds when it is put:     *)
(* only this thread puts, and the worker only takes.                       *)
Reserve ==
    /\ caller.pc = "put" /\ ~caller.item.critical => Len(pending) < NormalCapacity
    /\ Cardinality(Normal(pending)) <= NormalCapacity

(* The counters, with the record the actor's thread has in hand and the    *)
(* batch the worker has not counted.                                       *)
Balance ==
    /\ counters.accepted + counters.rejected
          + (IF caller.pc \in {"put", "count"} THEN 1 ELSE 0) = sequence
    /\ counters.accepted + (IF caller.pc = "count" THEN 1 ELSE 0)
          = counters.stored + counters.failed + Waiting(pending)
            + (IF worker.pc = "report" THEN 0 ELSE Len(worker.batch))

LEMMA NormalFinite ==
    ASSUME NEW queue \in Seq(Item)
    PROVE  /\ IsFiniteSet(Normal(queue))
           /\ Cardinality(Normal(queue)) \in Nat
           /\ Cardinality(Normal(queue)) <= Len(queue)
<1>1. Len(queue) \in Nat
  BY LenProperties
<1>2. /\ IsFiniteSet(1..Len(queue))
      /\ Cardinality(1..Len(queue)) = IF 1 > Len(queue) THEN 0 ELSE Len(queue) - 1 + 1
  BY <1>1, FS_Interval
<1>3. Cardinality(1..Len(queue)) = Len(queue)
  BY <1>1, <1>2
<1>4. Normal(queue) \in SUBSET (1..Len(queue))
  BY DEF Normal
<1> QED BY <1>2, <1>3, <1>4, FS_Subset, FS_CardinalityType

LEMMA NormalPut ==
    ASSUME NEW queue \in Seq(Item), NEW x \in Item,
           x \in Record /\ ~x.critical => Len(queue) < NormalCapacity,
           Cardinality(Normal(queue)) <= NormalCapacity
    PROVE  Cardinality(Normal(Append(queue, x))) <= NormalCapacity
<1> DEFINE more == Append(queue, x)
<1>1. /\ Len(queue) \in Nat /\ more \in Seq(Item) /\ Len(more) = Len(queue) + 1
      /\ \A i \in 1..Len(queue) : more[i] = queue[i]
      /\ more[Len(queue) + 1] = x
  BY LenProperties, AppendProperties
<1>2. NormalCapacity \in Int
  BY WorkerAssumption DEF NormalCapacity
<1> HIDE DEF more
<1>3. CASE x \in Record /\ ~x.critical
  <2>1. Cardinality(Normal(more)) \in Nat /\ Cardinality(Normal(more)) <= Len(more)
    BY <1>1, NormalFinite
  <2>2. Len(queue) < NormalCapacity
    BY <1>3
  <2> QED BY <1>1, <1>2, <2>1, <2>2 DEF more
<1>4. CASE ~(x \in Record /\ ~x.critical)
  <2>1. Normal(more) = Normal(queue)
    BY <1>1, <1>4 DEF Normal
  <2> QED BY <2>1 DEF more
<1> QED BY <1>3, <1>4

LEMMA NormalTake ==
    ASSUME NEW queue \in Seq(Item), NEW rest \in Seq(Item),
           Len(queue) = Len(rest) + 1,
           \A i \in 1..Len(rest) : rest[i] = queue[i + 1]
    PROVE  Cardinality(Normal(rest)) <= Cardinality(Normal(queue))
<1> DEFINE f == [i \in Normal(rest) |-> i + 1]
<1>1. Len(rest) \in Nat
  BY LenProperties
<1>2. \A i \in Normal(rest) : i + 1 \in Normal(queue) /\ i \in Nat
  BY <1>1 DEF Normal
<1>3. f \in [Normal(rest) -> Normal(queue)]
  BY <1>2
<1>4. \A i, j \in Normal(rest) : f[i] = f[j] => i = j
  BY <1>2
<1> HIDE DEF f
<1>5. f \in Injection(Normal(rest), Normal(queue))
  BY <1>3, <1>4 DEF Injection, IsInjective
<1>6. IsFiniteSet(Normal(queue))
  BY NormalFinite
<1> QED BY <1>5, <1>6, FS_Injection

(* How the number of waiting records changes.                              *)
LEMMA WaitingPut ==
    ASSUME NEW queue \in Seq(Item), NEW x \in Item,
           \A i \in 1..Len(queue) : queue[i] # STOP
    PROVE  /\ Waiting(queue) = Len(queue)
           /\ Waiting(Append(queue, x)) = Len(queue) + (IF x = STOP THEN 0 ELSE 1)
<1> DEFINE more == Append(queue, x)
<1>1. /\ Len(queue) \in Nat /\ more \in Seq(Item) /\ Len(more) = Len(queue) + 1
      /\ more[Len(queue) + 1] = x
  BY LenProperties, AppendProperties
<1>2. queue # <<>> => Len(queue) \in 1..Len(queue)
  BY <1>1, EmptySeq
<1> HIDE DEF more
<1>3. more # <<>>
  BY <1>1, EmptySeq
<1>4. Waiting(more) = IF x = STOP THEN Len(queue) + 1 - 1 ELSE Len(queue) + 1
  BY <1>1, <1>3 DEF Waiting
<1>5. Waiting(more) = Len(queue) + (IF x = STOP THEN 0 ELSE 1)
  BY <1>1, <1>4
<1>6. Waiting(queue) = Len(queue)
  BY <1>2 DEF Waiting
<1> QED BY <1>5, <1>6 DEF more

LEMMA WaitingTake ==
    ASSUME Inv, NEW x, Take(x)
    PROVE  /\ Waiting(pending) \in Nat
           /\ Waiting(pending') = Waiting(pending) - (IF x = STOP THEN 0 ELSE 1)
<1>1. /\ pending # <<>> /\ pending[1] = x
      /\ Len(pending') = Len(pending) - 1
      /\ \A i \in 1..Len(pending') : pending'[i] = pending[i + 1]
      /\ Len(pending) \in Nat \ {0}
  BY TakeTyped, EmptySeq
<1>2. pending' = <<>> <=> Len(pending') = 0
  BY TakeTyped, EmptySeq
<1>3. Waiting(pending) = IF pending[Len(pending)] = STOP THEN Len(pending) - 1
                         ELSE Len(pending)
  BY <1>1 DEF Waiting
<1>4. CASE Len(pending) = 1
  <2>1. Waiting(pending') = 0
    BY <1>1, <1>2, <1>4 DEF Waiting
  <2>2. pending[Len(pending)] = x
    BY <1>1, <1>4
  <2> QED BY <1>3, <1>4, <2>1, <2>2
<1>5. CASE Len(pending) # 1
  <2>1. /\ Len(pending') \in 1..Len(pending') /\ Len(pending') + 1 = Len(pending)
        /\ Len(pending') # 0
    BY <1>1, <1>5
  <2>2. pending'[Len(pending')] = pending[Len(pending)]
    BY <1>1, <2>1
  <2>3. Waiting(pending') = IF pending[Len(pending)] = STOP THEN Len(pending') - 1
                            ELSE Len(pending')
    BY <1>2, <2>1, <2>2 DEF Waiting
  <2>4. 1 \in 1..Len(pending)
    BY <1>1
  <2>5. x # STOP
    BY <1>1, <1>5, <2>4 DEF Inv, SentinelLast
  <2> QED BY <1>1, <1>3, <2>3, <2>5
<1> QED BY <1>4, <1>5

LEMMA WaitingRecords ==
    ASSUME Inv
    PROVE  Cardinality({i \in DOMAIN pending : pending[i] # STOP}) = Waiting(pending)
<1>1. pending \in Seq(Item) /\ Len(pending) \in Nat /\ DOMAIN pending = 1..Len(pending)
  BY LenProperties DEF Inv, TypeOK, Item
<1>2. pending = <<>> <=> Len(pending) = 0
  BY <1>1, EmptySeq
<1>3. Waiting(pending) \in Nat
  BY <1>1, <1>2 DEF Waiting
<1>4. {i \in 1..Len(pending) : pending[i] # STOP} = 1..Waiting(pending)
  <2>1. CASE pending # <<>> /\ pending[Len(pending)] = STOP
    <3>1. Waiting(pending) = Len(pending) - 1 /\ Len(pending) # 0
      BY <1>2, <2>1 DEF Waiting
    <3>2. \A i \in 1..Len(pending) : pending[i] = STOP <=> i = Len(pending)
      BY <2>1 DEF Inv, SentinelLast
    <3>3. \A i \in 1..Len(pending) : pending[i] # STOP <=> i \in 1..Waiting(pending)
      <4> SUFFICES ASSUME NEW i \in 1..Len(pending)
                   PROVE  i # Len(pending) <=> i \in 1..Waiting(pending)
        BY ZenonT(30), <3>2
      <4>1. i \in 1..(Len(pending) - 1) <=> i # Len(pending)
        <5>1. \A n \in Nat : \A k \in 1..n : k \in 1..(n - 1) <=> k # n
          OBVIOUS
        <5> QED BY ZenonT(30), <1>1, <5>1
      <4> QED BY <3>1, <4>1
    <3>4. \A i \in 1..Waiting(pending) : i \in 1..Len(pending)
      BY <1>1, <3>1
    <3> QED BY <3>3, <3>4
  <2>2. CASE ~(pending # <<>> /\ pending[Len(pending)] = STOP)
    <3>1. Waiting(pending) = Len(pending)
      BY <2>2 DEF Waiting
    <3>2. ASSUME NEW i \in 1..Len(pending), pending[i] = STOP PROVE FALSE
      <4>1. i = Len(pending)
        BY <3>2 DEF Inv, SentinelLast
      <4>2. pending = <<>>
        BY <2>2, <3>2, <4>1
      <4> QED BY <1>1, <1>2, <4>2
    <3> QED BY <3>1, <3>2
  <2> QED BY <2>1, <2>2
<1>5. Cardinality(1..Waiting(pending))
          = IF 1 > Waiting(pending) THEN 0 ELSE Waiting(pending) - 1 + 1
  BY <1>3, FS_Interval
<1>6. Cardinality(1..Waiting(pending)) = Waiting(pending)
  BY <1>3, <1>5
<1> QED BY <1>1, <1>4, <1>6

LEMMA Counters ==
    ASSUME TypeOK
    PROVE  /\ counters.accepted \in Nat /\ counters.stored \in Nat
           /\ counters.failed \in Nat /\ counters.rejected \in Nat
           /\ sequence \in Nat
           /\ \A n : Increment("accepted", n) =>
                 /\ counters'.accepted = counters.accepted + n
                 /\ counters'.stored = counters.stored
                 /\ counters'.failed = counters.failed
                 /\ counters'.rejected = counters.rejected
           /\ \A n : Increment("rejected", n) =>
                 /\ counters'.rejected = counters.rejected + n
                 /\ counters'.accepted = counters.accepted
                 /\ counters'.stored = counters.stored
                 /\ counters'.failed = counters.failed
           /\ \A n : Increment("stored", n) =>
                 /\ counters'.stored = counters.stored + n
                 /\ counters'.accepted = counters.accepted
                 /\ counters'.failed = counters.failed
                 /\ counters'.rejected = counters.rejected
           /\ \A n : Increment("failed", n) =>
                 /\ counters'.failed = counters.failed + n
                 /\ counters'.accepted = counters.accepted
                 /\ counters'.stored = counters.stored
                 /\ counters'.rejected = counters.rejected
  BY WorkerAssumption DEF TypeOK, Increment

LEMMA ReserveNext ==
    ASSUME Inv, Reserve, [Next]_vars
    PROVE  Reserve'
<1>1. pending \in Seq(Item) /\ Len(pending) \in Nat /\ NormalCapacity \in Int
  <2>1. pending \in Seq(Item)
    BY DEF Inv, TypeOK, Item
  <2> QED BY <2>1, LenProperties, WorkerAssumption DEF NormalCapacity
<1>2. ASSUME NEW critical \in BOOLEAN, Submit(critical) PROVE Reserve'
  <2>1. pending' = pending
    BY <1>2 DEF Submit
  <2>2. CASE Admits(critical)
    <3>1. caller'.item.critical = critical
      <4>1. caller' = [caller EXCEPT
                          !.pc = "put",
                          !.item = [seq |-> sequence', critical |-> critical]]
        BY <1>2, <2>2 DEF Submit
      <4>2. caller'.item = [seq |-> sequence', critical |-> critical]
        BY <4>1 DEF Inv, TypeOK
      <4> QED BY <4>2
    <3> QED BY <2>1, <2>2, <3>1 DEF Reserve, Admits
  <2>3. CASE ~Admits(critical)
    <3>1. caller' = caller
      BY <1>2, <2>3 DEF Submit
    <3> QED BY <2>1, <3>1 DEF Reserve
  <2> QED BY <2>2, <2>3
<1>3. CASE PutNoWait
  <2>1. /\ caller.item \in Item /\ caller.pc = "put" /\ caller'.pc = "count"
        /\ pending' = Append(pending, caller.item)
    BY <1>3 DEF Inv, TypeOK, PutNoWait, Put, Item
  <2>2. Cardinality(Normal(pending')) <= NormalCapacity
    BY <1>1, <2>1, NormalPut DEF Reserve
  <2> QED BY <2>1, <2>2 DEF Reserve
<1>4. CASE PutStop
  <2>1. /\ STOP \in Item /\ STOP \notin Record /\ caller'.pc = "join"
        /\ pending' = Append(pending, STOP)
    BY <1>4, WorkerAssumption DEF Inv, TypeOK, PutStop, Put, Item
  <2>2. Cardinality(Normal(pending')) <= NormalCapacity
    BY <1>1, <2>1, NormalPut DEF Reserve
  <2> QED BY <2>1, <2>2 DEF Reserve
<1>5. ASSUME NEW x, Take(x), caller' = caller PROVE Reserve'
  <2>1. /\ pending' \in Seq(Item) /\ Len(pending') = Len(pending) - 1
        /\ \A i \in 1..Len(pending') : pending'[i] = pending[i + 1]
    BY <1>5, TakeTyped
  <2>2. Len(pending) = Len(pending') + 1
    BY <1>1, <2>1
  <2>3. Cardinality(Normal(pending')) <= Cardinality(Normal(pending))
    BY <1>1, <2>1, <2>2, NormalTake
  <2>4. Cardinality(Normal(pending)) \in Nat /\ Cardinality(Normal(pending')) \in Nat
    BY <1>1, <2>1, NormalFinite
  <2>5. Cardinality(Normal(pending')) <= NormalCapacity
    BY <1>1, <2>3, <2>4 DEF Reserve
  <2>6. Len(pending) < NormalCapacity => Len(pending') < NormalCapacity
    BY <1>1, <2>1
  <2> QED BY <1>5, <2>5, <2>6 DEF Reserve
<1>6. CASE pending' = pending /\ (caller' = caller \/ caller'.pc # "put")
  BY <1>6 DEF Reserve
<1>7. Write \/ WriteRaises \/ CountSettled \/ Report \/ UNCHANGED vars
          => pending' = pending /\ caller' = caller
  BY DEF Write, WriteRaises, CountSettled, Report, vars, actorVars
<1>8. QueueFull \/ CountAccepted \/ Close \/ CloseReturns
          => pending' = pending /\ caller'.pc # "put"
  BY DEF QueueFull, CountAccepted, Close, CloseReturns, Inv, TypeOK
<1>9. CASE Get
  <2>1. caller' = caller
    BY <1>9 DEF Get, actorVars
  <2> QED BY <1>5, <1>9, <2>1 DEF Get
<1>10. CASE Fill
  <2>1. caller' = caller
    BY <1>10 DEF Fill, actorVars
  <2> QED BY <1>5, <1>10, <2>1 DEF Fill
<1>11. CASE Filled
  <2>1. caller' = caller
    BY <1>11 DEF Filled, actorVars
  <2> QED BY <1>5, <1>6, <1>11, <2>1 DEF Filled
<1> QED BY <1>2, <1>3, <1>4, <1>6, <1>7, <1>8, <1>9, <1>10, <1>11 DEF Next, Caller, Worker

(* The steps of the actor's thread.                                        *)
LEMMA BalanceCaller ==
    ASSUME Inv, Balance, Caller
    PROVE  Balance'
<1>1. /\ counters.accepted \in Nat /\ counters.stored \in Nat /\ counters.failed \in Nat
      /\ counters.rejected \in Nat /\ sequence \in Nat
  BY Counters DEF Inv
<1>2. worker' = worker
  BY DEF Caller, Submit, PutNoWait, QueueFull, CountAccepted, Close, PutStop,
         CloseReturns, workerVars
<1>3. /\ pending \in Seq(Item) /\ Len(pending) \in Nat /\ Len(worker.batch) \in Nat
  <2>1. pending \in Seq(Item)
    BY DEF Inv, TypeOK, Item
  <2> QED BY <2>1, LenProperties, Positions
<1>4. ASSUME NEW critical \in BOOLEAN, Submit(critical) PROVE Balance'
  <2>1. pending' = pending /\ sequence' = sequence + 1 /\ caller.pc = "idle"
    BY <1>4 DEF Submit
  <2>2. CASE Admits(critical)
    <3>1. caller'.pc = "put" /\ counters' = counters
      BY <1>4, <2>2 DEF Submit, Inv, TypeOK
    <3> QED BY <1>1, <1>2, <2>1, <3>1 DEF Balance
  <2>3. CASE ~Admits(critical)
    <3>1. caller' = caller /\ Increment("rejected", 1)
      BY <1>4, <2>3 DEF Submit
    <3>2. /\ counters'.rejected = counters.rejected + 1
          /\ counters'.accepted = counters.accepted
          /\ counters'.stored = counters.stored
          /\ counters'.failed = counters.failed
      BY <3>1, Counters DEF Inv
    <3> QED BY <1>1, <1>2, <2>1, <3>1, <3>2 DEF Balance
  <2> QED BY <2>2, <2>3
<1>5. CASE PutNoWait
  <2>1. /\ caller.item \in Record /\ caller.item # STOP /\ ~stopped
        /\ caller.pc = "put" /\ caller'.pc = "count"
        /\ counters' = counters /\ sequence' = sequence
        /\ pending' = Append(pending, caller.item)
    BY <1>5, WorkerAssumption DEF Inv, TypeOK, CallerPlaces, PutNoWait, Put
  <2>2. \A i \in 1..Len(pending) : pending[i] # STOP
    BY <2>1 DEF Inv, SentinelLast
  <2>3. /\ Waiting(pending) = Len(pending)
        /\ Waiting(pending') = Len(pending) + (IF caller.item = STOP THEN 0 ELSE 1)
    BY <1>3, <2>1, <2>2, WaitingPut DEF Item
  <2>4. Waiting(pending') = Waiting(pending) + 1 /\ Waiting(pending) \in Nat
    BY <1>3, <2>1, <2>3
  <2>5. counters'.accepted + counters'.rejected
            + (IF caller'.pc \in {"put", "count"} THEN 1 ELSE 0) = sequence'
    BY <2>1 DEF Balance
  <2>6. \A a, r, h, w \in Nat : a + 0 = r + w + h => a + 1 = r + (w + 1) + h
    OBVIOUS
  <2> DEFINE h == IF worker.pc = "report" THEN 0 ELSE Len(worker.batch)
             r == counters.stored + counters.failed
  <2>7. /\ h \in Nat /\ r \in Nat /\ counters.accepted + 0 = r + Waiting(pending) + h
        /\ h' = h /\ r' = r
    BY <1>1, <1>2, <1>3, <2>1 DEF Balance
  <2>8. (counters.accepted + 0 = r + Waiting(pending) + h)
            => counters.accepted + 1 = r + (Waiting(pending) + 1) + h
    <3>1. h \in Nat /\ r \in Nat /\ Waiting(pending) \in Nat
      BY <2>4, <2>7
    <3>2. counters.accepted \in Nat
      BY <1>1
    <3> HIDE DEF h, r
    <3> QED BY <2>6, <3>1, <3>2
  <2>9. counters'.accepted + (IF caller'.pc = "count" THEN 1 ELSE 0)
            = r' + Waiting(pending') + h'
    BY <2>1, <2>4, <2>7, <2>8
  <2> QED BY <2>5, <2>9 DEF Balance
<1>6. CASE PutStop
  <2>1. /\ ~stopped /\ caller.pc = "stop" /\ caller'.pc = "join"
        /\ counters' = counters /\ sequence' = sequence
        /\ pending' = Append(pending, STOP)
    BY <1>6 DEF Inv, TypeOK, CallerPlaces, PutStop, Put
  <2>2. \A i \in 1..Len(pending) : pending[i] # STOP
    BY <2>1 DEF Inv, SentinelLast
  <2>3. STOP \in Item
    BY DEF Item
  <2>4. Waiting(pending') = Len(pending) + 0 /\ Waiting(pending) = Len(pending)
    BY <1>3, <2>1, <2>2, <2>3, WaitingPut
  <2>5. Waiting(pending') = Waiting(pending)
    BY <1>3, <2>4
  <2> QED BY <1>2, <2>1, <2>5 DEF Balance
<1>7. CASE QueueFull
  <2>1. /\ caller.pc = "put" /\ caller'.pc = "idle" /\ pending' = pending
        /\ sequence' = sequence /\ Increment("rejected", 1)
    BY <1>7 DEF QueueFull, Inv, TypeOK
  <2>2. /\ counters'.rejected = counters.rejected + 1
        /\ counters'.accepted = counters.accepted
        /\ counters'.stored = counters.stored
        /\ counters'.failed = counters.failed
    BY <2>1, Counters DEF Inv
  <2> QED BY <1>1, <1>2, <2>1, <2>2 DEF Balance
<1>8. CASE CountAccepted
  <2>1. /\ caller.pc = "count" /\ caller'.pc = "idle" /\ pending' = pending
        /\ sequence' = sequence /\ Increment("accepted", 1)
    BY <1>8 DEF CountAccepted, Inv, TypeOK
  <2>2. /\ counters'.accepted = counters.accepted + 1
        /\ counters'.rejected = counters.rejected
        /\ counters'.stored = counters.stored
        /\ counters'.failed = counters.failed
    BY <2>1, Counters DEF Inv
  <2>3. counters'.accepted + counters'.rejected
            + (IF caller'.pc \in {"put", "count"} THEN 1 ELSE 0) = sequence'
    <3>1. counters.accepted + counters.rejected + 1 = sequence
      BY <2>1 DEF Balance
    <3> QED BY <1>1, <2>1, <2>2, <3>1
  <2>4. counters'.accepted + (IF caller'.pc = "count" THEN 1 ELSE 0)
            = counters.accepted + (IF caller.pc = "count" THEN 1 ELSE 0)
    BY <1>1, <2>1, <2>2
  <2> QED BY <1>2, <2>1, <2>2, <2>3, <2>4 DEF Balance
<1>9. CASE Close \/ CloseReturns
  <2>1. /\ caller.pc \notin {"put", "count"} /\ caller'.pc \notin {"put", "count"}
        /\ pending' = pending /\ sequence' = sequence /\ counters' = counters
    BY <1>9 DEF Close, CloseReturns, Inv, TypeOK
  <2> QED BY <1>2, <2>1 DEF Balance
<1> QED BY <1>4, <1>5, <1>6, <1>7, <1>8, <1>9 DEF Caller

(* The steps of the worker's thread move records between the queue, the    *)
(* batch and the two final counters.                                       *)
LEMMA BalanceWorker ==
    ASSUME Inv, Balance, Worker
    PROVE  Balance'
<1> DEFINE h == IF worker.pc = "report" THEN 0 ELSE Len(worker.batch)
           r == counters.stored + counters.failed
<1>1. /\ counters.accepted \in Nat /\ counters.stored \in Nat /\ counters.failed \in Nat
      /\ counters.rejected \in Nat /\ r \in Nat
  BY Counters DEF Inv
<1>2. /\ caller' = caller /\ sequence' = sequence
      /\ worker.batch \in Seq(Record) /\ Len(worker.batch) \in Nat
  <2>1. worker.batch \in Seq(Record)
    BY DEF Inv, TypeOK
  <2> QED BY <2>1, LenProperties DEF Worker, Get, Fill, Filled, Write, WriteRaises,
                                     CountSettled, Report, actorVars
<1>3. ASSUME counters'.accepted = counters.accepted,
             counters'.rejected = counters.rejected,
             r' + Waiting(pending') + h' = r + Waiting(pending) + h
      PROVE  Balance'
  BY <1>2, <1>3 DEF Balance
<1>4. ASSUME NEW x, Take(x), counters' = counters, h' = h + (IF x = STOP THEN 0 ELSE 1)
      PROVE  Balance'
  <2>1. /\ Waiting(pending) \in Nat
        /\ Waiting(pending') = Waiting(pending) - (IF x = STOP THEN 0 ELSE 1)
    BY <1>4, WaitingTake
  <2>2. \A a, w, b \in Nat : \A c \in {0, 1} : a + (w - c) + (b + c) = a + w + b
    OBVIOUS
  <2>3. h \in Nat /\ r' = r
    BY <1>2, <1>4
  <2> HIDE DEF h, r
  <2>4. r' + Waiting(pending') + h' = r + Waiting(pending) + h
    <3>1. CASE x = STOP
      BY <1>1, <1>4, <2>1, <2>2, <2>3, <3>1
    <3>2. CASE x # STOP
      BY <1>1, <1>4, <2>1, <2>2, <2>3, <3>2
    <3> QED BY <3>1, <3>2
  <2> QED BY <1>3, <1>4, <2>4
<1>5. CASE Get
  <2>1. worker.pc = "get" /\ counters' = counters /\ worker.batch = <<>>
    BY <1>5 DEF Get, Inv, WorkerPlaces
  <2>2. CASE Take(STOP) /\ worker' = [worker EXCEPT !.pc = "done", !.stop = TRUE]
    <3>1. worker'.pc = "done" /\ worker'.batch = worker.batch
      BY <2>2 DEF Inv, TypeOK
    <3>2. h' = h + 0
      BY <1>2, <2>1, <3>1
    <3> QED BY <1>4, <2>1, <2>2, <3>2
  <2>3. ASSUME NEW item \in Record, Take(item),
               worker' = [worker EXCEPT !.pc = "fill", !.batch = <<item>>]
        PROVE  Balance'
    <3>1. worker'.pc = "fill" /\ worker'.batch = <<item>>
      BY <2>3 DEF Inv, TypeOK
    <3>2. Len(<<item>>) = 1 /\ Len(worker.batch) = 0
      BY <2>1, EmptySeq
    <3>3. h' = h + 1
      BY <2>1, <3>1, <3>2
    <3>4. item # STOP
      BY <2>3, WorkerAssumption
    <3> QED BY <1>4, <2>1, <2>3, <3>3, <3>4
  <2> QED BY <1>5, <2>2, <2>3 DEF Get
<1>6. CASE Fill
  <2>1. PICK item \in Record :
            Take(item) /\ worker' = [worker EXCEPT !.batch = Append(@, item)]
    BY <1>6 DEF Fill
  <2>2. /\ worker.pc = "fill" /\ worker'.pc = "fill" /\ counters' = counters
        /\ worker'.batch = Append(worker.batch, item)
    BY <1>6, <2>1 DEF Fill, Inv, TypeOK
  <2>3. Len(worker'.batch) = Len(worker.batch) + 1 /\ item # STOP
    BY <1>2, <2>1, <2>2, AppendProperties, WorkerAssumption
  <2>4. h' = h + 1
    BY <2>2, <2>3
  <2> QED BY <1>4, <2>1, <2>2, <2>3, <2>4
<1>7. CASE Filled
  <2>1. /\ worker.pc = "fill" /\ worker'.pc = "write" /\ counters' = counters
        /\ worker'.batch = worker.batch
    BY <1>7 DEF Filled, ToWrite, SentinelInBatch, Inv, TypeOK
  <2>2. h' = h + 0 /\ h' = h /\ r' = r
    BY <1>2, <2>1
  <2>3. CASE Take(STOP)
    BY <1>4, <2>1, <2>2, <2>3
  <2>4. CASE pending' = pending
    BY <1>3, <2>1, <2>2, <2>4
  <2> QED BY <1>7, <2>3, <2>4 DEF Filled
<1>8. CASE Write \/ WriteRaises
  <2>1. /\ worker.pc = "write" /\ worker'.pc \in {"write", "count"}
        /\ counters' = counters /\ worker'.batch = worker.batch /\ pending' = pending
    BY <1>8 DEF Write, WriteRaises, Raised, Inv, TypeOK
  <2>2. h' = h /\ r' = r
    BY <2>1
  <2> QED BY <1>3, <2>1, <2>2
<1>9. CASE CountSettled
  <2>1. /\ worker.pc = "count" /\ worker'.pc = "report" /\ pending' = pending
        /\ Increment(IF worker.ok THEN "stored" ELSE "failed", Len(worker.batch))
    BY <1>9 DEF CountSettled, Inv, TypeOK
  <2>2. /\ counters'.accepted = counters.accepted
        /\ counters'.rejected = counters.rejected
        /\ \/ /\ counters'.stored = counters.stored + Len(worker.batch)
              /\ counters'.failed = counters.failed
           \/ /\ counters'.stored = counters.stored
              /\ counters'.failed = counters.failed + Len(worker.batch)
    BY <2>1, Counters DEF Inv
  <2>3. r' = r + h /\ h' = 0 /\ h \in Nat
    BY <1>1, <1>2, <2>1, <2>2
  <2>4. Waiting(pending) \in Nat
    <3>1. pending = <<>> \/ Len(pending) \in Nat \ {0}
      BY EmptySeq DEF Inv, TypeOK
    <3>2. pending = <<>> => Len(pending) = 0
      BY EmptySeq
    <3> QED BY <3>1, <3>2 DEF Waiting
  <2>5. \A a, w, b \in Nat : (a + b) + w + 0 = a + w + b
    OBVIOUS
  <2> HIDE DEF h, r
  <2>6. r' + Waiting(pending') + h' = r + Waiting(pending) + h
    BY <1>1, <2>1, <2>3, <2>4, <2>5
  <2> QED BY <1>3, <2>2, <2>6
<1>10. CASE Report
  <2>1. /\ worker.pc = "report" /\ counters' = counters /\ pending' = pending
        /\ worker'.batch = Tail(worker.batch)
        /\ worker'.pc = "report" \/ ~(Len(worker.batch) > 1)
    BY <1>10 DEF Report, Inv, TypeOK
  <2>2. worker.batch # <<>>
    BY <2>1 DEF Inv, WorkerPlaces
  <2>3. Len(worker'.batch) = Len(worker.batch) - 1 /\ Len(worker.batch) \in Nat \ {0}
    BY <1>2, <2>1, <2>2, HeadTailProperties, EmptySeq
  <2>4. h = 0 /\ h' = 0 /\ r' = r
    <3>1. \A n \in Nat \ {0} : ~(n > 1) => n - 1 = 0
      OBVIOUS
    <3>2. ~(Len(worker.batch) > 1) => Len(worker'.batch) = 0
      BY <2>3, <3>1
    <3> QED BY <2>1, <3>2
  <2> HIDE DEF h, r
  <2> QED BY <1>3, <2>1, <2>4
<1> QED BY <1>5, <1>6, <1>7, <1>8, <1>9, <1>10 DEF Worker

AdmissionInv == Inv /\ Reserve /\ Balance

LEMMA AdmissionInit == Init => Reserve /\ Balance
<1> SUFFICES ASSUME Init PROVE Reserve /\ Balance
  OBVIOUS
<1>1. /\ pending = <<>> /\ Len(pending) = 0 /\ worker.batch = <<>> /\ worker.pc = "get"
      /\ caller.pc = "idle" /\ sequence = 0
      /\ counters.accepted = 0 /\ counters.stored = 0
      /\ counters.failed = 0 /\ counters.rejected = 0
  BY EmptySeq DEF Init
<1>2. Normal(pending) = {}
  BY <1>1 DEF Normal
<1>3. Cardinality(Normal(pending)) = 0
  BY <1>2, FS_EmptySet
<1>4. Reserve
  BY <1>1, <1>3, WorkerAssumption DEF Reserve, NormalCapacity
<1>5. Waiting(pending) = 0 /\ Len(worker.batch) = 0
  BY <1>1, EmptySeq DEF Waiting
<1>6. Balance
  BY <1>1, <1>5 DEF Balance
<1> QED BY <1>4, <1>6

(* The worker's and the actor's state stay within their types.             *)
THEOREM TypeCorrect == Spec => []TypeOK
<1>1. Inv => TypeOK
  BY DEF Inv
<1> QED BY <1>1, InvInit, InvNext, PTL DEF Spec

(* No record is lost, repeated or overtaken between its admission and its  *)
(* result, however the two threads interleave, writes fail and close times *)
(* out, for every capacity, batch size and retry limit.                    *)
THEOREM AcceptedInOrderAlways == Spec => []AcceptedInOrder
<1>1. Inv => AcceptedInOrder
  BY DEF Inv
<1> QED BY <1>1, InvInit, InvNext, PTL DEF Spec

(* When close reports success, every record admitted before it has its     *)
(* result: a successful close never leaves work in the queue or a batch.   *)
THEOREM CleanClose == Spec => []CleanCloseDrains
<1>1. Inv => CleanCloseDrains
  <2> SUFFICES ASSUME Inv, caller.closing = "drained"
               PROVE  Settled \o <<STOP>> = admitted
    BY DEF CleanCloseDrains
  <2>1. worker.batch = <<>> /\ worker.stop /\ pending = <<>>
    BY DEF Inv, CallerPlaces, WorkerPlaces, SentinelLast
  <2>2. results \in Seq(Outcome) /\ worker.batch \in Seq(Record)
    BY DEF Inv, TypeOK, Outcome
  <2>3. /\ SettledIn(results) \in Seq(Item) /\ <<STOP>> \in Seq(Item)
        /\ SettledIn(results) \o <<STOP>> \in Seq(Item)
    BY <2>1, <2>2, FlowTypes, ConcatProperties DEF Item
  <2>4. SettledIn(results) \o <<>> = SettledIn(results)
    BY <2>3, ConcatEmptySeq
  <2>5. (SettledIn(results) \o <<STOP>>) \o <<>> = SettledIn(results) \o <<STOP>>
    BY <2>3, ConcatEmptySeq
  <2>6. Flow(results, <<>>, TRUE, <<>>) = SettledIn(results) \o <<STOP>>
    BY <2>4, <2>5 DEF Flow
  <2>7. SettledIn(results) = Settled
    BY DEF SettledIn, Settled
  <2> QED BY <2>1, <2>6, <2>7, InOrderIsFlow DEF Inv
<1> QED BY <1>1, InvInit, InvNext, PTL DEF Spec

(* The ledger is faithful: PostgreSQL holds each record at most once and   *)
(* in the order the records were offered, and every record reported as     *)
(* stored, whatever commits lose their acknowledgement.  The types and the *)
(* flow of records do not say so: the invariant adds that a batch is in    *)
(* the table as a whole or not at all.                                     *)
THEOREM LedgerFaithfulAlways == Spec => []LedgerFaithful
<1>1. Init => LedgerInv
  BY InvInit, InSequenceInit, LedgerInit DEF LedgerInv
<1>2. LedgerInv /\ [Next]_vars => LedgerInv'
  BY InvNext, InSequenceNext, LedgerNext DEF LedgerInv
<1>3. LedgerInv => LedgerFaithful
  <2> SUFFICES ASSUME LedgerInv PROVE LedgerFaithful
    OBVIOUS
  <2>1. DOMAIN rows = 1..Len(rows) /\ DOMAIN results = 1..Len(results)
    BY LenProperties DEF LedgerInv, Ledger, Inv, TypeOK
  <2> QED BY <2>1 DEF LedgerInv, Ledger, LedgerFaithful, LedgerInOrder, StoredIsDurable,
                      Ordered, Durable, In, Held
<1> QED BY <1>1, <1>2, <1>3, PTL DEF Spec

(* What submit admits stays within the capacity of its class, although the *)
(* check and the put are two steps, and the counters add up: every record  *)
(* offered is accepted or rejected, and the pending records a snapshot     *)
(* derives from them are exactly those in the queue and in the batch.      *)
THEOREM AdmissionAccountedAlways == Spec => []AdmissionAccounted
<1>1. Init => AdmissionInv
  BY InvInit, AdmissionInit DEF AdmissionInv
<1>2. AdmissionInv /\ [Next]_vars => AdmissionInv'
  <2> SUFFICES ASSUME AdmissionInv, [Next]_vars PROVE AdmissionInv'
    OBVIOUS
  <2>1. Inv' /\ Reserve'
    BY InvNext, ReserveNext DEF AdmissionInv
  <2>2. CASE UNCHANGED vars
    <3>1. Balance'
      BY <2>2 DEF AdmissionInv, Balance, vars, actorVars, workerVars
    <3> QED BY <2>1, <3>1 DEF AdmissionInv
  <2>3. CASE Next
    <3>1. Balance'
      BY <2>3, BalanceCaller, BalanceWorker DEF AdmissionInv, Next
    <3> QED BY <2>1, <3>1 DEF AdmissionInv
  <2> QED BY <2>2, <2>3
<1>3. AdmissionInv => AdmissionAccounted
  <2> SUFFICES ASSUME AdmissionInv PROVE AdmissionAccounted
    OBVIOUS
  <2>1. ReserveKept
    <3>1. DOMAIN pending = 1..Len(pending)
      BY LenProperties DEF AdmissionInv, Inv, TypeOK
    <3> QED BY <3>1 DEF AdmissionInv, Reserve, Normal, ReserveKept
  <2>2. CountersBalance
    <3> SUFFICES ASSUME caller.pc \notin {"put", "count"}
                 PROVE  /\ counters.accepted + counters.rejected = sequence
                        /\ counters.accepted - counters.stored - counters.failed
                              = Cardinality({i \in DOMAIN pending : pending[i] # STOP})
                                + IF worker.pc = "report" THEN 0 ELSE Len(worker.batch)
      BY DEF CountersBalance
    <3> DEFINE h == IF worker.pc = "report" THEN 0 ELSE Len(worker.batch)
               w == Cardinality({i \in DOMAIN pending : pending[i] # STOP})
    <3>1. /\ counters.accepted \in Nat /\ counters.stored \in Nat
          /\ counters.failed \in Nat /\ counters.rejected \in Nat
      BY Counters DEF AdmissionInv, Inv
    <3>2. w = Waiting(pending)
      BY WaitingRecords DEF AdmissionInv
    <3>3. pending \in Seq(Item) /\ Len(pending) \in Nat
      <4>1. pending \in Seq(Item)
        BY DEF AdmissionInv, Inv, TypeOK, Item
      <4> QED BY <4>1, LenProperties
    <3>4. w \in Nat /\ h \in Nat
      <4>1. pending # <<>> => Len(pending) # 0
        BY <3>3, EmptySeq
      <4>2. w \in Nat
        BY <3>2, <3>3, <4>1 DEF Waiting
      <4> QED BY <4>2, Positions DEF AdmissionInv
    <3>5. /\ counters.accepted + counters.rejected + 0 = sequence
          /\ counters.accepted + 0 = counters.stored + counters.failed + w + h
      BY <3>2 DEF AdmissionInv, Balance
    <3> HIDE DEF h, w
    <3>6. counters.accepted - counters.stored - counters.failed = w + h
      BY <3>1, <3>4, <3>5
    <3>7. counters.accepted + counters.rejected = sequence
      BY <3>1, <3>5
    <3> QED BY <3>6, <3>7 DEF h, w
  <2> QED BY <2>1, <2>2 DEF AdmissionAccounted
<1> QED BY <1>1, <1>2, <1>3, PTL DEF Spec
=============================================================================
