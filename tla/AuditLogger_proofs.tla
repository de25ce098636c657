------------------------- MODULE AuditLogger_proofs -------------------------
(***************************************************************************)
(* Proofs about AuditLogger, for any number of goroutines and calls, any   *)
(* capacities and any device.                                              *)
(*                                                                         *)
(* NoSendOnClosed is inductive because a closer takes the write lock only  *)
(* while no Log is in progress.  DrainedOnClose is not: it needs to know   *)
(* that only a closer that closed the queue waits for the worker, and that *)
(* the worker leaves an empty queue and a flushed buffer behind, which     *)
(* nobody fills again.                                                     *)
(***************************************************************************)
EXTENDS AuditLogger, FiniteSetTheorems, SequenceTheorems, TLAPS

\* A closer that waits for the worker has closed the queue.
JoinersClosed == \A c \in Closers : cpc[c] = "join" => closed

\* What the worker leaves behind.
WorkerLeft ==
    worker = "gone" => closed /\ queue = <<>> /\ (broken \/ buffer = <<>>)

\* The device is closed after the worker has gone.
ClosedLast == ~fileOpen => worker = "gone"

IInv == TypeOK /\ NoSendOnClosed /\ JoinersClosed /\ WorkerLeft /\ ClosedLast

----------------------------------------------------------------------------
(* Flush and WriteRecord move records but invent none.                     *)

LEMMA RecordInQueue == ASSUME TypeOK, NEW p \in Producers, made[p] > 0
                       PROVE  Current(p) \in Record
  BY DEF TypeOK, Current, Record

LEMMA FlushMoves ==
  ASSUME TypeOK, Flush
  PROVE  /\ buffer' \in Seq(Record) /\ file' \in Seq(Record) /\ broken' \in BOOLEAN
         /\ Len(file') + Len(buffer') = Len(file) + Len(buffer)
         /\ (broken \/ buffer = <<>>) => UNCHANGED <<buffer, file>>
         /\ (broken \/ buffer = <<>>) => broken' \/ buffer' = <<>>
         /\ broken' \/ buffer' = <<>>
<1>0. /\ buffer \in Seq(Record) /\ file \in Seq(Record) /\ broken \in BOOLEAN
      /\ Len(buffer) \in Nat /\ Len(file) \in Nat
  BY DEF TypeOK
<1>1. CASE broken
  BY <1>0, <1>1 DEF Flush
<1>2. CASE ~broken /\ file' = file \o buffer /\ buffer' = <<>> /\ broken' = FALSE
  <2>1. file' \in Seq(Record) /\ Len(file') = Len(file) + Len(buffer)
    BY <1>0, <1>2
  <2>2. buffer = <<>> => file' = file
    BY <1>0, <1>2
  <2>3. buffer' \in Seq(Record) /\ Len(buffer') = 0
    BY <1>2
  <2>4. Len(file') + Len(buffer') = Len(file) + Len(buffer)
    BY <1>0, <2>1, <2>3
  <2> QED BY <1>2, <2>1, <2>2, <2>3, <2>4
<1>3. CASE /\ ~broken /\ buffer # <<>> /\ broken' = TRUE
           /\ \E k \in 0..(Len(buffer) - 1) :
                /\ file' = file \o SubSeq(buffer, 1, k)
                /\ buffer' = SubSeq(buffer, k + 1, Len(buffer))
  <2>1. PICK k \in 0..(Len(buffer) - 1) :
                /\ file' = file \o SubSeq(buffer, 1, k)
                /\ buffer' = SubSeq(buffer, k + 1, Len(buffer))
    BY <1>3
  <2>2. SubSeq(buffer, 1, k) \in Seq(Record) /\ Len(SubSeq(buffer, 1, k)) = k
    BY <1>0, <2>1
  <2>3. buffer' \in Seq(Record) /\ Len(buffer') = Len(buffer) - k
    BY <1>0, <2>1
  <2>4. file' \in Seq(Record) /\ Len(file') = Len(file) + k
    BY <1>0, <2>1, <2>2
  <2>5. Len(file') + Len(buffer') = Len(file) + Len(buffer)
    <3>1. k \in Int /\ Len(buffer') = Len(buffer) - k /\ Len(file') = Len(file) + k
      BY <2>1, <2>3, <2>4
    <3> QED BY <1>0, <3>1
  <2> QED BY <1>3, <2>3, <2>4, <2>5
<1> QED BY <1>1, <1>2, <1>3 DEF Flush

LEMMA WriteMoves ==
  ASSUME TypeOK, NEW rec \in Record, WriteRecord(rec)
  PROVE  /\ buffer' \in Seq(Record) /\ file' \in Seq(Record) /\ broken' \in BOOLEAN
         /\ skipped' \in Nat
         /\ Len(file') + Len(buffer') + skipped' = Len(file) + Len(buffer) + skipped + 1
<1>0. /\ buffer \in Seq(Record) /\ file \in Seq(Record) /\ broken \in BOOLEAN
      /\ skipped \in Nat
  BY DEF TypeOK
<1>1. CASE skipped' = skipped + 1 /\ UNCHANGED <<buffer, file>> /\ broken' \in BOOLEAN
  BY <1>0, <1>1
<1>2. CASE buffer' = Append(buffer, rec) /\ UNCHANGED <<file, broken, skipped>>
  <2>1. buffer' \in Seq(Record) /\ Len(buffer') = Len(buffer) + 1
    BY <1>0, <1>2
  <2> QED BY <1>0, <1>2, <2>1
<1>3. CASE file' = file \o buffer /\ buffer' = <<rec>> /\ UNCHANGED <<broken, skipped>>
  <2>1. file' \in Seq(Record) /\ Len(file') = Len(file) + Len(buffer)
    BY <1>0, <1>3
  <2>2. buffer' \in Seq(Record) /\ Len(buffer') = 1
    BY <1>3
  <2> QED BY <1>0, <1>3, <2>1, <2>2
<1> QED BY <1>0, <1>1, <1>2, <1>3 DEF WriteRecord

----------------------------------------------------------------------------
(* Type correctness.                                                       *)

LEMMA TypeInit == ASSUME LoggerAssumption, Init PROVE TypeOK
<1>1. <<>> \in Seq(Record)
  OBVIOUS
<1> QED BY <1>1 DEF Init, TypeOK

\* A producer inside Log has begun a call.
Begun == \A p \in Producers : pc[p] # "out" => made[p] > 0

LEMMA TypeStep == ASSUME TypeOK, Begun, [Next]_vars PROVE TypeOK' /\ Begun'
<1> USE DEF TypeOK
<1>1. CASE UNCHANGED vars
  BY <1>1 DEF vars, counts, Begun
<1>2. ASSUME NEW p \in Producers, LogOpen(p) PROVE TypeOK' /\ Begun'
  BY <1>2 DEF LogOpen, MayEnter, Begun
<1>3. ASSUME NEW p \in Producers, LogClosed(p) PROVE TypeOK' /\ Begun'
  BY <1>3 DEF LogClosed, MayEnter, Begun
<1>4. ASSUME NEW p \in Producers, Send(p) PROVE TypeOK' /\ Begun'
  <2>1. Current(p) \in Record
    BY <1>4, RecordInQueue DEF Send, Begun
  <2>2. queue' \in Seq(Record)
    BY <1>4, <2>1 DEF Send
  <2> QED BY <1>4, <2>2 DEF Send, Begun, counts
<1>5. ASSUME NEW p \in Producers, Retry(p) PROVE TypeOK' /\ Begun'
  BY <1>5 DEF Retry, Begun, counts
<1>6. ASSUME NEW p \in Producers, GiveUp(p) PROVE TypeOK' /\ Begun'
  BY <1>6 DEF GiveUp, Begun
<1>7. CASE WorkerWrites
  <2>1. Head(queue) \in Record /\ queue' \in Seq(Record) /\ WriteRecord(Head(queue))
    BY <1>7 DEF WorkerWrites
  <2> QED BY <1>7, <2>1, WriteMoves DEF WorkerWrites, Begun
<1>8. CASE WorkerEnds
  BY <1>8, FlushMoves DEF WorkerEnds, Begun, counts
<1>9. CASE Tick
  BY <1>9, FlushMoves DEF Tick, Begun, counts
<1>10. CASE Sync
  BY <1>10, FlushMoves DEF Sync, Begun, counts
<1>11. ASSUME NEW c \in Closers, WantClose(c) PROVE TypeOK' /\ Begun'
  BY <1>11 DEF WantClose, Begun, counts
<1>12. ASSUME NEW c \in Closers, CloseQueue(c) PROVE TypeOK' /\ Begun'
  BY <1>12 DEF CloseQueue, Begun, counts
<1>13. ASSUME NEW c \in Closers, CloseFile(c) PROVE TypeOK' /\ Begun'
  BY <1>13, FlushMoves DEF CloseFile, Begun, counts
<1> QED
  BY <1>1, <1>2, <1>3, <1>4, <1>5, <1>6, <1>7, <1>8, <1>9, <1>10, <1>11, <1>12, <1>13
  DEF Next, Producer, Worker, Closer, Ended

----------------------------------------------------------------------------
(* The lock discipline and what it gives to the closed device.             *)

LEMMA SafeInit == ASSUME LoggerAssumption, Init PROVE IInv /\ Begun
  BY TypeInit DEF Init, IInv, NoSendOnClosed, JoinersClosed, WorkerLeft, ClosedLast, Begun,
                  InLog

LEMMA SafeStep == ASSUME IInv, Begun, [Next]_vars PROVE IInv' /\ Begun'
<1>0. TypeOK' /\ Begun'
  BY TypeStep DEF IInv
<1>t. TypeOK
  BY DEF IInv
<1> USE DEF NoSendOnClosed, JoinersClosed, WorkerLeft, ClosedLast, InLog
<1>1. CASE UNCHANGED vars
  BY <1>0, <1>1 DEF vars, counts, IInv
<1>2. ASSUME NEW p \in Producers, LogOpen(p) PROVE IInv'
  BY <1>0, <1>2 DEF LogOpen, MayEnter, IInv
<1>3. ASSUME NEW p \in Producers, LogClosed(p) PROVE IInv'
  BY <1>0, <1>3 DEF LogClosed, MayEnter, IInv
<1>4. ASSUME NEW p \in Producers, Send(p) PROVE IInv'
  <2>1. ~closed
    BY <1>4 DEF Send, IInv
  <2> QED BY <1>0, <1>4, <2>1 DEF Send, IInv, counts
<1>5. ASSUME NEW p \in Producers, Retry(p) PROVE IInv'
  <2>1. ~closed
    BY <1>5 DEF Retry, IInv
  <2> QED BY <1>0, <1>5, <2>1 DEF Retry, IInv, counts
<1>6. ASSUME NEW p \in Producers, GiveUp(p) PROVE IInv'
  <2>1. ~closed
    BY <1>6 DEF GiveUp, IInv
  <2> QED BY <1>0, <1>6, <2>1 DEF GiveUp, IInv
<1>7. CASE WorkerWrites
  BY <1>0, <1>7 DEF WorkerWrites, IInv
<1>8. CASE WorkerEnds
  BY <1>0, <1>t, <1>8, FlushMoves DEF WorkerEnds, IInv, counts
<1>9. CASE Tick
  BY <1>0, <1>t, <1>9, FlushMoves DEF Tick, IInv, counts
<1>10. CASE Sync
  BY <1>0, <1>t, <1>10, FlushMoves DEF Sync, IInv, counts
<1>11. ASSUME NEW c \in Closers, WantClose(c) PROVE IInv'
  BY <1>0, <1>t, <1>11 DEF WantClose, IInv, counts, TypeOK
<1>12. ASSUME NEW c \in Closers, CloseQueue(c) PROVE IInv'
  BY <1>0, <1>t, <1>12 DEF CloseQueue, IInv, counts, TypeOK
<1>13. ASSUME NEW c \in Closers, CloseFile(c) PROVE IInv'
  BY <1>0, <1>t, <1>13, FlushMoves DEF CloseFile, IInv, counts, TypeOK
<1> QED
  BY <1>0, <1>1, <1>2, <1>3, <1>4, <1>5, <1>6, <1>7, <1>8, <1>9, <1>10, <1>11, <1>12, <1>13
  DEF Next, Producer, Worker, Closer, Ended

\* The strengthened invariant holds in every reachable state.
LEMMA Invariant == ASSUME LoggerAssumption PROVE Spec => [](IInv /\ Begun)
<1>1. Init => IInv /\ Begun
  BY SafeInit
<1>2. IInv /\ Begun /\ [Next]_vars => (IInv /\ Begun)'
  BY SafeStep
<1> QED BY <1>1, <1>2, PTL DEF Spec

\* Every state of the logger is well typed, whatever its capacities: the
\* counters only grow, and the channel, the buffer and the device hold
\* records of Log calls only.
THEOREM TypeCorrect == ASSUME LoggerAssumption PROVE Spec => []TypeOK
<1>1. IInv => TypeOK
  BY DEF IInv
<1> QED BY <1>1, Invariant, PTL

\* closeMu is enough: with any number of goroutines in Log and Close, the
\* queue is never closed under a pending send, which would panic.
THEOREM NoPanic == ASSUME LoggerAssumption PROVE Spec => []NoSendOnClosed
<1>1. IInv => NoSendOnClosed
  BY DEF IInv
<1> QED BY <1>1, Invariant, PTL

\* The device is closed only over a drained queue and, unless it failed, a
\* flushed buffer.
THEOREM ClosedIsDrained == ASSUME LoggerAssumption PROVE Spec => []DrainedOnClose
<1>1. IInv => DrainedOnClose
  BY DEF IInv, WorkerLeft, ClosedLast, DrainedOnClose
<1> QED BY <1>1, Invariant, PTL

\* No step of any goroutine writes to the device after Close closed it.
THEOREM DeviceUntouched == ASSUME LoggerAssumption PROVE Spec => NoWriteAfterClose
<1>1. ASSUME IInv, [Next]_vars, ~fileOpen PROVE UNCHANGED file
  <2>1. worker = "gone" /\ (broken \/ buffer = <<>>) /\ TypeOK
    BY <1>1 DEF IInv, WorkerLeft, ClosedLast
  <2>2. Flush => UNCHANGED file
    BY <2>1, FlushMoves
  <2>3. CASE UNCHANGED vars
    BY <2>3 DEF vars
  <2>4. CASE \E p \in Producers : Producer(p)
    BY <2>4 DEF Producer, LogOpen, LogClosed, Send, Retry, GiveUp
  <2>5. CASE \E c \in Closers : Closer(c)
    BY <2>2, <2>5 DEF Closer, WantClose, CloseQueue, CloseFile
  <2>6. CASE Worker \/ Tick \/ Sync
    BY <2>1, <2>2, <2>6 DEF Worker, WorkerWrites, WorkerEnds, Tick, Sync
  <2> QED BY <1>1, <2>3, <2>4, <2>5, <2>6 DEF Next, Ended
<1>2. IInv /\ Begun /\ [Next]_vars => [~fileOpen => UNCHANGED file]_vars
  BY <1>1
<1> QED BY <1>2, Invariant, PTL DEF Spec, NoWriteAfterClose

----------------------------------------------------------------------------
(* The account of every record.                                            *)

\* A goroutine that enters or leaves Log changes the number inside by one.
LEMMA InLogCount ==
  ASSUME LoggerAssumption, TypeOK, NEW p \in Producers
  PROVE  /\ Cardinality(InLog) \in Nat
         /\ pc[p] = "out" /\ pc' = [pc EXCEPT ![p] = "send"]
              => Cardinality(InLog') = Cardinality(InLog) + 1
         /\ pc[p] # "out" /\ pc' = [pc EXCEPT ![p] = "out"]
              => Cardinality(InLog') = Cardinality(InLog) - 1
         /\ pc[p] # "out" /\ pc' = [pc EXCEPT ![p] = "retry"]
              => Cardinality(InLog') = Cardinality(InLog)
<1>1. IsFiniteSet(InLog)
  BY FS_Subset DEF LoggerAssumption, InLog
<1>2. Cardinality(InLog) \in Nat
  BY <1>1, FS_CardinalityType
<1>3. ASSUME pc[p] = "out", pc' = [pc EXCEPT ![p] = "send"]
      PROVE  Cardinality(InLog') = Cardinality(InLog) + 1
  <2>1. InLog' = InLog \cup {p} /\ p \notin InLog
    BY <1>3 DEF InLog, TypeOK
  <2> QED BY <1>1, <2>1, FS_AddElement
<1>4. ASSUME pc[p] # "out", pc' = [pc EXCEPT ![p] = "out"]
      PROVE  Cardinality(InLog') = Cardinality(InLog) - 1
  <2>1. InLog' = InLog \ {p} /\ p \in InLog
    BY <1>4 DEF InLog, TypeOK
  <2> QED BY <1>1, <2>1, FS_RemoveElement
<1>5. ASSUME pc[p] # "out", pc' = [pc EXCEPT ![p] = "retry"]
      PROVE  InLog' = InLog
  BY <1>5 DEF InLog, TypeOK
<1> QED BY <1>2, <1>3, <1>4, <1>5

LEMMA AccountStep ==
  ASSUME LoggerAssumption, TypeOK, NothingVanishes, [Next]_vars
  PROVE  NothingVanishes'
<1>0. /\ Len(queue) \in Nat /\ Len(buffer) \in Nat /\ Len(file) \in Nat
      /\ seq \in Nat /\ refused \in Nat /\ dropped \in Nat /\ skipped \in Nat
      /\ IsFiniteSet(InLog) /\ Cardinality(InLog) \in Nat
  <2>1. IsFiniteSet(InLog)
    BY FS_Subset DEF LoggerAssumption, InLog
  <2> QED BY <2>1, FS_CardinalityType DEF TypeOK
<1> USE DEF NothingVanishes
<1>1. CASE UNCHANGED vars
  BY <1>1 DEF vars, counts, InLog
<1>2. ASSUME NEW p \in Producers, LogOpen(p) PROVE NothingVanishes'
  <2>1. Cardinality(InLog') = Cardinality(InLog) + 1
    BY <1>2, InLogCount DEF LogOpen, MayEnter
  <2> QED BY <1>0, <1>2, <2>1 DEF LogOpen
<1>3. ASSUME NEW p \in Producers, LogClosed(p) PROVE NothingVanishes'
  <2>1. InLog' = InLog
    BY <1>3 DEF LogClosed, InLog
  <2> QED BY <1>0, <1>3, <2>1 DEF LogClosed
<1>4. ASSUME NEW p \in Producers, Send(p) PROVE NothingVanishes'
  <2>1. Cardinality(InLog') = Cardinality(InLog) - 1
    BY <1>4, InLogCount DEF Send
  <2>2. Len(queue') = Len(queue) + 1
    BY <1>4 DEF Send, TypeOK
  <2> QED BY <1>0, <1>4, <2>1, <2>2 DEF Send, counts
<1>5. ASSUME NEW p \in Producers, Retry(p) PROVE NothingVanishes'
  <2>1. Cardinality(InLog') = Cardinality(InLog)
    BY <1>5, InLogCount DEF Retry
  <2> QED BY <1>0, <1>5, <2>1 DEF Retry, counts
<1>6. ASSUME NEW p \in Producers, GiveUp(p) PROVE NothingVanishes'
  <2>1. Cardinality(InLog') = Cardinality(InLog) - 1
    BY <1>6, InLogCount DEF GiveUp
  <2> QED BY <1>0, <1>6, <2>1 DEF GiveUp
<1>7. CASE WorkerWrites
  <2>1. Head(queue) \in Record /\ WriteRecord(Head(queue))
    BY <1>7 DEF WorkerWrites, TypeOK
  <2>4. Len(queue') = Len(queue) - 1
    BY <1>7 DEF WorkerWrites, TypeOK
  <2>2. /\ Len(file') + Len(buffer') + skipped' = Len(file) + Len(buffer) + skipped + 1
        /\ Len(file') \in Nat /\ Len(buffer') \in Nat /\ skipped' \in Nat
    BY <2>1, WriteMoves
  <2>3. InLog' = InLog /\ seq' = seq /\ refused' = refused /\ dropped' = dropped
    BY <1>7 DEF WorkerWrites, InLog
  <2>5. Cardinality(InLog') = Cardinality(InLog)
    BY <2>3
  <2>6. Len(queue') \in Nat
    BY <1>0, <1>7, <2>4 DEF WorkerWrites, TypeOK
  \* The four primed counts as plain numbers: the rest is arithmetic.
  <2>7. PICK f \in Nat, b \in Nat, q \in Nat, k \in Nat :
          f = Len(file') /\ b = Len(buffer') /\ q = Len(queue') /\ k = skipped'
    BY <2>2, <2>6, Zenon
  <2>8. f + b + k = Len(file) + Len(buffer) + skipped + 1 /\ q = Len(queue) - 1
    BY <2>2, <2>4, <2>7, Zenon
  <2>9. f + b + q + dropped + k = Len(file) + Len(buffer) + Len(queue) + dropped + skipped
    BY <1>0, <2>8
  <2>10. seq + refused = f + b + q + dropped + k + Cardinality(InLog)
    BY <2>9, NothingVanishes, Zenon
  <2> QED BY <2>3, <2>5, <2>7, <2>10, Zenon
<1>8. CASE Flush /\ UNCHANGED <<pc, queue, counts>>
  <2>1. /\ Len(file') + Len(buffer') = Len(file) + Len(buffer)
        /\ Len(file') \in Nat /\ Len(buffer') \in Nat
    BY <1>8, FlushMoves
  <2>2. InLog' = InLog /\ UNCHANGED <<seq, refused, dropped, skipped, queue>>
    BY <1>8 DEF InLog, counts
  <2> QED BY <1>0, <2>1, <2>2
<1>9. ASSUME NEW c \in Closers, WantClose(c) \/ CloseQueue(c) PROVE NothingVanishes'
  BY <1>9 DEF WantClose, CloseQueue, counts, InLog
<1>10. ASSUME NEW c \in Closers, CloseFile(c) PROVE NothingVanishes'
  BY <1>8, <1>10 DEF CloseFile
<1>11. CASE WorkerEnds \/ Tick \/ Sync
  BY <1>8, <1>11 DEF WorkerEnds, Tick, Sync
<1> QED
  BY <1>1, <1>2, <1>3, <1>4, <1>5, <1>6, <1>7, <1>9, <1>10, <1>11
  DEF Next, Producer, Worker, Closer, Ended

\* No record disappears without a trace: at every moment each Log call is on
\* the device, on its way to it, or counted among the losses.
THEOREM EveryRecordAccounted == ASSUME LoggerAssumption PROVE Spec => []NothingVanishes
<1>1. ASSUME Init PROVE NothingVanishes
  <2>1. /\ InLog = {}
        /\ file = <<>> /\ buffer = <<>> /\ queue = <<>>
        /\ seq = 0 /\ refused = 0 /\ dropped = 0 /\ skipped = 0
    BY <1>1 DEF Init, InLog
  <2>2. Cardinality({}) = 0
    BY FS_EmptySet
  <2>3. Len(<<>>) = 0
    OBVIOUS
  <2>4. Len(file) + Len(buffer) + Len(queue) + dropped + skipped = 0 /\ seq + refused = 0
    BY <2>1, <2>3
  <2>5. Cardinality(InLog) = 0
    BY <2>1, <2>2
  <2> QED BY <2>1, <2>3, <2>4, <2>5 DEF NothingVanishes
<1>2. IInv /\ Begun /\ NothingVanishes /\ [Next]_vars => NothingVanishes'
  BY AccountStep DEF IInv
<1> QED BY <1>1, <1>2, Invariant, PTL DEF Spec

----------------------------------------------------------------------------
(* The order of the records.  A step may drop records of the trail or add  *)
(* one at its end, but never swaps two of them.                            *)

InOrder(s) == \A i, j \in 1..Len(s) : i < j /\ s[i].by = s[j].by => s[i].n < s[j].n

\* No record of a call that has not begun, or is still in progress.
Past(s) ==
    \A i \in 1..Len(s) : /\ s[i].n <= made[s[i].by]
                         /\ pc[s[i].by] # "out" => s[i].n < made[s[i].by]

LEMMA Rejoined ==
  ASSUME NEW s \in Seq(Record), NEW k \in 0..(Len(s) - 1)
  PROVE  /\ SubSeq(s, 1, k) \in Seq(Record) /\ SubSeq(s, k + 1, Len(s)) \in Seq(Record)
         /\ SubSeq(s, 1, k) \o SubSeq(s, k + 1, Len(s)) = s
<1>0. Len(s) \in Nat /\ k \in Nat /\ k < Len(s)
  OBVIOUS
<1>1. SubSeq(s, 1, k) \in Seq(Record) /\ SubSeq(s, k + 1, Len(s)) \in Seq(Record)
  BY <1>0
<1>2. 1 \in 1..(Len(s) + 1) /\ k \in (1 - 1)..Len(s) /\ Len(s) \in k..Len(s)
  BY <1>0
<1>3. SubSeq(s, 1, k) \o SubSeq(s, k + 1, Len(s)) = SubSeq(s, 1, Len(s))
  BY <1>2, ConcatAdjacentSubSeq
<1> QED BY <1>1, <1>3, SubSeqFull

LEMMA TrailType ==
  ASSUME TypeOK
  PROVE  /\ file \in Seq(Record) /\ buffer \in Seq(Record) /\ queue \in Seq(Record)
         /\ file \o buffer \in Seq(Record) /\ Trail \in Seq(Record)
BY ConcatProperties DEF TypeOK, Trail

\* The oldest record of a queue, moved to the end of what comes before it.
LEMMA Moved ==
  ASSUME NEW d \in Seq(Record), NEW q \in Seq(Record), q # <<>>
  PROVE  /\ <<Head(q)>> \in Seq(Record) /\ Tail(q) \in Seq(Record)
         /\ (d \o <<Head(q)>>) \o Tail(q) = d \o q
<1> PICK h, t : h = <<Head(q)>> /\ t = Tail(q)
  OBVIOUS
<1>1. /\ Head(q) \in Record /\ Tail(q) \in Seq(Record) /\ Len(Tail(q)) = Len(q) - 1
      /\ \A i \in 1..Len(Tail(q)) : Tail(q)[i] = q[i + 1]
  BY HeadTailProperties
<1>2. /\ Len(q) \in Nat \ {0} /\ h \in Seq(Record) /\ t \in Seq(Record)
      /\ Len(h) = 1 /\ h[1] = q[1] /\ Len(t) = Len(q) - 1
      /\ \A i \in 1..(Len(q) - 1) : t[i] = q[i + 1]
  BY <1>1
<1>3. /\ h \o t \in Seq(Record) /\ Len(h \o t) = Len(q)
      /\ \A i \in 1..Len(q) : (h \o t)[i] = IF i <= 1 THEN h[i] ELSE t[i - 1]
  BY <1>2, ConcatProperties
<1>4. ASSUME NEW i \in 1..Len(q) PROVE (h \o t)[i] = q[i]
  <2>1. CASE i = 1
    BY <1>2, <1>3, <2>1
  <2>2. CASE i # 1
    <3>1. i - 1 \in 1..(Len(q) - 1) /\ (i - 1) + 1 = i
      BY <1>2, <2>2
    <3> QED BY <1>2, <1>3, <2>2, <3>1
  <2> QED BY <2>1, <2>2
<1>5. h \o t = q
  BY <1>3, <1>4, SeqEqual
<1>6. (d \o h) \o t = d \o (h \o t)
  BY <1>2, ConcatAssociative
<1> QED BY <1>2, <1>5, <1>6

\* t is s without some of its records.
LEMMA Thinned ==
  ASSUME NEW s \in Seq(Record), NEW t \in Seq(Record),
         NEW f \in [1..Len(t) -> 1..Len(s)],
         \A i, j \in 1..Len(t) : i < j => f[i] < f[j],
         \A i \in 1..Len(t) : t[i] = s[f[i]],
         InOrder(s), Past(s)
  PROVE  InOrder(t) /\ Past(t)
<1>1. InOrder(t)
  <2> SUFFICES ASSUME NEW i \in 1..Len(t), NEW j \in 1..Len(t), i < j, t[i].by = t[j].by
               PROVE  t[i].n < t[j].n
    BY DEF InOrder
  <2>1. f[i] \in 1..Len(s) /\ f[j] \in 1..Len(s) /\ f[i] < f[j]
    OBVIOUS
  <2>2. t[i] = s[f[i]] /\ t[j] = s[f[j]]
    OBVIOUS
  <2> QED BY <2>1, <2>2 DEF InOrder
<1>2. Past(t)
  BY DEF Past
<1> QED BY <1>1, <1>2

\* The oldest record of a queue is lost.
LEMMA Lost ==
  ASSUME NEW d \in Seq(Record), NEW q \in Seq(Record), q # <<>>,
         InOrder(d \o q), Past(d \o q)
  PROVE  InOrder(d \o Tail(q)) /\ Past(d \o Tail(q))
<1>0. PICK r, s, t : r = Tail(q) /\ s = d \o q /\ t = d \o Tail(q)
  OBVIOUS
<1>1. /\ r \in Seq(Record) /\ Len(q) \in Nat \ {0} /\ Len(r) = Len(q) - 1
      /\ \A i \in 1..(Len(q) - 1) : r[i] = q[i + 1]
  BY <1>0, HeadTailProperties
<1>2. /\ s \in Seq(Record) /\ Len(s) = Len(d) + Len(q) /\ Len(d) \in Nat
      /\ \A i \in 1..(Len(d) + Len(q)) : s[i] = IF i <= Len(d) THEN d[i] ELSE q[i - Len(d)]
  BY <1>0, ConcatProperties
<1>3. /\ t \in Seq(Record) /\ Len(t) = Len(d) + Len(r)
      /\ \A i \in 1..(Len(d) + Len(r)) : t[i] = IF i <= Len(d) THEN d[i] ELSE r[i - Len(d)]
  BY <1>0, <1>1, ConcatProperties
<1> DEFINE f == [i \in 1..Len(t) |-> IF i <= Len(d) THEN i ELSE i + 1]
<1>4. f \in [1..Len(t) -> 1..Len(s)]
  BY <1>1, <1>2, <1>3
<1>5. \A i, j \in 1..Len(t) : i < j => f[i] < f[j]
  BY <1>1, <1>2, <1>3
<1>6. ASSUME NEW i \in 1..Len(t) PROVE t[i] = s[f[i]]
  <2>0. i \in 1..(Len(d) + Len(r)) /\ i \in 1..(Len(d) + Len(q)) /\ i \in Nat
    BY <1>1, <1>2, <1>3
  <2>1. CASE i <= Len(d)
    BY <1>2, <1>3, <2>0, <2>1
  <2>2. CASE i > Len(d)
    <3>1. /\ f[i] = i + 1 /\ i + 1 \in 1..(Len(d) + Len(q)) /\ ~(i + 1 <= Len(d))
          /\ i - Len(d) \in 1..(Len(q) - 1) /\ (i - Len(d)) + 1 = (i + 1) - Len(d)
      BY <1>1, <1>2, <1>3, <2>0, <2>2
    <3>2. s[i + 1] = q[(i + 1) - Len(d)]
      BY <1>2, <3>1
    <3>3. t[i] = r[i - Len(d)]
      BY <1>2, <1>3, <2>0, <2>2
    <3>4. r[i - Len(d)] = q[(i - Len(d)) + 1]
      BY <1>1, <3>1
    <3> QED BY <3>1, <3>2, <3>3, <3>4
  <2> QED BY <1>2, <2>0, <2>1, <2>2
<1>7. InOrder(s) /\ Past(s)
  BY <1>0
<1> HIDE DEF f
<1>8. InOrder(t) /\ Past(t)
  BY <1>2, <1>3, <1>4, <1>5, <1>6, <1>7, Thinned
<1> QED BY <1>0, <1>8

\* A flush moves the border between the buffer and the device.
LEMMA FlushKeepsTrail ==
  ASSUME TypeOK, Flush, UNCHANGED queue, InOrder(Trail), Past(Trail)
  PROVE  InOrder(Trail') /\ Past(Trail')
<1>0. file \in Seq(Record) /\ buffer \in Seq(Record) /\ queue \in Seq(Record)
      /\ Trail \in Seq(Record)
  BY TrailType
<1>1. CASE UNCHANGED <<buffer, file>>
  BY <1>1 DEF Trail
<1>2. CASE file' = file \o buffer /\ buffer' = <<>>
  <2>1. Trail' = Trail
    BY <1>0, <1>2 DEF Trail
  <2> QED BY <2>1
<1>3. ASSUME NEW k \in 0..(Len(buffer) - 1),
             file' = file \o SubSeq(buffer, 1, k),
             buffer' = SubSeq(buffer, k + 1, Len(buffer))
      PROVE  InOrder(Trail') /\ Past(Trail')
  <2>0. PICK F, h, r : F = file /\ h = SubSeq(buffer, 1, k) /\ r = SubSeq(buffer, k + 1, Len(buffer))
    OBVIOUS
  <2>1. h \o r = buffer
    BY <1>0, <2>0, Rejoined
  <2>2. F \in Seq(Record) /\ h \in Seq(Record) /\ r \in Seq(Record)
    BY <1>0, <2>0, Rejoined
  <2>3. (F \o h) \o r = F \o (h \o r)
    BY <2>2, ConcatAssociative
  <2>4. file' \o buffer' = file \o buffer
    BY <1>3, <2>0, <2>1, <2>3
  <2>5. Trail' = Trail
    BY <2>4 DEF Trail
  <2> QED BY <2>5
<1> QED BY <1>1, <1>2, <1>3 DEF Flush

\* The worker takes the first record of the queue; it reaches the end of the
\* buffer, perhaps an emptied one, or is lost.
LEMMA WriteKeepsTrail ==
  ASSUME TypeOK, queue # <<>>, queue' = Tail(queue), WriteRecord(Head(queue)),
         InOrder(Trail), Past(Trail)
  PROVE  InOrder(Trail') /\ Past(Trail')
<1> PICK F, B, q, r, h : F = file /\ B = buffer /\ q = queue /\ r = Tail(queue) /\ h = <<Head(queue)>>
  OBVIOUS
<1>0. F \in Seq(Record) /\ B \in Seq(Record) /\ q \in Seq(Record) /\ F \o B \in Seq(Record)
      /\ Trail = (F \o B) \o q
  BY TrailType DEF Trail
<1>1. /\ h \in Seq(Record) /\ r \in Seq(Record)
      /\ ((F \o B) \o h) \o r = (F \o B) \o q
  BY <1>0, Moved
<1>2. Append(B, Head(q)) = B \o h
  BY <1>0, HeadTailProperties, AppendIsConcat
<1>3. (F \o B) \o h = F \o (B \o h)
  BY <1>0, <1>1, ConcatAssociative
<1>4. CASE UNCHANGED <<file, buffer>>
  <2>1. InOrder((F \o B) \o r) /\ Past((F \o B) \o r)
    BY <1>0, Lost
  <2>2. Trail' = (F \o B) \o r
    BY <1>4 DEF Trail
  <2> QED BY <2>1, <2>2
<1>5. CASE buffer' = Append(buffer, Head(queue)) /\ UNCHANGED file
  <2>1. Trail' = (F \o (B \o h)) \o r
    BY <1>2, <1>5 DEF Trail
  <2>2. Trail' = Trail
    BY <1>0, <1>1, <1>3, <2>1
  <2> QED BY <2>2
<1>6. CASE file' = file \o buffer /\ buffer' = <<Head(queue)>>
  <2>1. Trail' = ((F \o B) \o h) \o r
    BY <1>6 DEF Trail
  <2>2. Trail' = Trail
    BY <1>0, <1>1, <2>1
  <2> QED BY <2>2
<1> QED BY <1>4, <1>5, <1>6 DEF WriteRecord

LEMMA SendKeepsOrder ==
  ASSUME TypeOK, Begun, NEW p \in Producers, Send(p), InOrder(Trail), Past(Trail)
  PROVE  InOrder(Trail)' /\ Past(Trail)'
<1> PICK s, t, rec, L : s = Trail /\ t = Trail' /\ rec = Current(p) /\ L = Len(Trail)
  OBVIOUS
<1>0. /\ s \in Seq(Record) /\ queue \in Seq(Record) /\ file \o buffer \in Seq(Record)
      /\ rec \in Record /\ L \in Nat /\ L = Len(s) /\ InOrder(s) /\ Past(s)
  BY TrailType, RecordInQueue, LenProperties DEF Begun, Send
<1>1. /\ queue' = Append(queue, rec) /\ UNCHANGED <<file, buffer, made>>
      /\ pc[p] # "out" /\ pc' = [pc EXCEPT ![p] = "out"]
  BY DEF Send
<1>2. rec.by = p /\ rec.n = made[p] /\ made[p] \in Nat
  BY DEF Current, TypeOK
<1>3. t = Append(s, rec)
  <2> PICK d, q : d = file \o buffer /\ q = queue
    OBVIOUS
  <2>1. d \in Seq(Record) /\ q \in Seq(Record) /\ <<rec>> \in Seq(Record) /\ s = d \o q
    BY <1>0 DEF Trail
  <2>2. Append(q, rec) = q \o <<rec>> /\ Append(s, rec) = s \o <<rec>>
    BY <1>0, <2>1, AppendIsConcat
  <2>3. (d \o q) \o <<rec>> = d \o (q \o <<rec>>)
    BY <2>1, ConcatAssociative
  <2>4. t = d \o Append(q, rec)
    BY <1>1 DEF Trail
  <2> QED BY <2>1, <2>2, <2>3, <2>4
<1>4. /\ Len(t) = L + 1 /\ t[L + 1] = rec
      /\ \A i \in 1..L : t[i] = s[i] /\ s[i] \in Record
  BY <1>0, <1>3
<1>5. \A i \in 1..L : s[i].by = p => s[i].n < rec.n
  BY <1>0, <1>1, <1>2 DEF Past
<1>6. InOrder(t)
  <2> SUFFICES ASSUME NEW i \in 1..(L + 1), NEW j \in 1..(L + 1), i < j, t[i].by = t[j].by
               PROVE  t[i].n < t[j].n
    BY <1>4 DEF InOrder
  <2>0. i \in 1..L /\ t[i] = s[i]
    BY <1>0, <1>4
  <2>1. CASE j = L + 1
    BY <1>2, <1>4, <1>5, <2>0, <2>1
  <2>2. CASE j # L + 1
    <3>1. j \in 1..L /\ t[j] = s[j]
      BY <1>0, <1>4, <2>2
    <3>2. s[i].by = s[j].by => s[i].n < s[j].n
      BY <1>0, <2>0, <3>1 DEF InOrder
    <3> QED BY <2>0, <3>1, <3>2
  <2> QED BY <2>1, <2>2
<1>7. Past(Trail)'
  <2>1. /\ pc'[p] = "out" /\ \A q \in Producers \ {p} : pc'[q] = pc[q]
    BY <1>1 DEF TypeOK
  <2>2. \A i \in 1..L : s[i].by \in Producers
    BY <1>4 DEF Record
  <2>3. ASSUME NEW i \in 1..L
        PROVE  /\ t[i].n <= made'[t[i].by]
               /\ pc'[t[i].by] # "out" => t[i].n < made'[t[i].by]
    <3>1. /\ s[i].n <= made[s[i].by]
          /\ pc[s[i].by] # "out" => s[i].n < made[s[i].by]
      BY <1>0 DEF Past
    <3> QED BY <1>1, <1>4, <2>1, <2>2, <3>1
  <2>4. /\ t[L + 1].n <= made'[t[L + 1].by]
        /\ pc'[t[L + 1].by] = "out"
    BY <1>1, <1>2, <1>4, <2>1
  <2>5. ASSUME NEW i \in 1..Len(t)
        PROVE  /\ t[i].n <= made'[t[i].by]
               /\ pc'[t[i].by] # "out" => t[i].n < made'[t[i].by]
    <3>1. i \in 1..L \/ i = L + 1
      BY <1>0, <1>4
    <3> QED BY <2>3, <2>4, <3>1
  <2> QED BY <2>5 DEF Past
<1>8. InOrder(Trail)'
  BY <1>6 DEF InOrder
<1> QED BY <1>7, <1>8

LEMMA OrderStep ==
  ASSUME TypeOK, Begun, [Next]_vars, InOrder(Trail), Past(Trail)
  PROVE  InOrder(Trail)' /\ Past(Trail)'
<1>0. /\ Trail \in Seq(Record)
      /\ \A i \in 1..Len(Trail) : Trail[i].by \in Producers /\ Trail[i].n \in Nat
  <2>1. Trail \in Seq(Record)
    BY TrailType
  <2>2. \A i \in 1..Len(Trail) : Trail[i] \in Record
    BY <2>1
  <2> QED BY <2>1, <2>2 DEF Record
<1>1. ASSUME InOrder(Trail') /\ Past(Trail'), UNCHANGED <<pc, made>>
      PROVE  InOrder(Trail)' /\ Past(Trail)'
  BY <1>1 DEF InOrder, Past
<1>2. ASSUME NEW p \in Producers, LogOpen(p) \/ LogClosed(p) \/ Retry(p) \/ GiveUp(p)
      PROVE  InOrder(Trail)' /\ Past(Trail)'
  <2>1. Trail' = Trail
    BY <1>2 DEF LogOpen, LogClosed, Retry, GiveUp, Trail
  <2>2. /\ made[p] \in Nat /\ made'[p] \in Nat /\ made'[p] >= made[p]
        /\ pc'[p] # "out" /\ pc[p] = "out" => made'[p] > made[p]
        /\ \A q \in Producers \ {p} : made'[q] = made[q] /\ pc'[q] = pc[q]
    BY <1>2 DEF LogOpen, LogClosed, Retry, GiveUp, MayEnter, TypeOK
  <2>3. InOrder(Trail)'
    BY <2>1 DEF InOrder
  <2>4. Past(Trail)'
    <3> SUFFICES ASSUME NEW i \in 1..Len(Trail)
                 PROVE  /\ Trail[i].n <= made'[Trail[i].by]
                        /\ pc'[Trail[i].by] # "out" => Trail[i].n < made'[Trail[i].by]
      BY <2>1 DEF Past
    <3>1. /\ Trail[i].n <= made[Trail[i].by]
          /\ pc[Trail[i].by] # "out" => Trail[i].n < made[Trail[i].by]
      BY DEF Past
    <3>2. CASE Trail[i].by = p
      BY <1>0, <2>2, <3>1, <3>2
    <3>3. CASE Trail[i].by # p
      BY <1>0, <2>2, <3>1, <3>3
    <3> QED BY <3>2, <3>3
  <2> QED BY <2>3, <2>4
<1>3. ASSUME NEW p \in Producers, Send(p) PROVE InOrder(Trail)' /\ Past(Trail)'
  BY <1>3, SendKeepsOrder
<1>4. CASE WorkerWrites
  BY <1>1, <1>4, WriteKeepsTrail DEF WorkerWrites
<1>5. CASE Flush /\ UNCHANGED <<pc, made, queue>>
  BY <1>1, <1>5, FlushKeepsTrail
<1>6. CASE UNCHANGED <<pc, made, file, buffer, queue>>
  <2>1. Trail' = Trail
    BY <1>6 DEF Trail
  <2> QED BY <1>1, <1>6, <2>1
<1> QED BY <1>2, <1>3, <1>4, <1>5, <1>6 DEF Next, Producer, Closer, Worker, WorkerEnds, Tick,
           Sync, WantClose, CloseQueue, CloseFile, Ended, vars

\* The records of one goroutine are on the device, in the buffer and in the
\* queue in the order of its calls of Log, although some of them may be lost.
THEOREM OrderIsKept == ASSUME LoggerAssumption PROVE Spec => []OrderKept
<1>1. Init => InOrder(Trail) /\ Past(Trail)
  <2> SUFFICES ASSUME Init PROVE InOrder(Trail) /\ Past(Trail)
    OBVIOUS
  <2>1. Len(Trail) = 0
    BY DEF Init, Trail
  <2> QED BY <2>1 DEF InOrder, Past
<1>2. InOrder(Trail) /\ Past(Trail) /\ IInv /\ Begun /\ [Next]_vars
        => (InOrder(Trail) /\ Past(Trail))'
  BY OrderStep DEF IInv
<1>3. IInv /\ InOrder(Trail) => OrderKept
  <2> SUFFICES ASSUME IInv, InOrder(Trail) PROVE OrderKept
    OBVIOUS
  <2>1. Trail \in Seq(Record)
    BY TrailType DEF IInv
  <2>2. DOMAIN Trail = 1..Len(Trail)
    BY <2>1
  <2> QED BY <2>2 DEF OrderKept, InOrder
<1> QED BY <1>1, <1>2, <1>3, Invariant, PTL DEF Spec

=============================================================================
