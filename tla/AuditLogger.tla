---------------------------- MODULE AuditLogger ----------------------------
(***************************************************************************)
(* The asynchronous audit trail of internal/model/audit.go.  Goroutines    *)
(* call Log, which holds closeMu for reading while it offers its record to *)
(* the bounded queue; one worker encodes the records into a bufio.Writer;  *)
(* a ticker flushes it; Close takes closeMu for writing, closes the queue  *)
(* and waits for the worker.                                               *)
(***************************************************************************)
EXTENDS Integers, Sequences, FiniteSets

CONSTANTS
    Producers,    \* goroutines that call Log
    Closers,      \* goroutines that call Close
    Calls,        \* bound on the Log calls of one producer
    QueueCap,     \* capacity of queue
    BufferCap,    \* records the 64 KB buffer holds
    Unencodable,  \* records json.Marshal refuses
    MayBreak      \* the log device may start to fail

Record == [by : Producers, n : Nat \ {0}]

ASSUME LoggerAssumption ==
    /\ IsFiniteSet(Producers)
    /\ Calls \in Nat /\ QueueCap \in Nat \ {0} /\ BufferCap \in Nat \ {0}
    /\ MayBreak \in BOOLEAN

VARIABLES
    pc,       \* where each producer is in Log: "out", "send" or "retry"
    made,     \* Log calls each producer has begun
    cpc,      \* where each closer is in Close: "out", "lock", "join", "done"
    closed,   \* the closed flag; the queue channel is closed with it
    queue,    \* records in the channel
    worker,   \* "run" or "gone"
    buffer,   \* records in bufferedW
    file,     \* records on the log device
    broken,   \* the sticky error of bufferedW
    fileOpen, \* the closer of the device was not called yet
    seq,      \* Log calls that found the logger open
    refused,  \* Log calls that found it closed
    dropped,  \* droppedLogs
    skipped   \* records lost without being counted in droppedLogs

counts == <<seq, refused, dropped, skipped>>
vars == <<pc, made, cpc, closed, queue, worker, buffer, file, broken, fileOpen, counts>>

----------------------------------------------------------------------------
InLog == {p \in Producers : pc[p] # "out"}

\* The record of the call producer p is in.
Current(p) == [by |-> p, n |-> made[p]]

Init ==
    /\ pc = [p \in Producers |-> "out"]
    /\ made = [p \in Producers |-> 0]
    /\ cpc = [c \in Closers |-> "out"]
    /\ closed = FALSE
    /\ queue = <<>> /\ buffer = <<>> /\ file = <<>>
    /\ worker = "run"
    /\ broken = FALSE
    /\ fileOpen = TRUE
    /\ seq = 0 /\ refused = 0 /\ dropped = 0 /\ skipped = 0

----------------------------------------------------------------------------
(* Log.                                                                    *)

\* RLock: a closer that waits for the lock keeps new readers out.
MayEnter(p) ==
    /\ pc[p] = "out"
    /\ made[p] < Calls
    /\ closed \/ \A c \in Closers : cpc[c] # "lock"

LogOpen(p) ==
    /\ MayEnter(p)
    /\ ~closed
    /\ made' = [made EXCEPT ![p] = @ + 1]
    /\ pc' = [pc EXCEPT ![p] = "send"]
    /\ seq' = seq + 1
    /\ UNCHANGED <<cpc, closed, queue, worker, buffer, file, broken, fileOpen,
                   refused, dropped, skipped>>

LogClosed(p) ==
    /\ MayEnter(p)
    /\ closed
    /\ made' = [made EXCEPT ![p] = @ + 1]
    /\ dropped' = dropped + 1
    /\ refused' = refused + 1
    /\ UNCHANGED <<pc, cpc, closed, queue, worker, buffer, file, broken, fileOpen, seq, skipped>>

\* The send succeeds at once, or as soon as the worker makes room.
Send(p) ==
    /\ pc[p] \in {"send", "retry"}
    /\ Len(queue) < QueueCap
    /\ queue' = Append(queue, Current(p))
    /\ pc' = [pc EXCEPT ![p] = "out"]
    /\ UNCHANGED <<made, cpc, closed, worker, buffer, file, broken, fileOpen, counts>>

\* The queue is full: wait for room for up to 50 ms.
Retry(p) ==
    /\ pc[p] = "send"
    /\ Len(queue) = QueueCap
    /\ pc' = [pc EXCEPT ![p] = "retry"]
    /\ UNCHANGED <<made, cpc, closed, queue, worker, buffer, file, broken, fileOpen, counts>>

\* Mutant: the timeout loses the record without counting it.
GiveUpSilently(p) ==
    /\ pc[p] = "retry"
    /\ pc' = [pc EXCEPT ![p] = "out"]
    /\ UNCHANGED <<made, cpc, closed, queue, worker, buffer, file, broken, fileOpen, counts>>

\* Mutant: no timer, the retry waits for room for ever.
GiveUpNever(p) ==
    /\ pc[p] = "retry" /\ Len(queue) < QueueCap
    /\ UNCHANGED vars

\* The timer fires, perhaps together with the room it waited for.
GiveUp(p) ==
    /\ pc[p] = "retry"
    /\ dropped' = dropped + 1
    /\ pc' = [pc EXCEPT ![p] = "out"]
    /\ UNCHANGED <<made, cpc, closed, queue, worker, buffer, file, broken, fileOpen,
                   seq, refused, skipped>>

Producer(p) == LogOpen(p) \/ LogClosed(p) \/ Send(p) \/ Retry(p) \/ GiveUp(p)

----------------------------------------------------------------------------
(* The buffered writer and the worker.                                     *)

\* Flush: everything reaches the device, or it fails after a part and every
\* later call on the writer fails too.
Flush ==
    IF broken
    THEN UNCHANGED <<buffer, file, broken>>
    ELSE \/ /\ file' = file \o buffer
            /\ buffer' = <<>>
            /\ broken' = FALSE
         \/ /\ MayBreak /\ buffer # <<>>
            /\ \E k \in 0..(Len(buffer) - 1) :
                /\ file' = file \o SubSeq(buffer, 1, k)
                /\ buffer' = SubSeq(buffer, k + 1, Len(buffer))
            /\ broken' = TRUE

\* writeRecord: an encoding error or a failed writer loses the record.
WriteRecord(rec) ==
    \/ /\ rec \in Unencodable \/ broken
       /\ skipped' = skipped + 1
       /\ UNCHANGED <<buffer, file, broken>>
    \/ /\ rec \notin Unencodable /\ ~broken
       /\ Len(buffer) < BufferCap
       /\ buffer' = Append(buffer, rec)
       /\ UNCHANGED <<file, broken, skipped>>
    \/ /\ rec \notin Unencodable /\ ~broken
       /\ Len(buffer) = BufferCap
       /\ \/ /\ file' = file \o buffer
             /\ buffer' = <<rec>>
             /\ UNCHANGED <<broken, skipped>>
          \/ /\ MayBreak
             /\ broken' = TRUE
             /\ skipped' = skipped + 1
             /\ UNCHANGED <<buffer, file>>

\* Mutant: the newest record is taken first.
WorkerWritesNewest ==
    /\ worker = "run"
    /\ queue # <<>>
    /\ queue' = SubSeq(queue, 1, Len(queue) - 1)
    /\ WriteRecord(queue[Len(queue)])
    /\ UNCHANGED <<pc, made, cpc, closed, worker, fileOpen, seq, refused, dropped>>

WorkerWrites ==
    /\ worker = "run"
    /\ queue # <<>>
    /\ queue' = Tail(queue)
    /\ WriteRecord(Head(queue))
    /\ UNCHANGED <<pc, made, cpc, closed, worker, fileOpen, seq, refused, dropped>>

\* Mutant: the ticker does not flush.
TickIdle ==
    /\ worker = "run"
    /\ UNCHANGED vars

Tick ==
    /\ worker = "run"
    /\ Flush
    /\ UNCHANGED <<pc, made, cpc, closed, queue, worker, fileOpen, counts>>

\* The closed queue is empty: the last flush, and wg.Done.
WorkerEnds ==
    /\ worker = "run"
    /\ closed /\ queue = <<>>
    /\ Flush
    /\ worker' = "gone"
    /\ UNCHANGED <<pc, made, cpc, closed, queue, fileOpen, counts>>

Worker == WorkerWrites \/ WorkerEnds

----------------------------------------------------------------------------
(* Close and Sync.                                                         *)

WantClose(c) ==
    /\ cpc[c] = "out"
    /\ cpc' = [cpc EXCEPT ![c] = "lock"]
    /\ UNCHANGED <<pc, made, closed, queue, worker, buffer, file, broken, fileOpen, counts>>

\* Mutant: the queue is closed without taking closeMu.
CloseQueueUnlocked(c) ==
    /\ cpc[c] = "lock"
    /\ cpc' = [cpc EXCEPT ![c] = IF closed THEN "done" ELSE "join"]
    /\ closed' = TRUE
    /\ UNCHANGED <<pc, made, queue, worker, buffer, file, broken, fileOpen, counts>>

\* The write lock is free once no Log is in progress.  Whoever comes second
\* returns at once; the first closes the queue and waits for the worker.
CloseQueue(c) ==
    /\ cpc[c] = "lock"
    /\ InLog = {}
    /\ cpc' = [cpc EXCEPT ![c] = IF closed THEN "done" ELSE "join"]
    /\ closed' = TRUE
    /\ UNCHANGED <<pc, made, queue, worker, buffer, file, broken, fileOpen, counts>>

\* Mutant: Close does not wait for the worker.
CloseFileEarly(c) ==
    /\ cpc[c] = "join"
    /\ Flush
    /\ fileOpen' = FALSE
    /\ cpc' = [cpc EXCEPT ![c] = "done"]
    /\ UNCHANGED <<pc, made, closed, queue, worker, counts>>

CloseFile(c) ==
    /\ cpc[c] = "join"
    /\ worker = "gone"
    /\ Flush
    /\ fileOpen' = FALSE
    /\ cpc' = [cpc EXCEPT ![c] = "done"]
    /\ UNCHANGED <<pc, made, closed, queue, worker, counts>>

Closer(c) == WantClose(c) \/ CloseQueue(c) \/ CloseFile(c)

\* Sync flushes the buffer; it does not wait for what is still queued.
Sync ==
    /\ Flush
    /\ UNCHANGED <<pc, made, cpc, closed, queue, worker, fileOpen, counts>>

Ended ==
    /\ \A p \in Producers : pc[p] = "out" /\ made[p] = Calls
    /\ \A c \in Closers : cpc[c] = "done"
    /\ UNCHANGED vars

Next ==
    \/ \E p \in Producers : Producer(p)
    \/ \E c \in Closers : Closer(c)
    \/ Worker \/ Tick \/ Sync
    \/ Ended

Spec == Init /\ [][Next]_vars

\* Timers fire and a goroutine that can go on does; nobody is obliged to call
\* Log or Close.
ProducerFairness == \A p \in Producers : WF_vars(Send(p) \/ Retry(p) \/ GiveUp(p))
CloserFairness == \A c \in Closers : WF_vars(CloseQueue(c) \/ CloseFile(c))

\* The writes of the worker return.
WorkerFairness == WF_vars(Worker) /\ WF_vars(Tick)

\* The log device may hang and with it the worker: its fairness is left to the
\* properties that need it.
FairSpec == Spec /\ ProducerFairness /\ CloserFairness

----------------------------------------------------------------------------
TypeOK ==
    /\ pc \in [Producers -> {"out", "send", "retry"}]
    /\ made \in [Producers -> Nat]
    /\ cpc \in [Closers -> {"out", "lock", "join", "done"}]
    /\ closed \in BOOLEAN /\ broken \in BOOLEAN /\ fileOpen \in BOOLEAN
    /\ queue \in Seq(Record) /\ buffer \in Seq(Record) /\ file \in Seq(Record)
    /\ worker \in {"run", "gone"}
    /\ seq \in Nat /\ refused \in Nat /\ dropped \in Nat /\ skipped \in Nat

\* No goroutine is about to send on the queue when it is closed: that send
\* would panic.  closeMu is held across the 50 ms of the retry for this.
NoSendOnClosed == closed => InLog = {}

\* Every Log call is on the device, on its way there, or counted as lost.
NothingVanishes ==
    seq + refused =
        Len(file) + Len(buffer) + Len(queue) + dropped + skipped + Cardinality(InLog)

\* When the device is closed the trail is on it: nothing is left in the queue
\* or, unless the device failed, in the buffer.
DrainedOnClose ==
    ~fileOpen => worker = "gone" /\ queue = <<>> /\ (broken \/ buffer = <<>>)

\* The records of one goroutine reach the device in the order of its calls.
Trail == file \o buffer \o queue
OrderKept ==
    \A i, j \in DOMAIN Trail :
        i < j /\ Trail[i].by = Trail[j].by => Trail[i].n < Trail[j].n

\* Nothing is written to a device that was closed.
NoWriteAfterClose == [][~fileOpen => UNCHANGED file]_vars

\* A call of Log returns even when the worker hangs: it waits a bounded time.
\* While the worker runs, a call of Close returns too, however many goroutines
\* keep logging.
CallsReturn ==
    /\ \A p \in Producers : (pc[p] # "out") ~> (pc[p] = "out")
    /\ WorkerFairness => \A c \in Closers : (cpc[c] # "out") ~> (cpc[c] = "done")

\* Without any Close or Sync, a record that was accepted reaches a working
\* device.
Recorded ==
    WorkerFairness =>
        ((queue # <<>> \/ buffer # <<>>) ~> (broken \/ (queue = <<>> /\ buffer = <<>>)))
============================================================================
