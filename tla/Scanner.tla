------------------------------ MODULE Scanner ------------------------------
(***************************************************************************)
(* The concurrent directory walk of internal/core/scanner.go: Stream, its  *)
(* worker pool, the coordinator goroutine that owns the unbounded backlog, *)
(* the goroutine that waits on the task WaitGroup, and the context that    *)
(* may be cancelled at any moment.                                         *)
(*                                                                         *)
(* A task is the directory it names.  The queue and the two channels are   *)
(* kept as sets: which sibling ReadDir returns first is arbitrary, and no  *)
(* property depends on the order in which tasks are handed out, so every   *)
(* order is allowed.  A batch in discoveryChan is named by the directory   *)
(* whose children it carries.  The records of outChan are a sequence: the  *)
(* history of all records sent, and the number the consumer has received.  *)
(***************************************************************************)
EXTENDS Integers, Sequences, FiniteSets

CONSTANTS
    Workers,       \* the goroutines of the worker pool
    Dirs, Root,    \* the real directories below the scanned root
    Kids,          \* Kids[d]: the subdirectories ReadDir finds in d
    Pruned,        \* scoped out, excluded, not traversable, or on another device
    Included,      \* directories isMatchInclude lets into the output
    Flaky,         \* directories whose metadata or entries may be unreadable
    Throttled,     \* MaxIOPS > 0
    Deadline,      \* the caller's context carries a deadline
    Late,          \* directories whose token may come only after that deadline
    MayCancel,     \* the context may be cancelled
    TaskCap,       \* capacity of taskChan
    DiscoveryCap,  \* capacity of discoveryChan
    OutCap,        \* capacity of the caller's outChan
    NoTask         \* what an idle worker holds

ASSUME TreeAssumption ==
    /\ IsFiniteSet(Dirs)
    /\ Root \in Dirs
    /\ Kids \in [Dirs -> SUBSET Dirs]
    /\ \A d \in Dirs : Root \notin Kids[d]
    /\ \A d, e \in Dirs : d # e => Kids[d] \cap Kids[e] = {}
    /\ NoTask \notin Dirs

ASSUME OptionsAssumption ==
    /\ Included \subseteq Dirs
    /\ Root \in Included
    /\ Throttled \in BOOLEAN /\ Deadline \in BOOLEAN /\ MayCancel \in BOOLEAN
    /\ Late \subseteq Dirs /\ (Late # {} => Throttled /\ Deadline)

ASSUME CapacityAssumption ==
    /\ TaskCap \in Nat \ {0} /\ DiscoveryCap \in Nat \ {0} /\ OutCap \in Nat \ {0}

VARIABLES
    stream,      \* where Stream stands, and with what it returned
    ctxDone,     \* ctx.Done() is closed
    coord,       \* the coordinator; when "gone" taskChan is closed
    waiter,      \* the taskWG.Wait goroutine; when "gone" allTasksDone is closed
    queue,       \* the coordinator's backlog
    taskChan,    \* tasks buffered in taskChan
    discovery,   \* directories whose batch of children is in discoveryChan
    wg,          \* counter of taskWG
    pc, task,    \* control point and task of each worker
    sent,        \* all records sent on outChan so far
    rcvd,        \* how many of them the consumer has received
    listed,      \* directories whose entries were read (OnFile saw their files)
    lost,        \* directories whose entries could not be read, or not in time
    finished     \* tasks for which taskWG.Done was called

poolVars == <<coord, waiter, queue, taskChan, discovery, wg, pc, task>>
walkVars == <<listed, lost, finished>>
vars == <<stream, ctxDone, poolVars, sent, rcvd, walkVars>>

----------------------------------------------------------------------------
Record == [dir : Dirs, meta : {"read", "blank"}]

\* Control points at which a worker holds a task.
Busy == {"begin", "emit", "list", "offer", "finish"}

SentDirs == {sent[i].dir : i \in DOMAIN sent}

\* The tasks readSubdirs returns for the children of d.
Tasks(d) == Kids[d] \ Pruned

\* Everything a listing has turned into a task.
Discovered == UNION {Tasks(d) : d \in listed}

\* Tasks counted by the WaitGroup.
Open == Discovered \ finished

Returned == stream \in {"nil", "ctxErr", "rootErr"}

HasRoom == Len(sent) - rcvd < OutCap

\* ReadMeta falls back to empty metadata when a directory cannot be read.
MetaOf(d) == IF d \in Flaky THEN {"read", "blank"} ELSE {"read"}

\* The limiter refuses when the context is done, and already when the token
\* would come after the deadline; Open and ReadDir fail on their own account.
LimiterRefuses(d) == d \in Late \/ (Throttled /\ ctxDone)
MayNotList(d) == d \in Flaky \/ LimiterRefuses(d)
MayList == ~(Throttled /\ ctxDone)

Init ==
    /\ stream = "start"
    /\ ctxDone = FALSE
    /\ coord = "off" /\ waiter = "off"
    /\ queue = {} /\ taskChan = {} /\ discovery = {}
    /\ wg = 0
    /\ pc = [w \in Workers |-> "off"]
    /\ task = [w \in Workers |-> NoTask]
    /\ sent = <<>> /\ rcvd = 0
    /\ listed = {} /\ lost = {} /\ finished = {}

----------------------------------------------------------------------------
(* Stream: the root itself, then the pool, then the two joins.             *)

\* The root cannot be examined, or its metadata not be read.
RootUnreadable ==
    /\ stream = "start"
    /\ Root \in Flaky
    /\ stream' = "rootErr"
    /\ UNCHANGED <<ctxDone, poolVars, sent, rcvd, walkVars>>

SendRoot ==
    /\ stream = "start"
    /\ HasRoom
    /\ sent' = Append(sent, [dir |-> Root, meta |-> "read"])
    /\ stream' = "list"
    /\ UNCHANGED <<ctxDone, poolVars, rcvd, walkVars>>

CancelRoot ==
    /\ stream = "start"
    /\ ctxDone
    /\ stream' = "ctxErr"
    /\ UNCHANGED <<ctxDone, poolVars, sent, rcvd, walkVars>>

ListRootFails ==
    /\ stream = "list"
    /\ MayNotList(Root)
    /\ stream' = IF Throttled /\ ctxDone THEN "ctxErr" ELSE "rootErr"
    /\ lost' = lost \cup {Root}
    /\ UNCHANGED <<ctxDone, poolVars, sent, rcvd, listed, finished>>

ListRoot ==
    /\ stream = "list"
    /\ MayList
    /\ listed' = listed \cup {Root}
    /\ stream' = "launch"
    /\ UNCHANGED <<ctxDone, poolVars, sent, rcvd, lost, finished>>

\* A root without tasks ends the walk; otherwise every goroutine is started.
Launch ==
    /\ stream = "launch"
    /\ IF Tasks(Root) = {}
       THEN /\ stream' = "nil"
            /\ UNCHANGED poolVars
       ELSE /\ stream' = "running"
            /\ pc' = [w \in Workers |-> "idle"]
            /\ wg' = Cardinality(Tasks(Root))
            /\ queue' = Tasks(Root)
            /\ coord' = "run" /\ waiter' = "run"
            /\ UNCHANGED <<taskChan, discovery, task>>
    /\ UNCHANGED <<ctxDone, sent, rcvd, walkVars>>

JoinCoordinator ==
    /\ stream = "running"
    /\ coord = "gone"
    /\ stream' = "joining"
    /\ UNCHANGED <<ctxDone, poolVars, sent, rcvd, walkVars>>

\* Mutant: Stream does not wait for the workers.
ReturnEarly ==
    /\ stream = "joining"
    /\ stream' = IF ctxDone THEN "ctxErr" ELSE "nil"
    /\ UNCHANGED <<ctxDone, poolVars, sent, rcvd, walkVars>>

\* Mutant: Stream forgets to look at the context.
ReturnNil ==
    /\ stream = "joining"
    /\ \A w \in Workers : pc[w] = "gone"
    /\ stream' = "nil"
    /\ UNCHANGED <<ctxDone, poolVars, sent, rcvd, walkVars>>

\* workerWG.Wait, then the verdict; the deferred close ends outChan.
Return ==
    /\ stream = "joining"
    /\ \A w \in Workers : pc[w] = "gone"
    /\ stream' = IF ctxDone THEN "ctxErr" ELSE "nil"
    /\ UNCHANGED <<ctxDone, poolVars, sent, rcvd, walkVars>>

StreamStep ==
    \/ RootUnreadable \/ SendRoot \/ CancelRoot \/ ListRootFails \/ ListRoot
    \/ Launch \/ JoinCoordinator \/ Return

----------------------------------------------------------------------------
(* A worker: take a task, process it, call taskWG.Done.                    *)

Take(w) ==
    /\ pc[w] = "idle"
    /\ \E d \in taskChan :
        /\ taskChan' = taskChan \ {d}
        /\ task' = [task EXCEPT ![w] = d]
    /\ pc' = [pc EXCEPT ![w] = "begin"]
    /\ UNCHANGED <<stream, ctxDone, coord, waiter, queue, discovery, wg, sent, rcvd, walkVars>>

\* The select sees ctx.Done, or a closed and empty taskChan.
Quit(w) ==
    /\ pc[w] = "idle"
    /\ ctxDone \/ (coord = "gone" /\ taskChan = {})
    /\ pc' = [pc EXCEPT ![w] = "gone"]
    /\ UNCHANGED <<stream, ctxDone, coord, waiter, queue, taskChan, discovery, wg, task,
                   sent, rcvd, walkVars>>

\* processTask looks at the context before it touches the directory.
Begin(w) ==
    /\ pc[w] = "begin"
    /\ pc' = [pc EXCEPT ![w] = IF ctxDone THEN "finish"
                               ELSE IF task[w] \in Included THEN "emit" ELSE "list"]
    /\ UNCHANGED <<stream, ctxDone, coord, waiter, queue, taskChan, discovery, wg, task,
                   sent, rcvd, walkVars>>

\* Mutant: a full outChan drops the record instead of blocking the worker.
EmitOrDrop(w) ==
    /\ pc[w] = "emit"
    /\ \E m \in MetaOf(task[w]) :
        sent' = IF HasRoom THEN Append(sent, [dir |-> task[w], meta |-> m]) ELSE sent
    /\ pc' = [pc EXCEPT ![w] = "list"]
    /\ UNCHANGED <<stream, ctxDone, coord, waiter, queue, taskChan, discovery, wg, task,
                   rcvd, walkVars>>

Emit(w) ==
    /\ pc[w] = "emit"
    /\ HasRoom
    /\ \E m \in MetaOf(task[w]) : sent' = Append(sent, [dir |-> task[w], meta |-> m])
    /\ pc' = [pc EXCEPT ![w] = "list"]
    /\ UNCHANGED <<stream, ctxDone, coord, waiter, queue, taskChan, discovery, wg, task,
                   rcvd, walkVars>>

CancelEmit(w) ==
    /\ pc[w] = "emit"
    /\ ctxDone
    /\ pc' = [pc EXCEPT ![w] = "finish"]
    /\ UNCHANGED <<stream, ctxDone, coord, waiter, queue, taskChan, discovery, wg, task,
                   sent, rcvd, walkVars>>

\* Mutant: the error path of readSubdirs skips taskWG.Done.
ListFailsUndone(w) ==
    /\ pc[w] = "list"
    /\ MayNotList(task[w])
    /\ lost' = lost \cup {task[w]}
    /\ task' = [task EXCEPT ![w] = NoTask]
    /\ pc' = [pc EXCEPT ![w] = "idle"]
    /\ UNCHANGED <<stream, ctxDone, coord, waiter, queue, taskChan, discovery, wg,
                   sent, rcvd, listed, finished>>

\* readSubdirs failed, or was refused by the limiter: a warning is logged, no
\* error is returned, and the whole subtree is skipped.
ListFails(w) ==
    /\ pc[w] = "list"
    /\ MayNotList(task[w])
    /\ lost' = lost \cup {task[w]}
    /\ pc' = [pc EXCEPT ![w] = "finish"]
    /\ UNCHANGED <<stream, ctxDone, coord, waiter, queue, taskChan, discovery, wg, task,
                   sent, rcvd, listed, finished>>

\* The children are added to the WaitGroup before they are offered.
List(w) ==
    /\ pc[w] = "list"
    /\ MayList
    /\ listed' = listed \cup {task[w]}
    /\ wg' = wg + Cardinality(Tasks(task[w]))
    /\ pc' = [pc EXCEPT ![w] = IF Tasks(task[w]) = {} THEN "finish" ELSE "offer"]
    /\ UNCHANGED <<stream, ctxDone, coord, waiter, queue, taskChan, discovery, task,
                   sent, rcvd, lost, finished>>

Offer(w) ==
    /\ pc[w] = "offer"
    /\ Cardinality(discovery) < DiscoveryCap
    /\ discovery' = discovery \cup {task[w]}
    /\ pc' = [pc EXCEPT ![w] = "finish"]
    /\ UNCHANGED <<stream, ctxDone, coord, waiter, queue, taskChan, wg, task,
                   sent, rcvd, walkVars>>

\* Mutant: the children of an abandoned batch stay in the WaitGroup.
CancelOfferUndone(w) ==
    /\ pc[w] = "offer"
    /\ ctxDone
    /\ finished' = finished \cup Tasks(task[w])
    /\ pc' = [pc EXCEPT ![w] = "finish"]
    /\ UNCHANGED <<stream, ctxDone, coord, waiter, queue, taskChan, discovery, wg, task,
                   sent, rcvd, listed, lost>>

\* Children that will never be walked leave the WaitGroup one by one.
CancelOffer(w) ==
    /\ pc[w] = "offer"
    /\ ctxDone
    /\ wg' = wg - Cardinality(Tasks(task[w]))
    /\ finished' = finished \cup Tasks(task[w])
    /\ pc' = [pc EXCEPT ![w] = "finish"]
    /\ UNCHANGED <<stream, ctxDone, coord, waiter, queue, taskChan, discovery, task,
                   sent, rcvd, listed, lost>>

Finish(w) ==
    /\ pc[w] = "finish"
    /\ wg' = wg - 1
    /\ finished' = finished \cup {task[w]}
    /\ task' = [task EXCEPT ![w] = NoTask]
    /\ pc' = [pc EXCEPT ![w] = "idle"]
    /\ UNCHANGED <<stream, ctxDone, coord, waiter, queue, taskChan, discovery,
                   sent, rcvd, listed, lost>>

WorkerStep(w) ==
    \/ Take(w) \/ Quit(w) \/ Begin(w) \/ Emit(w) \/ CancelEmit(w)
    \/ ListFails(w) \/ List(w) \/ Offer(w) \/ CancelOffer(w) \/ Finish(w)

----------------------------------------------------------------------------
(* The coordinator's select, and the goroutine behind allTasksDone.        *)

Collect ==
    /\ coord = "run"
    /\ \E d \in discovery :
        /\ discovery' = discovery \ {d}
        /\ queue' = queue \cup Tasks(d)
    /\ UNCHANGED <<stream, ctxDone, coord, waiter, taskChan, wg, pc, task, sent, rcvd, walkVars>>

Dispatch ==
    /\ coord = "run"
    /\ Cardinality(taskChan) < TaskCap
    /\ \E d \in queue :
        /\ queue' = queue \ {d}
        /\ taskChan' = taskChan \cup {d}
    /\ UNCHANGED <<stream, ctxDone, coord, waiter, discovery, wg, pc, task, sent, rcvd, walkVars>>

\* ctx.Done or allTasksDone: the deferred calls close taskChan and coordinatorDone.
CloseTasks ==
    /\ coord = "run"
    /\ ctxDone \/ waiter = "gone"
    /\ coord' = "gone"
    /\ UNCHANGED <<stream, ctxDone, waiter, queue, taskChan, discovery, wg, pc, task,
                   sent, rcvd, walkVars>>

CoordStep == Collect \/ Dispatch \/ CloseTasks

AllTasksDone ==
    /\ waiter = "run"
    /\ wg = 0
    /\ waiter' = "gone"
    /\ UNCHANGED <<stream, ctxDone, coord, queue, taskChan, discovery, wg, pc, task,
                   sent, rcvd, walkVars>>

----------------------------------------------------------------------------
(* The caller: it receives records and may cancel the context.             *)

Receive ==
    /\ rcvd < Len(sent)
    /\ rcvd' = rcvd + 1
    /\ UNCHANGED <<stream, ctxDone, poolVars, sent, walkVars>>

Cancel ==
    /\ MayCancel
    /\ ~ctxDone
    /\ ctxDone' = TRUE
    /\ UNCHANGED <<stream, poolVars, sent, rcvd, walkVars>>

\* Everything is delivered: the only state in which nothing need happen.
Stopped ==
    /\ Returned
    /\ rcvd = Len(sent)
    /\ UNCHANGED vars

ScanStep ==
    \/ StreamStep
    \/ \E w \in Workers : WorkerStep(w)
    \/ CoordStep
    \/ AllTasksDone

Next == ScanStep \/ Receive \/ Cancel \/ Stopped

\* Runnable goroutines are eventually scheduled; a select with a ready case
\* eventually proceeds.
ScanFairness ==
    /\ WF_vars(StreamStep)
    /\ \A w \in Workers : WF_vars(WorkerStep(w))
    /\ WF_vars(CoordStep)
    /\ WF_vars(AllTasksDone)

Spec == Init /\ [][Next]_vars

\* Nothing obliges the caller to take a record.
FairSpec == Spec /\ ScanFairness

----------------------------------------------------------------------------
TypeOK ==
    /\ stream \in {"start", "list", "launch", "running", "joining", "nil", "ctxErr", "rootErr"}
    /\ ctxDone \in BOOLEAN
    /\ coord \in {"off", "run", "gone"} /\ waiter \in {"off", "run", "gone"}
    /\ queue \subseteq Dirs /\ taskChan \subseteq Dirs /\ discovery \subseteq Dirs
    /\ wg \in Int
    /\ pc \in [Workers -> {"off", "idle", "gone"} \cup Busy]
    /\ task \in [Workers -> Dirs \cup {NoTask}]
    /\ \A w \in Workers : pc[w] \in Busy => task[w] \in Dirs
    /\ sent \in Seq(Record) /\ rcvd \in 0..Len(sent)
    /\ listed \subseteq Dirs /\ lost \subseteq Dirs /\ finished \subseteq Dirs

\* taskWG counts exactly the tasks that were added and not yet marked done,
\* whoever holds them: the backlog, a channel, a batch, or a worker.  So the
\* counter never goes below zero, which would panic.
WaitGroupExact == stream # "launch" => wg = Cardinality(Open)

\* allTasksDone is closed only when no task is left anywhere: the coordinator
\* never closes taskChan under a worker that still has children to offer.
DoneMeansDone ==
    waiter = "gone" =>
        /\ queue = {} /\ taskChan = {} /\ discovery = {}
        /\ \A w \in Workers : pc[w] \in {"idle", "gone"}

\* The accounting that ends the walk is right at every moment: the counter of
\* taskWG, and what its reaching zero is taken for.
WaitGroupSound == WaitGroupExact /\ DoneMeansDone

\* Whatever way the workers interleave, no directory is sent to outChan twice.
EmittedOnce == \A i, j \in DOMAIN sent : sent[i].dir = sent[j].dir => i = j

\* A directory that belongs to the output comes before everything below it,
\* so an unsorted snapshot can be replayed from the top.
ParentFirst ==
    \A i \in DOMAIN sent : \A p \in Included :
        sent[i].dir \in Kids[p] => \E j \in 1..(i - 1) : sent[j].dir = p

\* Every task of every listed directory was visited itself: nothing is missing
\* but what lies below a directory that cannot be read, or below one that the
\* limiter refused because its token would have come after the deadline.
Whole ==
    /\ Root \in listed
    /\ Discovered \subseteq listed \cup lost
    /\ lost \subseteq Flaky \cup Late
    /\ Discovered \cap Included \subseteq SentDirs

\* When Stream returns nil the walk is whole.
CompleteWalk == stream = "nil" => Whole

\* Stream closes outChan only after the whole pool has exited: a later send
\* would panic.
QuietAfterClose ==
    Returned => /\ coord \in {"off", "gone"}
                /\ \A w \in Workers : pc[w] \in {"off", "gone"}

\* What the walk still owes a visit, and how it ended.
Todo == ({Root} \cup Discovered) \ (listed \cup lost)
Outcome == IF stream = "nil" THEN "complete" ELSE IF Returned THEN "failed" ELSE "walking"

\* The concurrent walk, whatever its schedule, is the abstract top-down walk.
Walk == INSTANCE TreeWalk WITH
    Children <- [d \in Dirs |-> Tasks(d)], Unreadable <- Flaky \cup Late,
    todo <- Todo, visited <- SentDirs, interrupted <- ctxDone, outcome <- Outcome

WalksTheTree == Walk!Spec

\* A caller that drains outChan sees Stream return, cancelled or not: the
\* workers and the coordinator never wait on each other for good.  After a
\* cancellation Stream returns even if nobody receives any more.
WalkEnds ==
    /\ WF_vars(Receive) => <>Returned
    /\ ctxDone ~> Returned
============================================================================
