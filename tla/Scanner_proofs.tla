--------------------------- MODULE Scanner_proofs ---------------------------
(***************************************************************************)
(* Theorems about Scanner, and about ScanIter, which extends it, for every *)
(* tree, pool size, channel capacity and option.  IInv is the inductive    *)
(* invariant of the scan, its parts are named; the range loop adds IterInv *)
(* to it.                                                                  *)
(***************************************************************************)
EXTENDS ScanIter, FiniteSetTheorems, TLAPS

Shown == {"list", "offer", "finish"}    \* past the point of emission
Read == {"offer", "finish"}             \* past the listing

\* What each phase of Stream implies for the goroutines it starts.
Phases ==
    /\ stream \in {"start", "list", "launch"} =>
        /\ coord = "off" /\ waiter = "off" /\ wg = 0
        /\ queue = {} /\ taskChan = {} /\ discovery = {}
        /\ \A w \in Workers : pc[w] = "off"
        /\ lost = {} /\ finished = {}
    /\ stream \in {"start", "list"} => listed = {}
    /\ stream = "start" => sent = <<>>
    /\ stream \in {"list", "launch"} => SentDirs = {Root}
    /\ stream = "launch" => listed = {Root}
    /\ stream \in {"running", "joining"} =>
        /\ coord # "off" /\ waiter # "off"
        /\ Root \in listed
        /\ \A w \in Workers : pc[w] # "off"
    /\ stream = "joining" => coord = "gone"
    /\ Returned => /\ coord \in {"off", "gone"}
                   /\ \A w \in Workers : pc[w] \in {"off", "gone"}
    /\ waiter # "off" => \A w \in Workers : pc[w] # "off"

\* A task that is somewhere is open.
Places ==
    /\ queue \subseteq Open
    /\ taskChan \subseteq Open
    /\ \A w \in Workers : pc[w] \in Busy => task[w] \in Open
    /\ \A p \in discovery : p \in listed /\ Tasks(p) \subseteq Open /\ Tasks(p) # {}
    /\ \A w \in Workers : pc[w] = "offer" =>
        task[w] \in listed /\ Tasks(task[w]) \subseteq Open /\ Tasks(task[w]) # {}
    /\ finished \subseteq Discovered

\* A task is in one place only.
Disjoint ==
    /\ queue \cap taskChan = {}
    /\ \A v, w \in Workers : v # w /\ pc[v] \in Busy /\ pc[w] \in Busy => task[v] # task[w]
    /\ \A w \in Workers : pc[w] \in Busy => task[w] \notin queue \cup taskChan
    /\ \A p \in discovery : Tasks(p) \cap (queue \cup taskChan) = {}
    /\ \A p \in discovery : \A w \in Workers :
        /\ pc[w] \in Busy => task[w] \notin Tasks(p)
        /\ pc[w] = "offer" => task[w] # p
    /\ \A v \in Workers : pc[v] = "offer" =>
        /\ Tasks(task[v]) \cap (queue \cup taskChan) = {}
        /\ \A w \in Workers : pc[w] \in Busy => task[w] \notin Tasks(task[v])

\* How far the walk got with each directory.
Progress ==
    /\ \A x \in listed \cup lost :
        \/ x = Root \/ x \in finished
        \/ \E w \in Workers : task[w] = x /\ pc[w] \in Read
    /\ \A x \in SentDirs :
        \/ x = Root \/ x \in finished
        \/ \E w \in Workers : task[w] = x /\ pc[w] \in Shown
    /\ listed \cap Included \subseteq SentDirs
    /\ \A w \in Workers : pc[w] = "emit" => task[w] \in Included
    /\ \A w \in Workers : pc[w] \in {"emit", "list"} => task[w] \notin listed \cup lost
    /\ \A w \in Workers : pc[w] \in {"list", "offer"} /\ task[w] \in Included => task[w] \in SentDirs
    /\ \A w \in Workers : pc[w] = "finish" /\ ~ctxDone =>
        /\ task[w] \in listed \cup lost
        /\ task[w] \in Included => task[w] \in SentDirs
    /\ ~ctxDone => /\ finished \subseteq listed \cup lost
                   /\ finished \cap Included \subseteq SentDirs
                   /\ lost \subseteq Flaky \cup Late

\* The coordinator goes home only when cancelled or when nothing is open.
Endings ==
    /\ waiter = "gone" => Open = {}
    /\ coord = "gone" /\ ~ctxDone => waiter = "gone"
    /\ CompleteWalk

IInv ==
    TypeOK /\ Phases /\ Places /\ Disjoint /\ Progress /\ Endings
    /\ WaitGroupExact /\ EmittedOnce /\ ParentFirst

----------------------------------------------------------------------------
(* Type correctness.                                                       *)

\* The tasks of a directory are finitely many directories.
LEMMA TasksType ==
    ASSUME NEW d \in Dirs
    PROVE  /\ Tasks(d) \subseteq Dirs
           /\ IsFiniteSet(Tasks(d))
           /\ Cardinality(Tasks(d)) \in Nat
<1>1. Tasks(d) \subseteq Dirs
  BY TreeAssumption DEF Tasks
<1>2. IsFiniteSet(Tasks(d))
  BY <1>1, FS_Subset, TreeAssumption
<1>3. QED
  BY <1>1, <1>2, FS_CardinalityType

\* Two finite sets without a common element add up.
LEMMA DisjointUnion ==
    ASSUME NEW S, IsFiniteSet(S), NEW T, IsFiniteSet(T), S \cap T = {}
    PROVE  Cardinality(S \cup T) = Cardinality(S) + Cardinality(T)
<1>1. Cardinality(S \cap T) = 0
  BY FS_EmptySet
<1>2. Cardinality(S) \in Nat /\ Cardinality(T) \in Nat
  BY FS_CardinalityType
<1>3. Cardinality(S \cup T) = Cardinality(S) + Cardinality(T) - Cardinality(S \cap T)
  BY FS_Union
<1>4. QED
  BY <1>1, <1>2, <1>3

\* Every step keeps every variable in its type.
LEMMA TypeStep ==
    ASSUME TypeOK, [Next]_vars
    PROVE  TypeOK'
<1> USE TreeAssumption, OptionsAssumption DEF TypeOK, poolVars, walkVars, Busy
<1>1. CASE StreamStep
  <2>1. CASE RootUnreadable  BY <2>1 DEF RootUnreadable
  <2>2. CASE SendRoot  BY <2>2 DEF SendRoot, Record
  <2>3. CASE CancelRoot  BY <2>3 DEF CancelRoot
  <2>4. CASE ListRootFails  BY <2>4 DEF ListRootFails
  <2>5. CASE ListRoot  BY <2>5 DEF ListRoot
  <2>6. CASE Launch  BY <2>6, TasksType DEF Launch
  <2>7. CASE JoinCoordinator  BY <2>7 DEF JoinCoordinator
  <2>8. CASE Return  BY <2>8 DEF Return
  <2>9. QED
    BY <1>1, <2>1, <2>2, <2>3, <2>4, <2>5, <2>6, <2>7, <2>8 DEF StreamStep
<1>2. ASSUME NEW w \in Workers, WorkerStep(w) PROVE TypeOK'
  <2>1. CASE Take(w)  BY <2>1 DEF Take
  <2>2. CASE Quit(w)  BY <2>2 DEF Quit
  <2>3. CASE Begin(w)  BY <2>3 DEF Begin
  <2>4. CASE Emit(w)
    <3>1. PICK m \in MetaOf(task[w]) : sent' = Append(sent, [dir |-> task[w], meta |-> m])
      BY <2>4 DEF Emit
    <3>2. [dir |-> task[w], meta |-> m] \in Record
      BY <2>4 DEF Emit, Record, MetaOf
    <3>3. QED
      BY <2>4, <3>1, <3>2 DEF Emit
  <2>5. CASE CancelEmit(w)  BY <2>5 DEF CancelEmit
  <2>6. CASE ListFails(w)  BY <2>6 DEF ListFails
  <2>7. CASE List(w)  BY <2>7, TasksType DEF List
  <2>8. CASE Offer(w)  BY <2>8 DEF Offer
  <2>9. CASE CancelOffer(w)  BY <2>9, TasksType DEF CancelOffer
  <2>10. CASE Finish(w)  BY <2>10 DEF Finish
  <2>11. QED
    BY <1>2, <2>1, <2>2, <2>3, <2>4, <2>5, <2>6, <2>7, <2>8, <2>9, <2>10 DEF WorkerStep
<1>3. CASE CoordStep
  <2>1. CASE Collect  BY <2>1, TasksType DEF Collect
  <2>2. CASE Dispatch  BY <2>2 DEF Dispatch
  <2>3. CASE CloseTasks  BY <2>3 DEF CloseTasks
  <2>4. QED
    BY <1>3, <2>1, <2>2, <2>3 DEF CoordStep
<1>4. CASE AllTasksDone  BY <1>4 DEF AllTasksDone
<1>5. CASE Receive  BY <1>5 DEF Receive
<1>6. CASE Cancel  BY <1>6 DEF Cancel
<1>7. CASE UNCHANGED vars  BY <1>7 DEF vars
<1>8. QED
  BY <1>1, <1>2, <1>3, <1>4, <1>5, <1>6, <1>7 DEF Next, ScanStep, Stopped

LEMMA TypeInit == Init => TypeOK
<1> SUFFICES ASSUME Init PROVE TypeOK
  OBVIOUS
<1>1. sent \in Seq(Record) /\ rcvd \in 0..Len(sent)
  BY DEF Init
<1>2. /\ pc \in [Workers -> {"off", "idle", "gone"} \cup Busy]
      /\ \A w \in Workers : pc[w] \in Busy => task[w] \in Dirs
  BY DEF Init, Busy
<1>3. task \in [Workers -> Dirs \cup {NoTask}]
  BY DEF Init
<1>4. /\ stream = "start" /\ ctxDone \in BOOLEAN
      /\ coord = "off" /\ waiter = "off" /\ wg = 0
      /\ queue = {} /\ taskChan = {} /\ discovery = {}
      /\ listed = {} /\ lost = {} /\ finished = {}
  BY DEF Init
<1>5. QED
  BY <1>1, <1>2, <1>3, <1>4 DEF TypeOK

\* Stream, the workers, the coordinator and the caller keep every variable in
\* its type, for every tree and every pool; a worker that is busy with a
\* directory always knows which one.
THEOREM TypeCorrect == Spec => []TypeOK
<1>1. Init => TypeOK
  BY TypeInit
<1>2. TypeOK /\ [Next]_vars => TypeOK'
  BY TypeStep
<1>3. QED
  BY <1>1, <1>2, PTL DEF Spec

----------------------------------------------------------------------------
(* The state functions the invariant is written with.                      *)

\* A directory has one parent, and the root has none.
LEMMA OneParent ==
    /\ \A d \in Dirs : Root \notin Tasks(d) /\ Tasks(d) \subseteq Dirs
    /\ \A d, e \in Dirs : \A x : x \in Tasks(d) /\ x \in Tasks(e) => d = e
  BY TreeAssumption DEF Tasks

LEMMA OpenType ==
    ASSUME TypeOK
    PROVE  /\ Discovered \subseteq Dirs
           /\ Root \notin Discovered
           /\ Open \subseteq Discovered /\ IsFiniteSet(Open) /\ Cardinality(Open) \in Nat
<1>1. Discovered \subseteq Dirs /\ Root \notin Discovered
  BY OneParent DEF Discovered, TypeOK
<1>2. Open \subseteq Discovered
  BY DEF Open
<1>3. IsFiniteSet(Open)
  BY <1>1, <1>2, FS_Subset, TreeAssumption
<1>4. QED
  BY <1>1, <1>2, <1>3, FS_CardinalityType

\* Steps that list nothing and finish nothing leave the open tasks alone.
LEMMA SameTasks ==
    ASSUME UNCHANGED <<listed, finished>>
    PROVE  Discovered' = Discovered /\ Open' = Open
  BY DEF Discovered, Open, Tasks

LEMMA SameSent ==
    ASSUME UNCHANGED sent
    PROVE  /\ SentDirs' = SentDirs
           /\ EmittedOnce => EmittedOnce'
           /\ ParentFirst => ParentFirst'
  BY DEF SentDirs, EmittedOnce, ParentFirst

LEMMA MoreListed ==
    ASSUME NEW d, listed' = listed \cup {d}
    PROVE  Discovered' = Discovered \cup Tasks(d)
  BY DEF Discovered, Tasks

\* Sending a directory that was not sent, after its parent, keeps the order.
LEMMA MoreSent ==
    ASSUME TypeOK, EmittedOnce, ParentFirst,
           NEW d \in Dirs, NEW m, sent' = Append(sent, [dir |-> d, meta |-> m]),
           d \notin SentDirs,
           \A p \in Included : d \in Kids[p] => p \in SentDirs
    PROVE  /\ SentDirs' = SentDirs \cup {d}
           /\ EmittedOnce' /\ ParentFirst'
<1>1. /\ DOMAIN sent = 1..Len(sent) /\ Len(sent) \in Nat
      /\ DOMAIN sent' = 1..(Len(sent) + 1)
      /\ \A i \in 1..Len(sent) : sent'[i] = sent[i]
      /\ sent'[Len(sent) + 1].dir = d
  BY DEF TypeOK
<1>2. SentDirs' = SentDirs \cup {d}
  BY <1>1 DEF SentDirs
<1>3. \A i \in 1..Len(sent) : sent'[i].dir # d
  BY <1>1 DEF SentDirs
<1>4. EmittedOnce'
  BY <1>1, <1>3 DEF EmittedOnce
<1>5. ParentFirst'
  <2> SUFFICES ASSUME NEW i \in 1..(Len(sent) + 1), NEW p \in Included, sent'[i].dir \in Kids[p]
               PROVE  \E j \in 1..(i - 1) : sent'[j].dir = p
    BY <1>1 DEF ParentFirst
  <2>1. CASE i \in 1..Len(sent)
    <3>1. PICK j \in 1..(i - 1) : sent[j].dir = p
      BY <1>1, <2>1 DEF ParentFirst
    <3>2. QED
      BY <1>1, <2>1, <3>1
  <2>2. CASE i = Len(sent) + 1
    <3>1. PICK j \in 1..Len(sent) : sent[j].dir = p
      BY <1>1, <2>2 DEF SentDirs
    <3>2. QED
      BY <1>1, <2>2, <3>1
  <2>3. QED
    BY <2>1, <2>2
<1>6. QED
  BY <1>2, <1>4, <1>5

LEMMA EmitSends ==
    ASSUME TypeOK, NEW w \in Workers, Emit(w)
    PROVE  SentDirs' = SentDirs \cup {task[w]}
<1>1. PICK m \in MetaOf(task[w]) : sent' = Append(sent, [dir |-> task[w], meta |-> m])
  BY DEF Emit
<1>2. /\ DOMAIN sent = 1..Len(sent) /\ Len(sent) \in Nat
      /\ DOMAIN sent' = 1..(Len(sent) + 1)
      /\ \A i \in 1..Len(sent) : sent'[i] = sent[i]
      /\ sent'[Len(sent) + 1].dir = task[w]
  BY <1>1 DEF TypeOK
<1>3. QED
  BY <1>2 DEF SentDirs

----------------------------------------------------------------------------
(* The workers keep the invariant, action by action.                       *)

LEMMA TakeStep ==
    ASSUME IInv, TypeOK', NEW w \in Workers, Take(w)
    PROVE  IInv'
<1> USE DEF IInv, Take, walkVars, Busy, Shown, Read
<1>1. Discovered' = Discovered /\ Open' = Open /\ SentDirs' = SentDirs
  BY SameTasks, SameSent
<1>2. Phases'
  BY <1>1 DEF Phases, Returned, TypeOK
<1>3. Places'
  BY <1>1 DEF Places, TypeOK, Tasks
<1>4. Disjoint'
  BY <1>1 DEF Disjoint, TypeOK, Tasks
<1>5. Progress'
  BY <1>1 DEF Progress, Places, TypeOK
<1>6. Endings' /\ WaitGroupExact'
  BY <1>1 DEF Endings, CompleteWalk, Whole, WaitGroupExact
<1>7. QED
  BY <1>2, <1>3, <1>4, <1>5, <1>6, SameSent

LEMMA FinishStep ==
    ASSUME IInv, TypeOK', NEW w \in Workers, Finish(w)
    PROVE  IInv'
<1> USE DEF IInv, Finish, walkVars, Busy, Shown, Read
<1> DEFINE d == task[w]
<1>1. Discovered' = Discovered /\ Open' = Open \ {d} /\ SentDirs' = SentDirs
  BY SameSent DEF Discovered, Open, Tasks
<1>2. Phases'
  BY <1>1 DEF Phases, Returned, TypeOK
<1>3. Places'
  BY <1>1, OpenType DEF Places, Disjoint, TypeOK, Tasks
<1>4. Disjoint'
  BY <1>1 DEF Disjoint, TypeOK, Tasks
<1>5. Progress'
  BY <1>1 DEF Progress, Places, TypeOK
<1>6. Endings'
  BY <1>1 DEF Endings, Phases, CompleteWalk, Whole, Returned
<1>7. WaitGroupExact'
  BY <1>1, OpenType, FS_RemoveElement DEF WaitGroupExact, Places, Phases
<1>8. QED
  BY <1>2, <1>3, <1>4, <1>5, <1>6, <1>7, SameSent

LEMMA ListStep ==
    ASSUME IInv, TypeOK', NEW w \in Workers, List(w)
    PROVE  IInv'
<1> USE DEF IInv, List, walkVars, Busy, Shown, Read
<1> DEFINE d == task[w]
<1>1. d \in Dirs /\ d \in Open /\ d \notin listed /\ stream \in {"running", "joining"}
  BY DEF TypeOK, Places, Progress, Phases, Returned
<1>2. Discovered' = Discovered \cup Tasks(d) /\ SentDirs' = SentDirs
  BY MoreListed, SameSent
<1>3. Tasks(d) \cap Discovered = {}
  BY <1>1, OneParent DEF Discovered, TypeOK
<1>4. Open' = Open \cup Tasks(d)
  BY <1>2, <1>3 DEF Open, Places
<1>5. Phases'
  BY <1>1, <1>2 DEF Phases, Returned, TypeOK
<1>6. Places'
  BY <1>1, <1>2, <1>4 DEF Places, TypeOK, Tasks
<1>7. Disjoint'
  BY <1>1, <1>3, OpenType DEF Disjoint, Places, TypeOK, Tasks
<1>8. Progress'
  BY <1>1, <1>2 DEF Progress, Disjoint, TypeOK
<1>9. Endings'
  <2>1. waiter # "gone" /\ stream # "nil"
    BY <1>1 DEF Endings
  <2>2. QED
    BY <2>1 DEF Endings, CompleteWalk, Whole
<1>10. WaitGroupExact'
  <2>1. Open \cap Tasks(d) = {}
    BY <1>3, OpenType
  <2>2. Cardinality(Open') = Cardinality(Open) + Cardinality(Tasks(d))
    BY <1>1, <1>4, <2>1, OpenType, TasksType, DisjointUnion
  <2>3. QED
    BY <1>1, <2>2 DEF WaitGroupExact
<1>11. QED
  BY <1>5, <1>6, <1>7, <1>8, <1>9, <1>10, SameSent

LEMMA CancelOfferStep ==
    ASSUME IInv, TypeOK', NEW w \in Workers, CancelOffer(w)
    PROVE  IInv'
<1> USE DEF IInv, CancelOffer, walkVars, Busy, Shown, Read
<1> DEFINE d == task[w]
<1>1. d \in Dirs /\ Tasks(d) \subseteq Open /\ stream \in {"running", "joining"} /\ ctxDone
  BY DEF TypeOK, Places, Phases, Returned
<1>2. Discovered' = Discovered /\ Open' = Open \ Tasks(d) /\ SentDirs' = SentDirs
  BY SameSent DEF Discovered, Open, Tasks
<1>3. Phases'
  BY <1>1, <1>2 DEF Phases, Returned, TypeOK
<1>4. Places'
  <2>1. \A p \in discovery : Tasks(p) \cap Tasks(d) = {}
    BY <1>1, OneParent DEF TypeOK, Disjoint
  <2>2. \A v \in Workers \ {w} : pc[v] = "offer" => Tasks(task[v]) \cap Tasks(d) = {}
    BY <1>1, OneParent DEF TypeOK, Disjoint
  <2>3. finished' \subseteq Discovered'
    BY <1>1, <1>2 DEF Places, Open
  <2>4. QED
    BY <1>1, <1>2, <2>1, <2>2, <2>3 DEF Places, Disjoint, TypeOK, Tasks
<1>5. Disjoint'
  BY <1>2 DEF Disjoint, TypeOK, Tasks
<1>6. Progress'
  BY <1>1, <1>2 DEF Progress, TypeOK
<1>7. Endings'
  BY <1>1, <1>2 DEF Endings, CompleteWalk, Whole
<1>8. WaitGroupExact'
  <2>1. Cardinality(Open) = Cardinality(Open') + Cardinality(Tasks(d))
    <3>1. Open = Open' \cup Tasks(d) /\ Open' \cap Tasks(d) = {} /\ Open' \subseteq Open
      BY <1>1, <1>2
    <3>2. IsFiniteSet(Open') /\ IsFiniteSet(Tasks(d))
      BY <1>1, <3>1, OpenType, TasksType, FS_Subset
    <3>3. QED
      BY <3>1, <3>2, DisjointUnion
  <2>2. Cardinality(Open') \in Nat /\ Cardinality(Tasks(d)) \in Nat
    BY <1>1, <1>2, OpenType, TasksType, FS_Subset, FS_CardinalityType
  <2>3. QED
    BY <1>1, <2>1, <2>2 DEF WaitGroupExact
<1>9. QED
  BY <1>3, <1>4, <1>5, <1>6, <1>7, <1>8, SameSent

LEMMA EmitStep ==
    ASSUME IInv, TypeOK', NEW w \in Workers, Emit(w)
    PROVE  IInv'
<1> USE DEF IInv, Emit, walkVars, Busy, Shown, Read
<1> DEFINE d == task[w]
<1>1. d \in Dirs /\ d \in Open /\ stream \in {"running", "joining"}
  BY DEF TypeOK, Places, Phases, Returned
<1>2. d \notin SentDirs
  BY <1>1, OpenType DEF Progress, Disjoint, Open, TypeOK
<1>3. ASSUME NEW p \in Included, d \in Kids[p] PROVE p \in SentDirs
  <2>1. PICK q \in listed : d \in Tasks(q)
    BY <1>1 DEF Open, Discovered
  <2>2. p = q
    BY <1>3, <2>1, TreeAssumption, OptionsAssumption DEF Tasks, TypeOK
  <2>3. QED
    BY <2>1, <2>2 DEF Progress
<1>4. SentDirs' = SentDirs \cup {d} /\ EmittedOnce' /\ ParentFirst'
  <2>1. PICK m \in MetaOf(d) : sent' = Append(sent, [dir |-> d, meta |-> m])
    OBVIOUS
  <2>2. QED
    BY <1>1, <1>2, <1>3, <2>1, MoreSent
<1>5. Discovered' = Discovered /\ Open' = Open
  BY SameTasks
<1>6. Phases'
  BY <1>1, <1>5 DEF Phases, Returned, TypeOK
<1>7. Places' /\ Disjoint'
  BY <1>5 DEF Places, Disjoint, TypeOK, Tasks
<1>8. Progress'
  BY <1>1, <1>2, <1>4, <1>5 DEF Progress, TypeOK
<1>9. Endings' /\ WaitGroupExact'
  BY <1>1, <1>4, <1>5 DEF Endings, CompleteWalk, Whole, WaitGroupExact
<1>10. QED
  BY <1>4, <1>6, <1>7, <1>8, <1>9

LEMMA QuitStep ==
    ASSUME IInv, TypeOK', NEW w \in Workers, Quit(w)
    PROVE  IInv'
<1> USE DEF IInv, Quit, poolVars, walkVars, Busy, Shown, Read
<1>1. Discovered' = Discovered /\ Open' = Open /\ SentDirs' = SentDirs
  BY SameTasks, SameSent
<1>2. Phases'
  BY <1>1 DEF Phases, Returned, TypeOK
<1>3. Places'
  BY <1>1 DEF Places, TypeOK, Tasks
<1>4. Disjoint'
  BY <1>1 DEF Disjoint, TypeOK, Tasks
<1>5. Progress'
  BY <1>1 DEF Progress, TypeOK
<1>6. Endings' /\ WaitGroupExact'
  BY <1>1 DEF Endings, CompleteWalk, Whole, WaitGroupExact
<1>7. QED
  BY <1>2, <1>3, <1>4, <1>5, <1>6, SameSent

LEMMA BeginStep ==
    ASSUME IInv, TypeOK', NEW w \in Workers, Begin(w)
    PROVE  IInv'
<1> USE DEF IInv, Begin, poolVars, walkVars, Busy, Shown, Read
<1>1. Discovered' = Discovered /\ Open' = Open /\ SentDirs' = SentDirs
  BY SameTasks, SameSent
<1>2. Phases'
  BY <1>1 DEF Phases, Returned, TypeOK
<1>3. Places'
  BY <1>1 DEF Places, TypeOK, Tasks
<1>4. Disjoint'
  BY <1>1 DEF Disjoint, TypeOK, Tasks
<1>5. Progress'
  BY <1>1, OpenType DEF Progress, Places, Disjoint, Open, TypeOK
<1>6. Endings' /\ WaitGroupExact'
  BY <1>1 DEF Endings, CompleteWalk, Whole, WaitGroupExact
<1>7. QED
  BY <1>2, <1>3, <1>4, <1>5, <1>6, SameSent

LEMMA CancelEmitStep ==
    ASSUME IInv, TypeOK', NEW w \in Workers, CancelEmit(w)
    PROVE  IInv'
<1> USE DEF IInv, CancelEmit, poolVars, walkVars, Busy, Shown, Read
<1>1. Discovered' = Discovered /\ Open' = Open /\ SentDirs' = SentDirs
  BY SameTasks, SameSent
<1>2. Phases'
  BY <1>1 DEF Phases, Returned, TypeOK
<1>3. Places'
  BY <1>1 DEF Places, TypeOK, Tasks
<1>4. Disjoint'
  BY <1>1 DEF Disjoint, TypeOK, Tasks
<1>5. Progress'
  BY <1>1 DEF Progress, TypeOK
<1>6. Endings' /\ WaitGroupExact'
  BY <1>1 DEF Endings, CompleteWalk, Whole, WaitGroupExact
<1>7. QED
  BY <1>2, <1>3, <1>4, <1>5, <1>6, SameSent

LEMMA ListFailsStep ==
    ASSUME IInv, TypeOK', NEW w \in Workers, ListFails(w)
    PROVE  IInv'
<1> USE DEF IInv, ListFails, poolVars, walkVars, Busy, Shown, Read
<1>1. Discovered' = Discovered /\ Open' = Open /\ SentDirs' = SentDirs
  BY SameTasks, SameSent
<1>2. Phases'
  BY <1>1 DEF Phases, Returned, TypeOK
<1>3. Places'
  BY <1>1 DEF Places, TypeOK, Tasks
<1>4. Disjoint'
  BY <1>1 DEF Disjoint, TypeOK, Tasks
<1>5. ~ctxDone => lost' \subseteq Flaky \cup Late
  BY DEF Progress, MayNotList, LimiterRefuses
<1>6. Progress'
  BY <1>1, <1>5 DEF Progress, Disjoint, TypeOK
<1>7. stream # "nil"
  BY DEF Phases, Returned
<1>8. Endings' /\ WaitGroupExact'
  BY <1>1, <1>7 DEF Endings, CompleteWalk, WaitGroupExact
<1>9. QED
  BY <1>2, <1>3, <1>4, <1>6, <1>8, SameSent

LEMMA OfferStep ==
    ASSUME IInv, TypeOK', NEW w \in Workers, Offer(w)
    PROVE  IInv'
<1> USE DEF IInv, Offer, poolVars, walkVars, Busy, Shown, Read
<1>1. Discovered' = Discovered /\ Open' = Open /\ SentDirs' = SentDirs
  BY SameTasks, SameSent
<1>2. Phases'
  BY <1>1 DEF Phases, Returned, TypeOK
<1>3. Places'
  BY <1>1 DEF Places, TypeOK, Tasks
<1>4. Disjoint'
  BY <1>1 DEF Disjoint, TypeOK, Tasks
<1>5. Progress'
  BY <1>1 DEF Progress, Places, TypeOK
<1>6. Endings' /\ WaitGroupExact'
  BY <1>1 DEF Endings, CompleteWalk, Whole, WaitGroupExact
<1>7. QED
  BY <1>2, <1>3, <1>4, <1>5, <1>6, SameSent

----------------------------------------------------------------------------
(* The coordinator, the waiting goroutine and the caller.                  *)

LEMMA CollectStep ==
    ASSUME IInv, TypeOK', Collect
    PROVE  IInv'
<1> USE DEF IInv, Collect, poolVars, walkVars, Busy, Shown, Read
<1>1. Discovered' = Discovered /\ Open' = Open /\ SentDirs' = SentDirs
  BY SameTasks, SameSent
<1>2. Phases'
  BY <1>1 DEF Phases, Returned, TypeOK
<1>3. Places'
  BY <1>1 DEF Places, TypeOK, Tasks
<1>4. Disjoint'
  <2>1. PICK d \in discovery : queue' = queue \cup Tasks(d) /\ discovery' = discovery \ {d}
    OBVIOUS
  <2>2. /\ \A p \in discovery' : Tasks(p) \cap Tasks(d) = {}
        /\ \A v \in Workers : pc[v] = "offer" => Tasks(task[v]) \cap Tasks(d) = {}
    BY <2>1, OneParent DEF Disjoint, TypeOK
  <2>3. QED
    BY <1>1, <2>1, <2>2 DEF Disjoint, TypeOK, Tasks
<1>5. Progress'
  BY <1>1 DEF Progress, TypeOK
<1>6. Endings' /\ WaitGroupExact'
  BY <1>1 DEF Endings, CompleteWalk, Whole, WaitGroupExact
<1>7. QED
  BY <1>2, <1>3, <1>4, <1>5, <1>6, SameSent

LEMMA DispatchStep ==
    ASSUME IInv, TypeOK', Dispatch
    PROVE  IInv'
<1> USE DEF IInv, Dispatch, poolVars, walkVars, Busy, Shown, Read
<1>1. Discovered' = Discovered /\ Open' = Open /\ SentDirs' = SentDirs
  BY SameTasks, SameSent
<1>2. Phases'
  BY <1>1 DEF Phases, Returned, TypeOK
<1>3. Places'
  BY <1>1 DEF Places, TypeOK, Tasks
<1>4. Disjoint'
  BY <1>1 DEF Disjoint, TypeOK, Tasks
<1>5. Progress'
  BY <1>1 DEF Progress, TypeOK
<1>6. Endings' /\ WaitGroupExact'
  BY <1>1 DEF Endings, CompleteWalk, Whole, WaitGroupExact
<1>7. QED
  BY <1>2, <1>3, <1>4, <1>5, <1>6, SameSent

LEMMA CloseTasksStep ==
    ASSUME IInv, TypeOK', CloseTasks
    PROVE  IInv'
<1> USE DEF IInv, CloseTasks, poolVars, walkVars, Busy, Shown, Read
<1>1. Discovered' = Discovered /\ Open' = Open /\ SentDirs' = SentDirs
  BY SameTasks, SameSent
<1>2. Phases'
  BY <1>1 DEF Phases, Returned, TypeOK
<1>3. Places'
  BY <1>1 DEF Places, TypeOK, Tasks
<1>4. Disjoint'
  BY <1>1 DEF Disjoint, TypeOK, Tasks
<1>5. Progress'
  BY <1>1 DEF Progress, TypeOK
<1>6. Endings' /\ WaitGroupExact'
  BY <1>1 DEF Endings, CompleteWalk, Whole, WaitGroupExact
<1>7. QED
  BY <1>2, <1>3, <1>4, <1>5, <1>6, SameSent

LEMMA AllTasksDoneStep ==
    ASSUME IInv, TypeOK', AllTasksDone
    PROVE  IInv'
<1> USE DEF IInv, AllTasksDone, walkVars
<1>1. Discovered' = Discovered /\ Open' = Open /\ SentDirs' = SentDirs
  BY SameTasks, SameSent
<1>2. Open = {}
  BY OpenType, FS_EmptySet DEF WaitGroupExact, Phases
<1>3. Phases'
  BY <1>1 DEF Phases, Returned
<1>4. Places' /\ Disjoint' /\ Progress'
  BY <1>1 DEF Places, Disjoint, Progress, Tasks
<1>5. Endings' /\ WaitGroupExact'
  BY <1>1, <1>2 DEF Endings, CompleteWalk, Whole, WaitGroupExact
<1>6. QED
  BY <1>3, <1>4, <1>5, SameSent

\* The caller may receive, cancel, or do both at once: nothing of the pool's
\* accounting depends on it, and a context once done stays done.
LEMMA CallerStep ==
    ASSUME IInv, TypeOK', UNCHANGED <<stream, poolVars, sent, walkVars>>, ctxDone => ctxDone'
    PROVE  IInv'
<1> USE DEF IInv, poolVars, walkVars, Busy, Shown, Read
<1>1. Discovered' = Discovered /\ Open' = Open /\ SentDirs' = SentDirs
  BY SameTasks, SameSent
<1>2. Phases'
  BY <1>1 DEF Phases, Returned, TypeOK
<1>3. Places'
  BY <1>1 DEF Places, TypeOK, Tasks
<1>4. Disjoint'
  BY <1>1 DEF Disjoint, TypeOK, Tasks
<1>5. Progress'
  BY <1>1 DEF Progress, TypeOK
<1>6. Endings' /\ WaitGroupExact'
  BY <1>1 DEF Endings, CompleteWalk, Whole, WaitGroupExact
<1>7. QED
  BY <1>2, <1>3, <1>4, <1>5, <1>6, SameSent

----------------------------------------------------------------------------
(* Stream itself.                                                          *)

\* Steps that only move Stream between two of its phases.
LEMMA StreamMoves ==
    ASSUME IInv, TypeOK',
           RootUnreadable \/ CancelRoot \/ ListRootFails \/ JoinCoordinator \/ Return
    PROVE  IInv'
<1> USE DEF IInv, poolVars, walkVars
<1>1. UNCHANGED <<listed, finished, sent, wg, queue, taskChan, discovery, pc, task,
                  coord, waiter, ctxDone>>
  BY DEF RootUnreadable, CancelRoot, ListRootFails, JoinCoordinator, Return
<1>2. Discovered' = Discovered /\ Open' = Open /\ SentDirs' = SentDirs
  BY <1>1, SameTasks, SameSent
<1>3. lost' = lost \/ ListRootFails
  BY DEF RootUnreadable, CancelRoot, JoinCoordinator, Return
<1>4. Phases'
  BY <1>1, <1>2, <1>3
  DEF Phases, Returned, TypeOK, RootUnreadable, CancelRoot, ListRootFails, JoinCoordinator, Return
<1>5. Places' /\ Disjoint'
  BY <1>1, <1>2 DEF Places, Disjoint, Tasks
<1>6. Progress'
  BY <1>1, <1>2, <1>3 DEF Progress, Phases, ListRootFails, MayNotList, LimiterRefuses, Busy
<1>7. stream' = "nil" => CompleteWalk'
  <2> SUFFICES ASSUME stream' = "nil" PROVE CompleteWalk'
    OBVIOUS
  <2>1. Return /\ ~ctxDone /\ stream = "joining" /\ lost' = lost
    BY <1>3 DEF RootUnreadable, CancelRoot, ListRootFails, JoinCoordinator, Return
  <2>2. Open = {} /\ Root \in listed
    BY <2>1 DEF Endings, Phases
  <2>3. Discovered \subseteq finished
    BY <2>2 DEF Open
  <2>4. QED
    BY <1>1, <1>2, <2>1, <2>2, <2>3 DEF CompleteWalk, Whole, Progress
<1>8. Endings' /\ WaitGroupExact'
  <2>1. stream # "launch" /\ stream' # "launch"
    BY DEF RootUnreadable, CancelRoot, ListRootFails, JoinCoordinator, Return
  <2>2. QED
    BY <1>1, <1>2, <1>7, <2>1 DEF Endings, CompleteWalk, Whole, WaitGroupExact
<1>9. QED
  BY <1>1, <1>4, <1>5, <1>6, <1>8, SameSent

LEMMA SendRootStep ==
    ASSUME IInv, TypeOK', SendRoot
    PROVE  IInv'
<1> USE DEF IInv, SendRoot, poolVars, walkVars
<1>1. SentDirs = {}
  BY DEF Phases, SentDirs
<1>2. SentDirs' = {Root} /\ EmittedOnce' /\ ParentFirst'
  BY <1>1, MoreSent, TreeAssumption, OptionsAssumption
<1>3. Discovered' = Discovered /\ Open' = Open
  BY SameTasks
<1>4. Phases' /\ Places' /\ Disjoint'
  BY <1>2, <1>3 DEF Phases, Places, Disjoint, Returned, Tasks
<1>5. Progress' /\ Endings' /\ WaitGroupExact'
  BY <1>1, <1>2, <1>3 DEF Progress, Endings, CompleteWalk, Whole, WaitGroupExact, Phases, Busy
<1>6. QED
  BY <1>2, <1>4, <1>5

LEMMA ListRootStep ==
    ASSUME IInv, TypeOK', ListRoot
    PROVE  IInv'
<1> USE DEF IInv, ListRoot, poolVars, walkVars
<1>1. listed = {} /\ finished = {} /\ SentDirs' = SentDirs /\ SentDirs = {Root}
  BY SameSent DEF Phases
<1>2. Phases'
  BY <1>1 DEF Phases, Returned
<1>3. Places' /\ Disjoint' /\ Endings' /\ WaitGroupExact'
  BY <1>1 DEF Places, Disjoint, Endings, CompleteWalk, Whole, WaitGroupExact, Phases, Busy
<1>4. Progress'
  BY <1>1 DEF Progress, Phases, Busy
<1>5. QED
  BY <1>2, <1>3, <1>4, SameSent

LEMMA LaunchStep ==
    ASSUME IInv, TypeOK', Launch
    PROVE  IInv'
<1> USE DEF IInv, Launch, walkVars
<1>1. /\ listed = {Root} /\ finished = {} /\ lost = {}
      /\ SentDirs = {Root} /\ SentDirs' = SentDirs
  BY SameSent DEF Phases
<1>2. Discovered = Tasks(Root) /\ Open = Tasks(Root) /\ Discovered' = Discovered /\ Open' = Open
  BY <1>1, SameTasks DEF Discovered, Open
<1>3. CASE Tasks(Root) = {}
  <2>1. Phases' /\ Places' /\ Disjoint'
    BY <1>1, <1>2, <1>3 DEF Phases, Places, Disjoint, poolVars, Returned, Busy
  <2>2. Progress' /\ Endings' /\ WaitGroupExact'
    BY <1>1, <1>2, <1>3, FS_EmptySet
    DEF Progress, Endings, CompleteWalk, Whole, WaitGroupExact, Phases, poolVars, Busy
  <2>3. QED
    BY <2>1, <2>2, SameSent
<1>4. CASE Tasks(Root) # {}
  <2>1. \A w \in Workers : pc'[w] = "idle"
    BY <1>4
  <2>2. Phases' /\ Places' /\ Disjoint'
    BY <1>1, <1>2, <1>4, <2>1 DEF Phases, Places, Disjoint, Returned, Busy
  <2>3. Progress' /\ Endings' /\ WaitGroupExact'
    BY <1>1, <1>2, <1>4, <2>1 DEF Progress, Endings, CompleteWalk, Whole, WaitGroupExact, Phases, Busy
  <2>4. QED
    BY <2>2, <2>3, SameSent
<1>5. QED
  BY <1>3, <1>4

----------------------------------------------------------------------------
(* The invariant, and what follows from it.                                *)

LEMMA InvariantInit == Init => IInv
<1> SUFFICES ASSUME Init PROVE IInv
  OBVIOUS
<1>1. Discovered = {} /\ Open = {} /\ SentDirs = {}
  BY DEF Init, Discovered, Open, SentDirs
<1>2. TypeOK
  BY TypeInit
<1>3. Phases /\ Places /\ Disjoint
  BY <1>1 DEF Init, Phases, Places, Disjoint, Returned, Busy
<1>4. Progress /\ Endings /\ WaitGroupExact
  BY <1>1, FS_EmptySet DEF Init, Progress, Endings, CompleteWalk, Whole, WaitGroupExact, Busy
<1>5. EmittedOnce /\ ParentFirst
  BY DEF Init, EmittedOnce, ParentFirst
<1>6. QED
  BY <1>2, <1>3, <1>4, <1>5 DEF IInv

LEMMA InvariantStep == IInv /\ [Next]_vars => IInv'
<1> SUFFICES ASSUME IInv, [Next]_vars PROVE IInv'
  OBVIOUS
<1>1. TypeOK'
  BY TypeStep DEF IInv
<1>2. CASE StreamStep
  BY <1>1, <1>2, StreamMoves, SendRootStep, ListRootStep, LaunchStep DEF StreamStep
<1>3. ASSUME NEW w \in Workers, WorkerStep(w) PROVE IInv'
  BY <1>1, <1>3, TakeStep, QuitStep, BeginStep, EmitStep, CancelEmitStep,
     ListFailsStep, ListStep, OfferStep, CancelOfferStep, FinishStep DEF WorkerStep
<1>4. CASE CoordStep
  BY <1>1, <1>4, CollectStep, DispatchStep, CloseTasksStep DEF CoordStep
<1>5. CASE AllTasksDone
  BY <1>1, <1>5, AllTasksDoneStep
<1>6. CASE Receive \/ Cancel
  <2>1. UNCHANGED <<stream, poolVars, sent, walkVars>> /\ (ctxDone => ctxDone')
    BY <1>6 DEF Receive, Cancel
  <2>2. QED
    BY <1>1, <2>1, CallerStep
<1>7. CASE UNCHANGED vars
  <2>1. Discovered' = Discovered /\ Open' = Open /\ SentDirs' = SentDirs
    BY <1>7, SameTasks, SameSent DEF vars, walkVars
  <2>2. /\ Phases' /\ Places' /\ Disjoint' /\ Progress' /\ Endings' /\ WaitGroupExact'
    BY <1>7, <2>1 DEF vars, poolVars, walkVars, IInv, Phases, Places, Disjoint, Progress, Endings,
                      CompleteWalk, Whole, WaitGroupExact, Returned, Tasks
  <2>3. QED
    BY <1>1, <1>7, <2>2, SameSent DEF IInv, vars
<1>8. QED
  BY <1>2, <1>3, <1>4, <1>5, <1>6, <1>7 DEF Next, ScanStep, Stopped

THEOREM Invariant == Spec => []IInv
<1>1. QED
  BY InvariantInit, InvariantStep, PTL DEF Spec

\* taskWG is exact in every interleaving, cancelled or not: the counter equals
\* the number of tasks added and not yet done, so it never panics below zero.
THEOREM WaitGroupIsExact == Spec => []WaitGroupExact
<1>1. IInv => WaitGroupExact
  BY DEF IInv
<1>2. QED
  BY <1>1, Invariant, PTL

\* allTasksDone is never closed while a task is queued, in a channel, or held
\* by a worker.
THEOREM DoneIsDone == Spec => []DoneMeansDone
<1>1. IInv => DoneMeansDone
  <2> SUFFICES ASSUME IInv, waiter = "gone" PROVE DoneMeansDone
    BY DEF DoneMeansDone
  <2>1. Open = {}
    BY DEF IInv, Endings
  <2>2. queue = {} /\ taskChan = {}
    BY <2>1 DEF IInv, Places
  <2>3. \A w \in Workers : pc[w] \in {"idle", "gone"}
    BY <2>1 DEF IInv, Places, Phases, TypeOK, Busy
  <2>4. discovery = {}
    BY <2>1 DEF IInv, Places
  <2>5. QED
    BY <2>2, <2>3, <2>4 DEF DoneMeansDone
<1>2. QED
  BY <1>1, Invariant, PTL

\* However many workers race, no directory is emitted twice, and none before
\* its parent.
THEOREM EmissionOrder == Spec => [](EmittedOnce /\ ParentFirst)
<1>1. IInv => EmittedOnce /\ ParentFirst
  BY DEF IInv
<1>2. QED
  BY <1>1, Invariant, PTL

\* A nil from Stream means that nothing was left out but what could not be
\* read, or was refused by the limiter for the sake of the deadline.
THEOREM NilIsComplete == Spec => []CompleteWalk
<1>1. IInv => CompleteWalk
  BY DEF IInv, Endings
<1>2. QED
  BY <1>1, Invariant, PTL

\* Both together: the walk ends when, and only when, its tasks are done.
THEOREM WaitGroupIsSound == Spec => []WaitGroupSound
BY WaitGroupIsExact, DoneIsDone, PTL DEF WaitGroupSound

\* outChan is closed only when every goroutine that could send on it is gone.
THEOREM ClosedIsQuiet == Spec => []QuietAfterClose
<1>1. IInv => QuietAfterClose
  BY DEF IInv, Phases, QuietAfterClose
<1>2. QED
  BY <1>1, Invariant, PTL

----------------------------------------------------------------------------
(* Refinement: the concurrent walk implements the abstract one.            *)

LEMMA WalkInit == Init => Walk!Init
<1> SUFFICES ASSUME Init PROVE Walk!Init
  OBVIOUS
<1>1. Discovered = {} /\ SentDirs = {}
  BY DEF Init, Discovered, SentDirs
<1>2. QED
  BY <1>1 DEF Init, Walk!Init, Todo, Outcome, Returned

\* Before its listing a directory held by a worker is still owed a visit.
LEMMA HeldIsTodo ==
    ASSUME IInv, NEW w \in Workers, pc[w] \in {"emit", "list"}
    PROVE  /\ task[w] \in Dirs /\ task[w] \in Open /\ task[w] \in Todo /\ task[w] # Root
           /\ stream \in {"running", "joining"} /\ Outcome = "walking"
<1> USE DEF IInv, Busy
<1>1. task[w] \in Dirs /\ task[w] \in Open /\ task[w] \notin listed \cup lost
  BY DEF TypeOK, Places, Progress
<1>2. stream \in {"running", "joining"}
  BY DEF TypeOK, Phases, Returned
<1>3. QED
  BY <1>1, <1>2, OpenType DEF Todo, Open, Outcome, Returned

\* A record sent on outChan is a visit.
LEMMA EmitVisits ==
    ASSUME IInv, NEW w \in Workers, Emit(w)
    PROVE  Walk!Next
<1> DEFINE d == task[w]
<1>1. pc[w] = "emit" /\ d \in Todo /\ d \in Open /\ d \in Dirs
  BY HeldIsTodo DEF Emit
<1>2. d \notin SentDirs
  BY <1>1, OpenType DEF IInv, Progress, Disjoint, Open, TypeOK, Busy, Shown
<1>3. d \in Included
  BY <1>1 DEF IInv, Progress
<1>4. SentDirs' = SentDirs \cup {d}
  BY EmitSends DEF IInv
<1>5. Todo' = Todo /\ UNCHANGED <<ctxDone, stream>>
  BY SameTasks DEF Todo, Emit, walkVars
<1>6. Walk!Visit(d)
  BY <1>1, <1>2, <1>3, <1>4, <1>5, HeldIsTodo DEF Walk!Visit, Outcome, Returned
<1>7. QED
  BY <1>1, <1>6 DEF Walk!Next

\* A listing opens the directory: its children become due.
LEMMA ListOpens ==
    ASSUME IInv, NEW w \in Workers, List(w)
    PROVE  Walk!Next
<1> DEFINE d == task[w]
<1>1. pc[w] = "list" /\ d \in Todo /\ d \in Open /\ d \in Dirs /\ d # Root
  BY HeldIsTodo DEF List
<1>2. listed \cup lost \subseteq {Root} \cup Discovered
  BY DEF IInv, Progress, Places, Open, Busy, Read
<1>3. Tasks(d) \cap Discovered = {} /\ Root \notin Tasks(d)
  BY <1>1, OneParent DEF IInv, TypeOK, Discovered, Todo
<1>4. Discovered' = Discovered \cup Tasks(d) /\ listed' = listed \cup {d} /\ lost' = lost
  BY MoreListed DEF List
<1>5. d \notin Tasks(d)
  BY <1>1, <1>3 DEF Open
<1>6. Todo' = (Todo \ {d}) \cup Tasks(d)
  BY <1>1, <1>2, <1>3, <1>4, <1>5 DEF Todo
<1>7. SentDirs' = SentDirs /\ UNCHANGED <<ctxDone, stream>>
  BY SameSent DEF List
<1>8. Walk!Open(d)
  BY <1>1, <1>6, <1>7, HeldIsTodo DEF Walk!Open, IInv, Progress, Outcome, Returned
<1>9. QED
  BY <1>1, <1>8 DEF Walk!Next

\* A failed listing skips the directory, below the root only.
LEMMA ListFailsSkips ==
    ASSUME IInv, NEW w \in Workers, ListFails(w)
    PROVE  Walk!Next
<1> DEFINE d == task[w]
<1>1. pc[w] = "list" /\ d \in Todo /\ d \in Dirs /\ d # Root
  BY HeldIsTodo DEF ListFails
<1>2. Todo' = Todo \ {d}
  BY SameTasks DEF Todo, ListFails
<1>3. SentDirs' = SentDirs /\ UNCHANGED <<ctxDone, stream>>
  BY SameSent DEF ListFails
<1>4. Walk!Skip(d)
  BY <1>1, <1>2, <1>3, HeldIsTodo
  DEF Walk!Skip, IInv, Progress, Outcome, Returned, ListFails, MayNotList, LimiterRefuses
<1>5. QED
  BY <1>1, <1>4 DEF Walk!Next

\* Until Stream has listed the root, the root is all that is owed.
LEMMA StreamWalks ==
    ASSUME IInv, IInv', StreamStep
    PROVE  Walk!Next \/ UNCHANGED Walk!vars
<1> USE DEF poolVars, walkVars
<1>1. stream \in {"start", "list"} => Todo = {Root} /\ Discovered = {}
  BY DEF IInv, Phases, Todo, Discovered
<1>2. CASE RootUnreadable \/ CancelRoot \/ ListRootFails
  <2>1. Todo' \in {Todo, Todo \ {Root}} /\ SentDirs' = SentDirs
    BY <1>2, SameTasks, SameSent DEF Todo, RootUnreadable, CancelRoot, ListRootFails
  <2>2. Walk!Fail
    BY <1>1, <1>2, <2>1
    DEF Walk!Fail, Outcome, Returned, RootUnreadable, CancelRoot, ListRootFails, MayNotList,
        LimiterRefuses
  <2>3. QED
    BY <2>2 DEF Walk!Next
<1>3. CASE SendRoot
  <2>1. SentDirs = {} /\ SentDirs' = {Root}
    BY <1>3 DEF SendRoot, IInv, Phases, SentDirs
  <2>2. Todo' = Todo
    BY <1>3, SameTasks DEF Todo, SendRoot
  <2>3. Walk!Visit(Root)
    BY <1>1, <1>3, <2>1, <2>2, OptionsAssumption DEF Walk!Visit, SendRoot, Outcome, Returned
  <2>4. QED
    BY <2>3, TreeAssumption DEF Walk!Next
<1>4. CASE ListRoot
  <2>1. Discovered' = Tasks(Root) /\ listed' = {Root} /\ lost' = {} /\ SentDirs' = SentDirs
    BY <1>4, <1>1, MoreListed, SameSent DEF ListRoot, IInv, Phases
  <2>2. Todo' = (Todo \ {Root}) \cup Tasks(Root)
    BY <1>1, <1>4, <2>1, OneParent, TreeAssumption DEF Todo, ListRoot
  <2>3. Root \in SentDirs
    BY <1>4 DEF ListRoot, IInv, Phases
  <2>4. Walk!Open(Root)
    BY <1>1, <1>4, <2>1, <2>2, <2>3, TreeAssumption DEF Walk!Open, ListRoot, Outcome, Returned
  <2>5. QED
    BY <2>4, TreeAssumption DEF Walk!Next
<1>5. CASE Launch \/ JoinCoordinator \/ Return
  <2>1. Todo' = Todo /\ SentDirs' = SentDirs /\ ctxDone' = ctxDone /\ Outcome = "walking"
    BY <1>5, SameTasks, SameSent DEF Todo, Launch, JoinCoordinator, Return, Outcome, Returned
  <2>2. CASE stream' = "nil"
    <3>1. Discovered' = Discovered /\ listed' = listed /\ lost' = lost
      BY <1>5, SameTasks DEF Launch, JoinCoordinator, Return
    <3>2. Todo = {}
      BY <2>2, <3>1 DEF IInv, Endings, CompleteWalk, Whole, Todo
    <3>3. Walk!Complete
      BY <2>1, <2>2, <3>2 DEF Walk!Complete, Outcome
    <3>4. QED
      BY <3>3 DEF Walk!Next
  <2>3. CASE stream' = "ctxErr"
    <3>1. ctxDone
      BY <1>5, <2>3 DEF Launch, JoinCoordinator, Return
    <3>2. Walk!Fail
      BY <2>1, <2>3, <3>1 DEF Walk!Fail, Outcome, Returned
    <3>3. QED
      BY <3>2 DEF Walk!Next
  <2>4. CASE stream' \in {"running", "joining"}
    BY <2>1, <2>4 DEF Walk!vars, Outcome, Returned
  <2>5. QED
    BY <1>5, <2>2, <2>3, <2>4 DEF Launch, JoinCoordinator, Return
<1>6. QED
  BY <1>2, <1>3, <1>4, <1>5 DEF StreamStep

\* Every other step of a goroutine is a stutter of the abstract walk.
LEMMA OtherStutters ==
    ASSUME IInv, UNCHANGED <<listed, lost, sent, stream, ctxDone>>
    PROVE  UNCHANGED Walk!vars
<1>1. Todo' = Todo
  BY DEF Todo, Discovered, Tasks
<1>2. QED
  BY <1>1, SameSent DEF Walk!vars, Outcome, Returned

LEMMA ScanWalks ==
    ASSUME IInv, IInv', ScanStep
    PROVE  Walk!Next \/ UNCHANGED Walk!vars
<1>1. CASE StreamStep
  BY <1>1, StreamWalks
<1>2. ASSUME NEW w \in Workers, WorkerStep(w) PROVE Walk!Next \/ UNCHANGED Walk!vars
  <2>1. CASE Emit(w) \/ List(w) \/ ListFails(w)
    BY <2>1, EmitVisits, ListOpens, ListFailsSkips
  <2>2. CASE ~(Emit(w) \/ List(w) \/ ListFails(w))
    <3>1. UNCHANGED <<listed, lost, sent, stream, ctxDone>>
      BY <1>2, <2>2 DEF WorkerStep, Take, Quit, Begin, CancelEmit, Offer, CancelOffer, Finish, walkVars
    <3>2. QED
      BY <3>1, OtherStutters
  <2>3. QED
    BY <2>1, <2>2
<1>3. CASE CoordStep \/ AllTasksDone
  <2>1. UNCHANGED <<listed, lost, sent, stream, ctxDone>>
    BY <1>3 DEF CoordStep, Collect, Dispatch, CloseTasks, AllTasksDone, walkVars
  <2>2. QED
    BY <2>1, OtherStutters
<1>4. QED
  BY <1>1, <1>2, <1>3 DEF ScanStep

\* Its caller may at most interrupt the walk.
LEMMA CallerWalks ==
    ASSUME IInv, UNCHANGED <<stream, sent, walkVars>>,
           ctxDone' = ctxDone \/ (~ctxDone /\ ctxDone' = TRUE)
    PROVE  Walk!Next \/ UNCHANGED Walk!vars
<1>1. Todo' = Todo /\ SentDirs' = SentDirs /\ Outcome' = Outcome
  BY SameTasks, SameSent DEF walkVars, Todo, Outcome, Returned
<1>2. CASE ctxDone' = ctxDone
  BY <1>1, <1>2 DEF Walk!vars
<1>3. CASE ~ctxDone /\ ctxDone' = TRUE
  BY <1>1, <1>3 DEF Walk!Next, Walk!Interrupt
<1>4. QED
  BY <1>2, <1>3

\* The scanner implements the abstract top-down walk: whatever the schedule,
\* the pool size and the capacities, each of its steps is a step of TreeWalk
\* or invisible to the caller.
THEOREM ScannerWalksTheTree == Spec => WalksTheTree
<1>1. Init => Walk!Init
  BY WalkInit
<1>2. IInv /\ IInv' /\ [Next]_vars => [Walk!Next]_Walk!vars
  <2> SUFFICES ASSUME IInv, IInv', [Next]_vars PROVE Walk!Next \/ UNCHANGED Walk!vars
    OBVIOUS
  <2>1. CASE Receive \/ Cancel \/ UNCHANGED vars
    BY <2>1, CallerWalks DEF Receive, Cancel, vars
  <2>2. QED
    BY <2>1, ScanWalks DEF Next, Stopped
<1>3. QED
  BY <1>1, <1>2, Invariant, PTL DEF Spec, WalksTheTree, Walk!Spec

----------------------------------------------------------------------------
(* The range loop over a scan: ScanIter.                                   *)

\* What the loop knows of the context, and what it has seen.
IterInv ==
    /\ loop \in {"range", "drain", "over"}
    /\ ctxDone <=> cause # "none"
    /\ cause \in {"none", "cancel", "deadline", "break", "return"}
    /\ cause = "return" => loop = "over"
    /\ cause = "break" => loop # "range"
    /\ loop = "drain" => cause = "break"
    /\ loop # "range" => ctxDone
    /\ loop = "range" => yielded = rcvd
    /\ stream = "ctxErr" => ctxDone
    /\ loop = "over" => Returned /\ rcvd = Len(sent)
    /\ SilentEndIsComplete

\* When Stream has returned, a goroutine can at most see the WaitGroup at zero.
LEMMA ReturnedIsStill ==
    ASSUME IInv, Returned, ScanStep
    PROVE  UNCHANGED <<stream, ctxDone, sent, rcvd, walkVars>>
<1>1. ~StreamStep
  BY DEF Returned, StreamStep, RootUnreadable, SendRoot, CancelRoot, ListRootFails, ListRoot,
         Launch, JoinCoordinator, Return
<1>2. coord \in {"off", "gone"} /\ \A w \in Workers : pc[w] \in {"off", "gone"}
  BY DEF IInv, Phases
<1>3. \A w \in Workers : ~WorkerStep(w)
  BY <1>2 DEF WorkerStep, Take, Quit, Begin, Emit, CancelEmit, ListFails, List, Offer, CancelOffer,
              Finish
<1>4. ~CoordStep
  BY <1>2 DEF CoordStep, Collect, Dispatch, CloseTasks
<1>5. AllTasksDone
  BY <1>1, <1>3, <1>4 DEF ScanStep
<1>6. QED
  BY <1>5 DEF AllTasksDone

\* The goroutines of the scan neither receive nor cancel, and Stream reports
\* a cancellation only when there was one.
LEMMA ScanKeeps ==
    ASSUME TypeOK, stream = "ctxErr" => ctxDone, ScanStep
    PROVE  /\ ctxDone' = ctxDone /\ rcvd' = rcvd
           /\ stream' = "ctxErr" => ctxDone
<1>1. CASE StreamStep
  BY <1>1 DEF StreamStep, RootUnreadable, SendRoot, CancelRoot, ListRootFails, ListRoot,
              Launch, JoinCoordinator, Return
<1>2. ASSUME NEW w \in Workers, WorkerStep(w)
      PROVE  UNCHANGED <<stream, ctxDone, rcvd>>
  BY <1>2 DEF WorkerStep, Take, Quit, Begin, Emit, CancelEmit, ListFails, List, Offer, CancelOffer,
              Finish
<1>3. CASE CoordStep \/ AllTasksDone
  BY <1>3 DEF CoordStep, Collect, Dispatch, CloseTasks, AllTasksDone
<1>4. QED
  BY <1>1, <1>2, <1>3 DEF ScanStep

\* A step of the loop, or a cancellation by its caller, leaves the scan alone.
LEMMA LoopCalls ==
    ASSUME TypeOK, LoopStep \/ CallerCancels \/ Over
    PROVE  /\ TypeOK'
           /\ UNCHANGED <<stream, poolVars, sent, walkVars>>
           /\ ctxDone => ctxDone'
<1>1. /\ UNCHANGED <<stream, poolVars, sent, walkVars>>
      /\ rcvd' \in {rcvd, rcvd + 1} /\ rcvd' <= Len(sent)
  <2>1. CASE Yield \/ Break \/ Drain
    BY <2>1 DEF Yield, Break, Drain, Receive, TypeOK
  <2>2. CASE DrainEnds \/ RangeEnds \/ CallerCancels \/ Over
    BY <2>2 DEF DrainEnds, RangeEnds, CallerCancels, Cancel, Over, allVars, vars, TypeOK
  <2>3. QED
    BY <2>1, <2>2 DEF LoopStep
<1>2. ctxDone' = ctxDone \/ ctxDone' = TRUE
  <2>1. CASE Yield \/ Drain \/ DrainEnds \/ Over
    BY <2>1 DEF Yield, Drain, Receive, DrainEnds, Over, allVars, vars
  <2>2. CASE Break \/ RangeEnds \/ CallerCancels
    BY <2>2 DEF Break, RangeEnds, CallerCancels, Cancel
  <2>3. QED
    BY <2>1, <2>2 DEF LoopStep
<1>3. ctxDone' \in BOOLEAN /\ (ctxDone => ctxDone')
  BY <1>2 DEF TypeOK
<1>4. rcvd' \in 0..Len(sent)
  BY <1>1 DEF TypeOK
<1>5. QED
  BY <1>1, <1>3, <1>4 DEF TypeOK, poolVars, walkVars

LEMMA IterInvInit == IterInit => IInv /\ IterInv
BY InvariantInit DEF IterInit, Init, IterInv, Returned, SilentEndIsComplete

LEMMA ScanUnderLoop ==
    ASSUME IInv, IterInv, ScanStep, UNCHANGED iterVars
    PROVE  IterInv'
<1>1. ctxDone' = ctxDone /\ rcvd' = rcvd /\ (stream' = "ctxErr" => ctxDone)
  BY ScanKeeps DEF IInv, IterInv
<1>2. CASE loop = "over"
  <2>1. UNCHANGED <<stream, ctxDone, sent, rcvd, walkVars>>
    BY <1>2, ReturnedIsStill DEF IterInv
  <2>2. Discovered' = Discovered /\ SentDirs' = SentDirs
    BY <2>1, SameTasks, SameSent DEF walkVars
  <2>3. QED
    BY <2>1, <2>2 DEF IterInv, iterVars, walkVars, SilentEndIsComplete, Whole, Returned
<1>3. CASE loop # "over"
  BY <1>1, <1>3 DEF IterInv, iterVars, SilentEndIsComplete, Whole
<1>4. QED
  BY <1>2, <1>3

\* The loop comes to its end without an error only when Stream has returned
\* nil, or when the caller cancelled.
LEMMA RangeEndsWhole ==
    ASSUME IInv, IterInv, RangeEnds
    PROVE  SilentEndIsComplete'
<1> SUFFICES ASSUME ~failure' PROVE SilentEndIsComplete'
  BY DEF SilentEndIsComplete
<1>1. yielded = rcvd /\ rcvd = Len(sent)
  BY DEF IterInv, RangeEnds
<1>2. stream = "nil" \/ (stream = "ctxErr" /\ cause = "cancel" /\ cause' = cause)
  BY <1>1 DEF RangeEnds, IterInv, Returned
<1>3. Discovered' = Discovered /\ SentDirs' = SentDirs
  BY SameTasks, SameSent DEF RangeEnds, walkVars
<1>4. QED
  BY <1>1, <1>2, <1>3 DEF IInv, Endings, CompleteWalk, Whole, SilentEndIsComplete, RangeEnds, walkVars

LEMMA LoopKeeps ==
    ASSUME IInv, IterInv, LoopStep \/ CallerCancels
    PROVE  IterInv'
<1>1. CASE Yield \/ Break \/ Drain
  BY <1>1 DEF Yield, Break, Drain, Receive, IterInv, iterVars, SilentEndIsComplete, Whole
<1>2. CASE DrainEnds
  <2>1. UNCHANGED <<stream, ctxDone, rcvd, sent, cause>> /\ loop' = "over" /\ loop = "drain"
        /\ Returned /\ rcvd = Len(sent)
    BY <1>2 DEF DrainEnds, vars
  <2>2. QED
    BY <1>2, <2>1 DEF IterInv, SilentEndIsComplete, Whole, Returned
<1>3. CASE RangeEnds
  BY <1>3, RangeEndsWhole DEF RangeEnds, IterInv, Returned
<1>4. CASE CallerCancels
  BY <1>4 DEF CallerCancels, Cancel, IterInv, SilentEndIsComplete, Whole
<1>5. QED
  BY <1>1, <1>2, <1>3, <1>4 DEF LoopStep

LEMMA IterStep == IInv /\ IterInv /\ [IterNext]_allVars => (IInv /\ IterInv)'
<1> SUFFICES ASSUME IInv, IterInv, [IterNext]_allVars PROVE (IInv /\ IterInv)'
  OBVIOUS
<1>1. CASE ScanStep /\ UNCHANGED iterVars
  <2>1. IInv'
    BY <1>1, InvariantStep DEF Next
  <2>2. QED
    BY <1>1, <2>1, ScanUnderLoop
<1>2. CASE LoopStep \/ CallerCancels
  <2>1. IInv'
    BY <1>2, LoopCalls, CallerStep DEF IInv
  <2>2. QED
    BY <1>2, <2>1, LoopKeeps
<1>3. CASE UNCHANGED allVars
  <2>1. UNCHANGED vars /\ UNCHANGED iterVars
    BY <1>3 DEF allVars
  <2>2. IInv'
    BY <2>1, InvariantStep
  <2>3. Discovered' = Discovered /\ SentDirs' = SentDirs
    BY <2>1, SameTasks, SameSent DEF vars, walkVars
  <2>4. IterInv'
    BY <2>1, <2>3 DEF vars, walkVars, iterVars, IterInv, SilentEndIsComplete, Whole, Returned
  <2>5. QED
    BY <2>2, <2>4
<1>4. QED
  BY <1>1, <1>2, <1>3 DEF IterNext, Over

LEMMA IterInvariance == IterSpec => [](IInv /\ IterInv)
<1>1. QED
  BY IterInvInit, IterStep, PTL DEF IterSpec

\* A range loop that ran out without an error has seen all of the tree that
\* could be read in time, unless its caller cancelled the context: a scan cut
\* short by a deadline, or by a failing root, never passes for a whole one.
THEOREM SilentEnd == IterSpec => []SilentEndIsComplete
<1>1. IterInv => SilentEndIsComplete
  BY DEF IterInv
<1>2. QED
  BY <1>1, IterInvariance, PTL

\* However the loop ends, it leaves no worker behind and no record unreceived.
THEOREM BreakIsClean == IterSpec => []BreakStopsThePool
<1>1. IInv /\ IterInv => BreakStopsThePool
  BY DEF IInv, Phases, IterInv, BreakStopsThePool
<1>2. QED
  BY <1>1, IterInvariance, PTL

\* The scan below a range loop is the same abstract walk: a break, a deadline
\* and the end of the loop are no more than its interruption.
THEOREM IteratorWalksTheTree == IterSpec => WalksTheTree
<1>1. IterInit => Walk!Init
  BY WalkInit DEF IterInit
<1>2. IInv /\ IInv' /\ [IterNext]_allVars => [Walk!Next]_Walk!vars
  <2> SUFFICES ASSUME IInv, IInv', [IterNext]_allVars PROVE Walk!Next \/ UNCHANGED Walk!vars
    OBVIOUS
  <2>1. CASE LoopStep \/ CallerCancels \/ Over
    <3>1. UNCHANGED <<stream, sent, walkVars>> /\ ctxDone' \in BOOLEAN /\ (ctxDone => ctxDone')
      BY <2>1, LoopCalls DEF IInv, TypeOK
    <3>2. QED
      BY <3>1, CallerWalks DEF IInv, TypeOK
  <2>2. CASE UNCHANGED allVars
    BY <2>2, CallerWalks DEF allVars, vars
  <2>3. QED
    BY <2>1, <2>2, ScanWalks DEF IterNext
<1>3. QED
  BY <1>1, <1>2, IterInvariance, PTL DEF IterSpec, WalksTheTree, Walk!Spec
=============================================================================
