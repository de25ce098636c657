--------------------------- MODULE Snapshot_proofs ---------------------------
(***************************************************************************)
(* Proofs about the two kinds of snapshot: the SQLite file several backups *)
(* may write to (SQLiteSnapshot), and the text file that is taken of a     *)
(* tree, verified, read back and compared with it (Drift).  The two parts  *)
(* share nothing but this file.                                            *)
(*                                                                         *)
(* SQLiteSnapshot, for any number of backups of any trees into one file,   *)
(* and any batch size.  The properties are not inductive.  What is missing *)
(* is Held: a backup that has inserted its first record owns the file, for *)
(* the path of that record is the same in every tree and UNIQUE.  What is  *)
(* said of the rows (Intact) holds until a death tears the file; the locks *)
(* and the counters (Basic) are right even then.                           *)
(*                                                                         *)
(* Drift, for any trees, filters, formats, identity maps and damages.  The *)
(* invariant is CycleInv: the snapshot holds each directory of the scan    *)
(* once (Complete) and is whole or damaged once (Stored), a verdict is     *)
(* about the file as it is (Judged), and a report about the tree and the   *)
(* file as they are (UpToDate).                                            *)
(***************************************************************************)
EXTENDS SQLiteSnapshot, Drift, FiniteSetTheorems, SequenceTheorems, WellFoundedInduction,
        TLAPS

(***************************************************************************)
(* SQLiteSnapshot                                                          *)
(***************************************************************************)
First(w, n) == {<<w, i>> : i \in 1..n}
Committed(w) == written[w] - inBatch[w]

\* Nothing is written before the metadata.
Idle == \A w \in Writers : pc[w] \in {"start", "header"} => written[w] = 0 /\ inBatch[w] = 0

\* From its first record on a backup finds in the file what it has committed.
Held == \A w \in Writers : pc[w] = "insert" /\ written[w] > 0 => rows = First(w, Committed(w))

\* The metadata row of w is in the file.
Headed(w) == \E k \in 1..Len(meta) : meta[k] = w

\* Whoever inserts, or has a record in the file, has a metadata row there.
Announced ==
    \A w \in Writers : pc[w] = "insert" \/ (\E i \in Nat : <<w, i>> \in rows) => Headed(w)

\* The rows are the first ones of one backup; all of them, if it succeeded.
OneRun == \E w \in Writers : \E n \in 0..Len(Tree[w]) : rows = {<<w, i>> : i \in 1..n}
Finished == \A w \in Writers : pc[w] = "ok" => rows = All(w)

Basic == TypeOK /\ Idle /\ LockHeldByWriter
Intact == OneRun /\ Held /\ Finished /\ Announced

IInv == Basic /\ (~damaged => Intact)

----------------------------------------------------------------------------
LEMMA TreeFacts ==
  ASSUME NEW w \in Writers
  PROVE  /\ Len(Tree[w]) \in Nat \ {0} /\ DOMAIN Tree[w] = 1..Len(Tree[w])
         /\ Tree[w][1] = Root
<1> DEFINE S == {Tree[w][i] : i \in DOMAIN Tree[w]}
<1>1. Tree[w] \in Seq(S) /\ Tree[w] # <<>> /\ Tree[w][1] = Root
  BY TreeAssumption
<1> HIDE DEF S
<1>2. Len(Tree[w]) \in Nat /\ DOMAIN Tree[w] = 1..Len(Tree[w]) /\ Len(Tree[w]) # 0
  BY <1>1
<1> QED BY <1>1, <1>2

LEMMA AllIsFirst == ASSUME NEW w \in Writers PROVE All(w) = First(w, Len(Tree[w]))
BY TreeFacts DEF All, First

LEMMA FirstFacts ==
  ASSUME NEW w \in Writers, NEW n \in Nat
  PROVE  /\ First(w, 0) = {}
         /\ n > 0 => <<w, 1>> \in First(w, n)
BY DEF First

LEMMA FirstApart ==
  ASSUME NEW w \in Writers, NEW v \in Writers \ {w}, NEW n \in Nat
  PROVE  <<w, 1>> \notin First(v, n)
BY DEF First

LEMMA FirstGrows ==
  ASSUME NEW w \in Writers, NEW m \in Nat, NEW n \in Nat, m <= n
  PROVE  First(w, n) = First(w, m) \cup {<<w, i>> : i \in (m + 1)..n}
<1>1. 1..n = (1..m) \cup ((m + 1)..n)
  OBVIOUS
<1> QED BY <1>1 DEF First

\* The rows of the file as the owner's first ones.
LEMMA Owner ==
  ASSUME Intact
  PROVE  \E o \in Writers : \E n \in Nat : n <= Len(Tree[o]) /\ rows = First(o, n)
<1> PICK o \in Writers : \E n \in 0..Len(Tree[o]) : rows = {<<o, i>> : i \in 1..n}
  BY DEF Intact, OneRun
<1> PICK n \in 0..Len(Tree[o]) : rows = {<<o, i>> : i \in 1..n}
  OBVIOUS
<1> QED BY TreeFacts DEF First

\* As long as there is a row, the first of them has the path of the root.
LEMMA EmptyIfFits ==
  ASSUME Intact, NEW w \in Writers, written[w] = 0, Fits(w)
  PROVE  rows = {}
<1> PICK o \in Writers, n \in Nat : rows = First(o, n)
  BY Owner
<1> SUFFICES ASSUME n > 0 PROVE FALSE
  <2>1. n = 0 => rows = {}
    BY FirstFacts
  <2> QED BY <2>1
<1>1. <<o, 1>> \in rows
  BY FirstFacts
<1>2. PathOf(<<o, 1>>) = Root /\ Tree[w][written[w] + 1] = Root
  BY TreeFacts DEF PathOf
<1> QED BY <1>1, <1>2 DEF Fits

\* A backup that has begun to insert, or may begin, is the only one.
LEMMA Sole ==
  ASSUME Basic, Intact, NEW w \in Writers, pc[w] = "insert",
         written[w] > 0 \/ (~Busy(w) /\ Fits(w))
  PROVE  /\ Committed(w) \in Nat /\ Committed(w) <= written[w]
         /\ rows = First(w, Committed(w))
         /\ \A v \in Writers \ {w} : pc[v] # "ok" /\ ~(pc[v] = "insert" /\ written[v] > 0)
<1>1. ASSUME NEW u \in Writers
      PROVE  /\ Committed(u) \in Nat /\ Committed(u) <= written[u] /\ written[u] \in Nat
             /\ written[u] = 0 => inBatch[u] = 0 /\ Committed(u) = 0
             /\ Committed(u) = 0 => inBatch[u] = written[u]
  BY <1>1 DEF Basic, TypeOK, Committed
<1>2. rows = First(w, Committed(w))
  <2>1. CASE written[w] > 0
    BY <2>1 DEF Intact, Held
  <2>2. CASE written[w] = 0
    BY <2>2, <1>1, EmptyIfFits, FirstFacts
  <2> QED BY <2>1, <2>2, <1>1
<1>3. ASSUME NEW v \in Writers \ {w} PROVE pc[v] # "ok"
  <2> SUFFICES ASSUME pc[v] = "ok" PROVE FALSE
    OBVIOUS
  <2>1. rows = First(v, Len(Tree[v]))
    BY AllIsFirst DEF Intact, Finished
  <2>2. <<v, 1>> \in rows
    BY <2>1, TreeFacts, FirstFacts
  <2> QED BY <2>2, <1>1, <1>2, FirstApart
<1>4. ASSUME NEW v \in Writers \ {w}, pc[v] = "insert", written[v] > 0 PROVE FALSE
  <2>1. rows = First(v, Committed(v))
    BY <1>4 DEF Intact, Held
  <2>2. Committed(v) = 0
    <3> SUFFICES ASSUME Committed(v) > 0 PROVE FALSE
      BY <1>1
    <3>1. <<v, 1>> \in rows
      BY <1>1, <2>1, FirstFacts
    <3> QED BY <3>1, <1>1, <1>2, FirstApart
  <2>3. lock = v
    BY <2>2, <1>1, <1>4 DEF Basic, LockHeldByWriter
  <2>4. Busy(w)
    BY <2>3, <1>4, FileAssumption DEF Busy
  <2>5. written[w] > 0
    BY <2>4
  <2>6. Committed(w) = 0
    <3> SUFFICES ASSUME Committed(w) > 0 PROVE FALSE
      BY <1>1
    <3>1. <<w, 1>> \in rows
      BY <1>1, <1>2, FirstFacts
    <3> QED BY <3>1, <2>1, <1>1, FirstApart
  <2>7. lock = w
    BY <2>5, <2>6, <1>1 DEF Basic, LockHeldByWriter
  <2> QED BY <2>3, <2>7, <1>4
<1> QED BY <1>1, <1>2, <1>3, <1>4

----------------------------------------------------------------------------
LEMMA HeadedStays ==
  ASSUME TypeOK, NEW w \in Writers, meta' = meta \/ meta' = Append(meta, w)
  PROVE  /\ meta' \in Seq(Writers)
         /\ \A v \in Writers : Headed(v) => Headed(v)'
         /\ meta' = Append(meta, w) => Headed(w)'
<1>1. meta \in Seq(Writers) /\ Len(meta) \in Nat
  BY DEF TypeOK
<1>2. CASE meta' = meta
  <2>1. meta # Append(meta, w)
    BY <1>1
  <2> QED BY <1>1, <1>2, <2>1 DEF Headed
<1>3. CASE meta' = Append(meta, w)
  <2>1. /\ meta' \in Seq(Writers) /\ Len(meta') = Len(meta) + 1 /\ meta'[Len(meta) + 1] = w
        /\ \A k \in 1..Len(meta) : meta'[k] = meta[k]
    BY <1>1, <1>3
  <2> QED BY <1>1, <2>1 DEF Headed
<1> QED BY <1>2, <1>3

LEMMA InitIInv == Init => IInv
<1> SUFFICES ASSUME Init PROVE IInv
  OBVIOUS
<1>1. TypeOK
  <2>1. /\ pc \in [Writers -> {"start", "header", "insert", "ok", "error", "dead"}]
        /\ written \in [Writers -> Nat] /\ inBatch \in [Writers -> Nat]
    BY DEF Init
  <2>2. \A w \in Writers : 0 <= Len(Tree[w]) /\ 0 < Batch
    BY FileAssumption, TreeFacts
  <2>3. \A w \in Writers :
          written[w] <= Len(Tree[w]) /\ inBatch[w] <= written[w] /\ inBatch[w] < Batch
    BY <2>2 DEF Init
  <2>4. meta \in Seq(Writers) /\ rows \subseteq UNION {All(w) : w \in Writers}
    BY DEF Init
  <2>5. lock \in Writers \cup {Free} /\ damaged \in BOOLEAN
    BY DEF Init
  <2> QED BY <2>1, <2>3, <2>4, <2>5 DEF TypeOK
<1>2. Idle /\ LockHeldByWriter /\ Held /\ Finished /\ Announced
  BY FileAssumption DEF Init, Idle, LockHeldByWriter, Held, Finished, Announced
<1>3. OneRun
  <2> PICK w \in Writers : TRUE
    BY FileAssumption
  <2>1. 0 \in 0..Len(Tree[w]) /\ {<<w, i>> : i \in 1..0} = {}
    BY TreeFacts
  <2> QED BY <2>1 DEF Init, OneRun
<1> QED BY <1>1, <1>2, <1>3 DEF IInv, Basic, Intact

----------------------------------------------------------------------------
(* Basic: the counters and the lock.                                       *)

\* What the commit of an open batch, or of the record after it, can bring.
LEMMA DoomedRows ==
  ASSUME TypeOK, NEW w \in Writers
  PROVE  /\ Pending(w) \subseteq All(w) /\ Doomed(w) \subseteq All(w)
         /\ written[w] < Len(Tree[w]) => <<w, written[w] + 1>> \in All(w)
         /\ written[w] < Len(Tree[w]) => Doomed(w) = Pending(w) \cup {<<w, written[w] + 1>>}
         /\ written[w] = Len(Tree[w]) => Doomed(w) = Pending(w)
<1>1. /\ written[w] \in Nat /\ inBatch[w] \in Nat /\ inBatch[w] <= written[w]
      /\ written[w] <= Len(Tree[w]) /\ Len(Tree[w]) \in Nat
      /\ All(w) = {<<w, i>> : i \in 1..Len(Tree[w])}
  BY TreeFacts DEF TypeOK, All
<1> DEFINE k == written[w]
           b == k - inBatch[w] + 1
<1>2. b \in 1..(k + 1) /\ k \in 0..Len(Tree[w])
  BY <1>1
<1>3. Pending(w) = {<<w, i>> : i \in b..k}
  BY DEF Pending
<1>4. Doomed(w) = {<<w, i>> : i \in b..(k + 1)} \cap {<<w, i>> : i \in 1..Len(Tree[w])}
  BY <1>1 DEF Doomed
<1> HIDE DEF b, k
<1>5. Pending(w) \subseteq All(w) /\ Doomed(w) \subseteq All(w)
  BY <1>1, <1>2, <1>3, <1>4
<1>6. CASE k < Len(Tree[w])
  <2>1. k + 1 \in 1..Len(Tree[w]) /\ b..(k + 1) = (b..k) \cup {k + 1}
        /\ b..(k + 1) \subseteq 1..Len(Tree[w])
    BY <1>1, <1>2, <1>6
  <2>2. Doomed(w) = {<<w, i>> : i \in b..(k + 1)}
    BY <1>4, <2>1
  <2>3. {<<w, i>> : i \in b..(k + 1)} = {<<w, i>> : i \in b..k} \cup {<<w, k + 1>>}
    BY <2>1
  <2> QED BY <1>1, <1>3, <1>5, <1>6, <2>1, <2>2, <2>3 DEF k
<1>7. CASE k = Len(Tree[w])
  <2>1. ASSUME NEW i \in b..(k + 1), i \in 1..Len(Tree[w]) PROVE i \in b..k
    BY <1>1, <1>2, <1>7, <2>1
  <2>2. b..k \subseteq b..(k + 1) /\ b..k \subseteq 1..Len(Tree[w])
    BY <1>1, <1>2, <1>7
  <2>3. Doomed(w) = {<<w, i>> : i \in b..k}
    BY <1>4, <2>1, <2>2
  <2> QED BY <1>3, <1>5, <1>7, <2>3 DEF k
<1> QED BY <1>1, <1>2, <1>6, <1>7 DEF k

\* A step that gives the open batch up, or had none.
LEMMA RestBasic ==
  ASSUME Basic, NEW w \in Writers,
         NEW step \in {"header", "error", "dead"}, pc' = [pc EXCEPT ![w] = step],
         step = "header" => written[w] = 0,
         inBatch' = [inBatch EXCEPT ![w] = 0], lock' = IF lock = w THEN Free ELSE lock,
         meta' = meta \/ meta' = Append(meta, w), damaged' \in BOOLEAN,
         rows' \subseteq UNION {All(v) : v \in Writers}, written' = written
  PROVE  Basic'
<1> USE DEF Basic
<1>1. /\ pc'[w] = step /\ inBatch'[w] = 0 /\ lock' # w
      /\ \A v \in Writers \ {w} : pc'[v] = pc[v] /\ inBatch'[v] = inBatch[v]
                                   /\ (lock' = v <=> lock = v)
  BY FileAssumption DEF TypeOK
<1>2. TypeOK'
  <2>1. step \in {"start", "header", "insert", "ok", "error", "dead"}
    OBVIOUS
  <2>2. pc' \in [Writers -> {"start", "header", "insert", "ok", "error", "dead"}]
    BY ONLY <2>1, TypeOK, pc' = [pc EXCEPT ![w] = step] DEF TypeOK
  <2>3. inBatch' \in [Writers -> Nat] /\ written' \in [Writers -> Nat]
    BY ONLY TypeOK, inBatch' = [inBatch EXCEPT ![w] = 0], written' = written DEF TypeOK
  <2>4. ASSUME NEW v \in Writers
        PROVE  written'[v] <= Len(Tree[v]) /\ inBatch'[v] <= written'[v] /\ inBatch'[v] < Batch
    <3>1. CASE v = w
      <4>1. written'[w] = written[w] /\ written[w] \in Nat /\ written[w] <= Len(Tree[w])
        BY DEF TypeOK
      <4>2. inBatch'[w] = 0 /\ Batch > 0
        BY <1>1, FileAssumption
      <4> QED BY <3>1, <4>1, <4>2
    <3>2. CASE v # w
      BY <3>2, <1>1 DEF TypeOK
    <3> QED BY <3>1, <3>2
  <2>5. meta' \in Seq(Writers)
    BY HeadedStays
  <2> QED BY <2>2, <2>3, <2>4, <2>5 DEF TypeOK
<1>3. Idle' /\ LockHeldByWriter'
  BY <1>1 DEF Idle, LockHeldByWriter
<1> QED BY <1>2, <1>3

\* A step that leaves w with m records written and b of them in its batch.
LEMMA StoreBasic ==
  ASSUME Basic, NEW w \in Writers, pc[w] = "insert",
         NEW m \in Nat, NEW b \in Nat, b <= m, m <= Len(Tree[w]), b < Batch,
         NEW step \in {"insert", "ok", "error"}, step # "insert" => b = 0,
         pc' = [pc EXCEPT ![w] = step],
         written' = [written EXCEPT ![w] = m], inBatch' = [inBatch EXCEPT ![w] = b],
         rows' \subseteq rows \cup All(w), b > 0 => ~Busy(w),
         lock' = IF b > 0 THEN w ELSE IF lock = w THEN Free ELSE lock,
         UNCHANGED <<meta, damaged>>
  PROVE  Basic'
<1> USE DEF Basic
<1>1. /\ pc'[w] = step /\ written'[w] = m /\ inBatch'[w] = b
      /\ \A v \in Writers \ {w} : pc'[v] = pc[v] /\ written'[v] = written[v]
                                   /\ inBatch'[v] = inBatch[v]
  BY DEF TypeOK
<1>2. TypeOK'
  <2>1. step \in {"start", "header", "insert", "ok", "error", "dead"}
    OBVIOUS
  <2>2. pc' \in [Writers -> {"start", "header", "insert", "ok", "error", "dead"}]
    BY ONLY <2>1, TypeOK, pc' = [pc EXCEPT ![w] = step] DEF TypeOK
  <2>3. inBatch' \in [Writers -> Nat] /\ written' \in [Writers -> Nat]
    BY ONLY TypeOK, m \in Nat, b \in Nat, written' = [written EXCEPT ![w] = m],
            inBatch' = [inBatch EXCEPT ![w] = b] DEF TypeOK
  <2>4. ASSUME NEW v \in Writers
        PROVE  written'[v] <= Len(Tree[v]) /\ inBatch'[v] <= written'[v] /\ inBatch'[v] < Batch
    BY <1>1 DEF TypeOK
  <2>5. rows' \subseteq UNION {All(v) : v \in Writers}
    BY DEF TypeOK
  <2>6. lock' \in Writers \cup {Free}
    BY DEF TypeOK
  <2> QED BY <2>2, <2>3, <2>4, <2>5, <2>6 DEF TypeOK
<1>3. Idle'
  BY <1>1 DEF Idle
<1>4. LockHeldByWriter'
  <2>1. (lock' = w) <=> (pc'[w] = "insert" /\ inBatch'[w] > 0)
    BY <1>1, FileAssumption
  <2>2. ASSUME NEW v \in Writers \ {w}
        PROVE  (lock' = v) <=> (pc'[v] = "insert" /\ inBatch'[v] > 0)
    <3>1. (lock = v) <=> (pc'[v] = "insert" /\ inBatch'[v] > 0)
      BY <1>1 DEF LockHeldByWriter
    <3>2. (lock' = v) <=> (lock = v)
      BY FileAssumption DEF Busy
    <3> QED BY <3>1, <3>2
  <2> QED BY <2>1, <2>2 DEF LockHeldByWriter
<1> QED BY <1>2, <1>3, <1>4

LEMMA HeaderBasic == ASSUME Basic, NEW w \in Writers, WriteHeader(w) PROVE Basic'
<1> USE DEF Basic
<1>1. /\ pc' = [pc EXCEPT ![w] = "insert"] /\ pc[w] = "header" /\ lock = Free
      /\ UNCHANGED <<written, inBatch, lock, rows, damaged>> /\ meta' = Append(meta, w)
  BY DEF WriteHeader
<1>2. written[w] = 0 /\ inBatch[w] = 0
  BY <1>1 DEF Idle
<1>3. pc'[w] = "insert" /\ \A v \in Writers \ {w} : pc'[v] = pc[v]
  BY <1>1 DEF TypeOK
<1>4. TypeOK'
  BY <1>1, HeadedStays DEF TypeOK
<1>5. Idle' /\ LockHeldByWriter'
  BY <1>1, <1>2, <1>3, FileAssumption DEF Idle, LockHeldByWriter
<1> QED BY <1>4, <1>5

LEMMA RecordBasic == ASSUME Basic, NEW w \in Writers, WriteRecord(w) PROVE Basic'
<1> DEFINE n == written[w] + 1
           b == IF Full(w) THEN 0 ELSE inBatch[w] + 1
<1>1. /\ pc[w] = "insert" /\ written[w] < Len(Tree[w]) /\ ~Busy(w)
      /\ written' = [written EXCEPT ![w] = n] /\ UNCHANGED <<meta, damaged>>
  BY DEF WriteRecord, CanInsert
<1>2. /\ n \in Nat /\ b \in Nat /\ b <= n /\ n <= Len(Tree[w]) /\ b < Batch
  BY <1>1, FileAssumption, TreeFacts DEF Basic, TypeOK, Full
<1>3. pc = [pc EXCEPT ![w] = "insert"] /\ (lock = w \/ lock = Free)
  BY <1>1 DEF Basic, TypeOK, Busy
<1>4. rows' \subseteq rows \cup All(w)
  BY <1>1, DoomedRows DEF WriteRecord, Basic
<1>5. inBatch' = [inBatch EXCEPT ![w] = b]
  BY DEF WriteRecord
<1>6. lock' = IF b > 0 THEN w ELSE IF lock = w THEN Free ELSE lock
  BY <1>3 DEF WriteRecord, Basic, TypeOK
<1>7. \E step \in {"insert", "error"} :
        (step # "insert" => b = 0) /\ pc' = [pc EXCEPT ![w] = step]
  BY <1>3 DEF WriteRecord
<1> PICK step \in {"insert", "error"} : (step # "insert" => b = 0) /\ pc' = [pc EXCEPT ![w] = step]
  BY <1>7
<1> HIDE DEF n, b
<1>8. step \in {"insert", "ok", "error"}
  OBVIOUS
<1> QED BY <1>1, <1>2, <1>4, <1>5, <1>6, <1>8, StoreBasic

LEMMA CloseBasic == ASSUME Basic, NEW w \in Writers, Close(w) PROVE Basic'
<1> DEFINE m == written[w]
<1>1. /\ pc[w] = "insert" /\ rows' = rows \cup Pending(w)
      /\ inBatch' = [inBatch EXCEPT ![w] = 0] /\ lock' = IF lock = w THEN Free ELSE lock
      /\ pc' = [pc EXCEPT ![w] = "ok"] /\ UNCHANGED <<written, meta, damaged>>
  BY DEF Close
<1>2. /\ m \in Nat /\ m <= Len(Tree[w]) /\ 0 \in Nat /\ 0 <= m /\ 0 < Batch /\ ~(0 > 0)
      /\ written' = [written EXCEPT ![w] = m]
  BY <1>1, FileAssumption DEF Basic, TypeOK
<1>3. rows' \subseteq rows \cup All(w)
  BY <1>1, DoomedRows DEF Basic
<1>4. lock' = IF 0 > 0 THEN w ELSE IF lock = w THEN Free ELSE lock
  BY <1>1, <1>2
<1> HIDE DEF m
<1>5. "ok" \in {"insert", "ok", "error"}
  OBVIOUS
<1> QED BY <1>1, <1>2, <1>3, <1>4, <1>5, StoreBasic

\* What the steps share that give the open batch up, or had none.
LEMMA Rests ==
  ASSUME Basic, NEW w \in Writers,
         \/ NewSQLiteWriter(w) \/ BeginFails(w) \/ OpenFails(w)
         \/ WriteFails(w) \/ CloseFails(w) \/ Die(w)
  PROVE  /\ \E step \in {"header", "error", "dead"} :
              pc' = [pc EXCEPT ![w] = step] /\ (step = "header" => written[w] = 0)
         /\ inBatch' = [inBatch EXCEPT ![w] = 0] /\ lock' = IF lock = w THEN Free ELSE lock
         /\ meta' = meta \/ meta' = Append(meta, w)
         /\ damaged' \in BOOLEAN /\ (damaged => damaged') /\ written' = written
         /\ rows' \subseteq rows \cup All(w)
<1> USE DEF Basic
<1>1. CASE WriteFails(w) \/ CloseFails(w)
  BY <1>1 DEF WriteFails, CloseFails, file, TypeOK
<1>2. CASE Die(w)
  <2>1. pc' = [pc EXCEPT ![w] = "dead"]
    BY <1>2 DEF Die
  <2>2. /\ meta' = meta \/ meta' = Append(meta, w)
        /\ damaged' \in BOOLEAN /\ (damaged => damaged')
    <3>1. CASE UNCHANGED file
      BY <3>1 DEF file, TypeOK
    <3>2. CASE Arrives(w)
      BY <3>2 DEF Arrives, TypeOK
    <3>3. CASE Tears(w)
      BY <3>3 DEF Tears, TypeOK
    <3> QED BY <1>2, <3>1, <3>2, <3>3 DEF Die
  <2>3. rows' \subseteq rows \cup All(w)
    BY <1>2, DoomedRows DEF Die, file, Arrives, Tears
  <2> QED BY <1>2, <2>1, <2>2, <2>3 DEF Die
<1>3. CASE NewSQLiteWriter(w) \/ BeginFails(w) \/ OpenFails(w)
  <2>1. /\ pc[w] \in {"start", "header"} /\ UNCHANGED <<written, inBatch, lock, rows, damaged>>
        /\ meta' = meta \/ meta' = Append(meta, w)
    BY <1>3 DEF NewSQLiteWriter, BeginFails, OpenFails, file
  <2>2. written[w] = 0 /\ inBatch[w] = 0 /\ lock # w
    BY <2>1 DEF Idle, LockHeldByWriter
  <2>3. inBatch' = [inBatch EXCEPT ![w] = 0] /\ lock' = IF lock = w THEN Free ELSE lock
    BY <2>1, <2>2 DEF TypeOK
  <2>4. \E step \in {"header", "error", "dead"} : pc' = [pc EXCEPT ![w] = step]
    BY <1>3 DEF NewSQLiteWriter, BeginFails, OpenFails
  <2> QED BY <2>1, <2>2, <2>3, <2>4 DEF TypeOK
<1> QED BY <1>1, <1>2, <1>3

LEMMA BasicPreserved == ASSUME Basic, NEW w \in Writers, Write(w) PROVE Basic'
<1>1. CASE WriteHeader(w) \/ WriteRecord(w) \/ Close(w)
  BY <1>1, HeaderBasic, RecordBasic, CloseBasic
<1>2. CASE \/ NewSQLiteWriter(w) \/ BeginFails(w) \/ OpenFails(w)
           \/ WriteFails(w) \/ CloseFails(w) \/ Die(w)
  <2>1. PICK step \in {"header", "error", "dead"} :
          pc' = [pc EXCEPT ![w] = step] /\ (step = "header" => written[w] = 0)
    BY <1>2, Rests
  <2>2. rows' \subseteq UNION {All(v) : v \in Writers}
    BY <1>2, Rests DEF Basic, TypeOK
  <2> QED BY <1>2, <2>1, <2>2, Rests, RestBasic
<1> QED BY <1>1, <1>2 DEF Write

----------------------------------------------------------------------------
(* Intact: the rows of a file that no death tore.                          *)

\* A step after which w inserts no more, and that leaves the rows alone.
LEMMA RestIntact ==
  ASSUME Basic, Intact, NEW w \in Writers, NEW step \in {"header", "error", "dead"},
         pc' = [pc EXCEPT ![w] = step], UNCHANGED <<written, rows>>,
         \A v \in Writers \ {w} : inBatch'[v] = inBatch[v],
         meta' = meta \/ meta' = Append(meta, w)
  PROVE  Intact'
<1> USE DEF Intact
<1>1. pc'[w] = step /\ \A v \in Writers \ {w} : pc'[v] = pc[v]
  BY DEF Basic, TypeOK
<1>2. OneRun' /\ Finished'
  BY <1>1 DEF OneRun, Finished
<1>3. Held'
  BY <1>1 DEF Held, Committed
<1>4. Announced'
  BY <1>1, HeadedStays DEF Announced, Basic
<1> QED BY <1>2, <1>3, <1>4

LEMMA HeaderIntact == ASSUME Basic, Intact, NEW w \in Writers, WriteHeader(w) PROVE Intact'
<1> USE DEF Intact
<1>1. /\ pc' = [pc EXCEPT ![w] = "insert"] /\ pc[w] = "header"
      /\ UNCHANGED <<written, inBatch, rows>> /\ meta' = Append(meta, w)
  BY DEF WriteHeader
<1>2. written[w] = 0 /\ inBatch[w] = 0
  BY <1>1 DEF Basic, Idle
<1>3. pc'[w] = "insert" /\ \A v \in Writers \ {w} : pc'[v] = pc[v]
  BY <1>1 DEF Basic, TypeOK
<1>4. OneRun' /\ Finished' /\ Held'
  BY <1>1, <1>2, <1>3 DEF OneRun, Finished, Held, Committed
<1>5. Announced'
  BY <1>1, <1>3, HeadedStays DEF Announced, Basic
<1> QED BY <1>4, <1>5

\* A record goes into the open batch, or the batch into the file: the rows are
\* the n first ones of w, and nobody else has any.
LEMMA StoreIntact ==
  ASSUME Basic, Intact, NEW w \in Writers, pc[w] = "insert",
         written[w] > 0 \/ (~Busy(w) /\ Fits(w)),
         NEW n \in Nat, n <= Len(Tree[w]), rows' = First(w, n),
         NEW step \in {"insert", "ok", "error", "dead"}, pc' = [pc EXCEPT ![w] = step],
         step = "insert" => Committed(w)' = n, step = "ok" => n = Len(Tree[w]),
         \A v \in Writers \ {w} : written'[v] = written[v] /\ inBatch'[v] = inBatch[v],
         meta' = meta
  PROVE  Intact'
<1> USE DEF Intact
<1>1. pc'[w] = step /\ \A v \in Writers \ {w} : pc'[v] = pc[v]
  BY DEF Basic, TypeOK
<1>2. \A v \in Writers \ {w} : pc[v] # "ok" /\ ~(pc[v] = "insert" /\ written[v] > 0)
  BY Sole
<1>3. OneRun'
  <2>1. n \in 0..Len(Tree[w]) /\ rows' = {<<w, i>> : i \in 1..n}
    BY TreeFacts DEF First
  <2>2. \E u \in Writers : \E k \in 0..Len(Tree[u]) : rows' = {<<u, i>> : i \in 1..k}
    BY ONLY <2>1, w \in Writers
  <2> QED BY ONLY <2>2 DEF OneRun
<1>4. Held'
  BY <1>1, <1>2 DEF Held, Committed
<1>5. Finished'
  BY <1>1, <1>2, AllIsFirst DEF Finished
<1>6. Announced'
  <2>1. \A v \in Writers : \A i \in Nat : <<v, i>> \in rows' => v = w
    BY DEF First
  <2>2. Headed(w) /\ \A v \in Writers : Headed(v)' <=> Headed(v)
    BY DEF Announced, Headed
  <2> QED BY <1>1, <2>1, <2>2 DEF Announced
<1> QED BY <1>3, <1>4, <1>5, <1>6

\* The rows of w after a commit: of its open batch, and of the record after it.
LEMMA Commits ==
  ASSUME Basic, Intact, NEW w \in Writers, pc[w] = "insert",
         written[w] > 0 \/ (~Busy(w) /\ Fits(w))
  PROVE  /\ written[w] \in Nat /\ rows = First(w, Committed(w))
         /\ rows \cup Pending(w) = First(w, written[w])
         /\ rows \cup Pending(w) \cup {<<w, written[w] + 1>>} = First(w, written[w] + 1)
<1> DEFINE m == written[w]
           c == Committed(w)
<1>1. rows = First(w, c) /\ c \in Nat /\ c <= m /\ m \in Nat
  BY Sole DEF Basic, TypeOK
<1>2. Pending(w) = {<<w, i>> : i \in (c + 1)..m}
  BY DEF Pending, Committed
<1> HIDE DEF c, m
<1>3. First(w, m) = First(w, c) \cup {<<w, i>> : i \in (c + 1)..m}
  BY <1>1, FirstGrows
<1>4. First(w, m + 1) = First(w, m) \cup {<<w, m + 1>>}
  <2>1. 1..(m + 1) = (1..m) \cup {m + 1}
    BY <1>1
  <2> QED BY <2>1 DEF First
<1> QED BY <1>1, <1>2, <1>3, <1>4 DEF m, c

LEMMA RecordIntact ==
  ASSUME Basic, Intact, ~damaged, NEW w \in Writers, WriteRecord(w)
  PROVE  Intact'
<1> DEFINE n == written[w] + 1
<1>1. /\ pc[w] = "insert" /\ written[w] < Len(Tree[w]) /\ ~Busy(w) /\ Fits(w)
      /\ written' = [written EXCEPT ![w] = n] /\ meta' = meta
  BY DEF WriteRecord, CanInsert
<1>2. /\ written[w] \in Nat /\ inBatch[w] \in Nat /\ n \in Nat /\ n <= Len(Tree[w])
      /\ pc = [pc EXCEPT ![w] = "insert"] /\ written'[w] = n
      /\ \A v \in Writers \ {w} : written'[v] = written[v] /\ inBatch'[v] = inBatch[v]
  BY <1>1, TreeFacts DEF Basic, TypeOK, WriteRecord
<1>3. CASE Full(w)
  <2>1. rows' = First(w, n)
    BY <1>1, <1>3, Commits DEF WriteRecord
  <2>2. inBatch'[w] = 0 /\ Committed(w)' = n
    BY <1>2, <1>3 DEF WriteRecord, Committed, Basic, TypeOK
  <2>3. \E step \in {"insert", "error"} : pc' = [pc EXCEPT ![w] = step]
    BY <1>2, <1>3 DEF WriteRecord
  <2> PICK step \in {"insert", "error"} : pc' = [pc EXCEPT ![w] = step]
    BY <2>3
  <2> HIDE DEF n
  <2>4. step \in {"insert", "ok", "error", "dead"} /\ step # "ok"
    OBVIOUS
  <2> QED BY <1>1, <1>2, <2>1, <2>2, <2>4, StoreIntact
<1>4. CASE ~Full(w)
  <2> DEFINE c == Committed(w)
  <2>1. rows' = First(w, c) /\ pc' = [pc EXCEPT ![w] = "insert"]
    BY <1>1, <1>2, <1>4, Commits DEF WriteRecord
  <2>2. Committed(w)' = c /\ c \in Nat /\ c <= Len(Tree[w])
    BY <1>1, <1>2, <1>4, Sole, TreeFacts DEF WriteRecord, Committed, Basic, TypeOK
  <2> HIDE DEF c
  <2>3. "insert" \in {"insert", "ok", "error", "dead"} /\ "insert" # "ok"
    OBVIOUS
  <2> QED BY <1>1, <1>2, <2>1, <2>2, <2>3, StoreIntact
<1> QED BY <1>3, <1>4

LEMMA CloseIntact == ASSUME Basic, Intact, NEW w \in Writers, Close(w) PROVE Intact'
<1> DEFINE n == Len(Tree[w])
<1>1. /\ pc[w] = "insert" /\ written[w] = n /\ written[w] > 0 /\ n \in Nat
      /\ pc' = [pc EXCEPT ![w] = "ok"] /\ UNCHANGED <<written, meta>>
      /\ \A v \in Writers \ {w} : written'[v] = written[v] /\ inBatch'[v] = inBatch[v]
  BY TreeFacts DEF Close, Basic, TypeOK
<1>2. rows' = First(w, n)
  BY <1>1, Commits DEF Close
<1> HIDE DEF n
<1>3. "ok" \in {"insert", "ok", "error", "dead"} /\ "ok" # "insert" /\ n <= Len(Tree[w])
  BY <1>1 DEF n
<1> QED BY <1>1, <1>2, <1>3, StoreIntact DEF n

\* A death that does not tear the file leaves the batch there, or does not.
LEMMA DeathIntact ==
  ASSUME Basic, Intact, ~damaged, NEW w \in Writers, Die(w), ~damaged'
  PROVE  Intact'
<1>1. /\ pc' = [pc EXCEPT ![w] = "dead"] /\ written' = written
      /\ \A v \in Writers \ {w} : inBatch'[v] = inBatch[v]
  BY DEF Die, Basic, TypeOK
<1>2. CASE rows' = rows
  <2>1. meta' = meta \/ meta' = Append(meta, w)
    BY DEF Die, Arrives, Tears, file
  <2> QED BY <1>1, <1>2, <2>1, RestIntact
<1>3. CASE rows' # rows
  <2>1. /\ pc[w] = "insert" /\ rows' = rows \cup Doomed(w) /\ meta' = meta
        /\ written[w] = Len(Tree[w]) \/ CanInsert(w)
    BY <1>3 DEF Die, Arrives, Tears, file
  <2>2. Len(Tree[w]) \in Nat \ {0} /\ written[w] \in Nat
    BY TreeFacts DEF Basic, TypeOK
  <2>3. written[w] > 0 \/ (~Busy(w) /\ Fits(w))
    BY <2>1, <2>2 DEF CanInsert
  <2>4. \E n \in Nat : n <= Len(Tree[w]) /\ rows' = First(w, n)
    <3>1. CASE written[w] = Len(Tree[w])
      <4>1. rows' = First(w, Len(Tree[w]))
        BY <2>1, <2>3, <3>1, Commits, DoomedRows DEF Basic
      <4> QED BY <2>2, <4>1
    <3>2. CASE written[w] < Len(Tree[w])
      <4>1. rows' = First(w, written[w] + 1)
        BY <2>1, <2>3, <3>2, Commits, DoomedRows DEF Basic
      <4> QED BY <2>2, <3>2, <4>1
    <3> QED BY <2>1, <3>1, <3>2 DEF CanInsert
  <2>5. PICK n \in Nat : n <= Len(Tree[w]) /\ rows' = First(w, n)
    BY <2>4
  <2>6. "dead" \in {"insert", "ok", "error", "dead"} /\ "dead" # "insert" /\ "dead" # "ok"
    OBVIOUS
  <2> QED BY <1>1, <2>1, <2>3, <2>5, <2>6, StoreIntact
<1> QED BY <1>2, <1>3

LEMMA IntactPreserved ==
  ASSUME Basic, Intact, ~damaged, NEW w \in Writers, Write(w), ~damaged'
  PROVE  Intact'
<1>1. CASE WriteHeader(w) \/ WriteRecord(w) \/ Close(w) \/ Die(w)
  BY <1>1, HeaderIntact, RecordIntact, CloseIntact, DeathIntact
<1>2. CASE NewSQLiteWriter(w) \/ BeginFails(w) \/ OpenFails(w) \/ WriteFails(w) \/ CloseFails(w)
  <2>1. PICK step \in {"header", "error", "dead"} : pc' = [pc EXCEPT ![w] = step]
    BY <1>2, Rests
  <2>2. /\ meta' = meta \/ meta' = Append(meta, w)
        /\ UNCHANGED <<written, rows>>
    BY <1>2 DEF NewSQLiteWriter, BeginFails, OpenFails, WriteFails, CloseFails, file
  <2>3. \A v \in Writers \ {w} : inBatch'[v] = inBatch[v]
    BY <1>2, Rests DEF Basic, TypeOK
  <2> QED BY <2>1, <2>2, <2>3, RestIntact
<1> QED BY <1>1, <1>2 DEF Write

LEMMA NextPreserves == IInv /\ [Next]_vars => IInv'
<1> SUFFICES ASSUME IInv, [Next]_vars PROVE IInv'
  OBVIOUS
<1>1. CASE \E w \in Writers : Write(w)
  <2> PICK w \in Writers : Write(w)
    BY <1>1
  <2>1. Basic'
    BY BasicPreserved DEF IInv
  <2>2. damaged => damaged'
    BY Rests DEF Write, WriteHeader, WriteRecord, Close, IInv
  <2>3. ~damaged' => Intact'
    BY <2>2, IntactPreserved DEF IInv
  <2> QED BY <2>1, <2>3 DEF IInv
<1>2. CASE UNCHANGED vars
  <2>1. UNCHANGED <<pc, written, inBatch, meta, rows, lock, damaged>>
    BY <1>2 DEF vars, file
  <2>2. Basic'
    BY <2>1 DEF IInv, Basic, TypeOK, Idle, LockHeldByWriter
  <2>3. Intact' <=> Intact
    BY <2>1 DEF Intact, OneRun, Held, Committed, Finished, Announced, Headed
  <2> QED BY <2>1, <2>2, <2>3 DEF IInv
<1> QED BY <1>1, <1>2 DEF Next, Over

LEMMA Invariance == Spec => []IInv
BY InitIInv, NextPreserves, PTL DEF Spec

----------------------------------------------------------------------------
\* The cells of the writer and of the file keep their types, and the open
\* transaction never holds a full batch: WriteRecord commits it first.
THEOREM TypeCorrect == Spec => []TypeOK
BY Invariance, PTL DEF IInv, Basic

\* Whatever happens to a backup, refusal, failed commit, Rollback or death, the
\* lock of the file is held exactly while it has uncommitted rows.
THEOREM LockDiscipline == Spec => []LockHeldByWriter
BY Invariance, PTL DEF IInv, Basic

\* The batches of retried or overlapping backups never mix in a file that no
\* death tore, whatever failed or died between two of its transactions.
THEOREM OneRunOnly == Spec => []RowsOfOneRun
<1>1. IInv => RowsOfOneRun
  BY DEF IInv, Intact, OneRun, RowsOfOneRun
<1> QED BY <1>1, Invariance, PTL

\* What a backup reported as stored stays complete, whoever writes afterwards,
\* fails, or dies, until one dies while it writes pages and tears the file.
THEOREM SuccessStays == Spec => []SuccessIsStored
<1>1. IInv => SuccessIsStored
  BY DEF IInv, Intact, Finished, SuccessIsStored
<1> QED BY <1>1, Invariance, PTL

\* Only the first metadata row can be confused with the rows of another run: as
\* long as there is one, and no death tore the file, verifySQLite returns no
\* error only for the complete snapshot.
THEOREM LoneHeader == Spec => []LoneHeaderIsHonest
<1>1. ASSUME IInv, ~damaged, NoError, Len(meta) = 1 PROVE rows = All(meta[1])
  <2> PICK o \in Writers, n \in Nat : n <= Len(Tree[o]) /\ rows = First(o, n)
    BY <1>1, Owner DEF IInv
  <2>0. meta \in Seq(Writers) /\ Len(meta) = 1
    BY <1>1 DEF IInv, Basic, TypeOK
  <2>1. meta[1] \in Writers
    <3>1. 1 \in 1..Len(meta)
      BY <2>0
    <3> QED BY <2>0, <3>1, ElementOfSeq
  <2>2. Cardinality(rows) = n
    <3> DEFINE f == [i \in 1..n |-> <<o, i>>]
    <3>1. f \in Bijection(1..n, First(o, n))
      BY DEF First, Bijection, Injection, Surjection, IsInjective
    <3>2. IsFiniteSet(1..n) /\ Cardinality(1..n) = n
      BY FS_Interval
    <3> HIDE DEF f
    <3>3. ExistsBijection(1..n, First(o, n))
      BY <3>1 DEF ExistsBijection
    <3> QED BY <3>2, <3>3, FS_Bijection
  <2>3. n = Len(Tree[meta[1]])
    BY <1>1, <2>1, <2>2 DEF NoError
  <2>4. o = meta[1]
    <3>1. n > 0
      BY <2>1, <2>3, TreeFacts
    <3>2. <<o, 1>> \in rows
      BY <3>1, FirstFacts
    <3>3. Headed(o)
      BY <1>1, <3>2 DEF IInv, Intact, Announced
    <3> QED BY <1>1, <3>3 DEF Headed
  <2> QED BY <2>1, <2>3, <2>4, AllIsFirst
<1> QED BY <1>1, Invariance, PTL DEF LoneHeaderIsHonest


(***************************************************************************)
(* Drift                                                                   *)
(***************************************************************************)
\* The record a backup makes of p, and the snapshot of the backup.
Taken(p) ==
    [entity |-> SubSeq(p, 1, IF p = <<>> THEN 0 ELSE 1), path |-> p, meta |-> ReadMeta(base[p], Home)]
Whole == Snapshot(scene.format, scene.zipped, taken)

\* The paths a backup records.
Due == Scanned(scene.take, DOMAIN base)

Setting == scene \in Scenes /\ base = scene.tree

\* Before the backup nothing has happened.
Untouched ==
    artifact = NoFile =>
        live = base /\ accounts = Home /\ moved = "no" /\ verdict = "none" /\ ~report.made

\* The backup records each directory of its scan once, as it was then.
Complete ==
    artifact # NoFile =>
        /\ Len(taken) \in Nat \ {0} /\ DOMAIN taken = 1..Len(taken)
        /\ \A k \in DOMAIN taken : taken[k].path \in Due /\ taken[k] = Taken(taken[k].path)
        /\ \A p \in Due : \E k \in DOMAIN taken : taken[k].path = p
        /\ \A j, k \in DOMAIN taken : taken[j].path = taken[k].path => j = k

Stored == artifact \in {NoFile, Whole} \cup Damaged(Whole)

Judged == verdict = "valid" => artifact # NoFile /\ Verify(artifact)

\* As long as nothing was restored the tree is one of the host of the backup.
OwnTree ==
    moved = "no" =>
        /\ accounts = Home
        /\ \A p \in DOMAIN live : IsSeq(p) /\ Kindred(live[p], scene.made)

\* A restore makes the tree what the snapshot, read through some order, says.
Realigned ==
    moved = "restored" /\ artifact = Whole =>
        /\ accounts = Away /\ payload = {}
        /\ \E order \in Orders(scene.map.sids) :
            live = Restored(Collected(scene.take, TRUE, order))

\* The report is about the tree and the snapshot as they are.
Compares(f, mapped, ignoring) ==
    \E order \in Orders(scene.map.sids) :
        report.items = Items(Indexed(Collected(f, mapped, order)), LiveKept(f),
                             payload \cap Walked(f, DOMAIN live), ignoring)
UpToDate ==
    report.made =>
        /\ artifact # NoFile
        /\ report.mapped \in BOOLEAN
        /\ \A f, mapped, ignoring :
            f = report.filter /\ mapped = report.mapped /\ ignoring = report.ignoring
                => Compares(f, mapped, ignoring)

CycleInv ==
    Setting /\ Untouched /\ Complete /\ Stored /\ Judged /\ OwnTree /\ Realigned /\ UpToDate

\* A record as it is seen through the identity map, if there is one.
Seen(rec, mapped, order) ==
    IF mapped THEN [rec EXCEPT !.meta = Apply(scene.map, order, @)] ELSE rec

----------------------------------------------------------------------------
\* SetToSeq lists a finite set, each element once.
LEMMA ListsEach ==
  ASSUME NEW S, IsFiniteSet(S)
  PROVE  LET s == SetToSeq(S)
         IN  /\ s \in Seq(S) /\ DOMAIN s = 1..Len(s) /\ Len(s) \in Nat
             /\ \A x \in S : \E k \in DOMAIN s : s[k] = x
             /\ \A j, k \in DOMAIN s : s[j] = s[k] => j = k
<1> DEFINE n == Cardinality(S)
           s == SetToSeq(S)
<1>1. n \in Nat /\ Bijection(1..n, S) # {}
  BY FS_CardinalityType DEF ExistsBijection
<1>2. s \in [1..n -> S] /\ IsInjective(s)
  <2>1. \E f \in [1..n -> S] : IsInjective(f)
    BY <1>1 DEF Bijection, Injection
  <2>2. QED
    BY <2>1 DEF SetToSeq
<1>3. s \in Injection(1..n, S)
  BY <1>2 DEF Injection
<1>4. Cardinality(1..n) = n
  BY <1>1, FS_Interval
<1>5. s \in Surjection(1..n, S)
  BY <1>3, <1>4, FS_Injection
<1>6. s \in Seq(S)
  BY <1>1, <1>2, SeqDef
<1>7. Len(s) = n /\ DOMAIN s = 1..n
  BY <1>1, <1>2, <1>6, LenProperties
<1>8. \A x \in S : \E k \in DOMAIN s : s[k] = x
  BY <1>5, <1>7 DEF Surjection
<1>9. \A j, k \in DOMAIN s : s[j] = s[k] => j = k
  BY <1>2, <1>7 DEF IsInjective
<1> QED BY <1>1, <1>6, <1>7, <1>8, <1>9

\* What a scan shows of a directory depends on its path alone.
LEMMA ScanLocal ==
  ASSUME NEW f, NEW S, NEW T, NEW p
  PROVE  /\ p \in Scanned(f, S) => p \in S /\ p \in Walked(f, S)
         /\ p \in Scanned(f, S) /\ p \in T => p \in Scanned(f, T)
         /\ <<>> \in S => <<>> \in Scanned(f, S)
<1>1. Lineage(<<>>) = {}
  BY DEF Lineage
<1> QED BY <1>1 DEF Scanned, Walked, IsMatchInclude

LEMMA SameFilter ==
  ASSUME NEW f, NEW r, NEW s, r.path = s.path, r.entity = s.entity
  PROVE  FilterMatches(f, r) <=> FilterMatches(f, s)
BY DEF FilterMatches

----------------------------------------------------------------------------
(* The file.                                                               *)

LEMMA WholeFields ==
  ASSUME Complete, artifact # NoFile
  PROVE  /\ Whole.format = scene.format /\ Whole.zipped = scene.zipped
         /\ Whole.sound = TRUE /\ Whole.headed = TRUE /\ Whole.torn = FALSE
         /\ Whole.hash = Whole.rows
         /\ Whole.rows = [k \in 1..Len(taken) |-> Row(scene.format, taken[k])]
         /\ Len(Whole.rows) = Len(taken) /\ DOMAIN Whole.rows = 1..Len(taken)
<1> DEFINE n == Len(taken)
           lines == [k \in 1..n |-> Row(scene.format, taken[k])]
<1>1. n \in Nat /\ DOMAIN taken = 1..n
  BY DEF Complete
<1>2. Whole.rows = lines
  BY <1>1 DEF Whole, Snapshot
<1>3. lines \in [1..n -> {lines[k] : k \in 1..n}]
  OBVIOUS
<1>4. lines \in Seq({lines[k] : k \in 1..n})
  BY <1>1, <1>3, SeqDef
<1>5. Len(lines) = n /\ DOMAIN lines = 1..n
  BY <1>1, <1>4, LenProperties
<1>6. /\ Whole.format = scene.format /\ Whole.zipped = scene.zipped
      /\ Whole.sound = TRUE /\ Whole.headed = TRUE /\ Whole.torn = FALSE
      /\ Whole.hash = Whole.rows
  BY DEF Whole, Snapshot
<1> QED BY <1>2, <1>5, <1>6

\* The record of p, and what a format keeps of it.
LEMMA TakenFields ==
  ASSUME NEW p
  PROVE  /\ Taken(p).path = p
         /\ Taken(p).entity = SubSeq(p, 1, IF p = <<>> THEN 0 ELSE 1)
         /\ Taken(p).meta = ReadMeta(base[p], Home)
         /\ Recorded(Taken(p)) =
                [entity |-> Taken(p).entity, path |-> p,
                 meta |-> IF scene.format = "tsv" THEN WithoutSid(Taken(p).meta) ELSE Taken(p).meta]
BY DEF Taken, Recorded

LEMMA MetaFields ==
  ASSUME NEW m, NEW names
  PROVE  LET r == ReadMeta(m, names)
         IN  /\ DOMAIN r = {"mode", "uid", "acl", "sddl", "user", "sid"}
             /\ DOMAIN WithoutSid(r) = DOMAIN r
             /\ \A x \in DOMAIN r \ {"sid"} : WithoutSid(r)[x] = r[x]
             /\ WithoutSid(r).sid = <<>>
             /\ r.mode = m.mode /\ r.acl = m.acl /\ r.sddl = m.sddl
             /\ r.user = IF m.uid \in DOMAIN names THEN names[m.uid] ELSE None
             /\ r.sid = IF m.sddl = <<>> THEN <<>> ELSE Head(m.sddl)
<1> DEFINE r == ReadMeta(m, names)
<1>1. /\ DOMAIN r = {"mode", "uid", "acl", "sddl", "user", "sid"}
      /\ r.mode = m.mode /\ r.acl = m.acl /\ r.sddl = m.sddl
      /\ r.user = IF m.uid \in DOMAIN names THEN names[m.uid] ELSE None
      /\ r.sid = IF m.sddl = <<>> THEN <<>> ELSE Head(m.sddl)
  BY DEF ReadMeta
<1> HIDE DEF r
<1>2. WithoutSid(r) = [x \in DOMAIN r |-> IF x = "sid" THEN <<>> ELSE r[x]]
  BY DEF WithoutSid
<1> QED BY <1>1, <1>2 DEF r

LEMMA RowFields ==
  ASSUME NEW format, NEW p
  PROVE  LET row == Row(format, Taken(p))
         IN  "meta" \in DOMAIN row /\ "mode" \in DOMAIN row.meta
<1>1. "mode" \in DOMAIN Taken(p).meta /\ "mode" \in DOMAIN WithoutSid(Taken(p).meta)
  BY TakenFields, MetaFields
<1> QED BY <1>1 DEF Row

\* Verify accepts no damaged file.
LEMMA VerifyWhole ==
  ASSUME Setting, Complete, Stored, artifact # NoFile, Verify(artifact)
  PROVE  artifact = Whole
<1> DEFINE n == Len(taken)
<1> SUFFICES ASSUME artifact \in Damaged(Whole) PROVE FALSE
  BY DEF Stored
<1>1. n \in Nat /\ n >= 1
  BY DEF Complete
<1>2. artifact.sound /\ artifact.headed /\ ~artifact.torn /\ Hashed(artifact) = artifact.hash
  BY DEF Verify, SyntaxValid, ChecksumValid
<1>3. CASE Whole.zipped
  <2>1. artifact = [Whole EXCEPT !.sound = FALSE]
    BY <1>3 DEF Damaged
  <2>2. artifact.sound = FALSE
    BY <2>1 DEF Whole, Snapshot
  <2> QED BY <1>2, <2>2
<1>4. CASE ~Whole.zipped
  <2>1. CASE artifact \in {[Whole EXCEPT !.headed = FALSE], [Whole EXCEPT !.torn = TRUE]}
    <3>1. artifact.headed = FALSE \/ artifact.torn = TRUE
      BY <2>1 DEF Whole, Snapshot
    <3> QED BY <1>2, <3>1
  <2>2. ASSUME NEW k \in 0..(n - 1), artifact = [Whole EXCEPT !.rows = SubSeq(Whole.rows, 1, k)]
        PROVE  FALSE
    <3>1. artifact.rows = SubSeq(Whole.rows, 1, k) /\ artifact.hash = Whole.rows
      BY <2>2 DEF Whole, Snapshot
    <3>2. DOMAIN artifact.rows = 1..k
      BY <3>1, <1>1
    <3>3. DOMAIN Hashed(artifact) \subseteq 1..k
      BY <3>2 DEF Hashed
    <3>4. n \in DOMAIN artifact.hash
      BY <3>1, <1>1, WholeFields
    <3> QED BY <1>1, <1>2, <3>3, <3>4
  <2>3. ASSUME NEW m \in Modes \ {Whole.rows[n].meta.mode},
               artifact = [Whole EXCEPT !.rows[n].meta.mode = m]
        PROVE  FALSE
    <3>1. artifact.hash = Whole.rows
          /\ artifact.rows = [Whole.rows EXCEPT ![n] =
                [Whole.rows[n] EXCEPT !.meta = [Whole.rows[n].meta EXCEPT !.mode = m]]]
      BY <2>3 DEF Whole, Snapshot
    <3>2. n \in DOMAIN Whole.rows
      BY <1>1, WholeFields
    <3>3. artifact.rows[n].meta.mode = m
      <4>0. Whole.rows[n] = Row(scene.format, taken[n])
        BY <1>1, WholeFields
      <4>1. Whole.rows[n] = Row(scene.format, Taken(taken[n].path))
        BY <4>0, <1>1 DEF Complete
      <4>2. "meta" \in DOMAIN Whole.rows[n] /\ "mode" \in DOMAIN Whole.rows[n].meta
        BY <4>1, RowFields
      <4> QED BY <3>1, <3>2, <4>2
    <3>4. Hashed(artifact)[n] = artifact.rows[n]
      BY <1>2, <3>1, <3>2 DEF Hashed
    <3> QED BY <1>2, <3>1, <3>3, <3>4
  <2> QED BY <1>4, <2>1, <2>2, <2>3, WholeFields DEF Damaged
<1> QED BY <1>3, <1>4

LEMMA TrustedWhole ==
  ASSUME CycleInv, Trusted
  PROVE  artifact # NoFile /\ artifact = Whole
BY VerifyWhole DEF CycleInv, Trusted, Judged

\* A text without anything TSV trims, escapes or nulls comes back.
LEMMA TextSurvives ==
  ASSUME NEW t, IsSeq(t),
         \A k \in DOMAIN t : t[k].form \notin {"tab", "edge", "dash"}
  PROVE  Unnull(Sanitize(t)) = t
<1>0. t \in Seq({t[k] : k \in DOMAIN t})
  BY DEF IsSeq
<1>00. DOMAIN t = 1..Len(t) /\ Len(t) \in Nat /\ t = [k \in DOMAIN t |-> t[k]]
  BY <1>0, LenProperties
<1>1. CASE t = <<>>
  <2>1. Sanitize(t) = <<Dash>>
    BY <1>1 DEF Sanitize
  <2>2. Trim(<<Dash>>) = <<Dash>>
    BY DEF Trim, Dash
  <2> QED BY <1>1, <2>1, <2>2 DEF Unnull
<1>2. CASE t # <<>>
  <2>1. Sanitize(t) = t
    BY <1>2, <1>00 DEF Sanitize, Reform
  <2>2. Trim(t) = t
    BY <1>00 DEF Trim
  <2>3. t # <<Dash>>
    BY DEF Dash
  <2> QED BY <2>1, <2>2, <2>3 DEF Unnull
<1> QED BY <1>1, <1>2

LEMMA EntityOf ==
  ASSUME NEW p, IsSeq(p)
  PROVE  LET e == SubSeq(p, 1, IF p = <<>> THEN 0 ELSE 1)
         IN  /\ IsSeq(e)
             /\ \A k \in DOMAIN e : k = 1 /\ 1 \in DOMAIN p /\ e[k] = p[1]
             /\ p # <<>> => e = <<p[1]>>
<1> DEFINE e == SubSeq(p, 1, IF p = <<>> THEN 0 ELSE 1)
           S == {p[k] : k \in DOMAIN p}
<1>1. p \in Seq(S)
  BY DEF IsSeq
<1>2. DOMAIN p = 1..Len(p) /\ Len(p) \in Nat /\ (p # <<>> => Len(p) >= 1)
  BY <1>1, LenProperties, EmptySeq
<1>3. CASE p = <<>>
  <2>1. e = <<>>
    BY <1>3
  <2>2. DOMAIN e = {}
    BY <2>1
  <2> QED BY <1>3, <2>1, <2>2, EmptySeq DEF IsSeq
<1>4. CASE p # <<>>
  <2>1. e = <<p[1]>>
    <3>1. e = SubSeq(p, 1, 1) /\ p[1] \in S
      BY <1>2, <1>4
    <3>2. e \in Seq(S) /\ Len(e) = 1 /\ e[1] = p[1]
      BY <1>1, <1>2, <1>4, <3>1, SubSeqProperties
    <3>3. <<p[1]>> \in Seq(S) /\ Len(<<p[1]>>) = 1 /\ <<p[1]>>[1] = p[1]
      BY <3>1
    <3> HIDE DEF e, S
    <3> QED BY <3>2, <3>3, SeqEqual
  <2>2. DOMAIN e = {1} /\ e[1] = p[1]
    BY <2>1
  <2>3. IsSeq(e)
    <3>1. e \in Seq({p[1]})
      BY <2>1
    <3>2. {e[k] : k \in DOMAIN e} = {p[1]}
      BY <2>2
    <3> QED BY <3>1, <3>2 DEF IsSeq
  <2> QED BY <1>2, <1>4, <2>1, <2>2, <2>3
<1> QED BY <1>3, <1>4

\* A text without a name that is not UTF-8 is written as it is.
LEMMA TextStays ==
  ASSUME NEW t, IsSeq(t), \A k \in DOMAIN t : t[k].form # "broken"
  PROVE  Reform(t, "broken", "mended") = t
<1>1. t = [k \in DOMAIN t |-> t[k]]
  BY DEF IsSeq
<1> QED BY <1>1 DEF Reform

\* What becomes of the row of a record the format can express.
LEMMA RowReadsBack ==
  ASSUME NEW p, IsSeq(p), Speakable(Taken(p)), scene.format \in {"tsv", "ndjson"}
  PROVE  LET row == Row(scene.format, Taken(p))
         IN  /\ scene.format = "tsv" =>
                  /\ ~IsComment(row)
                  /\ Recorded(Taken(p)) =
                        [entity |-> Unnull(row.entity), path |-> Unnull(row.path), meta |-> row.meta]
             /\ scene.format # "tsv" => row = Recorded(Taken(p))
<1> DEFINE row == Row(scene.format, Taken(p))
           e == Taken(p).entity
<1>1. IsSeq(e) /\ \A k \in DOMAIN e : k = 1 /\ 1 \in DOMAIN p /\ e[k] = p[1]
  <2>1. e = SubSeq(p, 1, IF p = <<>> THEN 0 ELSE 1)
    BY TakenFields
  <2> HIDE DEF e
  <2> QED BY <2>1, EntityOf
<1>2. Taken(p) = [entity |-> e, path |-> p, meta |-> Taken(p).meta]
  BY DEF Taken
<1> HIDE DEF e
<1>3. CASE scene.format = "tsv"
  <2>1. \A k \in DOMAIN p : p[k].form \notin {"hash", "tab", "edge", "dash"}
    BY <1>2, <1>3 DEF Speakable
  <2>2. Unnull(Sanitize(p)) = p /\ Unnull(Sanitize(e)) = e
    BY <1>1, <2>1, TextSurvives
  <2>3. row = [entity |-> Sanitize(e), path |-> Sanitize(p), meta |-> WithoutSid(Taken(p).meta)]
    BY <1>2, <1>3 DEF Row
  <2>4. ~IsComment(row)
    <3>1. CASE e = <<>>
      <4>1. Sanitize(e) = <<Dash>>
        BY <3>1 DEF Sanitize
      <4>2. row.entity[1].form = "dash"
        BY <2>3, <4>1 DEF Dash
      <4> QED BY <4>2 DEF IsComment
    <3>2. CASE e # <<>>
      <4>1. Sanitize(e) = Reform(e, "tab", "space")
        BY <3>2 DEF Sanitize
      <4>2. e = [k \in DOMAIN e |-> e[k]]
        BY <1>1 DEF IsSeq
      <4>3. Sanitize(e) = e
        BY <1>1, <2>1, <4>1, <4>2 DEF Reform
      <4>4. 1 \in DOMAIN e
        BY <1>1, <3>2, EmptySeq, LenProperties DEF IsSeq
      <4> QED BY <1>1, <2>1, <2>3, <4>3, <4>4 DEF IsComment
    <3> QED BY <3>1, <3>2
  <2>5. Recorded(Taken(p)) = [entity |-> e, path |-> p, meta |-> WithoutSid(Taken(p).meta)]
    BY <1>3, TakenFields DEF e
  <2> QED BY <1>3, <2>2, <2>3, <2>4, <2>5
<1>4. CASE scene.format # "tsv"
  <2>1. \A k \in DOMAIN p : p[k].form # "broken"
    BY <1>2, <1>4 DEF Speakable
  <2>2. Reform(e, "broken", "mended") = e /\ Reform(p, "broken", "mended") = p
    BY <1>1, <2>1, TextStays
  <2>3. row = [entity |-> e, path |-> p, meta |-> Taken(p).meta]
    BY <1>2, <1>4, <2>2 DEF Row
  <2> QED BY <1>4, <1>2, <2>3 DEF Recorded
<1> QED BY <1>3, <1>4

LEMMA ReadBack == CycleInv => VerifiedReadsBack
<1> SUFFICES ASSUME CycleInv, Trusted
             PROVE  /\ Readable(artifact)
                    /\ ReadRecords(artifact) = [k \in DOMAIN taken |-> Recorded(taken[k])]
  BY DEF VerifiedReadsBack
<1> DEFINE n == Len(taken)
<1>1. artifact # NoFile /\ artifact = Whole
  BY TrustedWhole
<1>2. n \in Nat /\ DOMAIN taken = 1..n
  BY <1>1 DEF CycleInv, Complete
<1>3. /\ Whole.format = scene.format /\ Whole.sound = TRUE /\ Whole.headed = TRUE
      /\ Whole.torn = FALSE /\ Whole.rows = [k \in 1..n |-> Row(scene.format, taken[k])]
      /\ DOMAIN Whole.rows = 1..n
  BY <1>1, WholeFields DEF CycleInv
<1>4. scene.format \in {"tsv", "ndjson"}
  BY SceneAssumption DEF CycleInv, Setting
<1>5. ASSUME NEW k \in 1..n
      PROVE  LET row == Whole.rows[k]
             IN  /\ scene.format = "tsv" =>
                      /\ ~IsComment(row)
                      /\ Recorded(taken[k]) =
                            [entity |-> Unnull(row.entity), path |-> Unnull(row.path), meta |-> row.meta]
                 /\ scene.format # "tsv" => row = Recorded(taken[k])
  <2> DEFINE p == taken[k].path
  <2>1. taken[k] = Taken(p) /\ p \in Due
    BY <1>1, <1>2 DEF CycleInv, Complete
  <2>2. IsSeq(p)
    BY <2>1, ScanLocal, SceneAssumption DEF Due, CycleInv, Setting
  <2>3. Speakable(Taken(p))
    BY <1>2, <2>1 DEF Trusted
  <2>4. Whole.rows[k] = Row(scene.format, Taken(p))
    BY <1>3, <2>1
  <2> HIDE DEF p
  <2> QED BY <1>4, <2>1, <2>2, <2>3, <2>4, RowReadsBack
<1>6. Readable(artifact)
  BY <1>1, <1>3 DEF Readable
<1>7. CASE scene.format = "tsv"
  <2>1. {j \in DOMAIN Whole.rows : ~IsComment(Whole.rows[j])} = 1..n
    BY <1>3, <1>5, <1>7
  <2> QED BY <1>1, <1>2, <1>3, <1>5, <1>6, <1>7, <2>1 DEF ReadRecords
<1>8. CASE scene.format # "tsv"
  <2>1. ReadRecords(artifact) = Whole.rows
    BY <1>1, <1>3, <1>8 DEF ReadRecords
  <2>2. Whole.rows = [k \in 1..n |-> Recorded(taken[k])]
    BY <1>3, <1>5, <1>8
  <2> QED BY <1>2, <1>6, <2>1, <2>2
<1> QED BY <1>7, <1>8

----------------------------------------------------------------------------
(* The comparison.                                                         *)

\* The recorded side of a comparison without a map.
LEMMA SeenFields ==
  ASSUME NEW p, NEW mapped, NEW order
  PROVE  LET r == Recorded(Taken(p))
             rec == Seen(r, mapped, order)
         IN  /\ rec.path = p /\ rec.entity = Taken(p).entity
             /\ rec.meta = IF mapped THEN Apply(scene.map, order, r.meta) ELSE r.meta
<1> DEFINE r == Recorded(Taken(p))
<1>1. r = [entity |-> Taken(p).entity, path |-> p, meta |-> r.meta]
  BY TakenFields
<1> HIDE DEF r
<1>2. Seen(r, mapped, order) =
        [entity |-> r.entity, path |-> r.path,
         meta |-> IF mapped THEN Apply(scene.map, order, r.meta) ELSE r.meta]
  BY <1>1 DEF Seen
<1> QED BY <1>1, <1>2 DEF r

\* The records a restore or a comparison goes by: one for each directory the
\* backup recorded and the filter selects.
LEMMA CollectedOf ==
  ASSUME CycleInv, Trusted, NEW f, NEW mapped, NEW order
  PROVE  LET records == Collected(f, mapped, order)
         IN  /\ DOMAIN records \subseteq Nat
             /\ {records[k].path : k \in DOMAIN records} = {p \in Due : FilterMatches(f, Taken(p))}
             /\ \A k \in DOMAIN records :
                    records[k] = Seen(Recorded(Taken(records[k].path)), mapped, order)
             /\ \A j, k \in DOMAIN records : records[j].path = records[k].path => j = k
<1> DEFINE n == Len(taken)
           K == {j \in 1..n : FilterMatches(f, Taken(taken[j].path))}
           records == Collected(f, mapped, order)
           seen(k) == Seen(Recorded(taken[k]), mapped, order)
<1>1. artifact # NoFile
  BY TrustedWhole
<1>2. DOMAIN taken = 1..n /\ n \in Nat
  BY <1>1 DEF CycleInv, Complete
<1>3. \A k \in 1..n : taken[k] = Taken(taken[k].path) /\ taken[k].path \in Due
  BY <1>1, <1>2 DEF CycleInv, Complete
<1>4. ReadRecords(artifact) = [k \in 1..n |-> Recorded(taken[k])]
  BY <1>2, ReadBack DEF VerifiedReadsBack
<1>5. \A k \in 1..n : /\ seen(k).path = taken[k].path
                      /\ FilterMatches(f, seen(k)) <=> FilterMatches(f, Taken(taken[k].path))
  <2> SUFFICES ASSUME NEW k \in 1..n
               PROVE  /\ seen(k).path = taken[k].path
                      /\ FilterMatches(f, seen(k)) <=> FilterMatches(f, Taken(taken[k].path))
    OBVIOUS
  <2>1. /\ seen(k).path = taken[k].path
        /\ seen(k).entity = Taken(taken[k].path).entity
        /\ Taken(taken[k].path).path = taken[k].path
    BY <1>3, TakenFields, SeenFields
  <2> HIDE DEF seen
  <2> QED BY <2>1, SameFilter
<1>6. records = [k \in K |-> seen(k)]
  <2> DEFINE read == ReadRecords(artifact)
             through(rec) == IF mapped THEN [rec EXCEPT !.meta = Apply(scene.map, order, @)] ELSE rec
  <2>1. records = [k \in {j \in DOMAIN read : FilterMatches(f, through(read[j]))} |-> through(read[k])]
    BY DEF Collected
  <2>2. \A k \in 1..n : read[k] = Recorded(taken[k]) /\ through(read[k]) = seen(k)
    BY <1>4 DEF Seen
  <2>3. DOMAIN read = 1..n
    BY <1>4
  <2> HIDE DEF read, through, records, seen
  <2>4. {j \in DOMAIN read : FilterMatches(f, through(read[j]))} = K
    BY <1>5, <2>2, <2>3
  <2> QED BY <2>1, <2>2, <2>4
<1> HIDE DEF records, seen
<1>7. DOMAIN records = K /\ \A k \in K : records[k] = seen(k) /\ records[k].path = taken[k].path
  BY <1>5, <1>6
<1>8. {records[k].path : k \in K} = {p \in Due : FilterMatches(f, Taken(p))}
  <2>1. \A p \in Due : \E k \in 1..n : taken[k].path = p
    BY <1>1, <1>2 DEF CycleInv, Complete
  <2>2. ASSUME NEW p \in Due, FilterMatches(f, Taken(p))
        PROVE  \E k \in K : records[k].path = p
    <3>1. PICK k \in 1..n : taken[k].path = p
      BY <2>1
    <3>2. k \in K
      BY <2>2, <3>1
    <3> QED BY <1>7, <3>1, <3>2
  <2>3. ASSUME NEW k \in K PROVE records[k].path \in Due /\ FilterMatches(f, Taken(records[k].path))
    BY <1>3, <1>7
  <2> HIDE DEF K
  <2> QED BY <2>2, <2>3
<1>9. \A k \in K : records[k] = Seen(Recorded(Taken(records[k].path)), mapped, order)
  BY <1>3, <1>7 DEF seen
<1>10. \A j, k \in K : records[j].path = records[k].path => j = k
  BY <1>1, <1>2, <1>7 DEF CycleInv, Complete
<1>11. K \subseteq Nat
  BY <1>2
<1> HIDE DEF K
<1> QED BY <1>7, <1>8, <1>9, <1>10, <1>11 DEF records

LEMMA SnapOf ==
  ASSUME CycleInv, Trusted, NEW f, NEW mapped, NEW order
  PROVE  LET snap == Indexed(Collected(f, mapped, order))
         IN  /\ DOMAIN snap = {p \in Due : FilterMatches(f, Taken(p))}
             /\ \A p \in DOMAIN snap : snap[p] = Seen(Recorded(Taken(p)), mapped, order)
<1> DEFINE records == Collected(f, mapped, order)
           snap == Indexed(records)
           K == DOMAIN records
<1>1. /\ K \subseteq Nat
      /\ {records[k].path : k \in K} = {p \in Due : FilterMatches(f, Taken(p))}
      /\ \A k \in K : records[k] = Seen(Recorded(Taken(records[k].path)), mapped, order)
      /\ \A j, k \in K : records[j].path = records[k].path => j = k
  BY CollectedOf
<1> HIDE DEF records
<1>2. DOMAIN snap = {p \in Due : FilterMatches(f, Taken(p))}
  BY <1>1 DEF Indexed
<1>3. ASSUME NEW p \in DOMAIN snap
      PROVE  snap[p] = Seen(Recorded(Taken(p)), mapped, order)
  <2> DEFINE Latest(k) == records[k].path = p /\ \A j \in K : records[j].path = p => j <= k
  <2>1. PICK k \in K : records[k].path = p
    BY <1>1, <1>2, <1>3
  <2>2. \A j \in K : records[j].path = p => j = k
    BY <1>1, <2>1
  <2>3. k \in Int
    BY <1>1, <2>1
  <2>4. Latest(k) /\ \A j \in K : Latest(j) => j = k
    BY <2>1, <2>2, <2>3
  <2>5. (CHOOSE j \in K : Latest(j)) = k
    BY <2>1, <2>4
  <2>6. snap[p] = records[CHOOSE j \in K : Latest(j)]
    BY <1>1, <1>2, <1>3 DEF Indexed
  <2> QED BY <1>1, <2>1, <2>5, <2>6
<1> QED BY <1>2, <1>3 DEF records

\* The live side, read with the accounts of the host.
LEMMA KeptOf ==
  ASSUME NEW f
  PROVE  /\ \A p : Record(p).path = p /\ Record(p).meta = ReadMeta(live[p], accounts)
         /\ \A rec : rec \in LiveKept(f) <=>
                \E p \in Scanned(f, DOMAIN live) : FilterMatches(f, Taken(p)) /\ rec = Record(p)
<1>1. \A p : /\ Record(p).path = p /\ Record(p).meta = ReadMeta(live[p], accounts)
             /\ Record(p).entity = Taken(p).entity /\ Taken(p).path = p
  BY DEF Record, Taken
<1>2. \A p : FilterMatches(f, Record(p)) <=> FilterMatches(f, Taken(p))
  BY <1>1, SameFilter
<1>3. \A rec : rec \in LiveRecords(f) <=> \E p \in Scanned(f, DOMAIN live) : rec = Record(p)
  BY DEF LiveRecords
<1>4. \A rec : rec \in LiveKept(f) <=> rec \in LiveRecords(f) /\ FilterMatches(f, rec)
  BY DEF LiveKept
<1> QED BY <1>1, <1>2, <1>3, <1>4

\* What the items of a comparison mean.
LEMMA ItemsMean ==
  ASSUME NEW snap, NEW kept, NEW files, NEW ignoring
  PROVE  LET paths == {rec.path : rec \in kept}
             items == Items(snap, kept, files, ignoring)
         IN  /\ \A p \in DOMAIN snap \ paths : <<p, "missing">> \in items
             /\ \A p \in (paths \ DOMAIN snap) \ {<<>>} : <<p, "untracked">> \in items
             /\ \A p \in files : <<p, "file">> \in items
             /\ \A rec \in kept : \A kind : 
                    rec.path \in DOMAIN snap /\ kind \in Compared(snap[rec.path].meta, rec.meta, ignoring)
                        => <<rec.path, kind>> \in items
             /\ \A item \in items :
                    \/ item[2] = "missing" /\ item[1] \in DOMAIN snap \ paths
                    \/ item[2] = "untracked" /\ item[1] \in (paths \ DOMAIN snap) \ {<<>>}
                    \/ item[2] = "file" /\ item[1] \in files
                    \/ \E rec \in kept : /\ rec.path = item[1] /\ rec.path \in DOMAIN snap
                                         /\ item[2] \in Compared(snap[rec.path].meta, rec.meta, ignoring)
<1> DEFINE paths == {rec.path : rec \in kept}
           items == Items(snap, kept, files, ignoring)
           both == {x \in kept : x.path \in DOMAIN snap}
           about(rec) == {<<rec.path, kind>> : kind \in Compared(snap[rec.path].meta, rec.meta, ignoring)}
<1>1. items = {<<p, "missing">> : p \in DOMAIN snap \ paths}
              \cup {<<p, "untracked">> : p \in (paths \ DOMAIN snap) \ {<<>>}}
              \cup {<<p, "file">> : p \in files}
              \cup UNION {about(rec) : rec \in both}
  BY DEF Items
<1> HIDE DEF items, paths
<1>2. \A item : item \in UNION {about(rec) : rec \in both} <=>
            \E rec \in kept : rec.path \in DOMAIN snap /\
                \E kind \in Compared(snap[rec.path].meta, rec.meta, ignoring) : item = <<rec.path, kind>>
  OBVIOUS
<1> HIDE DEF about, both
<1>3. \A rec \in kept : \A kind :
            rec.path \in DOMAIN snap /\ kind \in Compared(snap[rec.path].meta, rec.meta, ignoring)
                => <<rec.path, kind>> \in items
  BY <1>1, <1>2
<1>4. \A item \in items :
            \/ item[2] = "missing" /\ item[1] \in DOMAIN snap \ paths
            \/ item[2] = "untracked" /\ item[1] \in (paths \ DOMAIN snap) \ {<<>>}
            \/ item[2] = "file" /\ item[1] \in files
            \/ \E rec \in kept : /\ rec.path = item[1] /\ rec.path \in DOMAIN snap
                                 /\ item[2] \in Compared(snap[rec.path].meta, rec.meta, ignoring)
  BY <1>1, <1>2
<1>5. /\ \A p \in DOMAIN snap \ paths : <<p, "missing">> \in items
      /\ \A p \in (paths \ DOMAIN snap) \ {<<>>} : <<p, "untracked">> \in items
      /\ \A p \in files : <<p, "file">> \in items
  BY <1>1
<1> QED BY <1>3, <1>4, <1>5 DEF items, paths

LEMMA RecordedMeta ==
  ASSUME NEW p
  PROVE  LET r == Recorded(Taken(p)).meta
         IN  /\ DOMAIN r = {"mode", "uid", "acl", "sddl", "user", "sid"}
             /\ r.mode = base[p].mode /\ r.acl = base[p].acl /\ r.sddl = base[p].sddl
             /\ r.user = IF base[p].uid \in DOMAIN Home THEN Home[base[p].uid] ELSE None
             /\ r.sid \in {<<>>, IF base[p].sddl = <<>> THEN <<>> ELSE Head(base[p].sddl)}
<1> DEFINE t == Taken(p).meta
           r == Recorded(Taken(p)).meta
<1>1. r = IF scene.format = "tsv" THEN WithoutSid(t) ELSE t
  BY TakenFields
<1>2. t = ReadMeta(base[p], Home)
  BY TakenFields
<1> HIDE DEF r, t
<1>3. /\ DOMAIN r = {"mode", "uid", "acl", "sddl", "user", "sid"}
      /\ r.mode = base[p].mode /\ r.acl = base[p].acl /\ r.sddl = base[p].sddl
      /\ r.user = IF base[p].uid \in DOMAIN Home THEN Home[base[p].uid] ELSE None
      /\ r.sid \in {<<>>, IF base[p].sddl = <<>> THEN <<>> ELSE Head(base[p].sddl)}
  <2>1. /\ DOMAIN t = {"mode", "uid", "acl", "sddl", "user", "sid"}
        /\ DOMAIN WithoutSid(t) = DOMAIN t
        /\ \A x \in DOMAIN t \ {"sid"} : WithoutSid(t)[x] = t[x]
        /\ WithoutSid(t).sid = <<>>
        /\ t.mode = base[p].mode /\ t.acl = base[p].acl /\ t.sddl = base[p].sddl
        /\ t.user = IF base[p].uid \in DOMAIN Home THEN Home[base[p].uid] ELSE None
        /\ t.sid = IF base[p].sddl = <<>> THEN <<>> ELSE Head(base[p].sddl)
    BY <1>2, MetaFields
  <2> QED BY <1>1, <2>1
<1> QED BY <1>3 DEF r

\* The two sides of a comparison with the filter of the backup.
LEMMA BothSides ==
  ASSUME CycleInv, report.made, Trusted, report.filter = scene.take
  PROVE  \E order \in Orders(scene.map.sids) :
            LET snap == Indexed(Collected(scene.take, report.mapped, order))
                kept == LiveKept(scene.take)
            IN  /\ report.items =
                    Items(snap, kept, payload \cap Walked(scene.take, DOMAIN live), report.ignoring)
                /\ DOMAIN snap = {p \in Due : FilterMatches(scene.take, Taken(p))}
                /\ \A p \in DOMAIN snap : snap[p] = Seen(Recorded(Taken(p)), report.mapped, order)
                /\ {rec.path : rec \in kept} =
                    {p \in Scanned(scene.take, DOMAIN live) : FilterMatches(scene.take, Taken(p))}
                /\ \A rec \in kept : rec.meta = ReadMeta(live[rec.path], accounts)
<1> DEFINE kept == LiveKept(scene.take)
<1>1. PICK order \in Orders(scene.map.sids) :
        report.items = Items(Indexed(Collected(scene.take, report.mapped, order)), kept,
                             payload \cap Walked(scene.take, DOMAIN live), report.ignoring)
  <2>1. Compares(scene.take, report.mapped, report.ignoring)
    BY DEF CycleInv, UpToDate
  <2> QED BY <2>1 DEF Compares
<1>2. LET snap == Indexed(Collected(scene.take, report.mapped, order))
      IN  /\ DOMAIN snap = {p \in Due : FilterMatches(scene.take, Taken(p))}
          /\ \A p \in DOMAIN snap : snap[p] = Seen(Recorded(Taken(p)), report.mapped, order)
  <2> DEFINE f == scene.take
             mapped == report.mapped
  <2> HIDE DEF f, mapped
  <2>1. LET snap == Indexed(Collected(f, mapped, order))
        IN  /\ DOMAIN snap = {p \in Due : FilterMatches(f, Taken(p))}
            /\ \A p \in DOMAIN snap : snap[p] = Seen(Recorded(Taken(p)), mapped, order)
    BY SnapOf
  <2> QED BY <2>1 DEF f, mapped
<1>3. /\ {rec.path : rec \in kept} =
            {p \in Scanned(scene.take, DOMAIN live) : FilterMatches(scene.take, Taken(p))}
      /\ \A rec \in kept : rec.meta = ReadMeta(live[rec.path], accounts)
  <2>1. /\ \A p : Record(p).path = p /\ Record(p).meta = ReadMeta(live[p], accounts)
        /\ \A rec : rec \in kept <=>
              \E p \in Scanned(scene.take, DOMAIN live) : FilterMatches(scene.take, Taken(p)) /\ rec = Record(p)
    BY KeptOf
  <2> HIDE DEF kept
  <2> QED BY <2>1
<1> QED BY <1>1, <1>2, <1>3

\* Of the backed up tree itself.
LEMMA AuditSides ==
  ASSUME CycleInv, Audit, report.filter = scene.take
  PROVE  \E snap :
            LET kept == LiveKept(scene.take)
            IN  /\ report.items =
                    Items(snap, kept, payload \cap Walked(scene.take, DOMAIN live), report.ignoring)
                /\ DOMAIN snap = {p \in Due : FilterMatches(scene.take, Taken(p))}
                /\ \A p \in DOMAIN snap : snap[p].meta = Recorded(Taken(p)).meta
                /\ {rec.path : rec \in kept} =
                    {p \in Scanned(scene.take, DOMAIN live) : FilterMatches(scene.take, Taken(p))}
                /\ \A rec \in kept : rec.meta = ReadMeta(live[rec.path], Home)
<1>1. accounts = Home /\ report.mapped = FALSE /\ report.made /\ Trusted
  BY DEF CycleInv, Audit, OwnTree, UpToDate
<1> DEFINE snap(order) == Indexed(Collected(scene.take, report.mapped, order))
           kept == LiveKept(scene.take)
<1>2. PICK order \in Orders(scene.map.sids) :
        /\ report.items =
            Items(snap(order), kept, payload \cap Walked(scene.take, DOMAIN live), report.ignoring)
        /\ DOMAIN snap(order) = {p \in Due : FilterMatches(scene.take, Taken(p))}
        /\ \A p \in DOMAIN snap(order) : snap(order)[p] = Seen(Recorded(Taken(p)), report.mapped, order)
        /\ {rec.path : rec \in kept} =
            {p \in Scanned(scene.take, DOMAIN live) : FilterMatches(scene.take, Taken(p))}
        /\ \A rec \in kept : rec.meta = ReadMeta(live[rec.path], accounts)
  BY <1>1, BothSides
<1>3. \A p \in DOMAIN snap(order) : snap(order)[p].meta = Recorded(Taken(p)).meta
  BY <1>1, <1>2, SeenFields
<1> HIDE DEF snap, kept
<1> QED BY <1>1, <1>2, <1>3 DEF kept

\* A field that differs is one that was changed.
LEMMA DifferenceIsReal ==
  ASSUME NEW p, NEW kind, kind \in Compared(Recorded(Taken(p)).meta, ReadMeta(live[p], Home), report.ignoring)
  PROVE  Real(p, kind)
<1> DEFINE r == Recorded(Taken(p)).meta
           l == ReadMeta(live[p], Home)
<1>1. /\ r.mode = base[p].mode /\ r.acl = base[p].acl /\ r.sddl = base[p].sddl
      /\ r.user = IF base[p].uid \in DOMAIN Home THEN Home[base[p].uid] ELSE None
      /\ r.sid \in {<<>>, IF base[p].sddl = <<>> THEN <<>> ELSE Head(base[p].sddl)}
  BY RecordedMeta
<1>2. /\ l.mode = live[p].mode /\ l.acl = live[p].acl /\ l.sddl = live[p].sddl
      /\ l.user = IF live[p].uid \in DOMAIN Home THEN Home[live[p].uid] ELSE None
      /\ l.sid = IF live[p].sddl = <<>> THEN <<>> ELSE Head(live[p].sddl)
  BY MetaFields
<1> HIDE DEF r, l
<1>3. kind \in Compared(r, l, report.ignoring)
  BY DEF r, l
<1>4. kind \in {"mode", "user", "owner_sid", "sddl", "acl_access"}
  BY <1>3 DEF Compared
<1>5. CASE kind = "mode"
  BY <1>1, <1>2, <1>3, <1>5 DEF Compared, Differ, Real
<1>6. CASE kind = "user"
  BY <1>1, <1>2, <1>3, <1>6 DEF Compared, Differ, Real
<1>7. CASE kind = "owner_sid"
  BY <1>1, <1>2, <1>3, <1>7 DEF Compared, Differ, Real
<1>8. CASE kind = "sddl"
  BY <1>1, <1>2, <1>3, <1>8 DEF Compared, Differ, Real
<1>9. CASE kind = "acl_access"
  BY <1>1, <1>2, <1>3, <1>9 DEF Compared, Differ, Real
<1> QED BY <1>4, <1>5, <1>6, <1>7, <1>8, <1>9

\* The filter and the traversal agree on both sides.
LEMMA NoneFalse == CycleInv => NoFalseDrift
<1> SUFFICES ASSUME CycleInv, Audit, report.filter = scene.take, NEW item \in report.items
             PROVE  Real(item[1], item[2])
  BY DEF NoFalseDrift
<1> DEFINE kept == LiveKept(scene.take)
           paths == {rec.path : rec \in kept}
           files == payload \cap Walked(scene.take, DOMAIN live)
<1>1. PICK snap :
      /\ report.items = Items(snap, kept, files, report.ignoring)
      /\ DOMAIN snap = {p \in Due : FilterMatches(scene.take, Taken(p))}
      /\ \A p \in DOMAIN snap : snap[p].meta = Recorded(Taken(p)).meta
      /\ paths = {p \in Scanned(scene.take, DOMAIN live) : FilterMatches(scene.take, Taken(p))}
      /\ \A rec \in kept : rec.meta = ReadMeta(live[rec.path], Home)
  BY AuditSides
<1>2. \/ item[2] = "missing" /\ item[1] \in DOMAIN snap \ paths
      \/ item[2] = "untracked" /\ item[1] \in (paths \ DOMAIN snap) \ {<<>>}
      \/ item[2] = "file" /\ item[1] \in files
      \/ \E rec \in kept : /\ rec.path = item[1] /\ rec.path \in DOMAIN snap
                           /\ item[2] \in Compared(snap[rec.path].meta, rec.meta, report.ignoring)
  <2> HIDE DEF kept, files
  <2> QED BY <1>1, ItemsMean
<1> HIDE DEF kept, paths
<1>3. CASE item[2] = "missing" /\ item[1] \in DOMAIN snap \ paths
  <2>1. item[1] \in DOMAIN base /\ item[1] \notin DOMAIN live
    BY <1>1, <1>3, ScanLocal DEF Due
  <2> QED BY <1>3, <2>1 DEF Real
<1>4. CASE item[2] = "untracked" /\ item[1] \in (paths \ DOMAIN snap) \ {<<>>}
  <2>1. item[1] \in DOMAIN live /\ item[1] \notin DOMAIN base
    BY <1>1, <1>4, ScanLocal DEF Due
  <2> QED BY <1>4, <2>1 DEF Real
<1>5. CASE item[2] = "file" /\ item[1] \in files
  BY <1>5 DEF Real
<1>6. CASE \E rec \in kept : /\ rec.path = item[1] /\ rec.path \in DOMAIN snap
                             /\ item[2] \in Compared(snap[rec.path].meta, rec.meta, report.ignoring)
  BY <1>1, <1>6, DifferenceIsReal
<1> QED BY <1>2, <1>3, <1>4, <1>5, <1>6

\* The directories above p, and p.
LEMMA LineageOf ==
  ASSUME NEW p, IsSeq(p), p # <<>>
  PROVE  /\ p \in Lineage(p)
         /\ SubSeq(p, 1, 1) \in Lineage(p) /\ SubSeq(p, 1, 1) = <<p[1]>>
         /\ Lineage(p) \subseteq Lineage(Front(p)) \cup {p}
<1> DEFINE S == {p[k] : k \in DOMAIN p}
           n == Len(p)
<1>1. p \in Seq(S)
  BY DEF IsSeq
<1>2. n \in Nat /\ n >= 1 /\ DOMAIN p = 1..n
  BY <1>1, LenProperties, EmptySeq
<1>3. SubSeq(p, 1, n) = p
  BY <1>1, SubSeqFull
<1>4. SubSeq(p, 1, 1) = <<p[1]>>
  BY EntityOf
<1>5. ASSUME NEW k \in 1..(n - 1) PROVE SubSeq(p, 1, k) \in Lineage(Front(p))
  <2> DEFINE q == SubSeq(p, 1, n - 1)
  <2>1. Front(p) = q
    BY DEF Front
  <2>2. \A i \in 1..(n - 1) : p[i] \in S
    BY <1>2
  <2> HIDE DEF S
  <2>3. q \in Seq(S) /\ Len(q) = n - 1
    BY <1>2, <1>5, <2>2, SubSeqProperties
  <2>4. SubSeq(q, 1, k) = SubSeq(p, 1, k)
    <3>1. 1 \in 1..n /\ n - 1 \in 1..n /\ 1 \in 1..((n - 1) - 1 + 1) /\ k \in 1..((n - 1) - 1 + 1)
      BY <1>2, <1>5
    <3>2. SubSeq(q, 1, k) = SubSeq(p, 1 + 1 - 1, 1 + k - 1)
      BY <1>1, <3>1, SubSeqOfSubSeq
    <3> QED BY <3>2, <1>5
  <2>5. k \in 1..Len(q)
    BY <2>3, <1>5
  <2> QED BY <2>1, <2>4, <2>5 DEF Lineage
<1>6. \A q \in Lineage(p) : q = p \/ \E k \in 1..(n - 1) : q = SubSeq(p, 1, k)
  BY <1>2, <1>3 DEF Lineage
<1>7. p \in Lineage(p) /\ SubSeq(p, 1, 1) \in Lineage(p)
  <2>1. \A k \in 1..n : SubSeq(p, 1, k) \in Lineage(p)
    BY DEF Lineage
  <2>2. 1 \in 1..n /\ n \in 1..n
    BY <1>2
  <2> QED BY <1>3, <2>1, <2>2
<1> QED BY <1>4, <1>5, <1>6, <1>7

\* The filter of the backup selects what its scan shows, but for an excluded root.
LEMMA DueIsSelected ==
  ASSUME Setting, NEW p \in Due, ~SomeMatch(scene.take.exclude, <<>>)
  PROVE  FilterMatches(scene.take, Taken(p))
<1> DEFINE f == scene.take
           rec == Taken(p)
<1>1. rec.path = p /\ rec.entity = SubSeq(p, 1, IF p = <<>> THEN 0 ELSE 1)
  BY TakenFields
<1>2. IsSeq(p) /\ \A q \in Lineage(p) : Enters(f, q)
  BY ScanLocal, SceneAssumption DEF Due, Setting, Walked
<1>3. IsMatchInclude(f, p)
  BY DEF Due, Scanned
<1> HIDE DEF rec
<1>4. CASE p = <<>>
  BY <1>1, <1>4 DEF FilterMatches, rec
<1>5. CASE p # <<>>
  <2>1. Enters(f, p) /\ Enters(f, <<p[1]>>)
    BY <1>2, <1>5, LineageOf
  <2>2. ~SomeMatch(f.exclude, rec.path)
    BY <1>1, <2>1 DEF Enters
  <2>3. f.include # {} => SomeMatch(f.include, rec.path)
    BY <1>1, <1>3, <1>5 DEF IsMatchInclude
  <2>4. f.entities # {} => rec.entity \in {<<e>> : e \in f.entities}
    <3> SUFFICES ASSUME NEW e \in f.entities PROVE rec.entity = <<e>>
      OBVIOUS
    <3>1. f.entities = {e}
      BY SceneAssumption DEF Setting
    <3>2. Len(<<p[1]>>) = 1
      OBVIOUS
    <3>3. <<p[1]>> = <<e>>
      BY <2>1, <3>1, <3>2 DEF Enters
    <3>4. rec.entity = <<p[1]>>
      BY <1>1, <1>2, <1>5, LineageOf
    <3> QED BY <3>3, <3>4
  <2> QED BY <2>2, <2>3, <2>4 DEF FilterMatches, rec
<1> QED BY <1>4, <1>5

\* The scan shows a selected directory whose parent is recorded.
LEMMA SelectedIsDue ==
  ASSUME NEW p \in DOMAIN live, IsSeq(p), p # <<>>,
         Front(p) \in Due, FilterMatches(scene.take, Taken(p))
  PROVE  p \in Scanned(scene.take, DOMAIN live)
<1> DEFINE f == scene.take
<1>1. Taken(p).path = p /\ Taken(p).entity = <<p[1]>>
  BY TakenFields, LineageOf
<1>2. /\ f.entities # {} => <<p[1]>> \in {<<e>> : e \in f.entities}
      /\ f.include # {} => SomeMatch(f.include, p)
      /\ ~SomeMatch(f.exclude, p)
  BY <1>1 DEF FilterMatches
<1>3. IsTraversable(f, p)
  BY <1>2 DEF IsTraversable, SomeMatch
<1>4. \A e \in f.entities : f.entities = {e} /\ Len(p) = 1 => p = <<e>>
  <2> SUFFICES ASSUME NEW e \in f.entities, f.entities = {e}, Len(p) = 1 PROVE p = <<e>>
    OBVIOUS
  <2>1. <<p[1]>> = <<e>>
    BY <1>2
  <2>2. SubSeq(p, 1, Len(p)) = p
    BY SubSeqFull DEF IsSeq
  <2>3. p = <<p[1]>>
    BY <2>2, LineageOf
  <2> QED BY <2>1, <2>3
<1>5. Enters(f, p)
  BY <1>2, <1>3, <1>4 DEF Enters
<1>6. \A q \in Lineage(Front(p)) : Enters(f, q)
  BY ScanLocal DEF Due, Walked
<1>7. \A q \in Lineage(p) : Enters(f, q)
  BY <1>5, <1>6, LineageOf
<1>8. IsMatchInclude(f, p)
  BY <1>2 DEF IsMatchInclude
<1> QED BY <1>7, <1>8 DEF Scanned, Walked

LEMMA AllShow == CycleInv => ChangesShow
<1> DEFINE recorded == {taken[k].path : k \in DOMAIN taken}
           Shows(p, kind) == <<p, kind>> \in report.items
<1> SUFFICES ASSUME CycleInv, Audit, report.filter = scene.take, ~SomeMatch(scene.take.exclude, <<>>)
             PROVE
               /\ \A p \in recorded \ DOMAIN live : Shows(p, "missing")
               /\ \A p \in recorded \cap DOMAIN live :
                   /\ base[p].mode # live[p].mode => Shows(p, "mode")
                   /\ base[p].sddl # live[p].sddl => Shows(p, "sddl")
                   /\ base[p].acl # live[p].acl /\ None \notin {base[p].acl, live[p].acl}
                       => Shows(p, "acl_access")
                   /\ {base[p].uid, live[p].uid} \subseteq DOMAIN Home
                       => \/ Home[base[p].uid] = Home[live[p].uid]
                          \/ Shows(p, "user") \/ report.ignoring
                   /\ p \in payload => Shows(p, "file")
               /\ \A p \in DOMAIN live \ DOMAIN base :
                   Front(p) \in recorded /\ FilterMatches(scene.take, Record(p))
                       => Shows(p, "untracked")
  BY DEF ChangesShow
<1> DEFINE kept == LiveKept(scene.take)
           paths == {rec.path : rec \in kept}
           files == payload \cap Walked(scene.take, DOMAIN live)
<1>1. PICK snap :
      /\ report.items = Items(snap, kept, files, report.ignoring)
      /\ DOMAIN snap = {p \in Due : FilterMatches(scene.take, Taken(p))}
      /\ \A p \in DOMAIN snap : snap[p].meta = Recorded(Taken(p)).meta
      /\ paths = {p \in Scanned(scene.take, DOMAIN live) : FilterMatches(scene.take, Taken(p))}
      /\ \A rec \in kept : rec.meta = ReadMeta(live[rec.path], Home)
  BY AuditSides
<1>2. /\ \A p \in DOMAIN snap \ paths : Shows(p, "missing")
      /\ \A p \in (paths \ DOMAIN snap) \ {<<>>} : Shows(p, "untracked")
      /\ \A p \in files : Shows(p, "file")
      /\ \A rec \in kept : \A kind :
            rec.path \in DOMAIN snap /\ kind \in Compared(snap[rec.path].meta, rec.meta, report.ignoring)
                => Shows(rec.path, kind)
  <2> HIDE DEF kept, files
  <2> QED BY <1>1, ItemsMean
<1>3. recorded \subseteq Due
  BY TrustedWhole DEF Audit, CycleInv, Complete
<1>4. DOMAIN snap = Due
  BY <1>1, DueIsSelected DEF CycleInv
<1>5. ASSUME NEW p \in Due, p \in DOMAIN live PROVE p \in paths
  BY <1>1, <1>4, <1>5, ScanLocal DEF Due
<1>6. ASSUME NEW p \in paths PROVE p \in DOMAIN live
  BY <1>1, ScanLocal
<1>7. ASSUME NEW p \in Due, p \in DOMAIN live, NEW kind,
             kind \in Compared(Recorded(Taken(p)).meta, ReadMeta(live[p], Home), report.ignoring)
      PROVE  Shows(p, kind)
  <2>1. PICK rec \in kept : rec.path = p
    BY <1>5, <1>7
  <2> HIDE DEF kept, paths, files
  <2>2. p \in DOMAIN snap /\ snap[p].meta = Recorded(Taken(p)).meta
    BY <1>1, <1>4, <1>7
  <2>3. rec.meta = ReadMeta(live[p], Home)
    BY <1>1, <2>1
  <2> QED BY <1>2, <1>7, <2>1, <2>2, <2>3
<1> HIDE DEF kept, paths
<1>8. \A p \in recorded \ DOMAIN live : Shows(p, "missing")
  BY <1>2, <1>3, <1>4, <1>6
<1>9. ASSUME NEW p \in recorded \cap DOMAIN live
      PROVE  /\ base[p].mode # live[p].mode => Shows(p, "mode")
             /\ base[p].sddl # live[p].sddl => Shows(p, "sddl")
             /\ base[p].acl # live[p].acl /\ None \notin {base[p].acl, live[p].acl}
                 => Shows(p, "acl_access")
             /\ {base[p].uid, live[p].uid} \subseteq DOMAIN Home
                 => \/ Home[base[p].uid] = Home[live[p].uid]
                    \/ Shows(p, "user") \/ report.ignoring
             /\ p \in payload => Shows(p, "file")
  <2> DEFINE r == Recorded(Taken(p)).meta
             l == ReadMeta(live[p], Home)
  <2>1. p \in Due /\ p \in DOMAIN live
    BY <1>3
  <2>2. /\ r.mode = base[p].mode /\ r.acl = base[p].acl /\ r.sddl = base[p].sddl
        /\ r.user = IF base[p].uid \in DOMAIN Home THEN Home[base[p].uid] ELSE None
    BY RecordedMeta
  <2>3. /\ l.mode = live[p].mode /\ l.acl = live[p].acl /\ l.sddl = live[p].sddl
        /\ l.user = IF live[p].uid \in DOMAIN Home THEN Home[live[p].uid] ELSE None
    BY MetaFields
  <2>4. \A kind : kind \in Compared(r, l, report.ignoring) => Shows(p, kind)
    BY <1>7, <2>1
  <2> HIDE DEF r, l
  <2>5. /\ base[p].mode = None <=> live[p].mode = None
        /\ base[p].sddl = <<>> <=> live[p].sddl = <<>>
    <3>1. Kindred(base[p], scene.made) /\ Kindred(live[p], scene.made)
      BY <2>1, ScanLocal, SceneAssumption DEF Due, CycleInv, Setting, OwnTree, Audit
    <3> QED BY <3>1 DEF Kindred
  <2>6. base[p].mode # live[p].mode => "mode" \in Compared(r, l, report.ignoring)
    BY <2>2, <2>3, <2>5 DEF Compared, Differ
  <2>7. base[p].sddl # live[p].sddl => "sddl" \in Compared(r, l, report.ignoring)
    BY <2>2, <2>3, <2>5 DEF Compared, Differ
  <2>8. base[p].acl # live[p].acl /\ None \notin {base[p].acl, live[p].acl}
            => "acl_access" \in Compared(r, l, report.ignoring)
    BY <2>2, <2>3 DEF Compared, Differ
  <2>9. {base[p].uid, live[p].uid} \subseteq DOMAIN Home /\ Home[base[p].uid] # Home[live[p].uid]
            => report.ignoring \/ "user" \in Compared(r, l, report.ignoring)
    BY <2>2, <2>3, HostAssumption DEF Compared, Differ
  <2>10. p \in payload => Shows(p, "file")
    BY <1>2, <2>1, ScanLocal DEF Due, Walked
  <2> QED BY <2>4, <2>6, <2>7, <2>8, <2>9, <2>10
<1>10. ASSUME NEW p \in DOMAIN live \ DOMAIN base,
              Front(p) \in recorded, FilterMatches(scene.take, Record(p))
       PROVE  Shows(p, "untracked")
  <2>1. IsSeq(p) /\ p # <<>>
    BY SceneAssumption DEF CycleInv, Setting, OwnTree, Audit
  <2>2. FilterMatches(scene.take, Taken(p))
    BY <1>10, SameFilter DEF Record, Taken
  <2>3. p \in paths
    BY <1>1, <1>3, <1>10, <2>1, <2>2, SelectedIsDue DEF paths
  <2>4. p \notin DOMAIN snap
    BY <1>4, ScanLocal DEF Due
  <2> QED BY <1>2, <2>1, <2>3, <2>4
<1> QED BY <1>8, <1>9, <1>10

----------------------------------------------------------------------------
(* The identity map.                                                       *)

\* f[k] is what the first k replacements make of sid.
Replaces(f, sids, order, sid) ==
    /\ f[0] = sid
    /\ \A k \in 1..Len(order) : f[k] = Replace(f[k - 1], order[k], sids[order[k]])

\* There is only one such f.
LEMMA ReplacedAlike ==
  ASSUME NEW sids, NEW order, NEW sid, NEW g, NEW h, Len(order) \in Nat,
         Replaces(g, sids, order, sid), Replaces(h, sids, order, sid)
  PROVE  g[Len(order)] = h[Len(order)]
<1> DEFINE n == Len(order)
           T == {k \in 0..n : g[k] # h[k]}
           Less == {ss \in Nat \X Nat : ss[1] < ss[2]}
<1> SUFFICES ASSUME T # {} PROVE FALSE
  OBVIOUS
<1>1. PICK m \in T : \A k \in T : <<k, m>> \notin Less
  <2>1. T \subseteq Nat
    OBVIOUS
  <2>2. IsWellFoundedOn(Less, Nat)
    BY NatLessThanWellFounded DEF OpToRel
  <2> HIDE DEF T, Less
  <2> QED BY <2>1, <2>2, WFMin
<1>2. m # 0
  BY <1>1 DEF Replaces
<1>3. m - 1 \in 0..n /\ m \in 1..n /\ m - 1 < m /\ m - 1 \in Nat /\ m \in Nat
  BY <1>1, <1>2
<1>4. <<m - 1, m>> \in Less
  BY <1>3
<1>5. g[m - 1] = h[m - 1]
  BY <1>1, <1>3, <1>4
<1>6. /\ g[m] = Replace(g[m - 1], order[m], sids[order[m]])
      /\ h[m] = Replace(h[m - 1], order[m], sids[order[m]])
  BY <1>3 DEF Replaces
<1> QED BY <1>1, <1>5, <1>6

LEMMA RewrittenIs ==
  ASSUME NEW sids, NEW order, NEW sid, NEW g, Len(order) \in Nat,
         DOMAIN g = 0..Len(order), Replaces(g, sids, order, sid),
         g = [k \in DOMAIN g |-> g[k]]
  PROVE  Rewritten(sids, order, sid) = g[Len(order)]
<1> DEFINE n == Len(order)
           Obeys(f) == f = [k \in 0..n |-> IF k = 0 THEN sid ELSE Replace(f[k - 1], order[k], sids[order[k]])]
           h == CHOOSE f : Obeys(f)
<1>1. Obeys(g)
  BY DEF Replaces
<1>2. Obeys(h)
  <2> HIDE DEF Obeys
  <2> QED BY <1>1
<1>3. Rewritten(sids, order, sid) = h[n]
  BY DEF Rewritten
<1> HIDE DEF h
<1>4. Replaces(h, sids, order, sid)
  <2>1. \A k \in 0..n : h[k] = IF k = 0 THEN sid ELSE Replace(h[k - 1], order[k], sids[order[k]])
    BY <1>2
  <2>2. 0 \in 0..n /\ \A k \in 1..n : k \in 0..n /\ k # 0
    OBVIOUS
  <2> HIDE DEF Obeys
  <2> QED BY <2>1, <2>2 DEF Replaces
<1>5. h[n] = g[n]
  BY <1>4, ReplacedAlike
<1> QED BY <1>3, <1>5

\* An order takes each mapped SID once.
LEMMA OrderFacts ==
  ASSUME NEW sids, IsFiniteSet(DOMAIN sids), NEW order \in Orders(sids)
  PROVE  /\ Len(order) \in Nat /\ DOMAIN order = 1..Len(order)
         /\ \A k \in 1..Len(order) : order[k] \in DOMAIN sids
         /\ \A s \in DOMAIN sids : \E k \in 1..Len(order) : order[k] = s
         /\ \A j, k \in 1..Len(order) : j < k => order[j] # order[k] /\ Len(order[j]) >= Len(order[k])
<1> DEFINE S == DOMAIN sids
           n == Cardinality(S)
<1>1. n \in Nat
  BY FS_CardinalityType
<1>2. order \in [1..n -> S] /\ \A i, j \in 1..n : i # j => order[i] # order[j]
  BY DEF Orders, SetToSeqs
<1>3. order \in Injection(1..n, S)
  BY <1>2 DEF Injection, IsInjective
<1>4. Cardinality(1..n) = n
  BY <1>1, FS_Interval
<1>5. order \in Surjection(1..n, S)
  BY <1>3, <1>4, FS_Injection
<1>6. order \in Seq(S)
  BY <1>1, <1>2, SeqDef
<1>7. Len(order) = n /\ DOMAIN order = 1..n
  BY <1>1, <1>2, <1>6, LenProperties
<1>8. \A s \in S : \E k \in 1..n : order[k] = s
  BY <1>5 DEF Surjection
<1>9. \A i, j \in 1..n : i < j => Len(order[i]) >= Len(order[j])
  BY <1>7 DEF Orders
<1>10. \A j, k \in 1..n : j < k => order[j] # order[k]
  BY <1>1, <1>2
<1> QED BY <1>1, <1>2, <1>7, <1>8, <1>9, <1>10

LEMMA PrefixFacts ==
  ASSUME NEW s, NEW t, IsSeq(s), IsSeq(t), IsPrefix(s, t), Len(s) >= Len(t)
  PROVE  s = t
<1>1. Len(s) \in Nat /\ Len(t) \in Nat
  BY LenProperties DEF IsSeq
<1>2. Len(s) = Len(t)
  BY <1>1 DEF IsPrefix
<1>3. SubSeq(s, 1, Len(s)) = SubSeq(t, 1, Len(t))
  BY <1>2 DEF IsPrefix
<1>4. SubSeq(s, 1, Len(s)) = s /\ SubSeq(t, 1, Len(t)) = t
  BY SubSeqFull DEF IsSeq
<1> QED BY <1>3, <1>4

LEMMA ReplaceWhole ==
  ASSUME NEW s, NEW t, IsSeq(s), IsSeq(t)
  PROVE  Replace(s, s, t) = t
<1>1. Len(s) \in Nat
  BY LenProperties DEF IsSeq
<1>2. IsPrefix(s, s)
  BY <1>1 DEF IsPrefix
<1>3. SubSeq(s, Len(s) + 1, Len(s)) = <<>>
  BY <1>1, SubSeqEmpty DEF IsSeq
<1>4. t \o <<>> = t
  BY ConcatEmptySeq DEF IsSeq
<1> QED BY <1>2, <1>3, <1>4 DEF Replace

\* Where no target begins like another mapped SID, nor sid itself if it is not
\* mapped, the replacements amount to a look-up.
LEMMA RewrittenOnce ==
  ASSUME NEW sids, IsFiniteSet(DOMAIN sids), NEW order \in Orders(sids),
         \A s \in DOMAIN sids : IsSeq(s) /\ IsSeq(sids[s]),
         ~Chained(sids),
         NEW sid, IsSeq(sid),
         sid \in DOMAIN sids \/ \A s \in DOMAIN sids : ~IsPrefix(s, sid)
  PROVE  Rewritten(sids, order, sid) = IF sid \in DOMAIN sids THEN sids[sid] ELSE sid
<1> DEFINE n == Len(order)
           Met(k) == \E j \in 1..k : order[j] = sid
           g == [k \in 0..n |-> IF Met(k) THEN sids[sid] ELSE sid]
<1>1. /\ n \in Nat
      /\ \A k \in 1..n : order[k] \in DOMAIN sids
      /\ \A s \in DOMAIN sids : \E k \in 1..n : order[k] = s
      /\ \A j, k \in 1..n : j < k => order[j] # order[k] /\ Len(order[j]) >= Len(order[k])
  BY OrderFacts
<1>2. DOMAIN g = 0..n /\ g = [k \in DOMAIN g |-> g[k]]
  OBVIOUS
<1>3. g[0] = sid
  BY <1>1
<1>4. ASSUME NEW k \in 1..n
      PROVE  g[k] = Replace(g[k - 1], order[k], sids[order[k]])
  <2> DEFINE old == order[k]
  <2>0. /\ k \in 0..n /\ k - 1 \in 0..n /\ k \in Nat /\ k - 1 \in Nat
        /\ \A j \in 1..(k - 1) : j \in 1..n /\ j < k /\ j \in 1..k
        /\ \A j \in 1..k : j = k \/ j \in 1..(k - 1)
    BY <1>1
  <2>1. old \in DOMAIN sids
    BY <1>1
  <2>2. CASE old = sid
    <3>1. ~Met(k - 1)
      BY <1>1, <2>0, <2>2
    <3>2. Met(k)
      BY <2>0, <2>2
    <3>3. g[k - 1] = sid /\ g[k] = sids[sid]
      BY <2>0, <3>1, <3>2
    <3> QED BY <2>1, <2>2, <3>3, ReplaceWhole
  <2>3. CASE old # sid /\ Met(k - 1)
    <3>1. sid \in DOMAIN sids
      BY <1>1, <2>0, <2>3
    <3>2. ~IsPrefix(old, sids[sid])
      BY <2>1, <2>3, <3>1 DEF Chained
    <3>3. Met(k)
      BY <2>0, <2>3
    <3>4. g[k - 1] = sids[sid] /\ g[k] = sids[sid]
      BY <2>0, <2>3, <3>3
    <3> QED BY <3>2, <3>4 DEF Replace
  <2>4. CASE old # sid /\ ~Met(k - 1)
    <3>1. ~Met(k)
      BY <2>0, <2>4
    <3>2. g[k - 1] = sid /\ g[k] = sid
      BY <2>0, <2>4, <3>1
    <3>3. ~IsPrefix(old, sid)
      <4>1. CASE sid \in DOMAIN sids
        <5>1. PICK j \in 1..n : order[j] = sid
          BY <1>1, <4>1
        <5>2. k < j
          <6>1. j # k /\ j \notin 1..(k - 1)
            BY <2>4, <5>1
          <6> QED BY <1>1, <6>1
        <5>3. Len(old) >= Len(sid)
          BY <1>1, <5>1, <5>2
        <5> HIDE DEF old
        <5> QED BY <2>1, <2>4, <5>3, PrefixFacts
      <4>2. CASE sid \notin DOMAIN sids
        BY <2>1, <4>2
      <4> QED BY <4>1, <4>2
    <3> QED BY <3>2, <3>3 DEF Replace
  <2> QED BY <2>2, <2>3, <2>4
<1>5. Replaces(g, sids, order, sid)
  <2> HIDE DEF g
  <2> QED BY <1>3, <1>4 DEF Replaces
<1>6. Rewritten(sids, order, sid) = g[n]
  <2> HIDE DEF g
  <2> QED BY <1>1, <1>2, <1>5, RewrittenIs
<1>7. g[n] = IF sid \in DOMAIN sids THEN sids[sid] ELSE sid
  <2>1. Met(n) <=> sid \in DOMAIN sids
    BY <1>1
  <2> QED BY <1>1, <2>1
<1> QED BY <1>6, <1>7

\* A descriptor in which every mapped SID is replaced, and nothing else.
New(sids, x) == IF x \in DOMAIN sids THEN sids[x] ELSE x
Once(sids, sddl) == [k \in DOMAIN sddl |-> New(sids, sddl[k])]

LEMMA DescriptorRewritten ==
  ASSUME NEW sids, IsFiniteSet(DOMAIN sids), NEW order \in Orders(sids),
         \A s \in DOMAIN sids : IsSeq(s) /\ IsSeq(sids[s]),
         NEW sddl, IsSeq(sddl), \A k \in DOMAIN sddl : IsSeq(sddl[k]),
         ~Chained(sids), ~Overlapping(sids, sddl)
  PROVE  LET once == Once(sids, sddl)
         IN  /\ TranslateSDDL(sids, order, sddl) = once
             /\ sddl = <<>> => once = <<>>
             /\ sddl # <<>> => once # <<>> /\ Head(once) = New(sids, Head(sddl))
<1> DEFINE new(x) == IF x \in DOMAIN sids THEN sids[x] ELSE x
           once == [k \in DOMAIN sddl |-> new(sddl[k])]
           n == Len(sddl)
           S == {once[k] : k \in DOMAIN sddl}
<1>1. \A k \in DOMAIN sddl : Rewritten(sids, order, sddl[k]) = new(sddl[k])
  <2> SUFFICES ASSUME NEW k \in DOMAIN sddl PROVE Rewritten(sids, order, sddl[k]) = new(sddl[k])
    OBVIOUS
  <2>1. sddl[k] \in DOMAIN sids \/ \A s \in DOMAIN sids : ~IsPrefix(s, sddl[k])
    BY DEF Overlapping
  <2> QED BY <2>1, RewrittenOnce
<1>2. TranslateSDDL(sids, order, sddl) = once
  BY <1>1 DEF TranslateSDDL
<1>3. n \in Nat /\ DOMAIN sddl = 1..n /\ sddl \in Seq({sddl[k] : k \in DOMAIN sddl})
  BY LenProperties DEF IsSeq
<1>4. once \in [1..n -> S]
  BY <1>3
<1>5. once \in Seq(S) /\ Len(once) = n
  <2>1. once \in Seq(S)
    BY <1>3, <1>4, SeqDef
  <2>2. DOMAIN once = 1..n
    BY <1>3
  <2> HIDE DEF once, S
  <2> QED BY <1>3, <2>1, <2>2, LenProperties
<1>6. sddl = <<>> => once = <<>>
  <2> SUFFICES ASSUME sddl = <<>> PROVE once = <<>>
    OBVIOUS
  <2>1. n = 0
    OBVIOUS
  <2> HIDE DEF once, S, n
  <2> QED BY <1>5, <2>1, EmptySeq
<1>7. sddl # <<>> => once # <<>> /\ Head(once) = new(Head(sddl))
  <2> SUFFICES ASSUME sddl # <<>> PROVE once # <<>> /\ Head(once) = new(Head(sddl))
    OBVIOUS
  <2>1. n # 0 /\ 1 \in DOMAIN sddl
    BY <1>3, EmptySeq
  <2>2. once # <<>> /\ Head(once) = once[1]
    <3> HIDE DEF once, S
    <3> QED BY <1>5, <2>1, EmptySeq, HeadTailProperties
  <2>3. Head(sddl) = sddl[1]
    BY <1>3, HeadTailProperties
  <2>4. once[1] = new(sddl[1])
    BY <2>1
  <2> HIDE DEF once, new
  <2> QED BY <2>2, <2>3, <2>4
<1>8. once = Once(sids, sddl) /\ new(Head(sddl)) = New(sids, Head(sddl))
  BY DEF Once, New
<1> HIDE DEF once, new
<1> QED BY <1>2, <1>6, <1>7, <1>8

\* p is the longest of its lineage.
LEMMA LineageLength ==
  ASSUME NEW q, IsSeq(q)
  PROVE  /\ Len(q) \in Nat
         /\ q # <<>> => Len(q) > 0 /\ q \in Lineage(q)
         /\ \A p \in Lineage(q) : Len(p) \in Nat /\ Len(p) <= Len(q) /\ (Len(p) >= Len(q) => p = q)
<1> DEFINE S == {q[k] : k \in DOMAIN q}
           n == Len(q)
<1>1. q \in Seq(S)
  BY DEF IsSeq
<1>2. n \in Nat /\ DOMAIN q = 1..n /\ (q # <<>> => n > 0) /\ \A k \in 1..n : q[k] \in S
  BY <1>1, LenProperties, EmptySeq
<1>3. SubSeq(q, 1, n) = q
  BY <1>1, SubSeqFull
<1>4. q # <<>> => q \in Lineage(q)
  <2> HIDE DEF S
  <2>1. q # <<>> => n \in 1..n
    BY <1>2
  <2> QED BY <1>3, <2>1 DEF Lineage
<1>5. ASSUME NEW k \in 1..n PROVE Len(SubSeq(q, 1, k)) = k
  <2> HIDE DEF S
  <2>1. \A i \in 1..k : q[i] \in S
    BY <1>2
  <2> QED BY <1>1, <1>2, <2>1, SubSeqProperties
<1> HIDE DEF S, n
<1>6. ASSUME NEW p \in Lineage(q)
      PROVE  Len(p) \in Nat /\ Len(p) <= n /\ (Len(p) >= n => p = q)
  <2>1. PICK k \in 1..n : p = SubSeq(q, 1, k)
    BY DEF Lineage, n
  <2>2. Len(p) = k /\ k \in Nat /\ k <= n
    BY <1>2, <1>5, <2>1
  <2>3. k >= n => k = n
    BY <1>2, <2>2
  <2> QED BY <1>3, <2>1, <2>2, <2>3
<1> QED BY <1>2, <1>4, <1>6 DEF n

\* A restore makes each recorded directory as its record says.
LEMMA RestoredOf ==
  ASSUME NEW records, \A k \in DOMAIN records : IsSeq(records[k].path),
         \A j, k \in DOMAIN records : records[j].path = records[k].path => j = k
  PROVE  LET made == Restored(records)
         IN  /\ DOMAIN made = {<<>>} \cup UNION {Lineage(records[k].path) : k \in DOMAIN records}
             /\ \A k \in DOMAIN records : /\ records[k].path \in DOMAIN made
                                          /\ made[records[k].path] = ApplyMeta(records[k].meta, Away)
<1> DEFINE K == DOMAIN records
           Above(p) == {k \in K : p = <<>> \/ p \in Lineage(records[k].path)}
           Nearest(p, k) == \A j \in Above(p) : Len(records[k].path) <= Len(records[j].path)
           Made(p) == LET rec == records[CHOOSE k \in Above(p) : Nearest(p, k)]
                      IN  IF rec.path = p THEN ApplyMeta(rec.meta, Away)
                          ELSE [scene.made EXCEPT !.mode = rec.meta.mode]
           paths == {<<>>} \cup UNION {Lineage(records[k].path) : k \in K}
           made == Restored(records)
<1>1. made = [p \in paths |-> IF Above(p) = {} THEN scene.made ELSE Made(p)]
  BY DEF Restored
<1> HIDE DEF made, Made
<1>2. DOMAIN made = paths
  BY <1>1
<1>3. ASSUME NEW k \in K
      PROVE  /\ records[k].path \in paths
             /\ made[records[k].path] = ApplyMeta(records[k].meta, Away)
  <2> DEFINE p == records[k].path
  <2>1. /\ IsSeq(p) /\ Len(p) \in Nat
        /\ p # <<>> => p \in Lineage(p) /\ Len(p) > 0
        /\ \A j \in K : /\ Len(records[j].path) \in Nat
                        /\ p \in Lineage(records[j].path) =>
                                /\ Len(p) <= Len(records[j].path)
                                /\ Len(p) >= Len(records[j].path) => p = records[j].path
    <3>1. \A j \in K : IsSeq(records[j].path)
      OBVIOUS
    <3>2. \A j \in K : /\ Len(records[j].path) \in Nat
                       /\ p \in Lineage(records[j].path) =>
                                /\ Len(p) <= Len(records[j].path)
                                /\ Len(p) >= Len(records[j].path) => p = records[j].path
      <4> SUFFICES ASSUME NEW j \in K
                   PROVE  /\ Len(records[j].path) \in Nat
                          /\ p \in Lineage(records[j].path) =>
                                /\ Len(p) <= Len(records[j].path)
                                /\ Len(p) >= Len(records[j].path) => p = records[j].path
        OBVIOUS
      <4> DEFINE q == records[j].path
      <4>1. IsSeq(q)
        BY <3>1
      <4> HIDE DEF q, p
      <4>2. Len(q) \in Nat /\ (p \in Lineage(q) => Len(p) <= Len(q) /\ (Len(p) >= Len(q) => p = q))
        BY <4>1, LineageLength
      <4> QED BY <4>2 DEF q
    <3>3. IsSeq(p)
      BY <3>1
    <3> HIDE DEF p
    <3> QED BY <3>2, <3>3, LineageLength
  <2>2. p \in paths
    BY <2>1
  <2>3. k \in Above(p)
    BY <2>1
  <2>4. p = <<>> => Len(p) = 0
    OBVIOUS
  <2>5. Nearest(p, k)
    BY <2>1, <2>4
  <2>6. ASSUME NEW c \in Above(p), Nearest(p, c) PROVE c = k
    <3>1. Len(records[c].path) <= Len(p) /\ c \in K
      BY <2>3, <2>6
    <3>2. CASE p = <<>>
      <4>1. Len(records[c].path) = 0
        BY <2>1, <2>4, <3>1, <3>2
      <4>2. records[c].path = <<>>
        BY <3>1, <4>1, EmptySeq DEF IsSeq
      <4> QED BY <3>1, <3>2, <4>2
    <3>3. CASE p # <<>>
      <4>1. p = records[c].path
        BY <2>1, <2>6, <3>1, <3>3
      <4> QED BY <3>1, <4>1
    <3> QED BY <3>2, <3>3
  <2>7. (CHOOSE c \in Above(p) : Nearest(p, c)) = k
    <3> HIDE DEF Above, Nearest, p
    <3> QED BY <2>3, <2>5, <2>6
  <2>8. Made(p) = ApplyMeta(records[k].meta, Away)
    BY <2>7 DEF Made
  <2> QED BY <1>1, <2>2, <2>3, <2>8
<1> QED BY <1>2, <1>3 DEF made

LEMMA ApplyFields ==
  ASSUME NEW r, DOMAIN r = {"mode", "uid", "acl", "sddl", "user", "sid"}, NEW map, NEW order
  PROVE  LET s == Apply(map, order, r)
         IN  /\ s.mode = r.mode /\ s.acl = r.acl
             /\ s.user = Translate(map.users, r.user, None)
             /\ s.sid = Translate(map.sids, r.sid, <<>>)
             /\ s.sddl = TranslateSDDL(map.sids, order, r.sddl)
BY DEF Apply

\* A restored directory differs from its record only where it may.
LEMMA AlignedMeta ==
  ASSUME Setting, NEW p \in DOMAIN base,
         NEW made \in Orders(scene.map.sids), NEW seen \in Orders(scene.map.sids), NEW ignoring,
         NEW kind \in Compared(
            Apply(scene.map, seen, Recorded(Taken(p)).meta),
            ReadMeta(ApplyMeta(Apply(scene.map, made, Recorded(Taken(p)).meta), Away), Away), ignoring)
  PROVE  \/ /\ kind = "user"
            /\ Translate(scene.map.users, Home[base[p].uid], None) \notin {Away[u] : u \in DOMAIN Away}
         \/ /\ kind \in {"sddl", "owner_sid"}
            /\ Chained(scene.map.sids) \/ Overlapping(scene.map.sids, base[p].sddl)
<1> DEFINE sids == scene.map.sids
           r == Recorded(Taken(p)).meta
           s == Apply(scene.map, seen, r)
           m == Apply(scene.map, made, r)
           a == ApplyMeta(m, Away)
           l == ReadMeta(a, Away)
<1>1. /\ DOMAIN r = {"mode", "uid", "acl", "sddl", "user", "sid"}
      /\ r.sddl = base[p].sddl
      /\ r.user = IF base[p].uid \in DOMAIN Home THEN Home[base[p].uid] ELSE None
      /\ r.sid \in {<<>>, IF base[p].sddl = <<>> THEN <<>> ELSE Head(base[p].sddl)}
  BY RecordedMeta
<1> HIDE DEF r
<1>2. /\ s.mode = r.mode /\ s.acl = r.acl
      /\ s.user = Translate(scene.map.users, r.user, None)
      /\ s.sid = Translate(sids, r.sid, <<>>)
      /\ s.sddl = TranslateSDDL(sids, seen, r.sddl)
  BY <1>1, ApplyFields
<1>3. /\ m.mode = r.mode /\ m.acl = r.acl
      /\ m.user = Translate(scene.map.users, r.user, None)
      /\ m.sddl = TranslateSDDL(sids, made, r.sddl)
  BY <1>1, ApplyFields
<1> HIDE DEF s, m
<1>4. kind \in Compared(s, l, ignoring)
  BY DEF s, m, r
<1>5. /\ a.mode = m.mode /\ a.acl = m.acl /\ a.sddl = m.sddl
      /\ m.user # None /\ m.user \in {Away[u] : u \in DOMAIN Away} =>
            a.uid \in DOMAIN Away /\ Away[a.uid] = m.user
  <2> DEFINE called == {u \in DOMAIN Away : m.user # None /\ Away[u] = m.user}
  <2>1. /\ a.mode = m.mode /\ a.acl = m.acl /\ a.sddl = m.sddl
        /\ a.uid = IF called = {} THEN m.uid ELSE CHOOSE u \in called : TRUE
    BY DEF ApplyMeta
  <2> HIDE DEF a
  <2>2. called # {} => (CHOOSE u \in called : TRUE) \in called
    BY Zenon
  <2> QED BY <2>1, <2>2
<1> HIDE DEF a
<1>6. /\ l.mode = a.mode /\ l.acl = a.acl /\ l.sddl = a.sddl
      /\ l.user = IF a.uid \in DOMAIN Away THEN Away[a.uid] ELSE None
      /\ l.sid = IF a.sddl = <<>> THEN <<>> ELSE Head(a.sddl)
  BY MetaFields
<1> HIDE DEF l
<1>7. kind \in {"mode", "user", "owner_sid", "sddl", "acl_access"}
  BY <1>4 DEF Compared
<1>8. kind \notin {"mode", "acl_access"}
  BY <1>2, <1>3, <1>4, <1>5, <1>6 DEF Compared, Differ
<1>9. CASE kind = "user"
  <2>1. s.user # None /\ l.user # None /\ s.user # l.user
    BY <1>4, <1>9 DEF Compared, Differ
  <2>2. s.user = m.user
    BY <1>2, <1>3
  <2>3. m.user \notin {Away[u] : u \in DOMAIN Away}
    BY <1>5, <1>6, <2>1, <2>2
  <2>4. base[p].uid \in DOMAIN Home /\ r.user = Home[base[p].uid]
    BY <1>1, <1>2, <2>1 DEF Translate
  <2> QED BY <1>3, <1>9, <2>3, <2>4
<1>10. CASE kind \in {"sddl", "owner_sid"}
  <2> SUFFICES ASSUME ~Chained(sids), ~Overlapping(sids, base[p].sddl) PROVE FALSE
    BY <1>10
  <2> DEFINE sddl == base[p].sddl
             once == Once(sids, sddl)
  <2>1. /\ IsFiniteSet(DOMAIN sids)
        /\ \A x \in DOMAIN sids : IsSeq(x) /\ IsSeq(sids[x])
        /\ IsSeq(sddl) /\ \A k \in DOMAIN sddl : IsSeq(sddl[k])
    BY SceneAssumption DEF Setting
  <2>2. /\ TranslateSDDL(sids, seen, sddl) = once /\ TranslateSDDL(sids, made, sddl) = once
        /\ sddl = <<>> => once = <<>>
        /\ sddl # <<>> => once # <<>> /\ Head(once) = New(sids, Head(sddl))
    BY <2>1, DescriptorRewritten
  <2> HIDE DEF once, sddl
  <2>3. s.sddl = once /\ l.sddl = once /\ l.sid = IF once = <<>> THEN <<>> ELSE Head(once)
    BY <1>1, <1>2, <1>3, <1>5, <1>6, <2>2 DEF sddl
  <2>4. kind # "sddl"
    BY <1>4, <2>3 DEF Compared, Differ
  <2>5. s.sid # <<>> /\ l.sid # <<>> /\ s.sid # l.sid
    BY <1>4, <1>10, <2>4 DEF Compared, Differ
  <2>6. r.sid # <<>>
    BY <1>2, <2>5 DEF Translate
  <2>7. sddl # <<>> /\ r.sid = Head(sddl)
    BY <1>1, <2>6 DEF sddl
  <2>8. s.sid = New(sids, Head(sddl))
    BY <1>2, <2>6, <2>7 DEF Translate, New
  <2> QED BY <2>2, <2>3, <2>5, <2>7, <2>8
<1> QED BY <1>7, <1>8, <1>9, <1>10

LEMMA SeenMapped ==
  ASSUME NEW p, NEW order
  PROVE  Seen(Recorded(Taken(p)), TRUE, order).meta = Apply(scene.map, order, Recorded(Taken(p)).meta)
<1> DEFINE mapped == TRUE
<1>1. mapped
  OBVIOUS
<1> HIDE DEF mapped
<1>2. Seen(Recorded(Taken(p)), mapped, order).meta = Apply(scene.map, order, Recorded(Taken(p)).meta)
  BY <1>1, SeenFields
<1> QED BY <1>2 DEF mapped

LEMMA NothingElseDiffers == CycleInv => RestoredIsAligned
<1> DEFINE Excused(p, kind) ==
             \/ /\ kind = "user"
                /\ Translate(scene.map.users, Home[base[p].uid], None) \notin {Away[u] : u \in DOMAIN Away}
             \/ /\ kind \in {"sddl", "owner_sid"}
                /\ Chained(scene.map.sids) \/ Overlapping(scene.map.sids, base[p].sddl)
<1> SUFFICES ASSUME CycleInv, report.made, Trusted, moved = "restored", report.mapped,
                    report.filter = scene.take, NEW item \in report.items
             PROVE  Excused(item[1], item[2])
  BY DEF RestoredIsAligned
<1>1. Setting /\ report.mapped = TRUE
  BY DEF CycleInv, UpToDate
<1> DEFINE selected == {p \in Due : FilterMatches(scene.take, Taken(p))}
           snap(order) == Indexed(Collected(scene.take, TRUE, order))
           kept == LiveKept(scene.take)
           paths == {rec.path : rec \in kept}
<1>2. PICK seen \in Orders(scene.map.sids) :
        /\ report.items = Items(snap(seen), kept, payload \cap Walked(scene.take, DOMAIN live), report.ignoring)
        /\ DOMAIN snap(seen) = selected
        /\ \A p \in DOMAIN snap(seen) : snap(seen)[p] = Seen(Recorded(Taken(p)), TRUE, seen)
        /\ paths = {p \in Scanned(scene.take, DOMAIN live) : FilterMatches(scene.take, Taken(p))}
        /\ \A rec \in kept : rec.meta = ReadMeta(live[rec.path], accounts)
  BY <1>1, BothSides
<1>3. artifact = Whole /\ accounts = Away /\ payload = {}
  BY TrustedWhole DEF CycleInv, Realigned
<1>4. PICK order \in Orders(scene.map.sids) : live = Restored(Collected(scene.take, TRUE, order))
  BY <1>3 DEF CycleInv, Realigned
<1> DEFINE records == Collected(scene.take, TRUE, order)
           K == DOMAIN records
<1>5. /\ {records[k].path : k \in K} = selected
      /\ \A k \in K : records[k] = Seen(Recorded(Taken(records[k].path)), TRUE, order)
      /\ \A j, k \in K : records[j].path = records[k].path => j = k
  <2> DEFINE mapped == TRUE
             collected == Collected(scene.take, mapped, order)
  <2> HIDE DEF mapped
  <2>1. /\ {collected[k].path : k \in DOMAIN collected} = selected
        /\ \A k \in DOMAIN collected :
                collected[k] = Seen(Recorded(Taken(collected[k].path)), mapped, order)
        /\ \A j, k \in DOMAIN collected : collected[j].path = collected[k].path => j = k
    BY CollectedOf
  <2> QED BY <2>1 DEF mapped
<1>6. \A p \in Due : p \in DOMAIN base /\ IsSeq(p) /\ Lineage(p) \subseteq DOMAIN base
  BY <1>1, ScanLocal, SceneAssumption DEF Due, Setting
<1>7. /\ DOMAIN live = {<<>>} \cup UNION {Lineage(records[k].path) : k \in K}
      /\ \A k \in K : /\ records[k].path \in DOMAIN live
                      /\ live[records[k].path] = ApplyMeta(records[k].meta, Away)
  <2>1. \A k \in K : IsSeq(records[k].path)
    BY <1>5, <1>6
  <2> HIDE DEF records
  <2> QED BY <1>4, <1>5, <2>1, RestoredOf DEF records
<1> HIDE DEF records, snap, kept, paths
<1>8. ASSUME NEW p \in selected
      PROVE  /\ p \in DOMAIN live
             /\ live[p] = ApplyMeta(Apply(scene.map, order, Recorded(Taken(p)).meta), Away)
  <2>1. PICK k \in K : records[k].path = p
    BY <1>5
  <2>2. records[k].meta = Apply(scene.map, order, Recorded(Taken(p)).meta)
    BY <1>5, <2>1, SeenMapped
  <2> QED BY <1>7, <2>1, <2>2
<1>9. DOMAIN live \subseteq DOMAIN base
  <2>1. \A k \in K : Lineage(records[k].path) \subseteq DOMAIN base
    BY <1>5, <1>6
  <2>2. <<>> \in DOMAIN base
    BY <1>1, SceneAssumption DEF Setting
  <2> QED BY <1>7, <2>1, <2>2
<1>10. paths \subseteq selected
  BY <1>2, <1>9, ScanLocal DEF Due
<1>11. selected \subseteq paths
  <2> SUFFICES ASSUME NEW p \in selected PROVE p \in paths
    OBVIOUS
  <2>1. p \in Scanned(scene.take, DOMAIN live)
    BY <1>8, ScanLocal DEF Due
  <2> QED BY <1>2, <2>1
<1>12. \E rec \in kept : /\ rec.path = item[1] /\ rec.path \in selected
                         /\ item[2] \in Compared(snap(seen)[rec.path].meta, rec.meta, report.ignoring)
  <2> DEFINE files == payload \cap Walked(scene.take, DOMAIN live)
             shown == snap(seen)
  <2>1. \/ item[2] = "missing" /\ item[1] \in DOMAIN shown \ paths
        \/ item[2] = "untracked" /\ item[1] \in (paths \ DOMAIN shown) \ {<<>>}
        \/ item[2] = "file" /\ item[1] \in files
        \/ \E rec \in kept : /\ rec.path = item[1] /\ rec.path \in DOMAIN shown
                             /\ item[2] \in Compared(shown[rec.path].meta, rec.meta, report.ignoring)
    <3>1. report.items = Items(shown, kept, files, report.ignoring)
      BY <1>2
    <3> HIDE DEF files, shown
    <3> QED BY <3>1, ItemsMean DEF paths
  <2>2. files = {}
    BY <1>3
  <2> HIDE DEF files
  <2> QED BY <1>2, <1>10, <1>11, <2>1, <2>2
<1>13. PICK rec \in kept : /\ rec.path = item[1] /\ rec.path \in selected
                           /\ item[2] \in Compared(snap(seen)[rec.path].meta, rec.meta, report.ignoring)
  BY <1>12
<1> DEFINE p == item[1]
<1>14. /\ p \in selected /\ p \in DOMAIN base
       /\ snap(seen)[p].meta = Apply(scene.map, seen, Recorded(Taken(p)).meta)
       /\ rec.meta = ReadMeta(ApplyMeta(Apply(scene.map, order, Recorded(Taken(p)).meta), Away), Away)
  <2>1. p \in selected /\ rec.path = p /\ rec \in kept
    BY <1>13
  <2> HIDE DEF p, Excused
  <2>2. snap(seen)[p] = Seen(Recorded(Taken(p)), TRUE, seen)
    BY <1>2, <2>1
  <2>3. snap(seen)[p].meta = Apply(scene.map, seen, Recorded(Taken(p)).meta)
    BY <2>2, SeenMapped
  <2> QED BY <1>2, <1>3, <1>6, <1>8, <2>1, <2>3
<1>15. item[2] \in Compared(
            Apply(scene.map, seen, Recorded(Taken(p)).meta),
            ReadMeta(ApplyMeta(Apply(scene.map, order, Recorded(Taken(p)).meta), Away), Away), report.ignoring)
  BY <1>13, <1>14
<1> HIDE DEF p
<1>16. Excused(p, item[2])
  BY <1>1, <1>14, <1>15, AlignedMeta
<1> QED BY <1>16 DEF p

----------------------------------------------------------------------------
(* The invariant.                                                          *)

LEMMA CycleBegins == CycleInit => CycleInv
<1> SUFFICES ASSUME CycleInit PROVE CycleInv
  OBVIOUS
<1> USE DEF CycleInit
<1>1. Setting /\ Untouched /\ Complete /\ Stored /\ Judged /\ Realigned /\ UpToDate
  BY DEF Setting, Untouched, Complete, Stored, Judged, Realigned, UpToDate, NoReport
<1>2. OwnTree
  BY SceneAssumption DEF OwnTree
<1> QED BY <1>1, <1>2 DEF CycleInv

\* No snapshot is taken for none.
LEMMA SomeFile ==
  ASSUME Setting
  PROVE  Whole # NoFile /\ \A x \in Damaged(Whole) : x # NoFile
<1>1. scene.format # "none"
  BY SceneAssumption DEF Setting
<1>2. Whole.format = scene.format /\ NoFile.format = "none"
  BY DEF Whole, Snapshot, NoFile
<1>3. \A x \in Damaged(Whole) : x.format = scene.format
  BY DEF Damaged, Whole, Snapshot
<1> QED BY <1>1, <1>2, <1>3

\* What a backup takes: the root and every other directory of the scan.
LEMMA BackupTakes ==
  ASSUME CycleInv, Backup
  PROVE  CycleInv'
<1> DEFINE others == {rec \in LiveRecords(scene.take) : rec.path # <<>>}
           s == SetToSeq(others)
           n == Len(s)
<1>1. /\ artifact = NoFile /\ live = base /\ accounts = Home /\ scene \in Scenes /\ base = scene.tree
      /\ verdict = "none" /\ ~report.made /\ moved = "no"
      /\ UNCHANGED <<scene, live, payload, accounts, verdict, report, base, moved>>
      /\ artifact' = Snapshot(scene.format, scene.zipped, taken') /\ taken' = <<Record(<<>>)>> \o s
  BY DEF CycleInv, Untouched, Setting, Backup, tree
<1>2. \A p : Record(p) = Taken(p)
  BY <1>1 DEF Record, Taken
<1>3. others = {Taken(p) : p \in Due \ {<<>>}}
  <2>1. \A rec : rec \in LiveRecords(scene.take) <=> \E p \in Due : rec = Taken(p)
    BY <1>1, <1>2 DEF LiveRecords, Due
  <2>2. \A p : Taken(p).path = p
    BY TakenFields
  <2> QED BY <2>1, <2>2
<1>4. IsFiniteSet(others)
  <2>1. Due \ {<<>>} \subseteq DOMAIN base
    BY ScanLocal DEF Due
  <2>2. IsFiniteSet(Due \ {<<>>})
    BY <1>1, <2>1, SceneAssumption, FS_Subset
  <2>3. [p \in Due \ {<<>>} |-> Taken(p)] \in Surjection(Due \ {<<>>}, others)
    BY <1>3 DEF Surjection
  <2> QED BY <2>2, <2>3, FS_Surjection
<1> HIDE DEF others
<1>5. /\ s \in Seq(others) /\ DOMAIN s = 1..n /\ n \in Nat
      /\ \A x \in others : \E k \in DOMAIN s : s[k] = x
      /\ \A j, k \in DOMAIN s : s[j] = s[k] => j = k
  BY <1>4, ListsEach
<1> HIDE DEF s
<1>6. <<>> \in Due
  BY <1>1, ScanLocal, SceneAssumption DEF Due
<1>7. /\ Len(taken') = n + 1 /\ DOMAIN taken' = 1..(n + 1)
      /\ taken'[1] = Taken(<<>>)
      /\ \A k \in 2..(n + 1) : taken'[k] = s[k - 1]
  <2> DEFINE R == others \cup {Taken(<<>>)}
             h == <<Taken(<<>>)>>
  <2>1. h \in Seq(R) /\ Len(h) = 1 /\ h[1] = Taken(<<>>)
    OBVIOUS
  <2>2. s \in Seq(R)
    BY <1>5, SeqMonotonic
  <2>3. taken' = h \o s
    BY <1>1, <1>2
  <2> HIDE DEF R, h
  <2>4. /\ h \o s \in Seq(R) /\ Len(h \o s) = 1 + n
        /\ \A i \in 1..(1 + n) : (h \o s)[i] = IF i <= 1 THEN h[i] ELSE s[i - 1]
    <3>1. /\ h \o s \in Seq(R) /\ Len(h \o s) = Len(h) + Len(s)
          /\ \A i \in 1..(Len(h) + Len(s)) :
                (h \o s)[i] = IF i <= Len(h) THEN h[i] ELSE s[i - Len(h)]
      BY <2>1, <2>2, ConcatProperties, Zenon
    <3> QED BY <2>1, <3>1, Zenon
  <2>5. DOMAIN (h \o s) = 1..(1 + n)
    BY <2>4, LenProperties
  <2> QED BY <1>5, <2>1, <2>3, <2>4, <2>5
<1>8. \A k \in 2..(n + 1) : \E p \in Due \ {<<>>} : taken'[k] = Taken(p)
  <2> SUFFICES ASSUME NEW k \in 2..(n + 1) PROVE \E p \in Due \ {<<>>} : taken'[k] = Taken(p)
    OBVIOUS
  <2>1. k - 1 \in 1..n
    BY <1>5
  <2>2. s[k - 1] \in others
    BY <1>5, <2>1
  <2> QED BY <1>3, <1>7, <2>2
<1>9. \A k \in 1..(n + 1) : taken'[k].path \in Due /\ taken'[k] = Taken(taken'[k].path)
  BY <1>5, <1>6, <1>7, <1>8, TakenFields
<1>10. \A p \in Due : \E k \in 1..(n + 1) : taken'[k].path = p
  <2> SUFFICES ASSUME NEW p \in Due PROVE \E k \in 1..(n + 1) : taken'[k].path = p
    OBVIOUS
  <2>1. CASE p = <<>>
    BY <1>5, <1>7, <2>1, TakenFields
  <2>2. CASE p # <<>>
    <3>1. PICK k \in 1..n : s[k] = Taken(p)
      BY <1>3, <1>5, <2>2
    <3>2. k + 1 \in 2..(n + 1) /\ taken'[k + 1] = Taken(p)
      BY <1>5, <1>7, <3>1
    <3> QED BY <1>5, <3>2, TakenFields
  <2> QED BY <2>1, <2>2
<1>11. \A j, k \in 1..(n + 1) : taken'[j].path = taken'[k].path => j = k
  <2> SUFFICES ASSUME NEW j \in 1..(n + 1), NEW k \in 1..(n + 1), taken'[j].path = taken'[k].path
               PROVE  j = k
    OBVIOUS
  <2>1. taken'[j] = taken'[k]
    BY <1>9
  <2>2. \A i \in 2..(n + 1) : taken'[i].path # <<>>
    BY <1>8, TakenFields
  <2>3. taken'[1].path = <<>>
    BY <1>7, TakenFields
  <2>4. CASE j = 1 \/ k = 1
    BY <1>5, <2>2, <2>3, <2>4
  <2>5. CASE j # 1 /\ k # 1
    <3>1. j - 1 \in 1..n /\ k - 1 \in 1..n /\ s[j - 1] = s[k - 1]
      BY <1>5, <1>7, <2>1, <2>5
    <3>2. j - 1 = k - 1
      BY <1>5, <3>1
    <3> QED BY <3>2, <1>5
  <2> QED BY <2>4, <2>5
<1>12. Complete'
  <2>1. Due' = Due
    BY <1>1 DEF Due
  <2>2. \A k \in 1..(n + 1) : taken'[k] = Taken(taken[k].path)'
    BY <1>1, <1>9 DEF Taken
  <2>3. n + 1 \in Nat \ {0}
    BY <1>5
  <2> QED BY <1>7, <1>9, <1>10, <1>11, <2>1, <2>2, <2>3 DEF Complete
<1>13. Setting' /\ Stored' /\ Judged' /\ OwnTree' /\ Realigned' /\ UpToDate'
  BY <1>1 DEF CycleInv, Setting, Stored, Whole, Judged, OwnTree, Realigned, UpToDate
<1>14. Untouched'
  BY <1>1 DEF Untouched
<1> QED BY <1>12, <1>13, <1>14 DEF CycleInv

\* A report stays one about the tree and the snapshot while neither changes.
LEMMA StaysCompared ==
  ASSUME UNCHANGED <<scene, live, payload, accounts, artifact, report>>,
         NEW f, NEW mapped, NEW ignoring, Compares(f, mapped, ignoring)
  PROVE  Compares(f, mapped, ignoring)'
<1>1. PICK order \in Orders(scene.map.sids) :
        report.items = Items(Indexed(Collected(f, mapped, order)), LiveKept(f),
                             payload \cap Walked(f, DOMAIN live), ignoring)
  BY DEF Compares
<1>2. Collected(f, mapped, order)' = Collected(f, mapped, order)
  BY DEF Collected
<1>3. LiveKept(f)' = LiveKept(f)
  BY DEF LiveKept, LiveRecords, Record
<1> QED BY <1>1, <1>2, <1>3 DEF Compares

\* What a restore made stays while nothing of it changes, but for damages.
LEMMA StaysRealigned ==
  ASSUME CycleInv, UNCHANGED <<scene, live, payload, accounts, taken, moved>>,
         artifact' = artifact \/ artifact = Whole
  PROVE  Realigned'
<1>1. Whole' = Whole
  BY DEF Whole
<1> SUFFICES ASSUME artifact' = artifact PROVE Realigned'
  BY <1>1 DEF Realigned
<1>2. \A order : Restored(Collected(scene.take, TRUE, order))' =
                    Restored(Collected(scene.take, TRUE, order))
  BY DEF Restored, Collected
<1> QED BY <1>1, <1>2 DEF CycleInv, Realigned

LEMMA DamageKeeps ==
  ASSUME CycleInv, Damage
  PROVE  CycleInv'
<1>1. /\ artifact # NoFile /\ artifact = Whole /\ artifact' \in Damaged(Whole)
      /\ verdict' = "none" /\ report' = NoReport
      /\ UNCHANGED <<scene, live, payload, accounts, changes, taken, base, moved>>
  BY DEF Damage, Whole, tree
<1>2. Whole' = Whole
  BY <1>1 DEF Whole
<1>3. artifact' # NoFile
  BY <1>1, SomeFile DEF CycleInv
<1>4. Setting' /\ Complete' /\ OwnTree'
  BY <1>1 DEF CycleInv, Setting, Complete, Due, Taken, OwnTree
<1>5. Stored'
  BY <1>1, <1>2 DEF Stored
<1>6. Untouched' /\ Judged' /\ UpToDate'
  BY <1>1, <1>3 DEF Untouched, Judged, UpToDate, NoReport
<1>7. Realigned'
  BY <1>1, StaysRealigned
<1> QED BY <1>4, <1>5, <1>6, <1>7 DEF CycleInv

LEMMA VerifyKeeps ==
  ASSUME CycleInv, RunVerify
  PROVE  CycleInv'
<1>1. /\ artifact # NoFile /\ (verdict' = "valid" => Verify(artifact))
      /\ UNCHANGED <<scene, live, payload, accounts, artifact, report, changes, taken, base, moved>>
  BY DEF RunVerify, tree
<1>2. Setting' /\ Untouched' /\ Complete' /\ OwnTree' /\ Stored'
  BY <1>1 DEF CycleInv, Setting, Untouched, Complete, Due, Taken, OwnTree, Stored, Whole
<1>3. Judged'
  BY <1>1 DEF Judged
<1>4. UpToDate'
  <2>1. \A f, mapped, ignoring : Compares(f, mapped, ignoring) => Compares(f, mapped, ignoring)'
    BY <1>1, StaysCompared
  <2> QED BY <1>1, <2>1 DEF CycleInv, UpToDate
<1>5. Realigned'
  BY <1>1, StaysRealigned
<1> QED BY <1>2, <1>3, <1>4, <1>5 DEF CycleInv

LEMMA RestoreKeeps ==
  ASSUME CycleInv, RestoreAway
  PROVE  CycleInv'
<1>1. /\ artifact # NoFile /\ moved' = "restored" /\ report' = NoReport
      /\ UNCHANGED <<scene, artifact, verdict, changes, taken, base>>
  BY DEF RestoreAway
<1>2. Setting' /\ Complete' /\ Stored' /\ Judged'
  BY <1>1 DEF CycleInv, Setting, Complete, Due, Taken, Stored, Whole, Judged
<1>3. Untouched' /\ OwnTree' /\ UpToDate'
  BY <1>1 DEF Untouched, OwnTree, UpToDate, NoReport
<1>4. Realigned'
  <2>1. PICK order \in Orders(scene.map.sids) : live' = Restored(Collected(scene.take, TRUE, order))
    BY DEF RestoreAway
  <2>2. Restored(Collected(scene.take, TRUE, order))' = Restored(Collected(scene.take, TRUE, order))
    BY <1>1 DEF Restored, Collected
  <2>3. accounts' = Away /\ payload' = {} /\ Orders(scene.map.sids)' = Orders(scene.map.sids)
    BY <1>1 DEF RestoreAway
  <2> QED BY <2>1, <2>2, <2>3 DEF Realigned
<1> QED BY <1>2, <1>3, <1>4 DEF CycleInv

\* Whatever is done to the tree of a host, its directories stay as that host has them.
LEMMA ChangeKeeps ==
  ASSUME CycleInv, Change
  PROVE  CycleInv'
<1> DEFINE Kind(p, m) == IsSeq(p) /\ Kindred(m, scene.made)
<1>1. /\ artifact # NoFile /\ report' = NoReport /\ (moved' = "no" => moved = "no")
      /\ UNCHANGED <<scene, accounts, artifact, verdict, taken, base>>
  BY DEF Change
<1>2. Setting' /\ Complete' /\ Stored' /\ Judged'
  BY <1>1 DEF CycleInv, Setting, Complete, Due, Taken, Stored, Whole, Judged
<1>3. Untouched' /\ UpToDate' /\ Realigned'
  <2>1. moved' # "restored"
    BY DEF Change
  <2> QED BY <1>1, <2>1 DEF Untouched, UpToDate, NoReport, Realigned
<1>4. ASSUME \A p \in DOMAIN live : Kind(p, live[p])
      PROVE  \A p \in DOMAIN live' : Kind(p, live'[p])
  <2>1. ASSUME NEW p \in Fresh,
               live' = [q \in DOMAIN live \cup {p} |-> IF q = p THEN scene.made ELSE live[q]]
        PROVE  \A q \in DOMAIN live' : Kind(q, live'[q])
    <3>1. Kindred(scene.made, scene.made)
      <4>1. scene \in Scenes
        BY DEF CycleInv, Setting
      <4>2. Kindred(scene.tree[<<>>], scene.made)
        BY <4>1, SceneAssumption
      <4> QED BY <4>2 DEF Kindred
    <3>2. Kind(p, scene.made)
      BY <3>1, HostAssumption
    <3> HIDE DEF Kind
    <3> QED BY <1>4, <2>1, <3>2
  <2>2. ASSUME NEW p, live' = [q \in DOMAIN live \ {p} |-> live[q]]
        PROVE  \A q \in DOMAIN live' : Kind(q, live'[q])
    BY <1>4, <2>2
  <2>3. ASSUME NEW p \in DOMAIN live, NEW m \in Modes, NEW u, NEW a, live[p].mode # None,
               live' \in {[live EXCEPT ![p].mode = m], [live EXCEPT ![p].uid = u],
                          [live EXCEPT ![p].acl = a]}
        PROVE  \A q \in DOMAIN live' : Kind(q, live'[q])
    <3>1. m # None
      BY HostAssumption
    <3>2. DOMAIN live' = DOMAIN live /\ \A q \in DOMAIN live \ {p} : live'[q] = live[q]
      BY <2>3
    <3>3. live'[p] \in {[live[p] EXCEPT !.mode = m], [live[p] EXCEPT !.uid = u],
                        [live[p] EXCEPT !.acl = a]}
      BY <2>3
    <3>4. live[p].mode # None /\ Kindred(live[p], scene.made) /\ IsSeq(p)
      BY <1>4, <2>3
    <3>5. Kind(p, live'[p])
      BY <3>1, <3>3, <3>4 DEF Kindred
    <3> QED BY <1>4, <3>2, <3>5
  <2>4. ASSUME NEW p \in DOMAIN live, NEW d \in Descriptors, live[p].sddl # <<>>,
               live' = [live EXCEPT ![p].sddl = d]
        PROVE  \A q \in DOMAIN live' : Kind(q, live'[q])
    <3>1. DOMAIN live' = DOMAIN live /\ \A q \in DOMAIN live \ {p} : live'[q] = live[q]
      BY <2>4
    <3>2. live'[p] = [live[p] EXCEPT !.sddl = d] /\ d # <<>>
      BY <2>4, HostAssumption
    <3>3. live[p].sddl # <<>> /\ Kindred(live[p], scene.made) /\ IsSeq(p)
      BY <1>4, <2>4
    <3>4. Kind(p, live'[p])
      BY <3>2, <3>3 DEF Kindred
    <3> QED BY <1>4, <3>1, <3>4
  <2>5. CASE UNCHANGED live
    BY <1>4, <2>5
  <2> HIDE DEF Kind
  <2> QED BY <2>1, <2>2, <2>3, <2>4, <2>5 DEF Change
<1>5. OwnTree'
  BY <1>1, <1>4 DEF CycleInv, OwnTree
<1> QED BY <1>2, <1>3, <1>5 DEF CycleInv

LEMMA DiffKeeps ==
  ASSUME CycleInv, NEW f \in scene.ask, NEW mapped \in BOOLEAN, NEW ignoring \in BOOLEAN,
         Diff(f, mapped, ignoring)
  PROVE  CycleInv'
<1>1. /\ artifact # NoFile
      /\ UNCHANGED <<scene, live, payload, accounts, artifact, verdict, changes, taken, base, moved>>
  BY DEF Diff, tree
<1>2. Setting' /\ Complete' /\ Stored' /\ Judged' /\ OwnTree' /\ Untouched'
  BY <1>1 DEF CycleInv, Setting, Complete, Due, Taken, Stored, Whole, Judged, OwnTree, Untouched
<1>3. PICK order \in Orders(scene.map.sids) :
        report' = [items |-> Items(Indexed(Collected(f, mapped, order)), LiveKept(f),
                                   payload \cap Walked(f, DOMAIN live), ignoring),
                   filter |-> f, mapped |-> mapped, ignoring |-> ignoring, made |-> TRUE]
  BY DEF Diff
<1>4. UpToDate'
  <2>1. report'.mapped = mapped /\ report'.filter = f /\ report'.ignoring = ignoring
    BY <1>3
  <2>2. Compares(f, mapped, ignoring)'
    <3>1. report'.items = Items(Indexed(Collected(f, mapped, order)), LiveKept(f),
                                payload \cap Walked(f, DOMAIN live), ignoring)
      BY <1>3
    <3> QED BY <1>1, <3>1 DEF Compares, Collected, LiveKept, LiveRecords, Record
  <2> QED BY <1>1, <2>1, <2>2 DEF UpToDate
<1>5. Realigned'
  BY <1>1, StaysRealigned
<1> QED BY <1>2, <1>4, <1>5 DEF CycleInv

LEMMA CycleInvariance == CycleSpec => []CycleInv
<1>1. CycleInv /\ [CycleNext]_cycleVars => CycleInv'
  <2> SUFFICES ASSUME CycleInv, [CycleNext]_cycleVars PROVE CycleInv'
    OBVIOUS
  <2>1. CASE UNCHANGED cycleVars
    <3>1. Setting' /\ Untouched' /\ Complete' /\ Stored' /\ Judged' /\ OwnTree'
      BY <2>1 DEF cycleVars, tree, CycleInv, Setting, Untouched, Complete, Due, Taken, Stored, Whole,
                  Judged, OwnTree
    <3>2. UpToDate'
      <4>1. \A f, mapped, ignoring : Compares(f, mapped, ignoring) => Compares(f, mapped, ignoring)'
        BY <2>1, StaysCompared DEF cycleVars, tree
      <4> QED BY <2>1, <4>1 DEF cycleVars, CycleInv, UpToDate
    <3>3. Realigned'
      BY <2>1, StaysRealigned DEF cycleVars, tree
    <3> QED BY <3>1, <3>2, <3>3 DEF CycleInv
  <2> QED BY <2>1, BackupTakes, DamageKeeps, VerifyKeeps, RestoreKeeps, ChangeKeeps, DiffKeeps
          DEF CycleNext
<1> QED BY <1>1, CycleBegins, PTL DEF CycleSpec

\* A snapshot that verify accepts is read back as the records the backup wrote,
\* as far as its format has a place for them, whatever happened to the file:
\* verify.go:42-322 with the readers of tsv.go and ndjson.go.
THEOREM VerifiedIsReadBack == CycleSpec => []VerifiedReadsBack
<1> QED BY CycleInvariance, ReadBack, PTL

\* A comparison of a tree with its own verified snapshot, with the filter of the
\* backup, reports no drift that is not there: diff.go:32-268.
THEOREM DriftIsReal == CycleSpec => []NoFalseDrift
<1> QED BY CycleInvariance, NoneFalse, PTL

\* Nor does such a comparison hide a change of what was recorded, a file in a
\* recorded directory, or a new directory the filter selects: diff.go:126-240.
THEOREM ChangesAreShown == CycleSpec => []ChangesShow
<1> QED BY CycleInvariance, AllShow, PTL

\* After a restore through an identity map on another host a comparison through
\* the same map reports only owners that host has no account for, and SIDs that
\* are mapped to each other or begin like a mapped one: idmap.go:129-161, 217-261.
THEOREM RestoreAligns == CycleSpec => []RestoredIsAligned
<1> QED BY CycleInvariance, NothingElseDiffers, PTL
=============================================================================
