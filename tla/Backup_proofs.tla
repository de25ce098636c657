---------------------------- MODULE Backup_proofs ----------------------------
(***************************************************************************)
(* Proofs about Backup, for any number of runs into any names, in turn or  *)
(* at once.                                                                *)
(*                                                                         *)
(* Traced says that each block of a file was written by its run, Content   *)
(* what a file holds while one run has its name to itself.  Settled names  *)
(* the snapshot that retention may not take when runs come in turn.        *)
(***************************************************************************)
EXTENDS Backup, FiniteSetTheorems, SequenceTheorems, TLAPS

Untouched(r) == pc[r] \in {"start", "open"}

Fresh ==
    \A r \in Runs :
        /\ Untouched(r) => next[r] = 0 /\ offset[r] = 0 /\ ~linked[r]
        /\ pc[r] = "start" => spool[r] = "whole"
        /\ linked[r] => target[r] \in Present
        /\ pc[r] \in {"start", "open", "write"} => ~writeErr[r]

\* A run that goes on to retention has written its whole stream.
Wrote ==
    \A r \in Runs :
        pc[r] \in {"list", "purge", "ok"} \/ (pc[r] = "close" /\ ~writeErr[r])
            => next[r] = Len(Stream(r))

Traced ==
    \A f \in Present : \A i \in 1..Len(files[f]) :
        \/ files[f][i] = Hole
        \/ \E r \in Runs : \E k \in 1..next[r] : files[f][i] = Stream(r)[k]

Content ==
    \A r \in Runs : Sole(r) /\ Unspoiled(r) =>
        /\ Len(files[target[r]]) = next[r]
        /\ \A i \in 1..next[r] : files[target[r]][i] = Stream(r)[i]

InTurn == ~overlap /\ \A q, r \in Runs : target[q] = target[r] => q = r

Alone == ~overlap => \A q, r \in Active : q = r

\* The run at work has the newest file.
Newest ==
    InTurn => \A r \in Runs : pc[r] \in {"write", "close", "list"} =>
        linked[r] /\ newer[target[r]] = {} /\ target[r] \notin old

\* The file of q is whole and nobody is about to remove it.
Settled(q) ==
    /\ linked[q] /\ ~Untouched(q) /\ pc[q] # "write" /\ next[q] = Len(Stream(q))
    /\ \A r \in Runs : pc[r] = "purge" => target[q] \notin victims[r]

OneSettled ==
    InTurn /\ (\E r \in Runs : pc[r] \in {"purge", "ok"}) => \E q \in Runs : Settled(q)

IInv == TypeOK /\ Fresh /\ Wrote /\ Traced /\ Content /\ Alone /\ Newest /\ OneSettled

----------------------------------------------------------------------------
(* Streams.                                                                *)

LEMMA RowsType ==
  ASSUME NEW r \in Runs, NEW n \in Nat
  PROVE  /\ Rows(r, n) \in Seq({r} \X Int) /\ Len(Rows(r, n)) = n
         /\ \A i \in 1..n : Rows(r, n)[i] = <<r, i>>
BY DEF Rows

LEMMA HeldType ==
  ASSUME NEW r \in Runs
  PROVE  Size[r] \in Nat \ {0} /\ Held(r) \in Nat
BY BackupAssumption DEF Held

LEMMA TailType ==
  ASSUME NEW r \in Runs
  PROVE  Tail1(r) \in Seq({r} \X Int)
BY DEF Tail1, End

LEMMA HeadKept ==
  ASSUME NEW S, NEW s \in Seq(S), NEW t \in Seq(S), Len(s) >= 1
  PROVE  s \o t \in Seq(S) /\ Len(s \o t) >= 1 /\ (s \o t)[1] = s[1]
<1>1. /\ s \o t \in Seq(S) /\ Len(s \o t) = Len(s) + Len(t)
      /\ \A i \in 1..(Len(s) + Len(t)) : (s \o t)[i] = IF i <= Len(s) THEN s[i] ELSE t[i - Len(s)]
  BY ConcatProperties
<1>2. Len(s) \in Nat /\ Len(t) \in Nat
  OBVIOUS
<1> QED BY <1>1, <1>2

LEMMA StreamType ==
  ASSUME NEW r \in Runs
  PROVE  /\ Stream(r) \in Seq({r} \X Int) /\ Stream(r) \in Seq(Block)
         /\ Len(Stream(r)) \in Nat /\ DOMAIN Stream(r) = 1..Len(Stream(r))
         /\ \A k \in 1..Len(Stream(r)) : Stream(r)[k] \in {r} \X Int /\ Stream(r)[k] \in Block
<1> DEFINE B == {r} \X Int
           h == <<Header(r)>>
           m == Rows(r, Held(r))
           t == IF spool[r] = "torn" THEN <<Torn(r)>> ELSE <<>>
           e == Tail1(r)
<1>1. h \in Seq(B) /\ m \in Seq(B) /\ t \in Seq(B) /\ e \in Seq(B)
  <2>1. h \in Seq(B)
    BY DEF Header
  <2>2. m \in Seq(B)
    BY HeldType, RowsType
  <2>3. t \in Seq(B)
    BY DEF Torn
  <2>4. e \in Seq(B)
    BY DEF Tail1, End
  <2> QED BY <2>1, <2>2, <2>3, <2>4
<1> HIDE DEF h, m, t, e
<1>2. h \o m \in Seq(B)
  BY <1>1, ConcatProperties
<1>3. (h \o m) \o t \in Seq(B)
  BY <1>1, <1>2, ConcatProperties
<1>4. ((h \o m) \o t) \o e \in Seq(B)
  BY <1>1, <1>3, ConcatProperties
<1>5. Stream(r) \in Seq(B)
  BY <1>4 DEF Stream, h, m, t, e
<1>6. B \subseteq Block
  BY DEF Block
<1> HIDE DEF B
<1>7. Stream(r) \in Seq(Block)
  BY <1>5, <1>6, SeqMonotonic
<1>8. \A k \in 1..Len(Stream(r)) : Stream(r)[k] \in B
  BY <1>5, ElementOfSeq
<1>9. Len(Stream(r)) \in Nat /\ DOMAIN Stream(r) = 1..Len(Stream(r))
  BY <1>5, LenProperties
<1> QED BY <1>5, <1>6, <1>7, <1>8, <1>9 DEF B

\* With a buffer that took all records the stream is the whole snapshot; its
\* blocks are distinct.
LEMMA WholeStream ==
  ASSUME NEW r \in Runs, spool[r] = "whole"
  PROVE  /\ Stream(r) = Whole(r)
         /\ Stream(r) = <<Header(r)>> \o Rows(r, Held(r)) \o Tail1(r)
         /\ Len(Stream(r)) > 0
         /\ \A k, l \in 1..Len(Stream(r)) : Stream(r)[k] = Stream(r)[l] => k = l
<1> DEFINE B == {r} \X Int
           n == Size[r]
           rows == Rows(r, n)
           e == Tail1(r)
<1>0. n \in Nat \ {0}
  BY HeldType
<1>1. /\ <<Header(r)>> \in Seq(B) /\ Len(<<Header(r)>>) = 1 /\ <<Header(r)>>[1] = <<r, 0>>
      /\ rows \in Seq(B) /\ Len(rows) = n /\ \A i \in 1..n : rows[i] = <<r, i>>
      /\ e \in Seq(B) /\ Len(e) \in {0, 1} /\ \A i \in 1..Len(e) : e[i] = <<r, -2>>
  <2>1. <<Header(r)>> \in Seq(B) /\ Len(<<Header(r)>>) = 1 /\ <<Header(r)>>[1] = <<r, 0>>
    BY DEF Header
  <2>2. rows \in Seq(B) /\ Len(rows) = n /\ \A i \in 1..n : rows[i] = <<r, i>>
    BY <1>0, RowsType
  <2>3. e \in Seq(B)
    BY DEF Tail1, End
  <2>4. Len(e) \in {0, 1} /\ \A i \in 1..Len(e) : e[i] = <<r, -2>>
    <3>1. CASE r \in Zipped
      BY <3>1 DEF Tail1, End
    <3>2. CASE r \notin Zipped
      BY <3>2 DEF Tail1
    <3> QED BY <3>1, <3>2
  <2> QED BY <2>1, <2>2, <2>3, <2>4
<1>2. Held(r) = n
  BY DEF Held
<1> HIDE DEF n, rows, e, B
<1> DEFINE a == <<Header(r)>> \o rows
<1>3. a \in Seq(B) /\ Len(a) = 1 + n
      /\ \A k \in 1..(1 + n) : a[k] = IF k <= 1 THEN <<Header(r)>>[k] ELSE rows[k - 1]
  BY <1>0, <1>1, ConcatProperties
<1>4. \A k \in 1..(1 + n) : a[k] = <<r, k - 1>>
  <2> SUFFICES ASSUME NEW k \in 1..(1 + n) PROVE a[k] = <<r, k - 1>>
    OBVIOUS
  <2>1. CASE k = 1
    BY <1>0, <1>1, <1>3, <2>1
  <2>2. CASE k # 1
    <3>1. k - 1 \in 1..n /\ ~(k <= 1)
      BY <1>0, <2>2
    <3>2. a[k] = rows[k - 1] /\ rows[k - 1] = <<r, k - 1>>
      BY <1>1, <1>3, <3>1
    <3> QED BY <3>2
  <2> QED BY <2>1, <2>2
<1> HIDE DEF a
<1>5. a \o <<>> = a
  BY <1>3, ConcatEmptySeq
<1>6. Stream(r) = a \o e /\ Whole(r) = a \o e
      /\ Stream(r) = <<Header(r)>> \o Rows(r, Held(r)) \o Tail1(r)
  BY <1>2, <1>5 DEF Stream, Whole, a, n, rows, e
<1>7. /\ Len(a \o e) = 1 + n + Len(e)
      /\ \A k \in 1..(1 + n + Len(e)) : (a \o e)[k] = IF k <= 1 + n THEN a[k] ELSE e[k - (1 + n)]
  <2>1. /\ Len(a \o e) = Len(a) + Len(e)
        /\ \A k \in 1..(Len(a) + Len(e)) : (a \o e)[k] = IF k <= Len(a) THEN a[k] ELSE e[k - Len(a)]
    BY <1>1, <1>3, ConcatProperties
  <2> QED BY <1>3, <2>1
<1>8. \A k \in 1..Len(Stream(r)) :
         Stream(r)[k] = <<r, IF k <= 1 + n THEN k - 1 ELSE -2>> /\ (k > 1 + n => k = 2 + n)
  <2> SUFFICES ASSUME NEW k \in 1..(1 + n + Len(e))
               PROVE  /\ (a \o e)[k] = <<r, IF k <= 1 + n THEN k - 1 ELSE -2>>
                      /\ k > 1 + n => k = 2 + n
    BY <1>6, <1>7
  <2>1. CASE k <= 1 + n
    BY <1>0, <1>4, <1>7, <2>1
  <2>2. CASE k > 1 + n
    <3>1. k = 2 + n /\ k - (1 + n) \in 1..Len(e)
      BY <1>0, <1>1, <2>2
    <3> QED BY <1>0, <1>1, <1>7, <2>2, <3>1
  <2>3. k <= 1 + n \/ k > 1 + n
    BY <1>0, <1>1
  <2> QED BY <2>1, <2>2, <2>3
<1>9. Len(Stream(r)) > 0
  BY <1>0, <1>1, <1>6, <1>7
<1>10. \A k, l \in 1..Len(Stream(r)) : Stream(r)[k] = Stream(r)[l] => k = l
  BY <1>0, <1>8
<1> QED BY <1>6, <1>9, <1>10

\* Putting a block behind the end appends it; elsewhere it replaces one.
LEMMA PutType ==
  ASSUME NEW s \in Seq(Block), NEW i \in Nat \ {0}, NEW b \in Block
  PROVE  /\ Put(s, i, b) \in Seq(Block)
         /\ Len(Put(s, i, b)) = IF i > Len(s) THEN i ELSE Len(s)
         /\ \A k \in 1..Len(Put(s, i, b)) :
              Put(s, i, b)[k] = IF k = i THEN b ELSE IF k <= Len(s) THEN s[k] ELSE Hole
<1> DEFINE n == IF i > Len(s) THEN i ELSE Len(s)
<1>1. n \in Nat /\ Len(s) \in Nat
  OBVIOUS
<1>2. \A k \in 1..n : (IF k = i THEN b ELSE IF k <= Len(s) THEN s[k] ELSE Hole) \in Block
  BY <1>1 DEF Block
<1> HIDE DEF n
<1>3. [k \in 1..n |-> IF k = i THEN b ELSE IF k <= Len(s) THEN s[k] ELSE Hole] \in [1..n -> Block]
  BY <1>2
<1>4. Put(s, i, b) = [k \in 1..n |-> IF k = i THEN b ELSE IF k <= Len(s) THEN s[k] ELSE Hole]
  BY DEF Put, n
<1>5. Put(s, i, b) \in [1..n -> Block] /\ Put(s, i, b) \in Seq(Block)
  BY <1>1, <1>3, <1>4
<1>6. Len(Put(s, i, b)) = n
  BY <1>1, <1>5
<1> QED BY <1>4, <1>5, <1>6 DEF n

LEMMA StreamLong ==
  ASSUME NEW r \in Runs
  PROVE  Len(Stream(r)) >= 1 /\ Stream(r)[1] = Header(r)
<1> DEFINE B == {r} \X Int
           h == <<Header(r)>>
           m == Rows(r, Held(r))
           t == IF spool[r] = "torn" THEN <<Torn(r)>> ELSE <<>>
           e == Tail1(r)
<1>1. h \in Seq(B) /\ Len(h) >= 1 /\ h[1] = Header(r)
  BY DEF Header
<1>2. m \in Seq(B)
  BY HeldType, RowsType
<1>3. t \in Seq(B)
  BY DEF Torn
<1>4. e \in Seq(B)
  BY TailType
<1> HIDE DEF h, m, t, e, B
<1>5. h \o m \in Seq(B) /\ Len(h \o m) >= 1 /\ (h \o m)[1] = Header(r)
  BY <1>1, <1>2, HeadKept
<1>6. (h \o m) \o t \in Seq(B) /\ Len((h \o m) \o t) >= 1 /\ ((h \o m) \o t)[1] = Header(r)
  BY <1>3, <1>5, HeadKept
<1>7. Len(((h \o m) \o t) \o e) >= 1 /\ (((h \o m) \o t) \o e)[1] = Header(r)
  BY <1>4, <1>6, HeadKept
<1> QED BY <1>7 DEF Stream, h, m, t, e

LEMMA StreamSame ==
  ASSUME NEW r \in Runs, spool'[r] = spool[r]
  PROVE  Stream(r)' = Stream(r)
BY DEF Stream, Held

\* Touching a file that exists or not.
LEMMA TouchType ==
  ASSUME TypeOK, NEW f \in Names, NEW s \in Seq(Block), Touch(f, s)
  PROVE  /\ Present' = Present \cup {f}
         /\ files' \in [Present' -> Seq(Block)] /\ newer' \in [Present' -> SUBSET Present']
         /\ old' \subseteq Present' /\ f \notin old' /\ newer'[f] = {} /\ files'[f] = s
         /\ \A g \in Present : g # f => files'[g] = files[g]
<1>1. Present' = Present \cup {f}
  BY DEF Touch, Present
<1>2. files' \in [Present' -> Seq(Block)]
  BY <1>1 DEF Touch, TypeOK
<1>3. newer' \in [Present' -> SUBSET Present']
  BY <1>1 DEF Touch, TypeOK
<1> QED BY <1>1, <1>2, <1>3 DEF Touch, TypeOK

LEMMA InitIInv == ASSUME Init PROVE IInv
<1>1. \A r \in Runs : Len(Stream(r)) \in Nat
  BY StreamType
<1>2. Present = {}
  BY DEF Init, Present
<1>3. TypeOK
  <2>1. target \in [Runs -> Names] /\ overlap \in BOOLEAN
    BY BackupAssumption DEF Init
  <2>2. files \in [Present -> Seq(Block)] /\ newer \in [Present -> SUBSET Present]
    BY <1>2 DEF Init
  <2> QED BY <1>1, <1>2, <2>1, <2>2 DEF Init, TypeOK
<1>4. Fresh
  BY DEF Init, Fresh, Untouched
<1>5. Wrote
  BY DEF Init, Wrote
<1>6. Traced
  BY <1>2 DEF Traced
<1>7. Content
  BY DEF Init, Content, Sole
<1>8. Alone
  BY DEF Init, Alone, Active
<1>9. Newest
  BY DEF Init, Newest
<1>10. OneSettled
  BY DEF Init, OneSettled
<1> QED BY <1>3, <1>4, <1>5, <1>6, <1>7, <1>8, <1>9, <1>10 DEF IInv

----------------------------------------------------------------------------
(* The steps, one conjunct of the invariant after the other.               *)

\* The steps that leave everything but pc alone.
Quiet(r) ==
    /\ r \in Runs /\ UNCHANGED <<setting, writing, folder, victims>>
    /\ \/ pc[r] = "open" /\ pc' = [pc EXCEPT ![r] = "error"]
       \/ pc[r] = "write" /\ next[r] = Len(Stream(r)) /\ pc' = [pc EXCEPT ![r] = "close"]
       \/ pc[r] = "close" /\ pc' = [pc EXCEPT ![r] = "error"]
       \/ pc[r] = "close" /\ ~writeErr[r] /\ pc' = [pc EXCEPT ![r] = "list"]
       \/ pc[r] = "purge" /\ pc' = [pc EXCEPT ![r] = "ok"]
       \/ r \in Active /\ pc' = [pc EXCEPT ![r] = "dead"]

LEMMA Steps ==
  ASSUME [Next]_vars, TypeOK
  PROVE  \/ UNCHANGED vars
         \/ Expire
         \/ \E r \in Runs : \/ Spool(r) \/ Open(r) \/ Write(r) \/ HeaderLost(r) \/ WriteFails(r)
                           \/ List(r) \/ Remove(r) \/ Quiet(r)
<1>1. ASSUME NEW r \in Runs, Close(r) PROVE Quiet(r)
  <2>1. PICK late \in {FALSE, DiskMayFill} :
          pc' = [pc EXCEPT ![r] = IF writeErr[r] \/ late THEN "error" ELSE "list"]
    BY <1>1 DEF Close
  <2>2. CASE writeErr[r] \/ late
    BY <1>1, <2>1, <2>2 DEF Close, Quiet
  <2>3. CASE ~(writeErr[r] \/ late)
    BY <1>1, <2>1, <2>3 DEF Close, Quiet
  <2> QED BY <2>2, <2>3
<1>2. ASSUME NEW r \in Runs, OpenFails(r) \/ WriteEnds(r) \/ Succeed(r) \/ Die(r) PROVE Quiet(r)
  BY <1>2 DEF OpenFails, WriteEnds, Succeed, Die, Quiet
<1> QED BY <1>1, <1>2 DEF Next, Run, Over

LEMMA TypeStep == ASSUME TypeOK, Fresh, [Next]_vars PROVE TypeOK'
<1>1. \A r \in Runs : Len(Stream(r)) \in Nat /\ Len(Stream(r)') \in Nat
  <2>1. \A r \in Runs : Len(Stream(r)) \in Nat
    BY StreamType
  <2>2. (\A r \in Runs : Len(Stream(r)) \in Nat)'
    BY StreamType
  <2> QED BY <2>1, <2>2
<1>2. CASE UNCHANGED vars
  <2>1. \A r \in Runs : Stream(r)' = Stream(r)
    BY <1>2, StreamSame DEF vars, writing
  <2> QED BY <1>2, <2>1 DEF vars, setting, writing, folder, TypeOK, Present
<1>3. CASE Expire
  <2>1. \A r \in Runs : Stream(r)' = Stream(r)
    BY <1>3, StreamSame DEF Expire, writing
  <2> QED BY <1>3, <2>1 DEF Expire, setting, writing, TypeOK, Present
<1>4. ASSUME NEW r \in Runs, Quiet(r) PROVE TypeOK'
  <2>1. \A q \in Runs : Stream(q)' = Stream(q)
    BY <1>4, StreamSame DEF Quiet, writing
  <2>2. pc' \in [Runs -> {"start", "open", "write", "close", "list", "purge", "ok", "error", "dead"}]
    BY <1>4 DEF Quiet, TypeOK
  <2> QED BY <1>4, <2>1, <2>2 DEF Quiet, setting, writing, folder, TypeOK, Present
<1>5. ASSUME NEW r \in Runs, Spool(r) PROVE TypeOK'
  <2>1. \A q \in Runs \ {r} : Stream(q)' = Stream(q)
    BY <1>5, StreamSame DEF Spool, TypeOK
  <2>2. next[r] = 0 /\ offset[r] = 0
    BY <1>5 DEF Spool, Fresh, Untouched
  <2>3. \A q \in Runs : next'[q] <= Len(Stream(q)') /\ offset'[q] <= next'[q]
    <3>1. next[r] <= Len(Stream(r)')
      BY <1>1, <2>2
    <3>2. \A q \in Runs \ {r} : next[q] <= Len(Stream(q)')
      BY <2>1 DEF TypeOK
    <3> QED BY <1>5, <3>1, <3>2 DEF Spool, TypeOK
  <2>4. spool' \in [Runs -> {"whole", "short", "torn"}]
    BY <1>5 DEF Spool, TypeOK
  <2>5. pc' \in [Runs -> {"start", "open", "write", "close", "list", "purge", "ok", "error", "dead"}]
    BY <1>5 DEF Spool, TypeOK
  <2> QED BY <1>5, <2>3, <2>4, <2>5 DEF Spool, setting, folder, TypeOK, Present
<1>6. ASSUME NEW r \in Runs, Open(r) PROVE TypeOK'
  <2>1. \A q \in Runs : Stream(q)' = Stream(q)
    BY <1>6, StreamSame DEF Open
  <2>2. target[r] \in Names /\ <<>> \in Seq(Block)
    BY DEF TypeOK
  <2>3. /\ Present' \subseteq Names /\ old' \subseteq Present'
        /\ files' \in [Present' -> Seq(Block)] /\ newer' \in [Present' -> SUBSET Present']
    <3>1. Touch(target[r], <<>>)
      BY <1>6 DEF Open
    <3>2. /\ Present' = Present \cup {target[r]} /\ old' \subseteq Present'
          /\ files' \in [Present' -> Seq(Block)] /\ newer' \in [Present' -> SUBSET Present']
      BY <2>2, <3>1, TouchType
    <3> QED BY <2>2, <3>2 DEF TypeOK
  <2> QED BY <1>6, <2>1, <2>3 DEF Open, setting, TypeOK
<1>7. ASSUME NEW r \in Runs, Write(r) PROVE TypeOK'
  <2>1. \A q \in Runs : Stream(q)' = Stream(q)
    BY <1>7, StreamSame DEF Write
  <2>2. next' \in [Runs -> Nat] /\ offset' \in [Runs -> Nat]
        /\ \A q \in Runs : next'[q] <= Len(Stream(q)) /\ offset'[q] <= next'[q]
    BY <1>1, <1>7 DEF Write, TypeOK
  <2>3. /\ Present' \subseteq Names /\ old' \subseteq Present'
        /\ files' \in [Present' -> Seq(Block)] /\ newer' \in [Present' -> SUBSET Present']
    <3>1. CASE ~linked[r]
      BY <1>7, <3>1 DEF Write, folder, TypeOK, Present
    <3>2. CASE linked[r]
      <4>1. target[r] \in Present /\ files[target[r]] \in Seq(Block) /\ target[r] \in Names
        BY <3>2 DEF Fresh, TypeOK
      <4>2. offset[r] + 1 \in Nat \ {0} /\ next[r] + 1 \in 1..Len(Stream(r))
        BY <1>1, <1>7 DEF Write, TypeOK
      <4>3. Stream(r)[next[r] + 1] \in Block
        BY <4>2, StreamType
      <4> DEFINE s == Put(files[target[r]], offset[r] + 1, Stream(r)[next[r] + 1])
      <4>4. s \in Seq(Block)
        BY <4>1, <4>2, <4>3, PutType
      <4>5. Touch(target[r], s)
        BY <1>7, <3>2 DEF Write
      <4> HIDE DEF s
      <4> QED BY <4>1, <4>4, <4>5, TouchType DEF TypeOK
    <3> QED BY <3>1, <3>2
  <2> QED BY <1>7, <2>1, <2>2, <2>3 DEF Write, setting, TypeOK
<1>8. ASSUME NEW r \in Runs, HeaderLost(r) PROVE TypeOK'
  <2>1. \A q \in Runs : Stream(q)' = Stream(q)
    BY <1>8, StreamSame DEF HeaderLost
  <2>2. 1 <= Len(Stream(r))
    BY <1>8, StreamLong DEF HeaderLost
  <2>3. next' \in [Runs -> Nat]
        /\ \A q \in Runs : next'[q] <= Len(Stream(q)) /\ offset[q] <= next'[q]
    BY <1>1, <1>8, <2>2 DEF HeaderLost, TypeOK
  <2> QED BY <1>8, <2>1, <2>3 DEF HeaderLost, setting, folder, TypeOK, Present
<1>9. ASSUME NEW r \in Runs, WriteFails(r) PROVE TypeOK'
  <2>1. \A q \in Runs : Stream(q)' = Stream(q)
    BY <1>9, StreamSame DEF WriteFails
  <2> QED BY <1>9, <2>1 DEF WriteFails, setting, folder, TypeOK, Present
<1>10. ASSUME NEW r \in Runs, List(r) PROVE TypeOK'
  <2>1. \A q \in Runs : Stream(q)' = Stream(q)
    BY <1>10, StreamSame DEF List, writing
  <2>2. Expired \subseteq Names
    BY DEF Expired, TypeOK
  <2>3. victims' \in [Runs -> SUBSET Names]
    BY <1>10, <2>2 DEF List, TypeOK
  <2> QED BY <1>10, <2>1, <2>3 DEF List, setting, writing, folder, TypeOK, Present
<1>11. ASSUME NEW r \in Runs, Remove(r) PROVE TypeOK'
  <2>1. \A q \in Runs : Stream(q)' = Stream(q)
    BY <1>11, StreamSame DEF Remove
  <2>2. PICK f \in victims[r] :
           /\ victims' = [victims EXCEPT ![r] = @ \ {f}]
           /\ files' = [g \in Present \ {f} |-> files[g]]
           /\ newer' = [g \in Present \ {f} |-> newer[g] \ {f}]
           /\ old' = old \ {f}
           /\ linked' = [q \in Runs |-> linked[q] /\ target[q] # f]
    BY <1>11 DEF Remove
  <2>3. Present' = Present \ {f}
    BY <2>2 DEF Present
  <2>4. files' \in [Present' -> Seq(Block)] /\ newer' \in [Present' -> SUBSET Present']
    BY <2>2, <2>3 DEF TypeOK
  <2>5. linked' \in [Runs -> BOOLEAN] /\ victims' \in [Runs -> SUBSET Names]
    BY <2>2 DEF TypeOK
  <2> QED BY <1>11, <2>1, <2>2, <2>3, <2>4, <2>5 DEF Remove, setting, TypeOK
<1> QED BY <1>2, <1>3, <1>4, <1>5, <1>6, <1>7, <1>8, <1>9, <1>10, <1>11, Steps

\* What Remove does, with a name for the file.
LEMMA Removed ==
  ASSUME NEW r \in Runs, Remove(r), TypeOK
  PROVE  \E f \in victims[r] :
           /\ Present' = Present \ {f} /\ \A g \in Present' : files'[g] = files[g]
           /\ \A q \in Runs : linked'[q] <=> linked[q] /\ target[q] # f
           /\ \A q \in Runs : victims'[q] \subseteq victims[q]
<1>1. PICK f \in victims[r] :
         /\ victims' = [victims EXCEPT ![r] = @ \ {f}]
         /\ files' = [g \in Present \ {f} |-> files[g]]
         /\ linked' = [q \in Runs |-> linked[q] /\ target[q] # f]
  BY DEF Remove
<1>2. Present' = Present \ {f} /\ \A g \in Present' : files'[g] = files[g]
  BY <1>1 DEF Present
<1>3. \A q \in Runs : linked'[q] <=> linked[q] /\ target[q] # f
  BY <1>1
<1>4. \A q \in Runs : victims'[q] \subseteq victims[q]
  BY <1>1 DEF TypeOK
<1> QED BY <1>2, <1>3, <1>4

\* What Open does.
LEMMA Opened ==
  ASSUME NEW r \in Runs, Open(r)
  PROVE  /\ Present' = Present \cup {target[r]}
         /\ files'[target[r]] = <<>> /\ Len(files'[target[r]]) = 0
         /\ \A g \in Present : g # target[r] => files'[g] = files[g]
         /\ newer'[target[r]] = {} /\ target[r] \notin old'
<1>1. files' = [g \in Present \cup {target[r]} |-> IF g = target[r] THEN <<>> ELSE files[g]]
  BY DEF Open, Touch
<1>2. Present' = Present \cup {target[r]}
  BY <1>1 DEF Present
<1>3. files'[target[r]] = <<>>
  BY <1>1
<1>4. \A g \in Present : g # target[r] => files'[g] = files[g]
  BY <1>1
<1>5. newer'[target[r]] = {} /\ target[r] \notin old'
  BY DEF Open, Touch
<1> QED BY <1>2, <1>3, <1>4, <1>5

\* What Write does, with a name for the content.
LEMMA Written ==
  ASSUME NEW r \in Runs, Write(r), linked[r], TypeOK, Fresh
  PROVE  /\ target[r] \in Present /\ Present' = Present
         /\ \A g \in Present : g # target[r] => files'[g] = files[g]
         /\ newer'[target[r]] = {} /\ target[r] \notin old'
         /\ next[r] + 1 \in 1..Len(Stream(r))
         /\ \A k \in 1..Len(files'[target[r]]) :
              \/ files'[target[r]][k] = Hole
              \/ k = offset[r] + 1 /\ files'[target[r]][k] = Stream(r)[next[r] + 1]
              \/ k \in 1..Len(files[target[r]]) /\ files'[target[r]][k] = files[target[r]][k]
         /\ Len(files[target[r]]) = offset[r] =>
              /\ Len(files'[target[r]]) = offset[r] + 1
              /\ files'[target[r]][offset[r] + 1] = Stream(r)[next[r] + 1]
              /\ \A k \in 1..offset[r] : files'[target[r]][k] = files[target[r]][k]
<1> DEFINE s == files[target[r]]
           i == offset[r] + 1
           b == Stream(r)[next[r] + 1]
           t == Put(s, i, b)
<1>1. target[r] \in Present /\ s \in Seq(Block) /\ target[r] \in Names
  BY DEF Fresh, TypeOK
<1>2. i \in Nat \ {0} /\ next[r] + 1 \in 1..Len(Stream(r)) /\ offset[r] \in Nat
  BY StreamType DEF Write, TypeOK
<1>3. b \in Block
  BY <1>2, StreamType
<1>4. Touch(target[r], t)
  BY DEF Write
<1> HIDE DEF s, i, b
<1>5. /\ t \in Seq(Block)
      /\ Len(t) = IF i > Len(s) THEN i ELSE Len(s)
      /\ \A k \in 1..Len(t) : t[k] = IF k = i THEN b ELSE IF k <= Len(s) THEN s[k] ELSE Hole
  BY <1>1, <1>2, <1>3, PutType
<1> HIDE DEF t
<1>6. /\ Present' = Present \cup {target[r]} /\ files'[target[r]] = t
      /\ \A g \in Present : g # target[r] => files'[g] = files[g]
      /\ newer'[target[r]] = {} /\ target[r] \notin old'
  BY <1>1, <1>4, <1>5, TouchType
<1>7. \A k \in 1..Len(t) :
         \/ t[k] = Hole
         \/ k = i /\ t[k] = b
         \/ k \in 1..Len(s) /\ t[k] = s[k]
  BY <1>1, <1>5
<1>8. Len(s) = offset[r] =>
         /\ Len(t) = i /\ t[i] = b
         /\ \A k \in 1..offset[r] : t[k] = s[k]
  <2> SUFFICES ASSUME Len(s) = offset[r]
               PROVE  Len(t) = i /\ t[i] = b /\ \A k \in 1..offset[r] : t[k] = s[k]
    OBVIOUS
  <2>1. i = offset[r] + 1
    BY DEF i
  <2>2. Len(t) = i
    BY <1>2, <1>5, <2>1
  <2>3. t[i] = b
    BY <1>2, <1>5, <2>2
  <2>4. ASSUME NEW k \in 1..offset[r] PROVE t[k] = s[k]
    <3>1. k \in 1..Len(t) /\ k # i /\ k <= Len(s)
      BY <1>2, <2>1, <2>2
    <3> QED BY <1>5, <3>1
  <2> QED BY <2>2, <2>3, <2>4
<1>9. Present' = Present
  BY <1>1, <1>6
<1> QED BY <1>1, <1>2, <1>6, <1>7, <1>8, <1>9 DEF s, i, b

LEMMA FreshStep == ASSUME TypeOK, Fresh, [Next]_vars PROVE Fresh'
<1>1. CASE UNCHANGED vars
  BY <1>1 DEF vars, setting, writing, folder, Fresh, Untouched, Present
<1>2. CASE Expire
  BY <1>2 DEF Expire, setting, writing, Fresh, Untouched, Present
<1>3. ASSUME NEW r \in Runs, Quiet(r) PROVE Fresh'
  BY <1>3 DEF Quiet, Active, setting, writing, folder, Fresh, Untouched, Present, TypeOK
<1>4. ASSUME NEW r \in Runs, Spool(r) PROVE Fresh'
  BY <1>4 DEF Spool, setting, folder, Fresh, Untouched, Present, TypeOK
<1>5. ASSUME NEW r \in Runs, Open(r) PROVE Fresh'
  <2>1. Present' = Present \cup {target[r]}
    BY <1>5 DEF Open, Touch, Present
  <2> QED BY <1>5, <2>1 DEF Open, setting, Fresh, Untouched, TypeOK
<1>6. ASSUME NEW r \in Runs, Write(r) PROVE Fresh'
  <2>1. Present' = Present
    BY <1>6, Written DEF Write, folder, Present
  <2> QED BY <1>6, <2>1 DEF Write, setting, Fresh, Untouched, TypeOK
<1>7. ASSUME NEW r \in Runs, HeaderLost(r) PROVE Fresh'
  BY <1>7 DEF HeaderLost, setting, folder, Fresh, Untouched, Present, TypeOK
<1>8. ASSUME NEW r \in Runs, WriteFails(r) PROVE Fresh'
  BY <1>8 DEF WriteFails, setting, folder, Fresh, Untouched, Present, TypeOK
<1>9. ASSUME NEW r \in Runs, List(r) PROVE Fresh'
  BY <1>9 DEF List, setting, writing, folder, Fresh, Untouched, Present, TypeOK
<1>10. ASSUME NEW r \in Runs, Remove(r) PROVE Fresh'
  <2>1. PICK f \in victims[r] :
           /\ Present' = Present \ {f}
           /\ \A q \in Runs : linked'[q] <=> linked[q] /\ target[q] # f
    BY <1>10, Removed
  <2> QED BY <1>10, <2>1 DEF Remove, setting, Fresh, Untouched
<1> QED BY <1>1, <1>2, <1>3, <1>4, <1>5, <1>6, <1>7, <1>8, <1>9, <1>10, Steps

\* Written blocks stay written.
LEMMA Frame ==
  ASSUME TypeOK, Fresh, [Next]_vars, NEW r \in Runs
  PROVE  /\ pc[r] # "start" => Stream(r)' = Stream(r)
         /\ next[r] <= next'[r]
         /\ Untouched(r)' => Untouched(r)
<1> DEFINE P == /\ pc[r] # "start" => Stream(r)' = Stream(r)
                /\ next[r] <= next'[r]
                /\ Untouched(r)' => Untouched(r)
<1> SUFFICES P
  OBVIOUS
<1>1. CASE UNCHANGED vars
  BY <1>1, StreamSame DEF vars, writing, Untouched, TypeOK
<1>2. CASE Expire
  BY <1>2, StreamSame DEF Expire, writing, Untouched, TypeOK
<1>3. ASSUME NEW q \in Runs, Quiet(q) PROVE P
  BY <1>3, StreamSame DEF Quiet, writing, Untouched, TypeOK
<1>4. ASSUME NEW q \in Runs, Spool(q) PROVE P
  BY <1>4, StreamSame DEF Spool, Untouched, TypeOK
<1>5. ASSUME NEW q \in Runs, Open(q) \/ Write(q) \/ HeaderLost(q) \/ WriteFails(q) \/ List(q) \/ Remove(q)
      PROVE  P
  <2>1. Stream(r)' = Stream(r)
    BY <1>5, StreamSame DEF Open, Write, HeaderLost, WriteFails, List, Remove, writing
  <2>2. next[r] <= next'[r]
    <3>1. CASE Open(q) \/ WriteFails(q) \/ List(q) \/ Remove(q)
      BY <3>1 DEF Open, WriteFails, List, Remove, writing, TypeOK
    <3>2. CASE Write(q)
      BY <3>2 DEF Write, TypeOK
    <3>3. CASE HeaderLost(q)
      <4>1. next'[r] = IF r = q THEN 1 ELSE next[r]
        BY <3>3 DEF HeaderLost, TypeOK
      <4>2. next[q] = 0 /\ next[r] \in Nat
        BY <3>3 DEF HeaderLost, TypeOK
      <4> QED BY <4>1, <4>2
    <3> QED BY <1>5, <3>1, <3>2, <3>3
  <2>3. Untouched(r)' => Untouched(r)
    BY <1>5 DEF Open, Write, HeaderLost, WriteFails, List, Remove, Untouched, TypeOK
  <2> QED BY <2>1, <2>2, <2>3
<1> HIDE DEF P
<1> QED BY <1>1, <1>2, <1>3, <1>4, <1>5, Steps

LEMMA WroteStep == ASSUME TypeOK, Fresh, Wrote, [Next]_vars PROVE Wrote'
<1> DEFINE Done(r) == pc[r] \in {"list", "purge", "ok"} \/ (pc[r] = "close" /\ ~writeErr[r])
<1> SUFFICES ASSUME NEW r \in Runs, Done(r)' PROVE next'[r] = Len(Stream(r)')
  BY DEF Wrote
<1>1. ASSUME Done(r), next'[r] = next[r] PROVE next'[r] = Len(Stream(r)')
  BY <1>1, Frame DEF Wrote
<1>2. CASE UNCHANGED vars
  BY <1>1, <1>2 DEF vars, writing
<1>3. CASE Expire
  BY <1>1, <1>3 DEF Expire, writing
<1>4. ASSUME NEW q \in Runs, Quiet(q) PROVE next'[r] = Len(Stream(r)')
  <2>1. CASE Done(r)
    BY <1>1, <1>4, <2>1 DEF Quiet, writing
  <2>2. CASE ~Done(r)
    <3>1. r = q /\ pc[r] = "write" /\ next[r] = Len(Stream(r)) /\ next'[r] = next[r]
      BY <1>4, <2>2 DEF Quiet, writing, TypeOK
    <3> QED BY <3>1, Frame
  <2> QED BY <2>1, <2>2
<1>5. ASSUME NEW q \in Runs, Spool(q) \/ Open(q) \/ Write(q) \/ HeaderLost(q)
                             \/ WriteFails(q) \/ List(q) \/ Remove(q)
      PROVE  next'[r] = Len(Stream(r)')
  <2>1. Done(r) /\ next'[r] = next[r]
    BY <1>5 DEF Spool, Open, Write, HeaderLost, WriteFails, List, Remove, writing, TypeOK
  <2> QED BY <1>1, <2>1
<1> QED BY <1>2, <1>3, <1>4, <1>5, Steps

LEMMA TracedStep == ASSUME TypeOK, Fresh, Traced, [Next]_vars PROVE Traced'
<1> DEFINE From(b, r) == \E k \in 1..next[r] : b = Stream(r)[k]
           FromNext(b, r) == \E k \in 1..next'[r] : b = Stream(r)'[k]
<1>1. ASSUME NEW b, NEW r \in Runs, From(b, r) PROVE FromNext(b, r)
  <2>1. PICK k \in 1..next[r] : b = Stream(r)[k]
    BY <1>1
  <2>2. next[r] \in Nat /\ next'[r] \in Nat /\ next[r] <= next'[r]
    BY Frame, TypeStep DEF TypeOK
  <2>3. pc[r] # "start"
    BY <2>1, <2>2 DEF Fresh, Untouched
  <2>4. k \in 1..next'[r] /\ b = Stream(r)'[k]
    BY <2>1, <2>2, <2>3, Frame
  <2> QED BY <2>4
<1> SUFFICES ASSUME NEW f \in Present', NEW i \in 1..Len(files'[f])
             PROVE  files'[f][i] = Hole \/ \E r \in Runs : FromNext(files'[f][i], r)
  BY DEF Traced
<1>2. ASSUME NEW g \in Present, NEW j \in 1..Len(files[g]), files'[f][i] = files[g][j]
      PROVE  files'[f][i] = Hole \/ \E r \in Runs : FromNext(files'[f][i], r)
  <2>1. files[g][j] = Hole \/ \E r \in Runs : From(files[g][j], r)
    BY DEF Traced
  <2> HIDE DEF From, FromNext
  <2> QED BY <1>1, <1>2, <2>1
<1>3. ASSUME f \in Present, files'[f] = files[f]
      PROVE  files'[f][i] = Hole \/ \E r \in Runs : FromNext(files'[f][i], r)
  BY <1>2, <1>3
<1> DEFINE Goal == files'[f][i] = Hole \/ \E r \in Runs : FromNext(files'[f][i], r)
<1> SUFFICES Goal
  OBVIOUS
<1>4. ASSUME UNCHANGED folder PROVE Goal
  BY <1>3, <1>4 DEF folder, Present
<1>5. CASE UNCHANGED vars
  BY <1>4, <1>5 DEF vars
<1>6. CASE Expire
  BY <1>3, <1>6 DEF Expire, Present
<1>7. ASSUME NEW q \in Runs, Quiet(q) \/ Spool(q) \/ HeaderLost(q) \/ WriteFails(q) \/ List(q)
      PROVE  Goal
  <2>1. UNCHANGED folder
    BY <1>7 DEF Quiet, Spool, HeaderLost, WriteFails, List
  <2> QED BY <1>4, <2>1
<1>8. ASSUME NEW q \in Runs, Open(q) PROVE Goal
  <2>2. /\ Present' = Present \cup {target[q]} /\ Len(files'[target[q]]) = 0
        /\ \A g \in Present : g # target[q] => files'[g] = files[g]
    BY <1>8, Opened
  <2>3. CASE f = target[q]
    BY <2>2, <2>3
  <2>4. CASE f # target[q]
    BY <1>3, <2>2, <2>4
  <2> QED BY <2>3, <2>4
<1>9. ASSUME NEW q \in Runs, Write(q) PROVE Goal
  <2>1. CASE ~linked[q]
    BY <1>4, <1>9, <2>1 DEF Write
  <2>2. CASE linked[q]
    <3> DEFINE t == target[q]
               n == next[q] + 1
    <3>1. /\ t \in Present /\ Present' = Present
          /\ \A g \in Present : g # t => files'[g] = files[g]
          /\ n \in 1..Len(Stream(q))
          /\ \A k \in 1..Len(files'[t]) :
               \/ files'[t][k] = Hole
               \/ files'[t][k] = Stream(q)[n]
               \/ k \in 1..Len(files[t]) /\ files'[t][k] = files[t][k]
      BY <1>9, <2>2, Written
    <3>2. next'[q] = n /\ n \in 1..next'[q] /\ Stream(q)' = Stream(q)
      BY <1>9, StreamSame DEF Write, TypeOK
    <3> HIDE DEF n, t
    <3>3. CASE f # t
      BY <1>3, <3>1, <3>3
    <3>4. CASE f = t
      <4>1. CASE files'[f][i] = Hole
        BY <4>1
      <4>2. CASE files'[f][i] = Stream(q)[n]
        <5>1. FromNext(files'[f][i], q)
          BY <3>2, <4>2
        <5> QED BY <5>1
      <4>3. CASE i \in 1..Len(files[f]) /\ files'[f][i] = files[f][i]
        BY <1>2, <3>1, <3>4, <4>3
      <4> QED BY <3>1, <3>4, <4>1, <4>2, <4>3
    <3> QED BY <3>3, <3>4
  <2> QED BY <2>1, <2>2
<1>10. ASSUME NEW q \in Runs, Remove(q) PROVE Goal
  <2>1. PICK g \in victims[q] : Present' = Present \ {g} /\ \A h \in Present' : files'[h] = files[h]
    BY <1>10, Removed
  <2> QED BY <1>3, <2>1
<1> HIDE DEF Goal, From, FromNext
<1> QED BY <1>5, <1>6, <1>7, <1>8, <1>9, <1>10, Steps

LEMMA AloneStep == ASSUME TypeOK, Alone, [Next]_vars PROVE Alone'
<1> SUFFICES ASSUME ~overlap', NEW p \in Active', NEW r \in Active' PROVE p = r
  BY DEF Alone
<1>0. p \in Runs /\ r \in Runs
  BY DEF Active
<1>1. ASSUME Active' \subseteq Active, overlap' = overlap PROVE p = r
  BY <1>1 DEF Alone
<1>2. CASE UNCHANGED vars
  BY <1>1, <1>2 DEF vars, setting, Active
<1>3. CASE Expire
  BY <1>1, <1>3 DEF Expire, setting, Active
<1>4. ASSUME NEW q \in Runs, Spool(q) PROVE p = r
  <2>1. Active = {} /\ \A x \in Runs \ {q} : pc'[x] = pc[x]
    BY <1>4 DEF Spool, setting, TypeOK
  <2>2. \A x \in Active' : x = q
    BY <2>1 DEF Active
  <2> QED BY <2>2
<1>5. ASSUME NEW q \in Runs, Quiet(q) PROVE p = r
  <2>1. q \in Active /\ overlap' = overlap /\ \A x \in Runs \ {q} : pc'[x] = pc[x]
    BY <1>5 DEF Quiet, setting, Active, TypeOK
  <2>2. Active' \subseteq Active
    BY <2>1 DEF Active
  <2> QED BY <1>1, <2>1, <2>2
<1>6. ASSUME NEW q \in Runs, Open(q) \/ Write(q) \/ HeaderLost(q) \/ WriteFails(q) \/ List(q) \/ Remove(q)
      PROVE  p = r
  <2>1. q \in Active /\ overlap' = overlap /\ \A x \in Runs \ {q} : pc'[x] = pc[x]
    BY <1>6 DEF Open, Write, HeaderLost, WriteFails, List, Remove, setting, Active, TypeOK
  <2>2. Active' \subseteq Active
    BY <2>1 DEF Active
  <2> QED BY <1>1, <2>1, <2>2
<1> QED BY <1>2, <1>3, <1>4, <1>5, <1>6, Steps

LEMMA ContentStep == ASSUME TypeOK, Fresh, Content, [Next]_vars PROVE Content'
<1> DEFINE Holds(r) == /\ Len(files[target[r]]) = next[r]
                       /\ \A i \in 1..next[r] : files[target[r]][i] = Stream(r)[i]
<1> SUFFICES ASSUME NEW r \in Runs, Sole(r)', Unspoiled(r)' PROVE Holds(r)'
  BY DEF Content
<1>1. target' = target /\ ~Untouched(r)'
  <2>1. target' = target
    BY Steps DEF vars, setting, Expire, Quiet, Spool, Open, Write, HeaderLost, WriteFails, List, Remove
  <2>2. Fresh'
    BY FreshStep
  <2> QED BY <2>1, <2>2 DEF Fresh, Sole
<1>2. linked[r] => Sole(r) /\ target[r] \in Present /\ ~Untouched(r) /\ pc[r] # "start"
  <2>1. \A q \in Runs \ {r} : target[q] = target[r] => Untouched(q)
    BY <1>1, Frame DEF Sole, Untouched
  <2> QED BY <2>1 DEF Sole, Fresh, Untouched
<1> DEFINE Same == /\ linked[r] /\ Unspoiled(r) /\ next'[r] = next[r]
                   /\ files'[target[r]] = files[target[r]]
<1>3. ASSUME Same PROVE Holds(r)'
  <2>1. Holds(r)
    BY <1>2, <1>3 DEF Content
  <2>2. Stream(r)' = Stream(r)
    BY <1>2, <1>3, Frame
  <2> QED BY <1>1, <1>3, <2>1, <2>2
<1>4. CASE UNCHANGED vars
  BY <1>3, <1>4 DEF vars, setting, writing, folder, Sole, Unspoiled
<1>5. CASE Expire
  BY <1>3, <1>5 DEF Expire, setting, writing, Sole, Unspoiled
<1>6. ASSUME NEW q \in Runs, Quiet(q) \/ List(q) PROVE Holds(r)'
  BY <1>3, <1>6 DEF Quiet, List, setting, writing, folder, Sole, Unspoiled
<1>7. ASSUME NEW q \in Runs, WriteFails(q) PROVE Holds(r)'
  BY <1>3, <1>7 DEF WriteFails, setting, folder, Sole, Unspoiled
<1>8. ASSUME NEW q \in Runs, Spool(q) PROVE Holds(r)'
  <2>1. linked[r]
    BY <1>8 DEF Spool, Sole
  <2>2. q # r
    BY <1>2, <1>8, <2>1 DEF Spool
  <2>3. spool'[r] = spool[r]
    BY <1>8, <2>2 DEF Spool, TypeOK
  <2> QED BY <1>3, <1>8, <2>1, <2>3 DEF Spool, folder, Unspoiled
<1>9. ASSUME NEW q \in Runs, Open(q) PROVE Holds(r)'
  <2>1. CASE q = r
    <3>1. next'[r] = 0 /\ Len(files'[target[r]]) = 0
      BY <1>9, <2>1, Opened DEF Open, Fresh, Untouched
    <3> QED BY <1>1, <3>1
  <2>2. CASE q # r
    <3>1. linked[r] /\ Unspoiled(r) /\ next'[r] = next[r]
      BY <1>9, <2>2 DEF Open, Sole, Unspoiled, TypeOK
    <3>2. pc'[q] = "write"
      BY <1>9 DEF Open, TypeOK
    <3>3. target[q] # target[r]
      BY <1>1, <2>2, <3>2 DEF Sole
    <3>4. files'[target[r]] = files[target[r]]
      BY <1>2, <1>9, <3>1, <3>3, Opened
    <3> QED BY <1>3, <3>1, <3>4
  <2> QED BY <2>1, <2>2
<1>10. ASSUME NEW q \in Runs, Write(q) PROVE Holds(r)'
  <2>0. linked[r] /\ spool'[r] = spool[r]
    BY <1>10 DEF Write, Sole
  <2>1. CASE q = r
    <3>1. /\ Unspoiled(r) /\ next'[r] = next[r] + 1 /\ offset[r] = next[r] /\ next[r] \in Nat
      <4>1. next'[r] = next[r] + 1 /\ offset'[r] = offset[r] + 1 /\ next[r] \in Nat /\ offset[r] \in Nat
        BY <1>10, <2>1 DEF Write, TypeOK
      <4>2. offset'[r] = next'[r] /\ spool[r] = "whole"
        BY <2>0 DEF Unspoiled
      <4> QED BY <4>1, <4>2 DEF Unspoiled
    <3>2. Holds(r)
      BY <1>2, <2>0, <3>1 DEF Content
    <3>3. Write(r)
      BY <1>10, <2>1
    <3> DEFINE n == next[r]
               s == files[target[r]]
               t == files'[target[r]]
               w == Stream(r)
    <3>4. Len(t) = n + 1 /\ t[n + 1] = w[n + 1] /\ \A k \in 1..n : t[k] = s[k]
      BY <2>0, <3>1, <3>2, <3>3, Written
    <3>5. \A k \in 1..n : s[k] = w[k]
      BY <3>2
    <3>6. next'[r] = n + 1 /\ n \in Nat
      BY <3>1
    <3>7. Stream(r)' = w
      BY <2>0, StreamSame
    <3> HIDE DEF n, s, t, w
    <3>8. \A k \in 1..(n + 1) : t[k] = w[k]
      BY <3>4, <3>5, <3>6
    <3>9. Len(t) = next'[r] /\ \A k \in 1..next'[r] : t[k] = w[k]
      BY <3>4, <3>6, <3>8
    <3> QED BY <1>1, <3>7, <3>9 DEF t
  <2>2. CASE q # r
    <3>1. Unspoiled(r) /\ next'[r] = next[r]
      BY <1>10, <2>0, <2>2 DEF Write, Unspoiled, TypeOK
    <3>2. pc'[q] = "write"
      BY <1>10 DEF Write
    <3>3. target[q] # target[r]
      BY <1>1, <2>2, <3>2 DEF Sole
    <3>4. files'[target[r]] = files[target[r]]
      <4>1. CASE linked[q]
        BY <1>2, <1>10, <2>0, <3>3, <4>1, Written
      <4>2. CASE ~linked[q]
        BY <1>10, <4>2 DEF Write, folder
      <4> QED BY <4>1, <4>2
    <3> QED BY <1>3, <2>0, <3>1, <3>4
  <2> QED BY <2>1, <2>2
<1>11. ASSUME NEW q \in Runs, HeaderLost(q) PROVE Holds(r)'
  <2>1. q # r
    <3>1. next[q] = 0 /\ offset[q] \in Nat /\ offset[q] <= next[q] /\ next'[q] = 1 /\ offset'[q] = offset[q]
      BY <1>11 DEF HeaderLost, TypeOK
    <3>2. offset'[q] # next'[q]
      BY <3>1
    <3> QED BY <3>2 DEF Unspoiled
  <2>2. Same
    BY <1>11, <2>1 DEF HeaderLost, folder, Sole, Unspoiled, TypeOK
  <2> QED BY <1>3, <2>2
<1>12. ASSUME NEW q \in Runs, Remove(q) PROVE Holds(r)'
  <2>1. PICK f \in victims[q] :
           /\ Present' = Present \ {f} /\ \A g \in Present' : files'[g] = files[g]
           /\ \A p \in Runs : linked'[p] <=> linked[p] /\ target[p] # f
    BY <1>12, Removed
  <2>2. linked[r] /\ target[r] # f
    BY <2>1 DEF Sole
  <2>3. files'[target[r]] = files[target[r]]
    BY <1>2, <2>1, <2>2
  <2> QED BY <1>3, <1>12, <2>2, <2>3 DEF Remove, Unspoiled
<1> QED BY <1>4, <1>5, <1>6, <1>7, <1>8, <1>9, <1>10, <1>11, <1>12, Steps

\* The setting never changes, so runs stay in turn.
LEMMA SettingKept == ASSUME TypeOK, [Next]_vars PROVE UNCHANGED setting /\ (InTurn' <=> InTurn)
<1>1. UNCHANGED setting
  BY Steps DEF vars, Expire, Quiet, Spool, Open, Write, HeaderLost, WriteFails, List, Remove
<1> QED BY <1>1 DEF setting, InTurn

LEMMA NewestStep == ASSUME TypeOK, Fresh, Alone, Newest, [Next]_vars PROVE Newest'
<1> DEFINE First(r) == linked[r] /\ newer[target[r]] = {} /\ target[r] \notin old
           Busy(r) == pc[r] \in {"write", "close", "list"}
<1> SUFFICES ASSUME InTurn, NEW r \in Runs, Busy(r)' PROVE First(r)'
  BY SettingKept DEF Newest
<1>1. ASSUME NEW q \in Runs, q # r, q \in Active, pc'[r] = pc[r] PROVE FALSE
  BY <1>1 DEF Alone, Active, InTurn
<1>2. target' = target
  BY SettingKept DEF setting
<1>3. ASSUME Busy(r), linked'[r] = linked[r], UNCHANGED folder PROVE First(r)'
  BY <1>2, <1>3 DEF Newest, folder
<1>4. CASE UNCHANGED vars
  BY <1>3, <1>4 DEF vars, writing
<1>5. CASE Expire
  BY <1>5 DEF Expire, Active
<1>6. ASSUME NEW q \in Runs, Spool(q) PROVE First(r)'
  <2>1. r # q /\ pc'[r] = pc[r] /\ Active = {}
    BY <1>6, SettingKept DEF Spool, TypeOK, InTurn
  <2> QED BY <2>1 DEF Active
<1>7. ASSUME NEW q \in Runs, Quiet(q) \/ WriteFails(q) \/ List(q) PROVE First(r)'
  <2>1. CASE q = r
    <3>1. Busy(r) /\ linked'[r] = linked[r] /\ UNCHANGED folder
      BY <1>7, <2>1 DEF Quiet, WriteFails, List, writing, TypeOK
    <3> QED BY <1>3, <3>1
  <2>2. CASE q # r
    BY <1>1, <1>7, <2>2 DEF Quiet, WriteFails, List, Active, TypeOK
  <2> QED BY <2>1, <2>2
<1>8. ASSUME NEW q \in Runs, Open(q) PROVE First(r)'
  <2>1. CASE q = r
    <3>1. linked'[r]
      BY <1>8, <2>1 DEF Open, TypeOK
    <3> QED BY <1>2, <1>8, <2>1, <3>1, Opened
  <2>2. CASE q # r
    BY <1>1, <1>8, <2>2 DEF Open, Active, TypeOK
  <2> QED BY <2>1, <2>2
<1>9. ASSUME NEW q \in Runs, Write(q) PROVE First(r)'
  <2>1. CASE q = r
    <3>1. linked[r] /\ linked'[r] = linked[r]
      BY <1>9, <2>1 DEF Write, Newest
    <3> QED BY <1>2, <1>9, <2>1, <3>1, Written
  <2>2. CASE q # r
    BY <1>1, <1>9, <2>2 DEF Write, Active
  <2> QED BY <2>1, <2>2
<1>10. ASSUME NEW q \in Runs, HeaderLost(q) PROVE First(r)'
  BY <1>3, <1>10 DEF HeaderLost
<1>11. ASSUME NEW q \in Runs, Remove(q) PROVE First(r)'
  <2>1. q # r /\ q \in Active /\ pc'[r] = pc[r]
    BY <1>11 DEF Remove, Active
  <2> QED BY <1>1, <2>1
<1> HIDE DEF First
<1>12. First(r)'
  BY <1>4, <1>5, <1>6, <1>7, <1>8, <1>9, <1>10, <1>11, Steps
<1> QED BY <1>12

\* A run about to list does not find its own file expired.
LEMMA OwnFileStays ==
  ASSUME TypeOK, Newest, InTurn, NEW r \in Runs, pc[r] = "list"
  PROVE  target[r] \notin Expired
<1>1. newer[target[r]] = {} /\ target[r] \notin old
  BY DEF Newest
<1>2. Cardinality({}) = 0
  BY FS_EmptySet
<1>3. ~(0 >= Keep)
  BY BackupAssumption
<1> QED BY <1>1, <1>2, <1>3 DEF Expired

LEMMA SettledStep ==
  ASSUME TypeOK, Fresh, Wrote, Alone, Newest, OneSettled, [Next]_vars
  PROVE  OneSettled'
<1> DEFINE Finding(r) == pc[r] \in {"purge", "ok"}
<1> SUFFICES ASSUME InTurn, NEW r \in Runs, Finding(r)' PROVE (\E q \in Runs : Settled(q))'
  BY SettingKept DEF OneSettled
<1>0. target' = target
  BY SettingKept DEF setting
<1>1. ASSUME NEW p \in Runs, List(p) PROVE (\E q \in Runs : Settled(q))'
  <2>1. linked'[p] /\ pc'[p] = "purge" /\ pc[p] = "list" /\ next'[p] = next[p] /\ Stream(p)' = Stream(p)
    BY <1>1, StreamSame DEF List, writing, Newest, TypeOK
  <2>2. next'[p] = Len(Stream(p)')
    BY <2>1 DEF Wrote
  <2>3. ASSUME NEW x \in Runs, pc'[x] = "purge" PROVE target'[p] \notin victims'[x]
    <3>1. x = p
      <4>1. x # p => x \in Active /\ p \in Active
        BY <1>1, <2>1, <2>3 DEF List, Active, TypeOK
      <4> QED BY <4>1 DEF Alone, InTurn
    <3>2. victims'[p] = Expired
      BY <1>1 DEF List, TypeOK
    <3> QED BY <1>0, <2>1, <3>1, <3>2, OwnFileStays
  <2>4. Settled(p)'
    BY <2>1, <2>2, <2>3 DEF Settled, Untouched
  <2> QED BY <2>4
<1>2. ASSUME \A p \in Runs : ~List(p) PROVE (\E q \in Runs : Settled(q))'
  <2>1. Finding(r) /\ \A x \in Runs : pc'[x] = "purge" => pc[x] = "purge" /\ victims'[x] \subseteq victims[x]
    <3>1. CASE UNCHANGED vars
      BY <3>1 DEF vars
    <3>2. CASE Expire
      BY <3>2 DEF Expire
    <3>3. ASSUME NEW p \in Runs, Quiet(p) \/ Spool(p) \/ Open(p) \/ Write(p) \/ HeaderLost(p) \/ WriteFails(p)
          PROVE  Finding(r) /\ \A x \in Runs : pc'[x] = "purge" => pc[x] = "purge" /\ victims'[x] \subseteq victims[x]
      BY <3>3 DEF Quiet, Spool, Open, Write, HeaderLost, WriteFails, TypeOK
    <3>4. ASSUME NEW p \in Runs, Remove(p)
          PROVE  Finding(r) /\ \A x \in Runs : pc'[x] = "purge" => pc[x] = "purge" /\ victims'[x] \subseteq victims[x]
      <4>1. \A x \in Runs : victims'[x] \subseteq victims[x]
        BY <3>4, Removed
      <4> QED BY <3>4, <4>1 DEF Remove
    <3> QED BY <1>2, <3>1, <3>2, <3>3, <3>4, Steps
  <2>2. PICK q \in Runs : Settled(q)
    BY <2>1 DEF OneSettled
  <2>3. /\ linked[q] /\ ~Untouched(q) /\ pc[q] # "write" /\ pc[q] # "start" /\ next[q] = Len(Stream(q))
        /\ \A x \in Runs : pc[x] = "purge" => target[q] \notin victims[x]
    BY <2>2 DEF Settled, Untouched
  <2>4. \A x \in Runs : pc'[x] = "purge" => target'[q] \notin victims'[x]
    BY <1>0, <2>1, <2>3
  <2>5. ~Untouched(q)' /\ Stream(q)' = Stream(q)
    BY <2>3, Frame
  <2>6. linked'[q] /\ pc'[q] # "write" /\ next'[q] = next[q]
    <3>1. CASE UNCHANGED vars
      BY <2>3, <3>1 DEF vars, writing
    <3>2. CASE Expire
      BY <2>3, <3>2 DEF Expire, writing
    <3>3. ASSUME NEW p \in Runs, Quiet(p) \/ Spool(p) \/ Open(p) \/ Write(p) \/ HeaderLost(p) \/ WriteFails(p)
          PROVE  linked'[q] /\ pc'[q] # "write" /\ next'[q] = next[q]
      BY <2>3, <3>3 DEF Quiet, Spool, Open, Write, HeaderLost, WriteFails, writing, Untouched, TypeOK
    <3>4. ASSUME NEW p \in Runs, Remove(p)
          PROVE  linked'[q] /\ pc'[q] # "write" /\ next'[q] = next[q]
      <4>1. PICK f \in victims[p] : \A x \in Runs : linked'[x] <=> linked[x] /\ target[x] # f
        BY <3>4, Removed
      <4>2. target[q] # f
        BY <2>3, <3>4, <4>1 DEF Remove
      <4> QED BY <2>3, <3>4, <4>1, <4>2 DEF Remove
    <3> QED BY <1>2, <3>1, <3>2, <3>3, <3>4, Steps
  <2>7. Settled(q)'
    BY <2>3, <2>4, <2>5, <2>6 DEF Settled
  <2> QED BY <2>7
<1> QED BY <1>1, <1>2

LEMMA StepIInv == ASSUME IInv, [Next]_vars PROVE IInv'
<1> USE DEF IInv
<1>1. TypeOK'
  BY TypeStep
<1>2. Fresh'
  BY FreshStep
<1>3. Wrote'
  BY WroteStep
<1>4. Traced'
  BY TracedStep
<1>5. Content'
  BY ContentStep
<1>6. Alone'
  BY AloneStep
<1>7. Newest'
  BY NewestStep
<1>8. OneSettled'
  BY SettledStep
<1> QED BY <1>1, <1>2, <1>3, <1>4, <1>5, <1>6, <1>7, <1>8

LEMMA Invariance == Spec => []IInv
<1>1. IInv /\ UNCHANGED vars => IInv'
  BY StepIInv
<1>2. IInv /\ [Next]_vars => IInv'
  BY StepIInv
<1> QED BY InitIInv, <1>1, <1>2, PTL DEF Spec

----------------------------------------------------------------------------
(* What follows.                                                           *)

\* The type invariant of the runs, their files and their listings.
THEOREM TypeCorrect == Spec => []TypeOK
<1>1. IInv => TypeOK
  BY DEF IInv
<1> QED BY <1>1, Invariance, PTL

\* The block that the file of a whole snapshot ends in was written by its run.
LEMMA WholeIsWritten ==
  ASSUME TypeOK, Traced, NEW f \in Present, NEW r \in Runs, spool[r] = "whole", files[f] = Stream(r)
  PROVE  next[r] = Len(Stream(r))
<1> DEFINE n == Len(Stream(r))
<1>1. n \in Nat /\ n > 0 /\ n \in 1..Len(files[f])
  <2>1. n \in Nat /\ n > 0 /\ Len(files[f]) = n
    BY StreamType, WholeStream
  <2> HIDE DEF n
  <2> QED BY <2>1
<1>2. files[f][n] = Stream(r)[n] /\ Stream(r)[n] \in {r} \X Int
  BY <1>1, StreamType
<1>3. files[f][n] # Hole
  <2>1. ASSUME NEW x \in {r} \X Int PROVE x # Hole
    <3>1. PICK z \in Int : x = <<r, z>>
      OBVIOUS
    <3>2. Len(x) = 2
      BY <3>1
    <3>3. ASSUME x = Hole PROVE Len(x) = 0
      BY <3>3 DEF Hole
    <3> QED BY <3>2, <3>3
  <2> QED BY <1>2, <2>1
<1>4. PICK q \in Runs : \E k \in 1..next[q] : files[f][n] = Stream(q)[k]
  BY <1>1, <1>3 DEF Traced
<1>10. PICK k \in 1..next[q] : files[f][n] = Stream(q)[k]
  BY <1>4
<1>5. next[q] \in Nat /\ next[q] <= Len(Stream(q)) /\ Len(Stream(q)) \in Nat
  BY StreamType DEF TypeOK
<1>6. k \in 1..Len(Stream(q)) /\ k <= next[q]
  BY <1>5
<1>7. Stream(q)[k] \in {q} \X Int
  BY <1>6, StreamType
<1>8. q = r
  BY <1>2, <1>10, <1>7
<1>9. k = n
  BY <1>1, <1>2, <1>10, <1>6, <1>8, WholeStream
<1> QED BY <1>1, <1>5, <1>6, <1>8, <1>9

\* Whatever fails and however runs overlap, a file that Verify accepts was
\* written to the end by one run whose snapshot it is whole, or is of a run
\* whose payload buffer did not take all records.
THEOREM VerifiedWhole == Spec => []VerifiedIsWhole
<1>1. ASSUME IInv, NEW f \in Present, Accepted(files[f])
      PROVE  \E r \in Runs : \/ files[f] = Whole(r) /\ next[r] = Len(Stream(r))
                             \/ files[f][1] = Header(r) /\ spool[r] # "whole"
  <2>1. PICK r \in Runs : files[f] = <<Header(r)>> \o Rows(r, Held(r)) \o Tail1(r)
    BY <1>1 DEF Accepted
  <2>2. CASE spool[r] = "whole"
    <3>1. files[f] = Stream(r) /\ files[f] = Whole(r)
      BY <2>1, <2>2, WholeStream
    <3> QED BY <1>1, <2>2, <3>1, WholeIsWritten DEF IInv
  <2>3. CASE spool[r] # "whole"
    <3> DEFINE B == {r} \X Int
               h == <<Header(r)>>
               m == Rows(r, Held(r))
               e == Tail1(r)
    <3>1. h \in Seq(B) /\ Len(h) >= 1 /\ h[1] = Header(r)
      BY DEF Header
    <3>2. m \in Seq(B)
      BY HeldType, RowsType
    <3>3. e \in Seq(B)
      BY TailType
    <3>4. files[f] = (h \o m) \o e
      BY <2>1
    <3> HIDE DEF h, m, e, B
    <3>5. h \o m \in Seq(B) /\ Len(h \o m) >= 1 /\ (h \o m)[1] = Header(r)
      BY <3>1, <3>2, HeadKept
    <3>6. ((h \o m) \o e)[1] = Header(r)
      BY <3>3, <3>5, HeadKept
    <3> QED BY <2>3, <3>4, <3>6
  <2> QED BY <2>2, <2>3
<1>2. IInv => VerifiedIsWhole
  BY <1>1 DEF VerifiedIsWhole
<1> QED BY <1>2, Invariance, PTL

\* The file of a run that wrote everything, alone and undisturbed, is whole.
LEMMA FileIsWhole ==
  ASSUME TypeOK, Fresh, Content, NEW r \in Runs, Sole(r), Unspoiled(r), next[r] = Len(Stream(r))
  PROVE  target[r] \in Present /\ files[target[r]] = Whole(r)
<1>1. target[r] \in Present
  BY DEF Sole, Fresh
<1>2. files[target[r]] \in Seq(Block) /\ Stream(r) \in Seq(Block)
  BY <1>1, StreamType DEF TypeOK
<1>3. /\ Len(files[target[r]]) = Len(Stream(r))
      /\ \A i \in 1..Len(Stream(r)) : files[target[r]][i] = Stream(r)[i]
  BY DEF Content
<1>4. files[target[r]] = Stream(r)
  BY <1>2, <1>3, SeqEqual
<1> QED BY <1>1, <1>4, WholeStream DEF Unspoiled

\* A run that reports success has its whole snapshot in the folder, unless its
\* header or its last records were lost unnoticed or another run took its name.
THEOREM SuccessStored == Spec => []SuccessIsStored
<1>1. ASSUME IInv, NEW r \in Runs, pc[r] = "ok", Sole(r), Unspoiled(r)
      PROVE  files[target[r]] = Whole(r)
  <2>1. next[r] = Len(Stream(r))
    BY <1>1 DEF IInv, Wrote
  <2> QED BY <1>1, <2>1, FileIsWhole DEF IInv
<1>2. IInv => SuccessIsStored
  BY <1>1 DEF SuccessIsStored
<1> QED BY <1>2, Invariance, PTL

\* Retention in turn: once a run has succeeded the folder never again lacks a
\* whole snapshot, whatever fails or dies afterwards.
THEOREM StillASnapshot == Spec => []AlwaysASnapshot
<1>1. ASSUME IInv, InTurn, \A r \in Runs : Unspoiled(r), \E r \in Runs : pc[r] = "ok"
      PROVE  \E f \in Present : \E r \in Runs : files[f] = Whole(r)
  <2>1. PICK q \in Runs : Settled(q)
    BY <1>1 DEF IInv, OneSettled
  <2>2. Sole(q) /\ Unspoiled(q) /\ next[q] = Len(Stream(q))
    BY <1>1, <2>1 DEF Settled, Sole, InTurn
  <2>3. target[q] \in Present /\ files[target[q]] = Whole(q)
    BY <1>1, <2>2, FileIsWhole DEF IInv
  <2> QED BY <2>3
<1>2. IInv => AlwaysASnapshot
  BY <1>1 DEF AlwaysASnapshot, InTurn
<1> QED BY <1>2, Invariance, PTL

=============================================================================
