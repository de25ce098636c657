--------------------------- MODULE SQLiteSnapshot ---------------------------
(***************************************************************************)
(* Snapshots in an SQLite file: the SQLiteWriter of internal/format/       *)
(* sqlite.go as internal/core/backup.go drives it, and the verdict of       *)
(* verifySQLite in internal/core/verify.go.                                *)
(*                                                                         *)
(* Several backups name the same file, one after the other or at the same  *)
(* time.  Each inserts one metadata row on its own, then its records in    *)
(* transactions of Batch rows.  SQLite admits one writing transaction at a *)
(* time and refuses a second writer at once, for no busy timeout is set.   *)
(* The journal is in the memory of the writer, and nothing is synced: when *)
(* its process dies while it changes pages nobody can put them back.  The  *)
(* death is that of a process, so a page is written whole or not at all;   *)
(* the machine stays up.                                                   *)
(***************************************************************************)
EXTENDS Integers, Sequences, FiniteSets

CONSTANTS
    Writers,  \* the backups that use the file
    Tree,     \* Tree[w]: the relative paths w found, in the order it writes them
    Root,     \* the relative path of the base folder
    Batch,    \* sqliteBatchCommitSize
    MayFail,  \* statements, commits and opening the file may fail
    MayDie,   \* a process may die: kill, second signal, drain deadline
    Free

\* Every sort order puts the record of the root first, and a walk meets no
\* directory twice.
ASSUME TreeAssumption ==
    \A w \in Writers :
        /\ Tree[w] \in Seq({Tree[w][i] : i \in DOMAIN Tree[w]})
        /\ Tree[w] # <<>> /\ Tree[w][1] = Root
        /\ \A i, j \in DOMAIN Tree[w] : Tree[w][i] = Tree[w][j] => i = j

ASSUME FileAssumption ==
    /\ Batch \in Nat \ {0}
    /\ MayFail \in BOOLEAN /\ MayDie \in BOOLEAN
    /\ Writers # {} /\ Free \notin Writers

VARIABLES
    pc,       \* "start", "header", "insert", "ok", "error" or "dead"
    written,  \* rowCount: records inserted so far
    inBatch,  \* the part of them in the open transaction
    meta,     \* the metadata rows in the file, by writer
    rows,     \* the directory rows: <<w, i>> stands for Tree[w][i]
    lock,     \* who holds the write lock of the file
    damaged   \* a process died while it changed pages, and left some of them old

file == <<meta, rows, damaged>>
vars == <<pc, written, inBatch, lock, file>>

----------------------------------------------------------------------------
All(w) == {<<w, i>> : i \in DOMAIN Tree[w]}
PathOf(row) == Tree[row[1]][row[2]]

\* The rows of the open transaction.
Pending(w) == {<<w, i>> : i \in (written[w] - inBatch[w] + 1)..written[w]}

\* Mutant: rel_path is not UNIQUE.
FitsAlways(w) == TRUE

\* The next record of w breaks no UNIQUE constraint.
Fits(w) == \A row \in rows : PathOf(row) # Tree[w][written[w] + 1]

\* The next record fills the batch.
Full(w) == inBatch[w] + 1 = Batch

Busy(w) == lock \notin {w, Free}

\* The next record of w is taken.  In a damaged file the index behind UNIQUE
\* may lack a path or have one too many.
CanInsert(w) == written[w] < Len(Tree[w]) /\ ~Busy(w) /\ (Fits(w) \/ damaged)

\* The next record of w, or the commit after it, is refused.
MayBeRefused(w) == Busy(w) \/ ~Fits(w) \/ MayFail \/ damaged

\* What w is about to commit when it is cut off: its open batch, and the record
\* it is inserting.
Doomed(w) == {<<w, i>> : i \in (written[w] - inBatch[w] + 1)..(written[w] + 1)} \cap All(w)

Init ==
    /\ pc = [w \in Writers |-> "start"]
    /\ written = [w \in Writers |-> 0] /\ inBatch = [w \in Writers |-> 0]
    /\ meta = <<>> /\ rows = {}
    /\ lock = Free
    /\ damaged = FALSE

----------------------------------------------------------------------------
\* The tables exist from now on; an existing file is taken as it is.
NewSQLiteWriter(w) ==
    /\ pc[w] = "start"
    /\ pc' = [pc EXCEPT ![w] = "header"]
    /\ UNCHANGED <<written, inBatch, lock, file>>

\* The metadata row is a transaction of its own; then the first batch begins.
WriteHeader(w) ==
    /\ pc[w] = "header"
    /\ lock = Free
    /\ meta' = Append(meta, w)
    /\ pc' = [pc EXCEPT ![w] = "insert"]
    /\ UNCHANGED <<written, inBatch, lock, rows, damaged>>

\* No transaction can be begun after the metadata row.
BeginFails(w) ==
    /\ pc[w] = "header"
    /\ lock = Free /\ MayFail
    /\ meta' = Append(meta, w)
    /\ pc' = [pc EXCEPT ![w] = "error"]
    /\ UNCHANGED <<written, inBatch, lock, rows, damaged>>

\* The file, its schema or the metadata row is refused.
OpenFails(w) ==
    /\ pc[w] \in {"start", "header"}
    /\ Busy(w) \/ MayFail \/ damaged
    /\ pc' = [pc EXCEPT ![w] = "error"]
    /\ UNCHANGED <<written, inBatch, lock, file>>

\* One more row; a full batch is committed and the next one begun.
WriteRecord(w) ==
    /\ pc[w] = "insert"
    /\ CanInsert(w)
    /\ written' = [written EXCEPT ![w] = @ + 1]
    /\ IF Full(w)
       THEN /\ rows' = rows \cup Pending(w) \cup {<<w, written[w] + 1>>}
            /\ inBatch' = [inBatch EXCEPT ![w] = 0]
            /\ lock' = Free
            /\ \/ UNCHANGED pc
               \/ MayFail /\ pc' = [pc EXCEPT ![w] = "error"]
       ELSE /\ inBatch' = [inBatch EXCEPT ![w] = @ + 1]
            /\ lock' = w
            /\ UNCHANGED <<rows, pc>>
    /\ UNCHANGED <<meta, damaged>>

\* Mutant: Backup returns without Rollback and Close.
WriteFailsOpen(w) ==
    /\ pc[w] = "insert"
    /\ written[w] < Len(Tree[w])
    /\ MayBeRefused(w)
    /\ pc' = [pc EXCEPT ![w] = "error"]
    /\ UNCHANGED <<written, inBatch, lock, file>>

\* The row or the commit is refused: Rollback and Close drop the open batch,
\* and only that.
WriteFails(w) ==
    /\ pc[w] = "insert"
    /\ written[w] < Len(Tree[w])
    /\ MayBeRefused(w)
    /\ inBatch' = [inBatch EXCEPT ![w] = 0]
    /\ lock' = IF lock = w THEN Free ELSE lock
    /\ pc' = [pc EXCEPT ![w] = "error"]
    /\ UNCHANGED <<written, file>>

\* Mutant: Close does not commit the last batch.
CloseUncommitted(w) ==
    /\ pc[w] = "insert"
    /\ written[w] = Len(Tree[w])
    /\ inBatch' = [inBatch EXCEPT ![w] = 0]
    /\ lock' = IF lock = w THEN Free ELSE lock
    /\ pc' = [pc EXCEPT ![w] = "ok"]
    /\ UNCHANGED <<written, file>>

\* The last batch is committed; an error of the index build is ignored.
Close(w) ==
    /\ pc[w] = "insert"
    /\ written[w] = Len(Tree[w])
    /\ rows' = rows \cup Pending(w)
    /\ inBatch' = [inBatch EXCEPT ![w] = 0]
    /\ lock' = IF lock = w THEN Free ELSE lock
    /\ pc' = [pc EXCEPT ![w] = "ok"]
    /\ UNCHANGED <<written, meta, damaged>>

CloseFails(w) ==
    /\ pc[w] = "insert"
    /\ written[w] = Len(Tree[w])
    /\ MayFail \/ damaged
    /\ inBatch' = [inBatch EXCEPT ![w] = 0]
    /\ lock' = IF lock = w THEN Free ELSE lock
    /\ pc' = [pc EXCEPT ![w] = "error"]
    /\ UNCHANGED <<written, file>>

\* Every page of the transaction w is in, or committing, is written already.
Arrives(w) ==
    \/ /\ pc[w] = "header" /\ lock = Free
       /\ meta' = Append(meta, w)
       /\ UNCHANGED <<rows, damaged>>
    \/ /\ pc[w] = "insert"
       /\ written[w] = Len(Tree[w]) \/ (CanInsert(w) /\ Full(w))
       /\ rows' = rows \cup Doomed(w)
       /\ UNCHANGED <<meta, damaged>>

\* Some pages are written and some are not: the tables of a new file, the page
\* of the metadata and the first one, or the rows and indices of a batch; a
\* large one spills from the cache before its commit.  Any row may be lost.
Tears(w) ==
    /\ ~Busy(w)
    /\ damaged' = TRUE
    /\ \/ pc[w] = "start" /\ meta = <<>> /\ UNCHANGED <<meta, rows>>
       \/ pc[w] = "header" /\ meta' \in {meta, Append(meta, w)} /\ UNCHANGED rows
       \/ pc[w] = "insert" /\ rows' \in SUBSET (rows \cup Doomed(w)) /\ UNCHANGED meta

\* The process dies.  Its transaction leaves no trace, all of it, or a torn file.
Die(w) ==
    /\ MayDie
    /\ pc[w] \in {"start", "header", "insert"}
    /\ pc' = [pc EXCEPT ![w] = "dead"]
    /\ inBatch' = [inBatch EXCEPT ![w] = 0]
    /\ lock' = IF lock = w THEN Free ELSE lock
    /\ UNCHANGED file \/ Arrives(w) \/ Tears(w)
    /\ UNCHANGED written

Over == (\A w \in Writers : pc[w] \in {"ok", "error", "dead"}) /\ UNCHANGED vars

Write(w) ==
    \/ NewSQLiteWriter(w) \/ WriteHeader(w) \/ BeginFails(w) \/ OpenFails(w)
    \/ WriteRecord(w) \/ WriteFails(w) \/ Close(w) \/ CloseFails(w) \/ Die(w)

Next == (\E w \in Writers : Write(w)) \/ Over

Spec == Init /\ [][Next]_vars

----------------------------------------------------------------------------
\* Mutant: the number of rows is not compared.
NoErrorUncounted == meta # <<>>

\* verifySQLite returns no error: SELECT ... LIMIT 1 finds a metadata row, and
\* the table has as many rows as it announces.  A failed integrity_check is no
\* error, it clears FramesValid; a count that differs is one, and leaves the
\* three flags set.
NoError == meta # <<>> /\ Cardinality(rows) = Len(Tree[meta[1]])

\* Type correctness; an open batch is never full.
TypeOK ==
    /\ pc \in [Writers -> {"start", "header", "insert", "ok", "error", "dead"}]
    /\ written \in [Writers -> Nat] /\ inBatch \in [Writers -> Nat]
    /\ \A w \in Writers : /\ written[w] <= Len(Tree[w])
                         /\ inBatch[w] <= written[w] /\ inBatch[w] < Batch
    /\ meta \in Seq(Writers)
    /\ rows \subseteq UNION {All(w) : w \in Writers}
    /\ lock \in Writers \cup {Free}
    /\ damaged \in BOOLEAN

\* The lock is held exactly while a live writer has uncommitted rows: a failed
\* backup never keeps the next one from the file.
LockHeldByWriter ==
    \A w \in Writers : (lock = w) <=> (pc[w] = "insert" /\ inBatch[w] > 0)

\* Unless a death tore the file, retries and overlapping backups never mix: the
\* rows are the first records of one backup, whichever of them failed or died
\* between two batches, although batches of several could interleave.
RowsOfOneRun ==
    ~damaged => \E w \in Writers : \E n \in 0..Len(Tree[w]) : rows = {<<w, i>> : i \in 1..n}

\* A backup that reported success has all its records in the file, and no later
\* or concurrent backup of the same name changes them, by success, failure or
\* death, but one that dies while it writes pages and tears the file.
SuccessIsStored == ~damaged => \A w \in Writers : pc[w] = "ok" => rows = All(w)

\* In a file that no death tore, and as long as one backup only has written its
\* metadata, the error of verifySQLite is exact: without one the file is the
\* complete snapshot of that backup.  In a torn one COUNT may be answered by an
\* index that disagrees with the table, and only integrity_check can tell.
LoneHeaderIsHonest ==
    ~damaged /\ NoError /\ Len(meta) = 1 => rows = All(meta[1])

=============================================================================
