------------------------------- MODULE Backup -------------------------------
(***************************************************************************)
(* Snapshot files: how internal/core/backup.go writes a TSV or NDJSON      *)
(* snapshot to a local file, the pruning that internal/core/retention.go   *)
(* does in the same folder afterwards, and what internal/core/verify.go    *)
(* accepts.                                                                *)
(*                                                                         *)
(* Runs write into one folder, one after the other or at the same time,    *)
(* under names of their own or the same name.  A file is a sequence of     *)
(* blocks: the header, blocks of records, and the end of the compressed    *)
(* stream if there is one.  newer orders the files by modification time;   *)
(* times are fine enough to be distinct.                                   *)
(***************************************************************************)
EXTENDS Integers, Sequences, FiniteSets

CONSTANTS
    Runs, Names,
    Settings,     \* who writes to which name, and whether runs may overlap
    Size,         \* Size[r]: the blocks of records r has to write
    Zipped,       \* the runs that compress
    Keep,         \* RetentionCount; with as many as Names nothing is pruned for it
    Lossy,        \* the runs whose payload buffer may fail: its temporary file, that is
    DiskMayFill,  \* writes to the snapshot may fail
    MayDie,       \* a process may die
    MayExpire     \* RetentionDays > 0: files may grow older than that

ASSUME BackupAssumption ==
    /\ Size \in [Runs -> Nat \ {0}] /\ Zipped \subseteq Runs /\ Lossy \subseteq Runs
    /\ Keep \in Nat \ {0}
    /\ \A set \in Settings : set.target \in [Runs -> Names] /\ set.overlap \in BOOLEAN
    /\ {DiskMayFill, MayDie, MayExpire} \subseteq BOOLEAN

VARIABLES
    target,   \* target[r]: the name r writes to
    overlap,  \* runs may be active at the same time
    pc,       \* "start", "open", "write", "close", "list", "purge", "ok", "error", "dead"
    spool,    \* the payload buffer: "whole", "short" of its last block, or "torn"
              \* with a part of it that the hash does not cover
    next,     \* blocks of the stream of r written or lost
    offset,   \* blocks r has written to its file
    writeErr, \* writing failed
    linked,   \* the file r writes to still has its name
    files,    \* the snapshot files in the folder
    newer,    \* newer[f]: those modified after f
    old,      \* those older than RetentionDays
    victims   \* what the listing of r found expired

setting == <<target, overlap>>
writing == <<spool, next, offset, writeErr, linked>>
folder == <<files, newer, old>>
vars == <<setting, pc, writing, folder, victims>>

----------------------------------------------------------------------------
\* A block names its run and what it is.
Header(r) == <<r, 0>>
Torn(r) == <<r, -1>>
End(r) == <<r, -2>>
Hole == <<>>
Block == {Hole} \cup (Runs \X Int)

Rows(r, n) == [i \in 1..n |-> <<r, i>>]
Tail1(r) == IF r \in Zipped THEN <<End(r)>> ELSE <<>>

\* What the hash of the payload covers.
Held(r) == IF spool[r] = "whole" THEN Size[r] ELSE Size[r] - 1

\* The complete snapshot of r, and what r is about to write.
Whole(r) == <<Header(r)>> \o Rows(r, Size[r]) \o Tail1(r)
Stream(r) ==
    <<Header(r)>> \o Rows(r, Held(r)) \o (IF spool[r] = "torn" THEN <<Torn(r)>> ELSE <<>>) \o Tail1(r)

Active == {r \in Runs : pc[r] \notin {"start", "ok", "error", "dead"}}
Present == DOMAIN files

\* s with block b at position i.
Put(s, i, b) ==
    [k \in 1..(IF i > Len(s) THEN i ELSE Len(s)) |->
        IF k = i THEN b ELSE IF k <= Len(s) THEN s[k] ELSE Hole]

\* f has content s from now on and is the newest.
Touch(f, s) ==
    /\ files' = [g \in Present \cup {f} |-> IF g = f THEN s ELSE files[g]]
    /\ newer' = [g \in Present \cup {f} |-> IF g = f THEN {} ELSE newer[g] \cup {f}]
    /\ old' = old \ {f}

Init ==
    /\ \E set \in Settings : target = set.target /\ overlap = set.overlap
    /\ pc = [r \in Runs |-> "start"]
    /\ spool = [r \in Runs |-> "whole"]
    /\ next = [r \in Runs |-> 0] /\ offset = [r \in Runs |-> 0]
    /\ writeErr = [r \in Runs |-> FALSE] /\ linked = [r \in Runs |-> FALSE]
    /\ files = <<>> /\ newer = <<>> /\ old = {}
    /\ victims = [r \in Runs |-> {}]

----------------------------------------------------------------------------
\* The records are serialized into the payload buffer and hashed.  Flush errors
\* are ignored: the last block may be missing from both, or be in the buffer in
\* part and not in the hash.
Spool(r) ==
    /\ pc[r] = "start"
    /\ overlap \/ Active = {}
    /\ pc' = [pc EXCEPT ![r] = "open"]
    /\ \E s \in IF r \in Lossy THEN {"whole", "short", "torn"} ELSE {"whole"} :
           spool' = [spool EXCEPT ![r] = s]
    /\ UNCHANGED <<setting, next, offset, writeErr, linked, folder, victims>>

\* The scan, an earlier write to the buffer, or the opening of the file fails.
OpenFails(r) ==
    /\ pc[r] = "open"
    /\ DiskMayFill \/ r \in Lossy
    /\ pc' = [pc EXCEPT ![r] = "error"]
    /\ UNCHANGED <<setting, writing, folder, victims>>

\* O_CREATE and O_TRUNC: whatever the name held is gone.
Open(r) ==
    /\ pc[r] = "open"
    /\ Touch(target[r], <<>>)
    /\ linked' = [linked EXCEPT ![r] = TRUE]
    /\ pc' = [pc EXCEPT ![r] = "write"]
    /\ UNCHANGED <<setting, spool, next, offset, writeErr, victims>>

\* Header, records and end of stream go out in order, at the offset of r.
Write(r) ==
    /\ pc[r] = "write"
    /\ next[r] < Len(Stream(r))
    /\ next' = [next EXCEPT ![r] = @ + 1]
    /\ offset' = [offset EXCEPT ![r] = @ + 1]
    /\ IF linked[r]
       THEN Touch(target[r], Put(files[target[r]], offset[r] + 1, Stream(r)[next[r] + 1]))
       ELSE UNCHANGED folder
    /\ UNCHANGED <<setting, pc, spool, writeErr, linked, victims>>

\* Without compression a failing Flush of the header goes unnoticed.
HeaderLost(r) ==
    /\ pc[r] = "write" /\ next[r] = 0
    /\ DiskMayFill /\ r \notin Zipped
    /\ next' = [next EXCEPT ![r] = 1]
    /\ UNCHANGED <<setting, pc, spool, offset, writeErr, linked, folder, victims>>

\* Copying the payload or closing the compressor fails; the rest is not written.
WriteFails(r) ==
    /\ pc[r] = "write" /\ next[r] < Len(Stream(r))
    /\ DiskMayFill
    /\ next[r] > 0 \/ r \in Zipped
    /\ writeErr' = [writeErr EXCEPT ![r] = TRUE]
    /\ pc' = [pc EXCEPT ![r] = "close"]
    /\ UNCHANGED <<setting, spool, next, offset, linked, folder, victims>>

WriteEnds(r) ==
    /\ pc[r] = "write" /\ next[r] = Len(Stream(r))
    /\ pc' = [pc EXCEPT ![r] = "close"]
    /\ UNCHANGED <<setting, writing, folder, victims>>

\* Mutant: the error of the copy is lost.
CloseUnchecked(r) ==
    /\ pc[r] = "close"
    /\ pc' = [pc EXCEPT ![r] = "list"]
    /\ UNCHANGED <<setting, writing, folder, victims>>

\* The file may turn out unwritten only now.
Close(r) ==
    /\ pc[r] = "close"
    /\ \E late \in {FALSE, DiskMayFill} :
           pc' = [pc EXCEPT ![r] = IF writeErr[r] \/ late THEN "error" ELSE "list"]
    /\ UNCHANGED <<setting, writing, folder, victims>>

----------------------------------------------------------------------------

\* Mutant: the oldest files are kept.
ExpiredNewest ==
    {f \in Present : f \in old \/ Cardinality({g \in Present : f \in newer[g]}) >= Keep}

\* Rank above RetentionCount, or older than RetentionDays.
Expired == {f \in Present : f \in old \/ Cardinality(newer[f]) >= Keep}

List(r) ==
    /\ pc[r] = "list"
    /\ victims' = [victims EXCEPT ![r] = Expired]
    /\ pc' = [pc EXCEPT ![r] = "purge"]
    /\ UNCHANGED <<setting, writing, folder>>

\* os.Remove of one of them; a missing file is no error that matters.
Remove(r) ==
    /\ pc[r] = "purge"
    /\ \E f \in victims[r] :
        /\ victims' = [victims EXCEPT ![r] = @ \ {f}]
        /\ files' = [g \in Present \ {f} |-> files[g]]
        /\ newer' = [g \in Present \ {f} |-> newer[g] \ {f}]
        /\ old' = old \ {f}
        /\ linked' = [q \in Runs |-> linked[q] /\ target[q] # f]
    /\ UNCHANGED <<setting, pc, spool, next, offset, writeErr>>

Succeed(r) ==
    /\ pc[r] = "purge" /\ victims[r] = {}
    /\ pc' = [pc EXCEPT ![r] = "ok"]
    /\ UNCHANGED <<setting, writing, folder, victims>>

----------------------------------------------------------------------------
\* Days pass without a backup.
Expire ==
    /\ MayExpire /\ Active = {}
    /\ \E g \in Present : old' = {f \in Present : f = g \/ g \in newer[f]}
    /\ old \subseteq old'
    /\ UNCHANGED <<setting, pc, writing, files, newer, victims>>

Die(r) ==
    /\ MayDie /\ r \in Active
    /\ pc' = [pc EXCEPT ![r] = "dead"]
    /\ UNCHANGED <<setting, writing, folder, victims>>

Over == (\A r \in Runs : pc[r] \in {"ok", "error", "dead"}) /\ UNCHANGED vars

Run(r) ==
    \/ Spool(r) \/ OpenFails(r) \/ Open(r) \/ Write(r) \/ HeaderLost(r) \/ WriteFails(r)
    \/ WriteEnds(r) \/ Close(r) \/ List(r) \/ Remove(r) \/ Succeed(r) \/ Die(r)

Next == (\E r \in Runs : Run(r)) \/ Expire \/ Over

Spec == Init /\ [][Next]_vars

----------------------------------------------------------------------------
\* Mutant: Verify does not compare the hash of the payload.
AcceptedUnhashed(s) ==
    \E r \in Runs : s # <<>> /\ Head(s) = Header(r) /\ (r \in Zipped => s[Len(s)] = End(r))

\* Verify: a header, a payload with the hash it names, a finished stream.
Accepted(s) == \E r \in Runs : s = <<Header(r)>> \o Rows(r, Held(r)) \o Tail1(r)

TypeOK ==
    /\ target \in [Runs -> Names] /\ overlap \in BOOLEAN
    /\ pc \in [Runs -> {"start", "open", "write", "close", "list", "purge",
                        "ok", "error", "dead"}]
    /\ spool \in [Runs -> {"whole", "short", "torn"}]
    /\ writeErr \in [Runs -> BOOLEAN] /\ linked \in [Runs -> BOOLEAN]
    /\ next \in [Runs -> Nat] /\ offset \in [Runs -> Nat]
    /\ \A r \in Runs : next[r] <= Len(Stream(r)) /\ offset[r] <= next[r]
    /\ Present \subseteq Names /\ old \subseteq Present
    /\ files \in [Present -> Seq(Block)] /\ newer \in [Present -> SUBSET Present]
    /\ victims \in [Runs -> SUBSET Names]

\* Whatever fails, however runs overlap and even when they write to the same
\* name, a file that Verify accepts is the whole snapshot of one run that wrote
\* it to the end: one that failed or died on the way leaves none.  Except for a
\* run whose buffer did not take all records.
VerifiedIsWhole ==
    \A f \in Present : Accepted(files[f]) =>
        \E r \in Runs : \/ files[f] = Whole(r) /\ next[r] = Len(Stream(r))
                        \/ files[f][1] = Header(r) /\ spool[r] # "whole"

\* No other run has opened the name of r, and it was not purged.
Sole(r) ==
    linked[r] /\ \A q \in Runs \ {r} : target[q] = target[r] => pc[q] \in {"start", "open"}

\* No error of r was ignored.
Unspoiled(r) == spool[r] = "whole" /\ offset[r] = next[r]

\* A run whose buffer took all records and whose header was written has its
\* whole snapshot in the folder when it reports success.
SuccessIsStored ==
    \A r \in Runs :
        pc[r] = "ok" /\ Sole(r) /\ Unspoiled(r) => files[target[r]] = Whole(r)

\* One after the other and under names of their own, failing and dying runs
\* never cost the folder its last whole snapshot: partial files count as the
\* newest, yet pruning follows only a success.
AlwaysASnapshot ==
    (/\ ~overlap
     /\ \A q, r \in Runs : target[q] = target[r] => q = r
     /\ \A r \in Runs : Unspoiled(r)
     /\ \E r \in Runs : pc[r] = "ok")
        => \E f \in Present : \E r \in Runs : files[f] = Whole(r)

=============================================================================
