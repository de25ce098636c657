------------------------------ MODULE Evacuate ------------------------------
(***************************************************************************)
(* EvacuateUntracked of internal/core/mirror.go: each untracked item of a  *)
(* mirrored folder is packed into a tar stream, compressed into an archive *)
(* file, and removed from the folder at once, while what was packed may    *)
(* still be in the buffers of the tar and zstd writers.                    *)
(*                                                                         *)
(* Several restores may evacuate into the same archive folder.  The name   *)
(* of an archive is the second in which it was opened.  An item is a       *)
(* directory with files (one ReadDir lists it), or a single file.          *)
(***************************************************************************)
EXTENDS Integers, FiniteSets

CONSTANTS
    Jobs,        \* concurrent calls of EvacuateUntracked
    Batch,       \* Batch[j]: the untracked items found for j
    Items,
    Content,     \* Content[i]: the files item i may come to hold
    Late,        \* the part of them that others put there meanwhile
    Volatile,    \* items that others may remove or take files from
    Unreadable,  \* files whose opening or reading may fail
    Stubborn,    \* files and items that cannot be removed
    LastSecond,  \* bound on the clock
    DiskMayFill, \* writing to the archive may fail
    MayCancel,   \* the context may be cancelled
    MayDie,      \* the process may exit: a second signal, or the drain deadline
    NoItem

AllFiles == UNION {Content[i] : i \in Items}

ASSUME EvacuateAssumption ==
    /\ Batch \in [Jobs -> SUBSET Items]
    /\ \A j, k \in Jobs : j # k => Batch[j] \cap Batch[k] = {}
    /\ \A i, h \in Items : i # h => Content[i] \cap Content[h] = {}
    /\ LastSecond \in Nat /\ Late \subseteq AllFiles
    /\ NoItem \notin Items

VARIABLES
    pc,        \* "start", "next", "pack", "fail", "nil", "err" or "dead"
    todo, cur, \* items still to evacuate, and the one at hand
    seen,      \* files of the item the walk listed
    packed,    \* files of the item written to the tar stream
    pipe,      \* files in the tar and zstd writers of a job
    broken,    \* the archive file of a job has failed
    name,      \* the second a job opened its archive in
    disk,      \* disk[s]: files in the archive of second s
    there,     \* items still in the folder
    live,      \* files still in the folder
    taken,     \* files others took from it
    clock, ctxDone

work == <<todo, cur, seen, packed>>
folder == <<there, live, taken>>
vars == <<pc, work, pipe, broken, name, disk, folder, clock, ctxDone>>

----------------------------------------------------------------------------
Init ==
    /\ pc = [j \in Jobs |-> "start"]
    /\ todo = Batch
    /\ cur = [j \in Jobs |-> NoItem]
    /\ seen = [j \in Jobs |-> {}] /\ packed = [j \in Jobs |-> {}]
    /\ pipe = [j \in Jobs |-> {}]
    /\ broken = [j \in Jobs |-> FALSE]
    /\ name = [j \in Jobs |-> 0]
    /\ disk = [s \in 0..LastSecond |-> {}]
    /\ there = Items /\ live = AllFiles \ Late /\ taken = {}
    /\ clock = 0 /\ ctxDone = FALSE

Ended(j) == pc[j] \in {"nil", "err", "dead"}

\* O_CREATE | O_TRUNC: an archive of the same second is emptied.
Open(j) ==
    /\ pc[j] = "start"
    /\ name' = [name EXCEPT ![j] = clock]
    /\ disk' = [disk EXCEPT ![clock] = {}]
    /\ pc' = [pc EXCEPT ![j] = "next"]
    /\ UNCHANGED <<work, pipe, broken, folder, clock, ctxDone>>

OpenFails(j) ==
    /\ pc[j] = "start"
    /\ DiskMayFill
    /\ pc' = [pc EXCEPT ![j] = "err"]
    /\ UNCHANGED <<work, pipe, broken, name, disk, folder, clock, ctxDone>>

\* Mutant: an item is tried until it can be removed.
PickAgain(j) ==
    /\ pc[j] = "next" /\ ~ctxDone
    /\ \E i \in todo[j] :
        IF i \in there
        THEN /\ cur' = [cur EXCEPT ![j] = i]
             /\ seen' = [seen EXCEPT ![j] = Content[i] \cap live]
             /\ packed' = [packed EXCEPT ![j] = {}]
             /\ pc' = [pc EXCEPT ![j] = "pack"]
             /\ UNCHANGED todo
        ELSE /\ todo' = [todo EXCEPT ![j] = @ \ {i}]
             /\ UNCHANGED <<cur, seen, packed, pc>>
    /\ UNCHANGED <<pipe, broken, name, disk, folder, clock, ctxDone>>

\* Lstat finds the item; a failure passes it over.
Pick(j) ==
    /\ pc[j] = "next" /\ ~ctxDone
    /\ \E i \in todo[j] :
        /\ todo' = [todo EXCEPT ![j] = @ \ {i}]
        /\ IF i \in there
           THEN /\ cur' = [cur EXCEPT ![j] = i]
                /\ seen' = [seen EXCEPT ![j] = Content[i] \cap live]
                /\ packed' = [packed EXCEPT ![j] = {}]
                /\ pc' = [pc EXCEPT ![j] = "pack"]
           ELSE UNCHANGED <<cur, seen, packed, pc>>
    /\ UNCHANGED <<pipe, broken, name, disk, folder, clock, ctxDone>>

\* addFileToTar: one header and the contents of one file.
Pack(j) ==
    /\ pc[j] = "pack"
    /\ \E f \in (seen[j] \cap live) \ packed[j] :
        /\ packed' = [packed EXCEPT ![j] = @ \cup {f}]
        /\ pipe' = [pipe EXCEPT ![j] = @ \cup {f}]
    /\ UNCHANGED <<pc, todo, cur, seen, broken, name, disk, folder, clock, ctxDone>>

\* A file cannot be opened, has gone, or the writer reports an earlier error:
\* the item stays where it is and the evacuation gives up.
PackFails(j) ==
    /\ pc[j] = "pack"
    /\ \E f \in seen[j] \ packed[j] : broken[j] \/ f \in Unreadable \/ f \notin live
    /\ pc' = [pc EXCEPT ![j] = "fail"]
    /\ UNCHANGED <<work, pipe, broken, name, disk, folder, clock, ctxDone>>

\* Mutant: os.RemoveAll runs before the last file is packed.
RemoveEarly(j) ==
    /\ pc[j] = "pack"
    /\ live' = live \ (Content[cur[j]] \ Stubborn)
    /\ there' = there \ {cur[j]}
    /\ pc' = [pc EXCEPT ![j] = "next"]
    /\ UNCHANGED <<work, pipe, broken, name, disk, taken, clock, ctxDone>>

\* os.RemoveAll, as soon as the item is packed; what it cannot remove is only
\* logged.
Remove(j) ==
    /\ pc[j] = "pack"
    /\ packed[j] = seen[j]
    /\ live' = live \ (Content[cur[j]] \ Stubborn)
    /\ there' = IF Content[cur[j]] \cap live \cap Stubborn = {} /\ cur[j] \notin Stubborn
                THEN there \ {cur[j]} ELSE there
    /\ pc' = [pc EXCEPT ![j] = "next"]
    /\ UNCHANGED <<work, pipe, broken, name, disk, taken, clock, ctxDone>>

\* The compressor writes finished blocks whenever it has some.
Spill(j) ==
    /\ pc[j] \in {"next", "pack"}
    /\ ~broken[j]
    /\ \/ \E f \in pipe[j] :
            /\ pipe' = [pipe EXCEPT ![j] = @ \ {f}]
            /\ disk' = [disk EXCEPT ![name[j]] = @ \cup {f}]
            /\ UNCHANGED broken
       \/ /\ DiskMayFill /\ pipe[j] # {}
          /\ broken' = [broken EXCEPT ![j] = TRUE]
          /\ UNCHANGED <<pipe, disk>>
    /\ UNCHANGED <<pc, work, name, folder, clock, ctxDone>>

\* The archive takes everything that is still in the writers.
Drain(j) ==
    /\ ~broken[j]
    /\ disk' = [disk EXCEPT ![name[j]] = @ \cup pipe[j]]
    /\ pipe' = [pipe EXCEPT ![j] = {}]

\* Mutant: the writers are left to the deferred calls and their errors lost.
FinishUnchecked(j) ==
    /\ pc[j] = "next"
    /\ todo[j] = {}
    /\ \/ Drain(j) /\ UNCHANGED broken
       \/ DiskMayFill /\ broken' = [broken EXCEPT ![j] = TRUE] /\ UNCHANGED <<disk, pipe>>
    /\ pc' = [pc EXCEPT ![j] = "nil"]
    /\ UNCHANGED <<work, name, folder, clock, ctxDone>>

\* Both writers are closed and the archive is complete.
Finish(j) ==
    /\ pc[j] = "next"
    /\ todo[j] = {}
    /\ Drain(j)
    /\ pc' = [pc EXCEPT ![j] = "nil"]
    /\ UNCHANGED <<work, broken, name, folder, clock, ctxDone>>

FinishFails(j) ==
    /\ pc[j] = "next"
    /\ todo[j] = {}
    /\ broken[j] \/ (DiskMayFill /\ pipe[j] # {})
    /\ broken' = [broken EXCEPT ![j] = TRUE]
    /\ pc' = [pc EXCEPT ![j] = "err"]
    /\ UNCHANGED <<work, pipe, name, disk, folder, clock, ctxDone>>

\* Between two items the context is looked at.
Stop(j) ==
    /\ pc[j] = "next" /\ todo[j] # {}
    /\ ctxDone
    /\ pc' = [pc EXCEPT ![j] = "fail"]
    /\ UNCHANGED <<work, pipe, broken, name, disk, folder, clock, ctxDone>>

\* Mutant: an early return does not close the writers.
BailUnclosed(j) ==
    /\ pc[j] = "fail"
    /\ pc' = [pc EXCEPT ![j] = "err"]
    /\ UNCHANGED <<work, pipe, broken, name, disk, folder, clock, ctxDone>>

\* An early return runs the deferred closes; their errors are dropped.
Bail(j) ==
    /\ pc[j] = "fail"
    /\ \/ Drain(j) /\ UNCHANGED broken
       \/ /\ broken[j] \/ DiskMayFill
          /\ broken' = [broken EXCEPT ![j] = TRUE]
          /\ UNCHANGED <<disk, pipe>>
    /\ pc' = [pc EXCEPT ![j] = "err"]
    /\ UNCHANGED <<work, name, folder, clock, ctxDone>>

JobStep(j) ==
    \/ Open(j) \/ OpenFails(j) \/ Pick(j) \/ Pack(j) \/ PackFails(j) \/ Remove(j)
    \/ Spill(j) \/ Finish(j) \/ FinishFails(j) \/ Stop(j) \/ Bail(j)

----------------------------------------------------------------------------
(* The environment.                                                        *)

\* A partner delivers a file into an item that is still in the folder.
Arrive ==
    /\ \E i \in there : \E f \in (Content[i] \cap Late) \ live :
        /\ f \notin taken
        /\ \A j \in Jobs : f \notin pipe[j]
        /\ \A s \in 0..LastSecond : f \notin disk[s]
        /\ live' = live \cup {f}
    /\ UNCHANGED <<pc, work, pipe, broken, name, disk, there, taken, clock, ctxDone>>

\* A partner picks up a file, or removes an item and all it holds.
Depart ==
    /\ \E i \in there \cap Volatile :
        \E S \in {Content[i] \cap live} \cup {{f} : f \in Content[i] \cap live} :
            /\ live' = live \ S
            /\ taken' = taken \cup S
            /\ there' \in IF Content[i] \cap live = S THEN {there, there \ {i}} ELSE {there}
    /\ UNCHANGED <<pc, work, pipe, broken, name, disk, clock, ctxDone>>

Tick ==
    /\ clock < LastSecond
    /\ clock' = clock + 1
    /\ UNCHANGED <<pc, work, pipe, broken, name, disk, folder, ctxDone>>

Cancel ==
    /\ MayCancel /\ ~ctxDone
    /\ ctxDone' = TRUE
    /\ UNCHANGED <<pc, work, pipe, broken, name, disk, folder, clock>>

\* os.Exit runs no deferred call: what the writers hold is lost.
Die ==
    /\ MayDie
    /\ \E j \in Jobs : ~Ended(j)
    /\ pc' = [j \in Jobs |-> IF Ended(j) THEN pc[j] ELSE "dead"]
    /\ UNCHANGED <<work, pipe, broken, name, disk, folder, clock, ctxDone>>

Over == (\A j \in Jobs : Ended(j)) /\ UNCHANGED vars

Next ==
    \/ \E j \in Jobs : JobStep(j)
    \/ Arrive \/ Depart \/ Tick \/ Cancel \/ Die \/ Over

Spec == Init /\ [][Next]_vars

\* Each call runs on; the disk answers.
FairSpec == Spec /\ \A j \in Jobs : WF_vars(JobStep(j))

----------------------------------------------------------------------------
TypeOK ==
    /\ pc \in [Jobs -> {"start", "next", "pack", "fail", "nil", "err", "dead"}]
    /\ todo \in [Jobs -> SUBSET Items] /\ cur \in [Jobs -> Items \cup {NoItem}]
    /\ \A j \in Jobs : pc[j] = "pack" => cur[j] \in Items
    /\ seen \in [Jobs -> SUBSET AllFiles] /\ packed \in [Jobs -> SUBSET AllFiles]
    /\ pipe \in [Jobs -> SUBSET AllFiles] /\ broken \in [Jobs -> BOOLEAN]
    /\ name \in [Jobs -> 0..LastSecond] /\ disk \in [0..LastSecond -> SUBSET AllFiles]
    /\ there \subseteq Items /\ live \subseteq AllFiles /\ taken \subseteq AllFiles
    /\ clock \in 0..LastSecond /\ ctxDone \in BOOLEAN

Archived(j) == disk[name[j]]
Purged == (AllFiles \ Late) \ (live \cup taken)

\* No other evacuation opened its archive in the second of j's.
OwnName(j) == \A k \in Jobs \ {j} : pc[k] = "start" \/ name[k] # name[j]

\* Whatever fails, and even if the process dies, no file is removed that was
\* not written to the archive stream before.
PackedBeforePurged ==
    \A j \in Jobs : OwnName(j) =>
        \A i \in Batch[j] : Content[i] \cap Purged \subseteq pipe[j] \cup Archived(j)

\* When an evacuation that shares its archive with no other succeeds, the
\* archive holds every file it removed.
NilMeansArchived ==
    \A j \in Jobs : pc[j] = "nil" /\ OwnName(j) =>
        \A i \in Batch[j] : Content[i] \cap Purged \subseteq Archived(j)

\* An unreadable file, one that vanishes, a cancellation or an item that cannot
\* be removed cost nothing: only an archive that fails, a process that dies or
\* an archive of the same second does.
OnlyDisasterLoses ==
    \A j \in Jobs : pc[j] \in {"nil", "err"} /\ ~broken[j] /\ OwnName(j) =>
        \A i \in Batch[j] : Content[i] \cap Purged \subseteq Archived(j)

\* Each evacuation ends.
EvacuationEnds == \A j \in Jobs : <>Ended(j)
=============================================================================
