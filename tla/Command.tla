------------------------------- MODULE Command -------------------------------
(***************************************************************************)
(* The command line, cmd/dtreesync/main.go, with the signal trap of        *)
(* internal/core/signal.go and the git storage of internal/storage/git.go. *)
(*                                                                         *)
(* Several processes run commands on one host and against one remote       *)
(* repository.  A backup writes a snapshot file, commits it if --git-repo  *)
(* is given, and exits; restore, diff and verify may take their snapshot   *)
(* from the repository.  Without --tree-file every git backup of the host  *)
(* uses the same temporary file.                                           *)
(*                                                                         *)
(* A process commits at most once, so commits are named by their process.  *)
(* A snapshot is <<p, "whole">>, the snapshot p made, <<p, "short">>, one  *)
(* that p closed without noticing that the disk had lost some of it, or    *)
(* <<p, "part">>, what is there before p has written it all.               *)
(***************************************************************************)
EXTENDS Integers, FiniteSets, Sequences

CONSTANTS
    Procs,
    Cases,        \* what the processes were asked to do, and the remote they find
    Files,        \* names of snapshot files
    Temp,         \* <os.TempDir()>/dtreesync_git_tree.ndjson.zst
    Cloud,        \* the names that are URLs of cloud storage
    Branches, Target, Fallback,   \* --git-branch; the branch of a fresh repository
    Tags,
    None,         \* no file, no branch, no tag
    Seed,         \* the commit the repository was set up with
    Flaky,        \* network calls may fail
    DiskMayFail,  \* scans, writes and reads may fail
    Signalled,    \* the processes that may receive signals,
    MaxSignals    \* at most so many

Verbs == {"backup", "restore", "diff", "verify", "status"}
Commands == [verb : Verbs, dry : BOOLEAN, log : BOOLEAN, git : BOOLEAN,
             file : Files, tag : Tags \cup {None}]
Commits == Procs \cup {Seed}
Snapshots == (Procs \X {"whole", "short", "part"}) \cup {<<>>}

ASSUME CommandAssumption ==
    /\ Temp \in Files /\ Cloud \subseteq Files \ {Temp}
    /\ {Target, Fallback} \subseteq Branches
    /\ Seed \notin Procs /\ None \notin Commits \cup Tags \cup Snapshots
    /\ Flaky \in BOOLEAN /\ DiskMayFail \in BOOLEAN
    /\ Signalled \subseteq Procs /\ MaxSignals \in Nat
    /\ \A case \in Cases : case.cmd \in [Procs -> Commands]
                        /\ case.heads \in [Branches -> {Seed, None}]
                        /\ case.default \in Branches

VARIABLES
    cmd,      \* the command of each process
    default,  \* the branch HEAD of the remote names
    pc,       \* the next step of each process
    exit,     \* its exit code, or -1
    signals,  \* signals it has received
    log,      \* its audit log: "none", "open", "closed"
    disk,     \* the snapshot files; None where there is none
    held,     \* the process's output file still has its name
    data,     \* the snapshot it read; <<>> if none
    local,    \* the in-memory clone: branch, base commit, and the tags that came along
    commit,   \* the commit of each process: the commits it builds on, and its files
    heads,    \* the branches of the remote
    tags,     \* its tags
    warned,   \* a warning went to standard error
    pushed    \* the result names the commit

process == <<pc, exit, signals, log>>
files == <<disk, held>>
remote == <<heads, tags>>
clone == <<local, commit>>
answer == <<warned, pushed>>
vars == <<cmd, default, process, files, data, clone, remote, answer>>

----------------------------------------------------------------------------
Running(p) == exit[p] = -1
Cancelled(p) == signals[p] > 0
Verb(p) == cmd[p].verb
At(p, step) == Running(p) /\ pc[p] = step
Step(p, step) == pc' = [pc EXCEPT ![p] = step] /\ UNCHANGED <<exit, signals, log>>

\* No deferred call runs: the process is gone.
Leave(p, code) ==
    /\ exit' = [exit EXCEPT ![p] = code]
    /\ UNCHANGED <<pc, signals, log>>

\* The library call returned, and its deferred cleanup closed the audit log.
LeaveClosed(p, code) ==
    /\ exit' = [exit EXCEPT ![p] = code]
    /\ log' = [log EXCEPT ![p] = IF @ = "open" THEN "closed" ELSE @]
    /\ UNCHANGED <<pc, signals>>

Init ==
    /\ \E case \in Cases :
         cmd = case.cmd /\ heads = case.heads /\ default = case.default
    /\ pc = [p \in Procs |-> "start"] /\ exit = [p \in Procs |-> -1]
    /\ signals = [p \in Procs |-> 0] /\ log = [p \in Procs |-> "none"]
    /\ disk = [f \in Files |-> None] /\ held = [p \in Procs |-> FALSE]
    /\ data = [p \in Procs |-> <<>>]
    /\ local = [p \in Procs |-> [branch |-> None, base |-> None, tags |-> {}]]
    /\ commit = [c \in Commits |-> [past |-> {}, files |-> [f \in Files |-> <<>>]]]
    /\ tags = [t \in Tags |-> None]
    /\ warned = [p \in Procs |-> FALSE] /\ pushed = [p \in Procs |-> FALSE]

\* restore --dry-run prints one line; it calls nothing and opens no log.
Simulates(p) == Verb(p) = "restore" /\ cmd[p].dry

\* Arguments are parsed; a git snapshot is read before the log is opened.
Begin(p) ==
    /\ At(p, "start")
    /\ LET fetch == cmd[p].git /\ Verb(p) \in {"restore", "diff", "verify"}
       IN /\ pc' = [pc EXCEPT ![p] = IF fetch THEN "fetch" ELSE "work"]
          /\ log' = [log EXCEPT ![p] =
                        IF cmd[p].log /\ ~fetch /\ ~Simulates(p) THEN "open" ELSE @]
    /\ UNCHANGED <<cmd, default, exit, signals, files, data, clone, remote, answer>>

----------------------------------------------------------------------------
\* backup

\* A dry run scans and exits; the deferred Close of its log never runs.
DryRun(p) ==
    /\ At(p, "work") /\ Verb(p) = "backup" /\ cmd[p].dry
    /\ \E code \in {0} \cup (IF Cancelled(p) \/ DiskMayFail THEN {1} ELSE {}) : Leave(p, code)
    /\ UNCHANGED <<cmd, default, files, data, clone, remote, answer>>

\* Mutant: the snapshot is read back while the compressor still holds its tail.
CreateOnly(p) ==
    /\ At(p, "work") /\ Verb(p) = "backup" /\ ~cmd[p].dry
    /\ disk' = [disk EXCEPT ![cmd[p].file] = <<p, "part">>]
    /\ held' = [held EXCEPT ![p] = TRUE]
    /\ Step(p, "read")
    /\ UNCHANGED <<cmd, default, data, clone, remote, answer>>

\* The scan is over and the file is created or truncated.
Create(p) ==
    /\ At(p, "work") /\ Verb(p) = "backup" /\ ~cmd[p].dry
    /\ disk' = [disk EXCEPT ![cmd[p].file] = <<p, "part">>]
    /\ held' = [held EXCEPT ![p] = TRUE]
    /\ Step(p, "fill")
    /\ UNCHANGED <<cmd, default, data, clone, remote, answer>>

\* The rest is written, unless the file was removed.  Flush errors are ignored,
\* so a failing disk may leave the file short.  On top of what others put there
\* meanwhile it makes a snapshot only if it covers all of that.
Fill(p) ==
    /\ At(p, "fill")
    /\ \E size \in {"whole"} \cup (IF DiskMayFail THEN {"short"} ELSE {})
                     \cup (IF disk[cmd[p].file] = <<p, "part">> THEN {} ELSE {"part"}) :
         disk' = IF held[p] THEN [disk EXCEPT ![cmd[p].file] = <<p, size>>] ELSE disk
    /\ Step(p, IF cmd[p].git THEN "read" ELSE "report")
    /\ UNCHANGED <<cmd, default, held, data, clone, remote, answer>>

BackupFails(p) ==
    /\ \/ At(p, "work") /\ Verb(p) = "backup" /\ ~cmd[p].dry /\ (Cancelled(p) \/ DiskMayFail)
       \/ At(p, "fill") /\ DiskMayFail
    /\ LeaveClosed(p, 1)
    /\ UNCHANGED <<cmd, default, files, data, clone, remote, answer>>

\* The snapshot is read back with os.ReadFile.
ReadFile(p) ==
    /\ At(p, "read") /\ disk[cmd[p].file] # None /\ cmd[p].file \notin Cloud
    /\ data' = [data EXCEPT ![p] = disk[cmd[p].file]]
    /\ Step(p, "clone")
    /\ UNCHANGED <<cmd, default, files, clone, remote, answer>>

\* Whatever the error, the git step is skipped without a word: another run removed
\* the file, by its clean-up or, as a failing disk, by its retention; the disk
\* failed; or the name is a URL, which is no file.
ReadFileFails(p) ==
    /\ At(p, "read")
    /\ disk[cmd[p].file] = None \/ cmd[p].file \in Cloud \/ DiskMayFail
    /\ Step(p, "clean")
    /\ UNCHANGED <<cmd, default, files, data, clone, remote, answer>>

GitFails(p) == Step(p, "clean") /\ warned' = [warned EXCEPT ![p] = TRUE] /\ UNCHANGED pushed

\* Credentials do not resolve or do not decrypt.
AuthFails(p) ==
    /\ At(p, "clone") /\ (Flaky \/ Cancelled(p))
    /\ GitFails(p)
    /\ UNCHANGED <<cmd, default, files, data, clone, remote>>

\* What a clone brings: every tag, and the branch; committing then builds on it.
Copy(branch) == [branch |-> Target, base |-> heads[branch],
                 tags |-> {t \in Tags : tags[t] # None}]
Fresh == [branch |-> Fallback, base |-> None, tags |-> {}]

\* The target branch, else the default branch, else, whatever the reason, a
\* fresh repository.
Clone(p) ==
    /\ At(p, "clone")
    /\ local' = [local EXCEPT ![p] =
         LET reach(b) == heads[b] # None /\ ~Cancelled(p)
         IN IF reach(Target) THEN Copy(Target)
            ELSE IF reach(default) THEN Copy(default) ELSE Fresh]
    /\ Step(p, "commit")
    /\ UNCHANGED <<cmd, default, files, data, commit, remote, answer>>

\* The same when one or both of the clones fail.
CloneFails(p) ==
    /\ At(p, "clone") /\ Flaky
    /\ \E got \in {Fresh} \cup (IF heads[default] = None THEN {} ELSE {Copy(default)}) :
           local' = [local EXCEPT ![p] = got]
    /\ Step(p, "commit")
    /\ UNCHANGED <<cmd, default, files, data, commit, remote, answer>>

History(c) == IF c = None THEN {} ELSE {c} \cup commit[c].past
FilesOf(c) == IF c = None THEN [f \in Files |-> <<>>] ELSE commit[c].files

\* The file is written, staged, committed and tagged, all in memory.
Commit(p) ==
    /\ At(p, "commit")
    /\ commit' = [commit EXCEPT ![p] =
         [past |-> History(local[p].base),
          files |-> [FilesOf(local[p].base) EXCEPT ![cmd[p].file] = data[p]]]]
    /\ IF cmd[p].tag \in local[p].tags
       THEN GitFails(p)
       ELSE Step(p, "push") /\ UNCHANGED answer
    /\ UNCHANGED <<cmd, default, files, data, local, remote>>

\* A push offers the branch, or the tag and the target branch, which a fresh
\* repository does not have.
Offers(p) ==
    (IF cmd[p].tag = None \/ local[p].branch = Target THEN {"branch"} ELSE {})
        \cup (IF cmd[p].tag = None THEN {} ELSE {"tag"})

\* Mutant: the push is forced.
TakesAll(p) == Offers(p)

\* What of it the remote takes: no forced updates.  It decides for each reference
\* on its own, since the push does not ask to be atomic.
Takes(p) ==
    {part \in Offers(p) :
        \/ part = "branch" /\ heads[local[p].branch] \in commit[p].past \cup {None}
        \/ part = "tag" /\ tags[cmd[p].tag] = None}

Land(p, parts) ==
    /\ heads' = IF "branch" \in parts THEN [heads EXCEPT ![local[p].branch] = p] ELSE heads
    /\ tags' = IF "tag" \in parts THEN [tags EXCEPT ![cmd[p].tag] = p] ELSE tags

Push(p) ==
    /\ At(p, "push") /\ ~Cancelled(p) /\ Takes(p) = Offers(p)
    /\ Land(p, Offers(p))
    /\ pushed' = [pushed EXCEPT ![p] = TRUE]
    /\ Step(p, "clean")
    /\ UNCHANGED <<cmd, default, files, data, clone, warned>>

\* Mutant: the push counts as done when the remote took some of it.
PushIgnored(p) ==
    /\ At(p, "push") /\ Takes(p) # {}
    /\ Land(p, Takes(p))
    /\ pushed' = [pushed EXCEPT ![p] = TRUE]
    /\ Step(p, "clean")
    /\ UNCHANGED <<cmd, default, files, data, clone, warned>>

\* Refused in part or altogether, cancelled, or cut off: some of it, or even all,
\* may have landed.
PushFails(p) ==
    /\ At(p, "push") /\ (Cancelled(p) \/ Flaky \/ Takes(p) # Offers(p))
    /\ GitFails(p)
    /\ \E parts \in SUBSET Takes(p) : Land(p, parts)
    /\ UNCHANGED <<cmd, default, files, data, clone>>

\* The temporary file is removed, whoever wrote it.
Clean(p) ==
    /\ At(p, "clean")
    /\ IF cmd[p].file = Temp
       THEN /\ disk' = [disk EXCEPT ![Temp] = None]
            /\ held' = [q \in Procs |-> held[q] /\ cmd[q].file # Temp]
       ELSE UNCHANGED files
    /\ Step(p, "report")
    /\ UNCHANGED <<cmd, default, data, clone, remote, answer>>

Report(p) ==
    /\ At(p, "report")
    /\ LeaveClosed(p, 0)
    /\ UNCHANGED <<cmd, default, files, data, clone, remote, answer>>

----------------------------------------------------------------------------
\* restore, diff, verify, status

\* --git-ref is looked up among the tags only, and the file by its name.
InTag(p) ==
    LET t == cmd[p].tag
    IN t # None /\ tags[t] # None /\ commit[tags[t]].files[cmd[p].file] # <<>>

Fetch(p) ==
    /\ At(p, "fetch") /\ InTag(p) /\ ~Cancelled(p)
    /\ data' = [data EXCEPT ![p] = commit[tags[cmd[p].tag]].files[cmd[p].file]]
    /\ pc' = [pc EXCEPT ![p] = "work"]
    /\ log' = [log EXCEPT ![p] = IF cmd[p].log /\ ~Simulates(p) THEN "open" ELSE @]
    /\ UNCHANGED <<cmd, default, exit, signals, files, clone, remote, answer>>

\* Whatever went wrong, the exit code says authentication.
FetchFails(p) ==
    /\ At(p, "fetch") /\ (~InTag(p) \/ Cancelled(p) \/ Flaky)
    /\ Leave(p, 5)
    /\ UNCHANGED <<cmd, default, files, data, clone, remote, answer>>

\* 1 is a failure, 2 success with warnings, 3 drift, 4 an invalid snapshot.
RestoreCodes(p) == IF Simulates(p) THEN {0} ELSE {0, 1, 2}
DiffCodes == {0, 1, 3}
VerifyCodes == {0, 1, 4}

Codes(p) ==
    CASE Verb(p) = "restore" -> RestoreCodes(p)
      [] Verb(p) = "diff" -> DiffCodes
      [] Verb(p) = "verify" -> VerifyCodes
      [] OTHER -> {}

Work(p) ==
    /\ At(p, "work")
    /\ \E code \in Codes(p) :
         LeaveClosed(p, code) /\ warned' = [warned EXCEPT ![p] = code = 2]
    /\ UNCHANGED <<cmd, default, files, data, clone, remote, pushed>>

\* Status closes its log itself, but only when nothing failed.
Status(p) ==
    /\ At(p, "work") /\ Verb(p) = "status"
    /\ LeaveClosed(p, 0) \/ Leave(p, 1)
    /\ UNCHANGED <<cmd, default, files, data, clone, remote, answer>>

----------------------------------------------------------------------------
\* The first signal cancels the context and starts the deadline; a second ends
\* the process.
Signal(p) ==
    /\ p \in Signalled /\ Running(p) /\ signals[p] < MaxSignals
    /\ signals' = [signals EXCEPT ![p] = @ + 1]
    /\ exit' = [exit EXCEPT ![p] = IF signals[p] = 0 THEN -1 ELSE 130]
    /\ UNCHANGED <<cmd, default, pc, log, files, data, clone, remote, answer>>

\* The timer that the first signal started ends the process.
Deadline(p) ==
    /\ Running(p) /\ Cancelled(p)
    /\ Leave(p, 1)
    /\ UNCHANGED <<cmd, default, files, data, clone, remote, answer>>

Over == (\A p \in Procs : ~Running(p)) /\ UNCHANGED vars

Run(p) ==
    \/ Begin(p) \/ DryRun(p) \/ Create(p) \/ Fill(p) \/ BackupFails(p) \/ ReadFile(p)
    \/ ReadFileFails(p) \/ AuthFails(p) \/ Clone(p) \/ CloneFails(p) \/ Commit(p) \/ Push(p) \/ PushFails(p)
    \/ Clean(p) \/ Report(p) \/ Fetch(p) \/ FetchFails(p) \/ Work(p) \/ Status(p)
    \/ Signal(p) \/ Deadline(p)

Next == (\E p \in Procs : Run(p)) \/ Over

\* Nothing is sure to happen: scans and network calls may hang.
Spec == Init /\ [][Next]_vars

----------------------------------------------------------------------------
TypeOK ==
    /\ cmd \in [Procs -> Commands] /\ default \in Branches
    /\ pc \in [Procs -> {"start", "work", "fill", "read", "clone", "commit", "push",
                        "clean", "report", "fetch"}]
    /\ exit \in [Procs -> {-1, 0, 1, 2, 3, 4, 5, 130}]
    /\ signals \in [Procs -> 0..MaxSignals] /\ log \in [Procs -> {"none", "open", "closed"}]
    /\ disk \in [Files -> (Snapshots \ {<<>>}) \cup {None}] /\ held \in [Procs -> BOOLEAN]
    /\ data \in [Procs -> Snapshots]
    /\ local \in [Procs -> [branch : Branches \cup {None}, base : Commits \cup {None},
                           tags : SUBSET Tags]]
    /\ commit \in [Commits -> [past : SUBSET Commits, files : [Files -> Snapshots]]]
    /\ heads \in [Branches -> Commits \cup {None}] /\ tags \in [Tags -> Procs \cup {None}]
    /\ warned \in [Procs -> BOOLEAN] /\ pushed \in [Procs -> BOOLEAN]

\* No other backup writes to the file of p.
Unshared(p) == \A q \in Procs \ {p} : Verb(q) = "backup" => cmd[q].file # cmd[p].file

Reachable(c) ==
    (\E b \in Branches : c \in History(heads[b])) \/ (\E t \in Tags : c \in History(tags[t]))

\* What p had written when it closed its file: all of it but what a flush lost.
Written(p) == {<<p, "whole">>, <<p, "short">>}

\* A git backup with an output file of its own that exits with success and no
\* warning has not always pushed: it may have failed to read its own file back.
\* Then its result names no commit.  If the result names one, that commit is in
\* the history of the remote, for good, with the file as the backup closed it,
\* and under the tag that was asked for, whatever other processes push, tag or
\* signal meanwhile; and a file that was read back leaves no third outcome.
QuietMeansPushed ==
    \A p \in Procs :
        (Verb(p) = "backup" /\ cmd[p].git /\ ~cmd[p].dry /\ Unshared(p)
             /\ exit[p] = 0 /\ ~warned[p])
            => IF pushed[p]
               THEN /\ Reachable(p) /\ commit[p].files[cmd[p].file] \in Written(p)
                    /\ cmd[p].tag # None => tags[cmd[p].tag] = p
               ELSE data[p] = <<>>

\* A command that reads its snapshot by tag gets one that a backup wrote to its
\* end and committed at or before that tag, even while others tag and push.
TagReadsBack ==
    \A p \in Procs :
        (Verb(p) # "backup" /\ data[p] # <<>>
             /\ \A q \in Procs : Verb(q) = "backup" => Unshared(q))
            => \E q \in History(tags[cmd[p].tag]) : data[p] \in Written(q)

\* Nothing leaves the history of a branch of the remote, and tags stay where
\* they are, with the files they had.
RemoteOnlyGrows ==
    [][/\ \A b \in Branches : History(heads[b]) \subseteq History(heads[b])'
       /\ \A t \in Tags : tags[t] # None => tags'[t] = tags[t]
       /\ \A c \in Commits : Reachable(c) => commit'[c] = commit[c]]_vars

=============================================================================
