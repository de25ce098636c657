--------------------------- MODULE Command_proofs ---------------------------
(***************************************************************************)
(* Proofs about Command, for any number of processes, commands, branches,  *)
(* tags and files, and whatever the remote held before.                    *)
(*                                                                         *)
(* A commit that a branch, a tag, a clone or another commit refers to has  *)
(* been made, and only its own process ever changes it (Refs); a commit    *)
(* contains the past of each commit it builds on (Closed).                 *)
(***************************************************************************)
EXTENDS Command, TLAPS

BackupSteps == {"fill", "read", "clone", "commit", "push", "clean", "report"}

\* The commits that will not change any more.
Made == {Seed} \cup {p \in Procs : pc[p] \in {"push", "clean", "report"}}

Refs ==
    /\ \A b \in Branches : heads[b] \in Made \cup {None}
    /\ \A t \in Tags : tags[t] \in Made \cup {None}
    /\ \A p \in Procs : local[p].base \in Made \cup {None}
    /\ \A c \in Commits : commit[c].past \subseteq Made

Closed == \A c \in Commits : \A d \in commit[c].past : commit[d].past \subseteq commit[c].past

\* Only backups write and commit, on the branch they cloned or a fresh one.
Roles ==
    \A p \in Procs :
        /\ pc[p] \in BackupSteps => Verb(p) = "backup"
        /\ pc[p] = "fetch" => Verb(p) # "backup"
        /\ pc[p] \in {"commit", "push"} => local[p].branch \in {Target, Fallback}

IInv == TypeOK /\ Refs /\ Closed /\ Roles

----------------------------------------------------------------------------
LEMMA InitIInv == Init => IInv
<1> SUFFICES ASSUME Init PROVE IInv
  OBVIOUS
<1>1. TypeOK
  <2>1. /\ cmd \in [Procs -> Commands] /\ default \in Branches
        /\ heads \in [Branches -> Commits \cup {None}]
    BY CommandAssumption DEF Init, Commits
  <2>2. /\ 0 \in 0..MaxSignals /\ <<>> \in Snapshots
        /\ [f \in Files |-> <<>>] \in [Files -> Snapshots]
    BY CommandAssumption DEF Snapshots
  <2>3. /\ commit \in [Commits -> [past : SUBSET Commits, files : [Files -> Snapshots]]]
        /\ local \in [Procs -> [branch : Branches \cup {None}, base : Commits \cup {None},
                               tags : SUBSET Tags]]
    BY <2>2 DEF Init
  <2> QED BY <2>1, <2>2, <2>3 DEF Init, TypeOK
<1>2. /\ \A b \in Branches : heads[b] \in {Seed, None}
      /\ \A p \in Procs : local[p].base = None
      /\ \A c \in Commits : commit[c].past = {}
  BY CommandAssumption DEF Init
<1>3. Refs
  BY <1>2 DEF Refs, Made, Init
<1>4. Closed
  BY <1>2 DEF Closed
<1>5. Roles
  BY DEF Init, Roles, BackupSteps
<1> QED BY <1>1, <1>3, <1>4, <1>5 DEF IInv

----------------------------------------------------------------------------
(* Types, one group of cells at a time.                                    *)

Steps ==
    {"start", "work", "fill", "read", "clone", "commit", "push", "clean", "report", "fetch"}

ProcessOK ==
    /\ pc \in [Procs -> Steps]
    /\ exit \in [Procs -> {-1, 0, 1, 2, 3, 4, 5, 130}]
    /\ signals \in [Procs -> 0..MaxSignals]
    /\ log \in [Procs -> {"none", "open", "closed"}]

FilesOK ==
    /\ disk \in [Files -> (Snapshots \ {<<>>}) \cup {None}] /\ held \in [Procs -> BOOLEAN]
    /\ data \in [Procs -> Snapshots]

CloneOK ==
    /\ local \in [Procs -> [branch : Branches \cup {None}, base : Commits \cup {None},
                           tags : SUBSET Tags]]
    /\ commit \in [Commits -> [past : SUBSET Commits, files : [Files -> Snapshots]]]

RemoteOK == heads \in [Branches -> Commits \cup {None}] /\ tags \in [Tags -> Procs \cup {None}]

AnswerOK == warned \in [Procs -> BOOLEAN] /\ pushed \in [Procs -> BOOLEAN]

LEMMA TypeGroups ==
  TypeOK <=> /\ cmd \in [Procs -> Commands] /\ default \in Branches
             /\ ProcessOK /\ FilesOK /\ CloneOK /\ RemoteOK /\ AnswerOK
BY DEF TypeOK, ProcessOK, FilesOK, CloneOK, RemoteOK, AnswerOK, Steps

\* The commands as the processes were given them.
LEMMA CmdFacts ==
  ASSUME TypeOK, NEW p \in Procs
  PROVE  cmd[p].file \in Files /\ cmd[p].tag \in Tags \cup {None}
         /\ cmd[p].dry \in BOOLEAN /\ cmd[p].git \in BOOLEAN
BY DEF TypeOK, Commands

LEMMA StepKeeps == ASSUME ProcessOK, NEW p \in Procs, NEW step \in Steps, Step(p, step) PROVE ProcessOK'
BY DEF ProcessOK, Step

LEMMA LeaveKeeps ==
  ASSUME ProcessOK, NEW p \in Procs, NEW code \in {0, 1, 2, 3, 4, 5, 130},
         Leave(p, code) \/ LeaveClosed(p, code)
  PROVE  ProcessOK'
<1>1. exit' \in [Procs -> {-1, 0, 1, 2, 3, 4, 5, 130}]
  BY DEF ProcessOK, Leave, LeaveClosed
<1>2. log' \in [Procs -> {"none", "open", "closed"}]
  BY DEF ProcessOK, Leave, LeaveClosed
<1> QED BY <1>1, <1>2 DEF ProcessOK, Leave, LeaveClosed

LEMMA ProcessTypes == ASSUME ProcessOK, NEW p \in Procs, Run(p) PROVE ProcessOK'
<1>1. CASE \E step \in Steps : Step(p, step)
  BY <1>1, StepKeeps
<1>2. CASE \E code \in {0, 1, 2, 3, 4, 5, 130} : Leave(p, code) \/ LeaveClosed(p, code)
  BY <1>2, LeaveKeeps
<1>3. CASE Begin(p)
  <2>1. pc' \in [Procs -> Steps]
    BY <1>3 DEF Begin, ProcessOK, Steps
  <2>2. log' \in [Procs -> {"none", "open", "closed"}]
    BY <1>3 DEF Begin, ProcessOK
  <2> QED BY <1>3, <2>1, <2>2 DEF Begin, ProcessOK
<1>4. CASE Fetch(p)
  <2>1. pc' \in [Procs -> Steps]
    BY <1>4 DEF Fetch, ProcessOK, Steps
  <2>2. log' \in [Procs -> {"none", "open", "closed"}]
    BY <1>4 DEF Fetch, ProcessOK
  <2> QED BY <1>4, <2>1, <2>2 DEF Fetch, ProcessOK
<1>5. CASE Signal(p)
  <2>1. signals[p] \in Nat /\ signals[p] + 1 \in 0..MaxSignals
    BY <1>5, CommandAssumption DEF Signal, ProcessOK
  <2>2. signals' \in [Procs -> 0..MaxSignals]
    BY <1>5, <2>1 DEF Signal, ProcessOK
  <2>3. exit' \in [Procs -> {-1, 0, 1, 2, 3, 4, 5, 130}]
    BY <1>5 DEF Signal, ProcessOK
  <2> QED BY <1>5, <2>2, <2>3 DEF Signal, ProcessOK
<1>6. CASE \/ Create(p) \/ Fill(p) \/ ReadFile(p) \/ ReadFileFails(p) \/ AuthFails(p)
           \/ Clone(p) \/ CloneFails(p) \/ Commit(p) \/ Push(p) \/ PushFails(p) \/ Clean(p)
  <2>1. \E step \in Steps : Step(p, step)
    <3>1. {"fill", "read", "report", "clean", "clone", "commit", "push"} \subseteq Steps
      BY DEF Steps
    <3> QED BY <1>6, <3>1 DEF Create, Fill, ReadFile,
                ReadFileFails, AuthFails, Clone, CloneFails, Commit,
                Push, PushFails, Clean, GitFails
  <2> QED BY <2>1, <1>1
<1>7. CASE DryRun(p) \/ BackupFails(p) \/ Report(p) \/ FetchFails(p) \/ Work(p) \/ Status(p) \/ Deadline(p)
  <2>1. \E code \in {0, 1, 2, 3, 4, 5, 130} : Leave(p, code) \/ LeaveClosed(p, code)
    BY <1>7 DEF DryRun, BackupFails, Report, FetchFails, Work, Status, Deadline,
                Codes, RestoreCodes, DiffCodes, VerifyCodes
  <2> QED BY <2>1, <1>2
<1> QED BY <1>3, <1>4, <1>5, <1>6, <1>7 DEF Run

LEMMA FileTypes == ASSUME TypeOK, NEW p \in Procs, Run(p) PROVE FilesOK'
<1> USE DEF FilesOK
<1>0. FilesOK /\ cmd[p].file \in Files
  BY TypeGroups, CmdFacts
<1>1. ASSUME NEW size \in {"whole", "short", "part"}
      PROVE  <<p, size>> \in (Snapshots \ {<<>>}) \cup {None}
  BY DEF Snapshots
<1>2. CASE Create(p)
  BY <1>0, <1>1, <1>2 DEF Create
<1>3. CASE Fill(p)
  BY <1>0, <1>1, <1>3 DEF Fill, files
<1>4. CASE ReadFile(p)
  BY <1>0, <1>4 DEF ReadFile, files
<1>5. CASE Clean(p)
  BY <1>0, <1>5, CommandAssumption DEF Clean, files
<1>6. CASE Fetch(p)
  <2>1. commit[tags[cmd[p].tag]].files[cmd[p].file] \in Snapshots
    BY <1>0, <1>6 DEF Fetch, InTag, TypeOK, Commits, Commands
  <2> QED BY <1>0, <1>6, <2>1 DEF Fetch, files
<1>7. CASE UNCHANGED <<disk, held, data>>
  BY <1>0, <1>7
<1> QED BY <1>2, <1>3, <1>4, <1>5, <1>6, <1>7 DEF Run, Begin, DryRun, BackupFails,
           ReadFileFails, AuthFails, Clone, CloneFails, Commit, Push, PushFails, Report, FetchFails, Work, Status,
           Signal, Deadline, files

LEMMA CloneTypes == ASSUME TypeOK, NEW p \in Procs, Run(p) PROVE CloneOK'
<1> USE DEF CloneOK
<1>0. CloneOK /\ cmd[p].file \in Files
  BY TypeGroups, CmdFacts
<1>1. CASE Clone(p) \/ CloneFails(p)
  <2> DEFINE Locals == [branch : Branches \cup {None}, base : Commits \cup {None},
                        tags : SUBSET Tags]
  <2>1. Fresh \in Locals /\ Copy(Target) \in Locals /\ Copy(default) \in Locals
    BY CommandAssumption DEF Fresh, Copy, TypeOK
  <2>2. \E l \in Locals : local' = [local EXCEPT ![p] = l]
    BY <1>1, <2>1 DEF Clone, CloneFails
  <2>3. UNCHANGED commit
    BY <1>1 DEF Clone, CloneFails
  <2> HIDE DEF Locals
  <2>4. local' \in [Procs -> Locals]
    BY <1>0, <2>2 DEF Locals
  <2> QED BY <1>0, <2>3, <2>4 DEF Locals
<1>2. CASE Commit(p)
  <2>1. local[p].base \in Commits \cup {None} /\ data[p] \in Snapshots /\ p \in Commits
    BY DEF TypeOK, Commits
  <2>2. History(local[p].base) \in SUBSET Commits
    BY <1>0, <2>1 DEF History
  <2>3. FilesOf(local[p].base) \in [Files -> Snapshots]
    BY <1>0, <2>1 DEF FilesOf, Snapshots
  <2>4. [FilesOf(local[p].base) EXCEPT ![cmd[p].file] = data[p]] \in [Files -> Snapshots]
    BY <2>1, <2>3
  <2> QED BY <1>0, <1>2, <2>1, <2>2, <2>4 DEF Commit
<1>3. CASE UNCHANGED <<local, commit>>
  BY <1>0, <1>3
<1> QED BY <1>1, <1>2, <1>3 DEF Run, Begin, DryRun, Create, Fill, BackupFails, ReadFile,
           ReadFileFails,
           AuthFails, Push, PushFails, Clean, Report, Fetch, FetchFails, Work, Status,
           Signal, Deadline, clone

LEMMA RemoteTypes == ASSUME TypeOK, NEW p \in Procs, Run(p) PROVE RemoteOK'
<1> USE DEF RemoteOK
<1>0. RemoteOK /\ cmd[p].tag \in Tags \cup {None} /\ p \in Commits
  BY TypeGroups, CmdFacts DEF Commits
<1>1. CASE \E parts \in SUBSET Offers(p) : Land(p, parts)
  <2> PICK parts \in SUBSET Offers(p) : Land(p, parts)
    BY <1>1
  <2>1. "tag" \in parts => cmd[p].tag \in Tags
    BY <1>0 DEF Offers
  <2>2. heads' \in [Branches -> Commits \cup {None}]
    BY <1>0 DEF Land
  <2>3. tags' \in [Tags -> Procs \cup {None}]
    BY <1>0, <2>1 DEF Land
  <2> QED BY <2>2, <2>3
<1>2. CASE UNCHANGED <<heads, tags>>
  BY <1>0, <1>2
<1>3. ASSUME Push(p) \/ PushFails(p) PROVE \E parts \in SUBSET Offers(p) : Land(p, parts)
  <2>1. Offers(p) \subseteq Offers(p) /\ Takes(p) \subseteq Offers(p)
    BY DEF Takes
  <2> QED BY <1>3, <2>1 DEF Push, PushFails
<1> QED BY <1>1, <1>2, <1>3 DEF Run, Begin, DryRun, Create, Fill, BackupFails, ReadFile,
           ReadFileFails, AuthFails, Clone, CloneFails, Commit, Clean, Report, Fetch,
           FetchFails, Work, Status, Signal, Deadline, remote

LEMMA AnswerTypes == ASSUME TypeOK, NEW p \in Procs, Run(p) PROVE AnswerOK'
<1> USE DEF AnswerOK
<1>0. AnswerOK
  BY TypeGroups
<1>1. CASE GitFails(p)
  BY <1>0, <1>1 DEF GitFails
<1>2. CASE Push(p)
  BY <1>0, <1>2 DEF Push
<1>3. CASE Work(p)
  BY <1>0, <1>3 DEF Work
<1>4. CASE UNCHANGED <<warned, pushed>>
  BY <1>0, <1>4
<1> QED BY <1>1, <1>2, <1>3, <1>4 DEF Run, Begin, DryRun, Create, Fill, BackupFails, ReadFile,
           ReadFileFails,
           AuthFails, Clone, CloneFails, Commit, PushFails, Clean, Report, Fetch,
           FetchFails, Status, Signal, Deadline, answer

LEMMA CmdFixed == ASSUME NEW p \in Procs, Run(p) PROVE UNCHANGED <<cmd, default>>
BY DEF Run, Begin, DryRun, Create, Fill, BackupFails, ReadFile,
       ReadFileFails, AuthFails, Clone, CloneFails,
       Commit, Push, PushFails, Clean, Report, Fetch, FetchFails, Work, Status, Signal, Deadline

LEMMA TypesStay == TypeOK /\ [Next]_vars => TypeOK'
<1>1. ASSUME TypeOK, NEW p \in Procs, Run(p) PROVE TypeOK'
  <2>1. cmd' \in [Procs -> Commands] /\ default' \in Branches
    BY <1>1, CmdFixed, TypeGroups
  <2>2. ProcessOK' /\ FilesOK' /\ CloneOK' /\ RemoteOK' /\ AnswerOK'
    BY <1>1, TypeGroups, ProcessTypes, FileTypes, CloneTypes, RemoteTypes, AnswerTypes
  <2>3. TypeOK' <=> /\ cmd' \in [Procs -> Commands] /\ default' \in Branches
                    /\ ProcessOK' /\ FilesOK' /\ CloneOK' /\ RemoteOK' /\ AnswerOK'
    BY DEF TypeOK, ProcessOK, FilesOK, CloneOK, RemoteOK, AnswerOK, Steps
  <2> QED BY <2>1, <2>2, <2>3
<1>2. ASSUME TypeOK, UNCHANGED vars PROVE TypeOK'
  BY <1>2 DEF TypeOK, vars, process, files, clone, remote, answer
<1> QED BY <1>1, <1>2 DEF Next, Over

----------------------------------------------------------------------------
(* The remote.                                                             *)

LEMMA MadeGrows ==
  ASSUME TypeOK, NEW p \in Procs, Run(p)
  PROVE  Made \subseteq Made' /\ \A q \in Procs \ {p} : pc'[q] = pc[q]
<1>1. CASE pc' = pc
  BY <1>1 DEF Made
<1>2. ASSUME NEW step, pc' = [pc EXCEPT ![p] = step],
             pc[p] \in {"push", "clean", "report"} => step \in {"push", "clean", "report"}
      PROVE  Made \subseteq Made' /\ \A q \in Procs \ {p} : pc'[q] = pc[q]
  BY <1>2 DEF Made, TypeOK
<1> USE DEF At, Step, Leave, LeaveClosed, GitFails
<1>3. CASE Begin(p) \/ Fetch(p)
  BY <1>2, <1>3 DEF Begin, Fetch
<1>4. CASE \/ Create(p) \/ Fill(p) \/ ReadFile(p) \/ ReadFileFails(p) \/ AuthFails(p)
           \/ Clone(p) \/ CloneFails(p)
  BY <1>2, <1>4 DEF Create, Fill, ReadFile, ReadFileFails, AuthFails, Clone, CloneFails
<1>5. CASE Commit(p) \/ Push(p) \/ PushFails(p) \/ Clean(p)
  BY <1>2, <1>5 DEF Commit, Push, PushFails, Clean
<1>6. CASE \/ DryRun(p) \/ BackupFails(p) \/ Report(p) \/ FetchFails(p) \/ Work(p) \/ Status(p)
           \/ Signal(p) \/ Deadline(p)
  BY <1>1, <1>6 DEF DryRun, BackupFails, Report, FetchFails, Work, Status, Signal, Deadline
<1> QED BY <1>3, <1>4, <1>5, <1>6 DEF Run

\* What RemoteOnlyGrows says of one step.
Grows ==
    /\ \A b \in Branches : History(heads[b]) \subseteq History(heads[b])'
    /\ \A t \in Tags : tags[t] # None => tags'[t] = tags[t]
    /\ \A c \in Commits : Reachable(c) => commit'[c] = commit[c]

\* A commit others know of is made, and with it all it builds on.
LEMMA ReachableIsMade ==
  ASSUME IInv, NEW c \in Commits, Reachable(c) PROVE c \in Made
<1>1. \A d \in Made \cup {None} : History(d) \subseteq Made
  BY DEF IInv, Refs, History, Made, Commits
<1>2. /\ \A b \in Branches : heads[b] \in Made \cup {None}
      /\ \A t \in Tags : tags[t] \in Made \cup {None}
  BY DEF IInv, Refs
<1> QED BY <1>1, <1>2 DEF Reachable

LEMMA CommitGrows ==
  ASSUME IInv, NEW p \in Procs, Commit(p)
  PROVE  Grows /\ Refs' /\ Closed'
<1> USE DEF IInv
<1> DEFINE base == local[p].base
<1>1. /\ pc[p] = "commit" /\ UNCHANGED <<heads, tags, local>>
      /\ commit' = [commit EXCEPT ![p] =
           [past |-> History(base),
            files |-> [FilesOf(base) EXCEPT ![cmd[p].file] = data[p]]]]
  BY DEF Commit, At, remote
<1>2. p \notin Made /\ p \in Commits /\ None \notin Commits
  BY <1>1, CommandAssumption DEF Made, Commits
<1>3. \A c \in Made : c \in Commits /\ c # p /\ commit'[c] = commit[c]
  BY <1>1, <1>2 DEF Made, Commits, TypeOK
<1>4. Made \subseteq Made'
  BY MadeGrows DEF Run
<1>5. base \in Made \cup {None}
  BY DEF Refs
<1>6. History(base) \subseteq Made
  BY <1>5, <1>3 DEF Refs, History
<1>7. commit'[p].past = History(base) /\ \A c \in Commits \ {p} : commit'[c] = commit[c]
  BY <1>1, <1>2 DEF TypeOK
<1>8. Grows
  <2>1. ASSUME NEW b \in Branches PROVE History(heads[b])' = History(heads[b])
    BY <1>1, <1>3 DEF History, Refs
  <2>2. \A c \in Commits : Reachable(c) => commit'[c] = commit[c]
    BY <1>3, ReachableIsMade
  <2> QED BY <1>1, <2>1, <2>2 DEF Grows
<1>9. Refs'
  <2>1. \A c \in Commits : commit'[c].past \subseteq Made
    BY <1>6, <1>7 DEF Refs
  <2> QED BY <1>1, <1>4, <2>1 DEF Refs
<1>10. Closed'
  <2> SUFFICES ASSUME NEW c \in Commits, NEW d \in commit'[c].past
               PROVE  commit'[d].past \subseteq commit'[c].past
    BY DEF Closed
  <2>1. CASE c = p
    <3>1. d \in History(base) /\ d \in Made
      BY <1>6, <1>7, <2>1
    <3>2. commit[d].past \subseteq History(base)
      BY <1>3, <1>5, <3>1 DEF Closed, History
    <3> QED BY <1>3, <1>7, <2>1, <3>1, <3>2
  <2>2. CASE c # p
    <3>1. d \in commit[c].past /\ d \in Made
      BY <1>7, <2>2 DEF Refs
    <3> QED BY <1>3, <1>7, <2>2, <3>1 DEF Closed
  <2> QED BY <2>1, <2>2
<1> QED BY <1>8, <1>9, <1>10

\* The remote takes a commit only if it builds on what the branch points to, and
\* a tag only if there is none of that name.
LEMMA LandGrows ==
  ASSUME IInv, NEW p \in Procs, At(p, "push"), NEW parts \in SUBSET Takes(p),
         Land(p, parts), UNCHANGED clone, Made \subseteq Made'
  PROVE  /\ Grows /\ Refs' /\ Closed'
         /\ parts = Offers(p) => Reachable(p)' /\ (cmd[p].tag # None => tags'[cmd[p].tag] = p)
<1> USE DEF IInv
<1>1. p \in Made /\ p \in Commits /\ None \notin Commits /\ None \notin Tags
  BY CommandAssumption DEF At, Made, Commits
<1>2. UNCHANGED <<local, commit>>
  BY DEF clone
<1>3. ASSUME NEW b \in Branches, heads'[b] # heads[b]
      PROVE  heads'[b] = p /\ heads[b] \in commit[p].past \cup {None}
  BY <1>3 DEF Land, Takes, TypeOK
<1>4. ASSUME NEW t \in Tags, tags'[t] # tags[t]
      PROVE  tags'[t] = p /\ tags[t] = None
  BY <1>4 DEF Land, Takes, TypeOK
<1>5. ASSUME NEW b \in Branches PROVE History(heads[b]) \subseteq History(heads[b])'
  <2>1. CASE heads'[b] = heads[b]
    BY <1>2, <2>1 DEF History
  <2>2. CASE heads'[b] # heads[b]
    <3>1. History(heads[b])' = {p} \cup commit[p].past
      BY <1>1, <1>2, <1>3, <2>2 DEF History
    <3>2. History(heads[b]) \subseteq commit[p].past
      BY <1>1, <1>3, <2>2 DEF History, Closed
    <3> QED BY <3>1, <3>2
  <2> QED BY <2>1, <2>2
<1>6. Grows
  BY <1>2, <1>4, <1>5 DEF Grows
<1>7. Refs'
  BY <1>1, <1>2, <1>3, <1>4 DEF Refs
<1>8. Closed'
  BY <1>2 DEF Closed
<1>9. ASSUME parts = Offers(p)
      PROVE  Reachable(p)' /\ (cmd[p].tag # None => tags'[cmd[p].tag] = p)
  <2>1. History(p)' = {p} \cup commit[p].past
    BY <1>1, <1>2 DEF History
  <2>2. CASE cmd[p].tag = None
    <3>1. local[p].branch \in Branches
      BY CommandAssumption DEF Roles, At
    <3>2. heads'[local[p].branch] = p
      BY <1>9, <2>2, <3>1 DEF Land, Offers, TypeOK
    <3> QED BY <2>1, <2>2, <3>1, <3>2 DEF Reachable, History
  <2>3. CASE cmd[p].tag # None
    <3>1. cmd[p].tag \in Tags
      BY <2>3, CmdFacts
    <3>2. tags'[cmd[p].tag] = p
      BY <1>9, <2>3, <3>1 DEF Land, Offers, TypeOK
    <3> QED BY <2>1, <3>1, <3>2 DEF Reachable, History
  <2> QED BY <2>2, <2>3
<1> QED BY <1>6, <1>7, <1>8, <1>9

LEMMA QuietGrows ==
  ASSUME IInv, UNCHANGED <<heads, tags, commit>>, Made \subseteq Made',
         \A p \in Procs : local'[p].base = local[p].base
                          \/ (\E b \in Branches : local'[p].base = heads[b])
                          \/ local'[p].base = None
  PROVE  Grows /\ Refs' /\ Closed'
<1> USE DEF IInv
<1>1. Grows
  BY DEF Grows, History
<1>2. Refs'
  BY DEF Refs
<1>3. Closed'
  BY DEF Closed
<1> QED BY <1>1, <1>2, <1>3

LEMMA RemoteStep == ASSUME IInv, NEW p \in Procs, Run(p) PROVE Grows /\ Refs' /\ Closed'
<1>1. TypeOK /\ Made \subseteq Made'
  BY MadeGrows DEF IInv
<1>2. CASE Commit(p)
  BY <1>2, CommitGrows
<1>3. CASE Clone(p) \/ CloneFails(p)
  <2>1. \E l \in {Fresh} \cup {Copy(b) : b \in Branches} : local' = [local EXCEPT ![p] = l]
    BY <1>1, <1>3, CommandAssumption DEF Clone, CloneFails, TypeOK
  <2> PICK l \in {Fresh} \cup {Copy(b) : b \in Branches} : local' = [local EXCEPT ![p] = l]
    BY <2>1
  <2>2. l.base = None \/ \E b \in Branches : l.base = heads[b]
    BY DEF Fresh, Copy
  <2>3. local'[p] = l /\ \A q \in Procs \ {p} : local'[q] = local[q]
    BY <1>1 DEF TypeOK
  <2>4. UNCHANGED <<heads, tags, commit>>
    BY <1>3 DEF Clone, CloneFails, remote
  <2>5. \A q \in Procs : local'[q].base = local[q].base
                        \/ (\E b \in Branches : local'[q].base = heads[b])
                        \/ local'[q].base = None
    BY <2>2, <2>3
  <2> QED BY <1>1, <2>4, <2>5, QuietGrows
<1>4. CASE Push(p) \/ PushFails(p)
  <2>1. At(p, "push") /\ UNCHANGED clone /\ \E parts \in SUBSET Takes(p) : Land(p, parts)
    BY <1>4 DEF Push, PushFails
  <2> QED BY <1>1, <2>1, LandGrows
<1>5. CASE UNCHANGED <<heads, tags, commit, local>>
  BY <1>1, <1>5, QuietGrows
<1> QED BY <1>2, <1>3, <1>4, <1>5 DEF Run, Begin, DryRun, Create, Fill, BackupFails, ReadFile,
           ReadFileFails,
           AuthFails, Clean, Report, Fetch, FetchFails, Work, Status, Signal, Deadline,
           remote, clone

LEMMA RolesStay == ASSUME IInv, NEW p \in Procs, Run(p) PROVE Roles'
<1> USE DEF At, Step, Leave, LeaveClosed, GitFails
<1>1. UNCHANGED cmd /\ \A q \in Procs \ {p} : pc'[q] = pc[q]
  BY CmdFixed, MadeGrows DEF IInv
<1>2. \A q \in Procs \ {p} : local'[q] = local[q]
  BY DEF Run, Begin, DryRun, Create, Fill, BackupFails, ReadFile,
         ReadFileFails, AuthFails, Clone,
         CloneFails, Commit, Push, PushFails, Clean, Report, Fetch, FetchFails, Work, Status,
         Signal, Deadline, clone, IInv, TypeOK
<1> SUFFICES /\ pc'[p] \in BackupSteps => Verb(p) = "backup"
             /\ pc'[p] = "fetch" => Verb(p) # "backup"
             /\ pc'[p] \in {"commit", "push"} => local'[p].branch \in {Target, Fallback}
  BY <1>1, <1>2 DEF IInv, Roles, Verb
<1>3. CASE pc' = pc /\ local' = local
  BY <1>3 DEF IInv, Roles
<1>4. CASE Begin(p) \/ Fetch(p)
  BY <1>4 DEF Begin, Fetch, IInv, TypeOK, Roles, BackupSteps
<1>5. CASE Create(p) \/ Fill(p) \/ ReadFile(p) \/ ReadFileFails(p) \/ AuthFails(p)
  BY <1>5 DEF Create, Fill, ReadFile,
ReadFileFails, AuthFails, IInv, TypeOK, Roles, BackupSteps
<1>6. CASE Clone(p) \/ CloneFails(p)
  <2>1. pc[p] = "clone" /\ pc'[p] = "commit"
    BY <1>6 DEF Clone, CloneFails, IInv, TypeOK
  <2>2. local'[p].branch \in {Target, Fallback}
    BY <1>6 DEF Clone, CloneFails, IInv, TypeOK, Copy, Fresh
  <2> QED BY <2>1, <2>2 DEF IInv, Roles, BackupSteps
<1>7. CASE Commit(p) \/ Push(p) \/ PushFails(p) \/ Clean(p)
  BY <1>7 DEF Commit, Push, PushFails, Clean, IInv, TypeOK, Roles, BackupSteps, clone
<1>8. CASE \/ DryRun(p) \/ BackupFails(p) \/ Report(p) \/ FetchFails(p) \/ Work(p) \/ Status(p)
           \/ Signal(p) \/ Deadline(p)
  BY <1>3, <1>8 DEF DryRun, BackupFails, Report, FetchFails, Work, Status, Signal, Deadline, clone
<1> QED BY <1>4, <1>5, <1>6, <1>7, <1>8 DEF Run

LEMMA NextPreserves == IInv /\ [Next]_vars => IInv' /\ (Grows \/ UNCHANGED <<heads, tags, commit>>)
<1>1. ASSUME IInv, NEW p \in Procs, Run(p) PROVE IInv' /\ Grows
  BY <1>1, TypesStay, RemoteStep, RolesStay DEF IInv, Next
<1>2. ASSUME IInv, UNCHANGED vars PROVE IInv' /\ UNCHANGED <<heads, tags, commit>>
  <2>1. UNCHANGED <<cmd, pc, local, heads, tags, commit>>
    BY <1>2 DEF vars, process, clone, remote
  <2>2. TypeOK'
    BY <1>2, TypesStay DEF IInv
  <2>3. Refs' /\ Closed' /\ Roles'
    BY <1>2, <2>1 DEF IInv, Refs, Closed, Roles, Made, Verb
  <2> QED BY <2>1, <2>2, <2>3 DEF IInv
<1> QED BY <1>1, <1>2 DEF Next, Over

----------------------------------------------------------------------------
(* Snapshots: what a backup with an output file of its own carries along,  *)
(* and what the commits therefore hold.                                    *)

Alone(p) == Verb(p) = "backup" /\ Unshared(p)
AllAlone == \A q \in Procs : Verb(q) = "backup" => Unshared(q)
Carried ==
    \A p \in Procs : Alone(p) =>
        /\ pc[p] = "fill" => held[p] /\ disk[cmd[p].file] = <<p, "part">>
        /\ pc[p] = "read" => disk[cmd[p].file] \in Written(p)
        /\ pc[p] \in {"clone", "commit"} => data[p] \in Written(p)
        /\ pc[p] = "push" => commit[p].files[cmd[p].file] \in Written(p)

\* The commit is on the remote, whole and under its tag.
Landed(p) ==
    /\ Reachable(p) /\ commit[p].files[cmd[p].file] \in Written(p)
    /\ cmd[p].tag # None => tags[cmd[p].tag] = p

\* Before the push nothing is named; data comes with reading the file back.
Answered ==
    \A p \in Procs : Alone(p) /\ cmd[p].git =>
        /\ pc[p] \in {"start", "work", "fill", "read"} => data[p] = <<>>
        /\ pc[p] \notin {"clean", "report"} => ~pushed[p]
        /\ pushed[p] => Landed(p)
        /\ pc[p] \in {"clean", "report"} /\ ~warned[p] => pushed[p] \/ data[p] = <<>>
        /\ exit[p] = 0 /\ ~cmd[p].dry => pc[p] = "report"

\* A file of a commit is what one of the backups in its history made.
Contents ==
    AllAlone => \A c \in Commits : \A f \in Files : commit[c].files[f] # <<>> =>
        \E q \in {c} \cup commit[c].past : commit[c].files[f] \in Written(q)

ByTag == \A p \in Procs : Verb(p) # "backup" /\ data[p] # <<>> => cmd[p].tag \in Tags

Full == IInv /\ Carried /\ Answered /\ Contents /\ ByTag /\ TagReadsBack

LEMMA InitFull == Init => Full
<1> SUFFICES ASSUME Init PROVE Full
  OBVIOUS
<1>1. IInv
  BY InitIInv
<1>2. Carried /\ Answered /\ ByTag /\ TagReadsBack
  BY DEF Init, Carried, Answered, ByTag, TagReadsBack
<1>3. Contents
  BY DEF Init, Contents
<1> QED BY <1>1, <1>2, <1>3 DEF Full

LEMMA ReachableStays ==
  ASSUME IInv, NEW c \in Commits, Reachable(c), Grows PROVE Reachable(c)'
<1>1. CASE \E b \in Branches : c \in History(heads[b])
  BY <1>1 DEF Grows, Reachable
<1>2. ASSUME NEW t \in Tags, c \in History(tags[t]) PROVE Reachable(c)'
  <2>1. tags[t] # None /\ tags[t] \in Commits
    BY <1>2 DEF History, IInv, TypeOK, Commits
  <2>2. Reachable(tags[t])
    BY <2>1 DEF Reachable, History
  <2>3. tags'[t] = tags[t] /\ commit'[tags[t]] = commit[tags[t]]
    BY <2>1, <2>2 DEF Grows
  <2> QED BY <1>2, <2>3 DEF Reachable, History
<1> QED BY <1>1, <1>2 DEF Reachable

LEMMA CommitFixed ==
  ASSUME IInv, NEW p \in Procs, Run(p)
  PROVE  \/ UNCHANGED commit
         \/ Commit(p)
BY DEF Run, Begin, DryRun, Create, Fill, BackupFails, ReadFile,
       ReadFileFails, AuthFails, Clone, CloneFails,
       Push, PushFails, Clean, Report, Fetch, FetchFails, Work, Status, Signal, Deadline, clone

\* What other processes leave alone.
LEMMA OthersStay ==
  ASSUME IInv, NEW p \in Procs, NEW q \in Procs \ {p}, Run(q)
  PROVE  /\ pc'[p] = pc[p] /\ exit'[p] = exit[p] /\ data'[p] = data[p]
         /\ commit'[p] = commit[p] /\ warned'[p] = warned[p] /\ pushed'[p] = pushed[p]
         /\ Alone(p) => held'[p] = held[p] /\ disk'[cmd[p].file] = disk[cmd[p].file]
<1> USE DEF At, Step, Leave, LeaveClosed, GitFails
<1>1. pc'[p] = pc[p]
  BY MadeGrows DEF IInv
<1>2. exit'[p] = exit[p]
  BY DEF Run, Begin, DryRun, Create, Fill, BackupFails, ReadFile,
         ReadFileFails, AuthFails, Clone,
         CloneFails, Commit, Push, PushFails, Clean, Report, Fetch, FetchFails, Work, Status,
         Signal, Deadline, IInv, TypeOK
<1>3. data'[p] = data[p]
  BY DEF Run, Begin, DryRun, Create, Fill, BackupFails, ReadFile,
         ReadFileFails, AuthFails, Clone,
         CloneFails, Commit, Push, PushFails, Clean, Report, Fetch, FetchFails, Work, Status,
         Signal, Deadline, IInv, TypeOK
<1>4. commit'[p] = commit[p]
  <2>1. p \in Commits /\ commit \in [Commits -> [past : SUBSET Commits, files : [Files -> Snapshots]]]
    BY DEF Commits, IInv, TypeOK
  <2>2. UNCHANGED commit \/ \E c : commit' = [commit EXCEPT ![q] = c]
    BY CommitFixed DEF Commit
  <2> QED BY <2>1, <2>2
<1>5. warned'[p] = warned[p] /\ pushed'[p] = pushed[p]
  BY DEF Run, Begin, DryRun, Create, Fill, BackupFails, ReadFile,
         ReadFileFails, AuthFails, Clone,
         CloneFails, Commit, Push, PushFails, Clean, Report, Fetch, FetchFails, Work, Status,
         Signal, Deadline, IInv, TypeOK, answer
<1>6. ASSUME Alone(p) PROVE held'[p] = held[p] /\ disk'[cmd[p].file] = disk[cmd[p].file]
  <2>1. Verb(q) = "backup" => cmd[q].file # cmd[p].file
    BY <1>6 DEF Alone, Unshared
  <2>2. CASE Create(q)
    <3>1. disk' = [disk EXCEPT ![cmd[q].file] = <<q, "part">>] /\ held' = [held EXCEPT ![q] = TRUE]
          /\ cmd[q].file # cmd[p].file
      BY <2>1, <2>2 DEF Create
    <3>2. cmd[p].file \in Files /\ disk \in [Files -> (Snapshots \ {<<>>}) \cup {None}]
          /\ held \in [Procs -> BOOLEAN]
      BY CmdFacts DEF IInv, TypeOK
    <3> QED BY <3>1, <3>2
  <2>3. CASE Fill(q)
    BY <2>1, <2>3 DEF Fill, IInv, TypeOK, Roles, BackupSteps
  <2>4. CASE Clean(q)
    <3>1. Verb(q) = "backup"
      BY <2>4 DEF Clean, IInv, Roles, BackupSteps
    <3>2. cmd[q].file = Temp => cmd[p].file # Temp
      BY <2>1, <3>1
    <3>3. CASE cmd[q].file = Temp
      <4>1. disk' = [disk EXCEPT ![Temp] = None] /\ cmd[p].file # Temp
            /\ held' = [r \in Procs |-> held[r] /\ cmd[r].file # Temp]
        BY <2>4, <3>2, <3>3 DEF Clean
      <4>2. held'[p] = (held[p] /\ cmd[p].file # Temp) /\ held[p] \in BOOLEAN
        BY <4>1 DEF IInv, TypeOK
      <4>3. held'[p] = held[p]
        BY <4>1, <4>2
      <4>4. disk'[cmd[p].file] = disk[cmd[p].file]
        BY <4>1, CmdFacts DEF IInv, TypeOK
      <4> QED BY <4>3, <4>4
    <3>4. CASE cmd[q].file # Temp
      BY <2>4, <3>4 DEF Clean, files
    <3> QED BY <3>3, <3>4
  <2>5. CASE UNCHANGED <<disk, held>>
    BY <2>5
  <2> QED BY <2>2, <2>3, <2>4, <2>5 DEF Run, Begin, DryRun, BackupFails, ReadFile,
             ReadFileFails, AuthFails,
             Clone, CloneFails, Commit, Push, PushFails, Report, Fetch, FetchFails, Work,
             Status, Signal, Deadline, files
<1> QED BY <1>1, <1>2, <1>3, <1>4, <1>5, <1>6

\* The steps of the backup itself.
LEMMA CarriedStays == ASSUME IInv, Carried, NEW q \in Procs, Run(q) PROVE Carried'
<1>a. cmd' = cmd
  BY CmdFixed
<1>b. \A p \in Procs : Alone(p)' <=> Alone(p)
  BY <1>a DEF Alone, Unshared, Verb
<1> SUFFICES ASSUME NEW p \in Procs, Alone(p)
             PROVE  /\ pc'[p] = "fill" => held'[p] /\ disk'[cmd[p].file] = <<p, "part">>
                    /\ pc'[p] = "read" => disk'[cmd[p].file] \in Written(p)
                    /\ pc'[p] \in {"clone", "commit"} => data'[p] \in Written(p)
                    /\ pc'[p] = "push" => commit'[p].files[cmd[p].file] \in Written(p)
  BY <1>a, <1>b DEF Carried, Written
<1>0. /\ pc[p] = "fill" => held[p] /\ disk[cmd[p].file] = <<p, "part">>
      /\ pc[p] = "read" => disk[cmd[p].file] \in Written(p)
      /\ pc[p] \in {"clone", "commit"} => data[p] \in Written(p)
      /\ pc[p] = "push" => commit[p].files[cmd[p].file] \in Written(p)
  BY DEF Carried
<1>1. CASE q # p
  BY <1>0, <1>1, OthersStay
<1>2. CASE q = p
  <2> USE <1>2 DEF At, Step, Leave, LeaveClosed, GitFails
  <2>0. cmd[p].file \in Files /\ pc \in [Procs -> Steps] /\ held \in [Procs -> BOOLEAN]
        /\ disk \in [Files -> (Snapshots \ {<<>>}) \cup {None}] /\ data \in [Procs -> Snapshots]
    BY CmdFacts, TypeGroups DEF IInv, ProcessOK, FilesOK
  <2>1. CASE Create(p)
    BY <2>0, <2>1 DEF Create
  <2>2. CASE Fill(p)
    <3>1. pc[p] = "fill" /\ pc'[p] \in {"read", "report"}
      BY <2>0, <2>2 DEF Fill
    <3>2. held[p] /\ disk[cmd[p].file] = <<p, "part">>
      BY <1>0, <3>1
    <3>3. disk'[cmd[p].file] \in Written(p)
      BY <2>0, <2>2, <3>2 DEF Fill, Written
    <3> QED BY <3>1, <3>3
  <2>3. CASE ReadFile(p)
    <3>1. pc'[p] = "clone" /\ data'[p] \in Written(p)
      BY <1>0, <2>0, <2>3 DEF ReadFile
    <3> QED BY <3>1
  <2>4. CASE Clone(p) \/ CloneFails(p)
    BY <1>0, <2>0, <2>4 DEF Clone, CloneFails
  <2>5. CASE Commit(p)
    <3>1. data[p] \in Written(p) /\ pc'[p] \in {"clean", "push"}
      BY <1>0, <2>0, <2>5 DEF Commit
    <3>2. local[p].base \in Commits \cup {None} /\ p \in Commits
      BY DEF IInv, TypeOK, Commits
    <3>3. DOMAIN FilesOf(local[p].base) = Files
      BY <3>2 DEF IInv, TypeOK, FilesOf
    <3>4. commit'[p].files = [FilesOf(local[p].base) EXCEPT ![cmd[p].file] = data[p]]
      BY <2>5, <3>2 DEF Commit, IInv, TypeOK
    <3>5. commit'[p].files[cmd[p].file] = data[p]
      BY <2>0, <3>3, <3>4
    <3> QED BY <3>1, <3>5
  <2>6. CASE ReadFileFails(p) \/ AuthFails(p) \/ Push(p) \/ PushFails(p) \/ Clean(p)
    BY <2>0, <2>6 DEF ReadFileFails, AuthFails, Push, PushFails, Clean
  <2>7. CASE Begin(p) \/ Fetch(p)
    BY <2>0, <2>7 DEF Begin, Fetch
  <2>8. CASE UNCHANGED <<pc, disk, held, data, commit>>
    BY <1>0, <2>8
  <2> QED BY <2>1, <2>2, <2>3, <2>4, <2>5, <2>6, <2>7, <2>8 DEF Run, DryRun, BackupFails,
             Report, FetchFails, Work, Status, Signal, Deadline, files, clone
<1> QED BY <1>1, <1>2

\* A commit on the remote stays there, under its tag.
LEMMA LandedStays ==
  ASSUME IInv, Grows, NEW q \in Procs, Run(q), NEW p \in Procs, Landed(p)
  PROVE  Landed(p)'
<1>1. p \in Commits /\ p # None /\ cmd' = cmd
  BY CmdFixed, CommandAssumption DEF Commits
<1>2. Reachable(p)' /\ commit'[p] = commit[p]
  BY <1>1, ReachableStays DEF Landed, Grows
<1>3. cmd[p].tag # None => tags'[cmd[p].tag] = p
  BY <1>1, CmdFacts DEF Landed, Grows, IInv
<1> QED BY <1>1, <1>2, <1>3 DEF Landed, Written

LEMMA AnsweredStays ==
  ASSUME IInv, Carried, Answered, Grows, NEW q \in Procs, Run(q) PROVE Answered'
<1>a. cmd' = cmd
  BY CmdFixed
<1>b. \A p \in Procs : Alone(p)' <=> Alone(p)
  BY <1>a DEF Alone, Unshared, Verb
<1> DEFINE Step1(p) == pc'[p] \in {"start", "work", "fill", "read"} => data'[p] = <<>>
           Step2(p) == pc'[p] \notin {"clean", "report"} => ~pushed'[p]
           Step3(p) == pushed'[p] => Landed(p)'
           Step4(p) == pc'[p] \in {"clean", "report"} /\ ~warned'[p] =>
                           pushed'[p] \/ data'[p] = <<>>
           Step5(p) == exit'[p] = 0 /\ ~cmd[p].dry => pc'[p] = "report"
           Good(p) == Step1(p) /\ Step2(p) /\ Step3(p) /\ Step4(p) /\ Step5(p)
<1> SUFFICES ASSUME NEW p \in Procs, Alone(p), cmd[p].git PROVE Good(p)
  BY <1>a, <1>b DEF Answered
<1>0. /\ pc[p] \in {"start", "work", "fill", "read"} => data[p] = <<>>
      /\ pc[p] \notin {"clean", "report"} => ~pushed[p]
      /\ pushed[p] => Landed(p)
      /\ pc[p] \in {"clean", "report"} /\ ~warned[p] => pushed[p] \/ data[p] = <<>>
      /\ exit[p] = 0 /\ ~cmd[p].dry => pc[p] = "report"
  BY DEF Answered
<1>1. Landed(p) => Landed(p)'
  BY LandedStays
<1>2. CASE q # p
  BY <1>0, <1>1, <1>2, OthersStay
<1>3. CASE q = p
  <2> USE <1>3
  <2>0. /\ pc \in [Procs -> Steps] /\ exit \in [Procs -> {-1, 0, 1, 2, 3, 4, 5, 130}]
        /\ warned \in [Procs -> BOOLEAN] /\ pushed \in [Procs -> BOOLEAN]
    BY TypeGroups DEF IInv, ProcessOK, AnswerOK
  <2>1. CASE GitFails(p) /\ Running(p)
    BY <1>0, <1>1, <2>0, <2>1 DEF GitFails, Step, Running
  <2>2. CASE Push(p)
    <3>1. Landed(p)'
      <4>1. At(p, "push") /\ Land(p, Offers(p)) /\ UNCHANGED clone /\ Made \subseteq Made'
            /\ Offers(p) \in SUBSET Takes(p)
        BY <2>2, MadeGrows DEF Push, IInv
      <4>2. Reachable(p)' /\ (cmd[p].tag # None => tags'[cmd[p].tag] = p)
        BY <4>1, LandGrows
      <4>3. commit'[p].files[cmd[p].file] \in Written(p)
        BY <4>1 DEF At, Carried, clone
      <4> QED BY <1>a, <4>2, <4>3 DEF Landed, Written
    <3>2. pc'[p] = "clean" /\ pushed'[p] /\ exit'[p] = -1
      BY <2>0, <2>2 DEF Push, At, Step, Running
    <3> QED BY <3>1, <3>2
  <2>3. ASSUME Running(p), UNCHANGED <<exit, pushed>>, pc'[p] \notin {"clean", "report"},
               pc[p] \notin {"clean", "report"}, Step1(p)
        PROVE  Good(p)
    BY <1>0, <2>3 DEF Running
  <2>4. CASE Begin(p) \/ Create(p) \/ Clone(p) \/ CloneFails(p)
    BY <1>0, <2>0, <2>3, <2>4 DEF Begin, Create, Clone, CloneFails, At, Step, answer
  <2>5. CASE Fill(p)
    BY <1>0, <2>0, <2>3, <2>5 DEF Fill, At, Step, answer
  <2>6. CASE ReadFile(p)
    BY <2>0, <2>3, <2>6 DEF ReadFile, At, Step, answer
  <2>7. CASE ReadFileFails(p)
    BY <1>0, <2>0, <2>7 DEF ReadFileFails, At, Step, Running, answer
  <2>8. CASE Commit(p) /\ Step(p, "push") /\ UNCHANGED answer
    BY <2>0, <2>3, <2>8 DEF Commit, At, Step, answer
  <2>9. CASE Clean(p)
    BY <1>0, <1>1, <2>0, <2>9 DEF Clean, At, Step, Running, answer
  <2>10. CASE Report(p)
    BY <1>0, <1>1, <2>0, <2>10 DEF Report, At, LeaveClosed, answer
  <2>11. CASE Work(p) \/ Status(p) \/ DryRun(p)
    <3>1. cmd[p].dry /\ DryRun(p)
      BY <2>11 DEF Work, Status, DryRun, Codes, Alone, Verb
    <3> QED BY <1>0, <1>1, <3>1 DEF DryRun, Leave, answer
  <2>12. CASE BackupFails(p) \/ FetchFails(p) \/ Deadline(p)
    BY <1>0, <1>1, <2>0, <2>12 DEF BackupFails, FetchFails, Deadline, Leave, LeaveClosed,
       answer
  <2>13. CASE Signal(p)
    BY <1>0, <1>1, <2>0, <2>13 DEF Signal, Running, answer
  <2>14. ~Fetch(p)
    BY DEF Fetch, At, IInv, Roles, Alone
  <2> QED BY <2>1, <2>2, <2>4, <2>5, <2>6, <2>7, <2>8, <2>9, <2>10, <2>11, <2>12, <2>13, <2>14
          DEF Run, AuthFails, Commit, PushFails, At
<1> QED BY <1>2, <1>3

LEMMA ContentsStay == ASSUME IInv, Carried, Contents, NEW p \in Procs, Run(p) PROVE Contents'
<1>1. CASE UNCHANGED commit
  BY <1>1, CmdFixed DEF Contents, AllAlone, Unshared, Verb, Written
<1>2. CASE Commit(p)
  <2> DEFINE base == local[p].base
  <2>1. cmd' = cmd
    BY CmdFixed
  <2> SUFFICES ASSUME AllAlone, NEW c \in Commits, NEW f \in Files, commit'[c].files[f] # <<>>
               PROVE  \E q \in {c} \cup commit'[c].past : commit'[c].files[f] \in Written(q)
    BY <2>1 DEF Contents, AllAlone, Unshared, Verb, Written
  <2>2. p \in Commits /\ base \in Commits \cup {None} /\ cmd[p].file \in Files
    BY CmdFacts DEF IInv, TypeOK, Commits
  <2>3. commit'[p] = [past |-> History(base),
                      files |-> [FilesOf(base) EXCEPT ![cmd[p].file] = data[p]]]
        /\ \A d \in Commits \ {p} : commit'[d] = commit[d]
    BY <1>2, <2>2 DEF Commit, IInv, TypeOK
  <2>4. data[p] \in Written(p)
    BY <1>2 DEF Commit, At, IInv, Roles, BackupSteps, Carried, Alone, AllAlone
  <2>5. CASE c # p
    BY <2>3, <2>5 DEF Contents
  <2>6. CASE c = p /\ f = cmd[p].file
    <3>1. DOMAIN FilesOf(base) = Files
      BY <2>2 DEF IInv, TypeOK, FilesOf
    <3>2. commit'[p].files[f] \in Written(p)
      BY <2>2, <2>3, <2>4, <2>6, <3>1
    <3> QED BY <2>6, <3>2
  <2>7. CASE c = p /\ f # cmd[p].file
    <3>1. DOMAIN FilesOf(base) = Files
      BY <2>2 DEF IInv, TypeOK, FilesOf
    <3>2. commit'[p].files[f] = FilesOf(base)[f] /\ commit'[p].past = History(base)
      BY <2>2, <2>3, <2>7, <3>1
    <3>3. base # None /\ commit[base].files[f] = commit'[p].files[f]
      BY <2>7, <3>2 DEF FilesOf
    <3>4. \E q \in {base} \cup commit[base].past : commit[base].files[f] \in Written(q)
      BY <2>2, <2>7, <3>3 DEF Contents
    <3> QED BY <2>7, <3>2, <3>3, <3>4 DEF History
  <2> QED BY <2>5, <2>6, <2>7
<1> QED BY <1>1, <1>2, CommitFixed

\* Only Fetch gives data to a command that is not a backup.
LEMMA ReadersFetch ==
  ASSUME IInv, NEW q \in Procs, Run(q), NEW p \in Procs, Verb(p) # "backup"
  PROVE  data'[p] = data[p] \/ (p = q /\ Fetch(p))
<1>1. CASE q # p
  BY <1>1, OthersStay
<1>2. CASE q = p
  <2>1. ~ReadFile(p)
    BY DEF ReadFile, At, IInv, Roles, BackupSteps
  <2> QED BY <1>2, <2>1 DEF Run, Begin, DryRun, Create, Fill, BackupFails, ReadFileFails,
             AuthFails, Clone, CloneFails, Commit, Push, PushFails, Clean, Report, FetchFails, Work, Status,
             Signal, Deadline
<1> QED BY <1>1, <1>2

LEMMA TagsStay ==
  ASSUME IInv, Grows, Contents, ByTag, TagReadsBack, NEW q \in Procs, Run(q)
  PROVE  ByTag' /\ TagReadsBack'
<1>1. cmd' = cmd
  BY CmdFixed
<1>2. ASSUME NEW p \in Procs, Fetch(p)
      PROVE  /\ cmd[p].tag \in Tags /\ tags[cmd[p].tag] \in Procs
             /\ data'[p] = commit[tags[cmd[p].tag]].files[cmd[p].file]
             /\ UNCHANGED <<tags, commit>>
  <2>1. cmd[p].tag \in Tags /\ tags[cmd[p].tag] \in Procs
    BY <1>2, CmdFacts DEF Fetch, InTag, IInv, TypeOK
  <2> QED BY <1>2, <2>1 DEF Fetch, IInv, TypeOK, remote, clone
<1>3. ByTag'
  BY <1>1, <1>2, ReadersFetch DEF ByTag, Verb
<1>4. TagReadsBack'
  <2> SUFFICES ASSUME NEW p \in Procs, Verb(p) # "backup", data'[p] # <<>>, AllAlone
               PROVE  \E r \in History(tags[cmd[p].tag])' : data'[p] \in Written(r)
    BY <1>1 DEF TagReadsBack, AllAlone, Unshared, Verb, Written
  <2> DEFINE c == tags[cmd[p].tag]
  <2>1. CASE data'[p] = data[p]
    <3>1. cmd[p].tag \in Tags
      BY <2>1 DEF ByTag
    <3>2. PICK r \in History(c) : data[p] \in Written(r)
      BY <2>1 DEF TagReadsBack, AllAlone, Unshared, Verb, Written
    <3>3. c # None /\ c \in Commits
      BY <3>1, <3>2 DEF History, IInv, TypeOK, Commits
    <3>4. tags'[cmd[p].tag] = c /\ commit'[c] = commit[c]
      BY <3>1, <3>3 DEF Grows, Reachable, History
    <3>5. History(tags[cmd[p].tag])' = History(c)
      BY <1>1, <3>4 DEF History
    <3> QED BY <2>1, <3>2, <3>5
  <2>2. CASE p = q /\ Fetch(p)
    <3>1. cmd[p].tag \in Tags /\ c \in Procs /\ data'[p] = commit[c].files[cmd[p].file]
          /\ UNCHANGED <<tags, commit>>
      BY <1>2, <2>2
    <3>2. c \in Commits /\ c # None /\ cmd[p].file \in Files
      BY <3>1, CmdFacts, CommandAssumption DEF IInv, Commits
    <3>3. \E r \in {c} \cup commit[c].past : data'[p] \in Written(r)
      BY <3>1, <3>2 DEF Contents
    <3>4. History(tags[cmd[p].tag])' = {c} \cup commit[c].past
      BY <1>1, <3>1, <3>2 DEF History
    <3> QED BY <3>3, <3>4
  <2> QED BY <2>1, <2>2, ReadersFetch
<1> QED BY <1>3, <1>4

LEMMA FullStays == Full /\ [Next]_vars => Full' /\ (Grows \/ UNCHANGED vars)
<1>1. ASSUME Full, NEW p \in Procs, Run(p) PROVE Full' /\ Grows
  <2>1. Grows
    BY <1>1, RemoteStep DEF Full
  <2>2. IInv'
    BY <1>1, NextPreserves DEF Full, Next
  <2> QED BY <1>1, <2>1, <2>2, CarriedStays, AnsweredStays, ContentsStay, TagsStay DEF Full
<1>2. ASSUME Full, UNCHANGED vars PROVE Full'
  <2>1. IInv'
    BY <1>2, NextPreserves DEF Full
  <2>2. UNCHANGED <<cmd, pc, exit, disk, held, data, local, commit, heads, tags, warned, pushed>>
    BY <1>2 DEF vars, process, files, clone, remote, answer
  <2>3. Carried' /\ Contents' /\ ByTag'
    BY <1>2, <2>2 DEF Full, Carried, Contents, ByTag, Alone, AllAlone, Unshared, Verb, Written
  <2>4. Answered' /\ TagReadsBack'
    BY <1>2, <2>2 DEF Full, Answered, Landed, TagReadsBack, Alone, Unshared, Verb, Written,
       Reachable, History
  <2> QED BY <2>1, <2>3, <2>4 DEF Full
<1> QED BY <1>1, <1>2 DEF Next, Over

LEMMA Invariance == Spec => []Full
BY InitFull, FullStays, PTL DEF Spec

----------------------------------------------------------------------------
\* The cells keep their types: exit codes, clones, commits, the remote.
THEOREM TypeCorrect == Spec => []TypeOK
<1>1. Full => TypeOK
  BY DEF Full, IInv
<1> QED BY <1>1, Invariance, PTL

\* No commit that a branch of the remote contained is ever lost and no tag
\* moves: a push lands only on top of what is there.
THEOREM PushesOnlyAdd == Spec => RemoteOnlyGrows
<1>1. Full /\ [Next]_vars =>
        [/\ \A b \in Branches : History(heads[b]) \subseteq History(heads[b])'
         /\ \A t \in Tags : tags[t] # None => tags'[t] = tags[t]
         /\ \A c \in Commits : Reachable(c) => commit'[c] = commit[c]]_vars
  BY FullStays DEF Grows
<1> QED BY <1>1, Invariance, PTL DEF Spec, RemoteOnlyGrows

\* runBackup exits with 0 and prints no warning only when the commit it names is
\* in the repository for good, with the file as the backup closed it and the tag
\* asked for, or when it names none and could not read its own file back.
THEOREM QuietIsHonest == Spec => []QuietMeansPushed
<1>1. Full => QuietMeansPushed
  <2> SUFFICES ASSUME Full, NEW p \in Procs, Verb(p) = "backup", cmd[p].git, ~cmd[p].dry,
                      Unshared(p), exit[p] = 0, ~warned[p]
               PROVE  IF pushed[p] THEN Landed(p) ELSE data[p] = <<>>
    BY DEF QuietMeansPushed, Landed
  <2>1. Alone(p) /\ pc[p] = "report"
    BY DEF Full, Answered, Alone
  <2> QED BY <2>1 DEF Full, Answered
<1> QED BY <1>1, Invariance, PTL

\* What ReadSnapshotFromGit finds under a tag is a snapshot that a backup wrote
\* to its end, committed at that tag or before it.
THEOREM TagsReadBack == Spec => []TagReadsBack
<1>1. Full => TagReadsBack
  BY DEF Full
<1> QED BY <1>1, Invariance, PTL

=============================================================================
