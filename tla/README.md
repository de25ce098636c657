# dtreesync in TLA+

TLA+ models of dtreesync, a Go program and library that records the directory
structure of a file system in snapshots (without reading the files) and
restores it elsewhere. The models follow the source at the lines listed for
every definition in `PROJECT.json` under `map`. TLC checks them on small
instances; every safety property that TLC finds true of the ten state machines
is also proved with TLAPS, for all values of their constants.

Run TLC with `tlc -config <run>.cfg <MC module>`, the prover with
`tlapm <name>_proofs.tla`.

## The system

| Component | State it keeps | Operations | Talks to |
|---|---|---|---|
| Scanner (`internal/core/scanner.go`) | worker pool, task and discovery channels, coordinator's backlog, WaitGroup | `Stream` | caller's channel and context, rate limiter, audit logger |
| Range iterator (`pkg/dtreesync/iter.go`) | loop position, derived context | `Scan` | runs a Scanner, yields to the caller's loop body |
| Rate limiter (`internal/model/ratelimit.go`) | token bucket | `Wait` | context of the caller |
| Audit logger (`internal/model/audit.go`) | queue, buffered writer with its sticky error, counters, two locks | `Log`, `Sync`, `Close`, worker and ticker | every component logs through it |
| Backup (`internal/core/backup.go`) | records, payload buffer that spills to a temporary file, destination | `Backup` | Scanner, a snapshot writer, retention |
| Retention (`internal/core/retention.go`) | none; the folder of snapshots | `ApplyRetention` | called after each successful backup |
| SQLite snapshots (`internal/format/sqlite.go`) | database, open transaction, row counts | `NewSQLiteWriter`, `WriteHeader`, `WriteRecord`, `Rollback`, `Close`, readers | Backup, Verify, Restore |
| Text formats (`tsv.go`, `ndjson.go`, `compress.go`) | buffered writer | header and record codecs | Backup, Verify, Restore |
| Verify (`internal/core/verify.go`) | none | `Verify`, `verifySQLite` | snapshot readers |
| Restore (`internal/core/restore.go`) | records by depth, goroutines of a layer, warnings | `Restore` | snapshot readers, platform metadata, Evacuate |
| Mirror evacuation (`internal/core/mirror.go`) | tar and zstd writers, archive file | `EvacuateUntracked` | called by Restore in mirror mode |
| Diff (`internal/core/diff.go`) | none | `Diff` | Scanner, snapshot readers |
| Paths and filters (`internal/model/path.go`), identity map (`idmap.go`) | none | pure functions | Scanner, Restore, Diff |
| Platform metadata (`internal/meta`) | none | system calls | Scanner, Restore |
| Git storage (`internal/storage/git.go`) | an in-memory clone | `CommitSnapshotToGit`, `ReadSnapshotFromGit` | command line, a remote repository |
| Cloud storage and secrets (`cloud.go`, `secret.go`, `auth.go`) | the environment of the process, decrypted credential files | `NewCloudReader`, `NewCloudWriter` (and `WithKey`), `PrepareCloudAuth` and its cleanup | Backup, Restore, Diff, Verify |
| Signal trap (`internal/core/signal.go`) | signal count | cancel, exit after 500 ms, exit on a second signal | context of the command |
| Command line (`cmd/dtreesync`) | flags | six subcommands | the public API |

What is hard about it:

* **Concurrency.** The scanner detects the end of a walk whose size nobody
  knows in advance with a WaitGroup that several goroutines raise and lower;
  workers, coordinator and consumer are coupled by bounded channels; a
  cancellation may hit any of them. The logger accepts calls while it is being
  closed. A restore starts a goroutine per directory.
* **Order.** A parent has to be created before its children, and timestamps
  set after everything below has settled. Evacuation removes items while their
  bytes are still in a compressor.
* **Sharing.** Git backups of one host use one temporary file; their remote is
  pushed to by others. Cloud streams of one process share its environment.
* **Agreement.** Four components decide what a record means: the scan that
  selects it, the writer that spells it, the reader that trims it and the
  comparison that filters it again. Each is simple, and they are not inverses.
* **Failure.** Every system call can fail, disks fill up, and the process exits
  hard at the drain deadline or a second signal. Snapshots are written in place,
  without a temporary name and rename, and several runs share a folder.

## Modules

`TreeWalk` is the abstract specification of a scan: a walk from the root down
that shows every directory at most once and before it is opened, gives up only
what cannot be read or not in time, and is complete when it says so. `Scanner`
refines it.
`ScanIter` extends `Scanner` and composes it with the iterator. `Drift` composes
`Paths`, `TextSnapshot` and `Identity`, three modules of operators, into the life
of a snapshot. The other models stand alone, since the components share no state
but files. Each `MC` module holds the instances for TLC, each `_proofs` module
the theorems about its namesake; `Scanner_proofs` also has those about
`ScanIter`, and `Snapshot_proofs` those about `SQLiteSnapshot` and `Drift`, the
two ways a snapshot is kept. Definitions marked `Mutant` or called a variant
are faulty versions that belong to no specification; each shows that a property
can tell the code from a plausible error.

**Scanner.** `stream` is the control point of `Stream`; `pc` and `task` those of
the workers; `coord` and `waiter` the two helper goroutines. `queue`,
`taskChan` and `discovery` are sets, because `ReadDir` and the scheduler may
produce any order and no property depends on it. `sent` is the history of the
output channel and `rcvd` how far the consumer got. `Begin` to `Finish` are the
steps of `processTask` between two points where another goroutine can
interfere. `Pruned` stands for everything that keeps a subdirectory from being
a task (depth and scope, exclusion, another device, a symbolic link), `Included`
for the include filter, `Flaky` for directories whose metadata or listing may
fail, `Throttled` and `Deadline` for a rate limiter, whose `Wait` fails at once
when the context has a deadline it could not meet. It refuses a directory only
then (`LimiterRefuses`), and such a directory is `Late` in the instances: the
workers treat it as one that cannot be read, and go on.

**ScanIter.** The consumer is the loop of `Scan`: it yields, the body may
break, and then the iterator cancels and drains; at the end it reports an error
unless that is `context.Canceled`.

**AuditLogger.** `pc` is where each caller of `Log` stands (`closeMu` is held in
`send` and `retry`), `cpc` the same for `Close`. `queue` is the channel,
`buffer` the `bufio.Writer`, `file` the device, `broken` the writer's sticky
error. `seq`, `refused`, `dropped` and `skipped` count calls and losses;
`refused` (calls after `Close`, which the code adds to `droppedLogs`) and
`skipped` (records lost to encoding or the device, which it counts nowhere) are
the model's own.

**Restore.** `job` is the restore at work, chosen at the start: snapshot,
filter, state of the target, failing directories, options. `at` is the position
of each record's goroutine; `exists`, `mode` and `stamp` are the target tree.
`mode[d]` names the record whose mode `d` got, because `MkdirAll` can create a
parent on behalf of a child. `stamp[d]` drops back to `now` whenever an entry of
`d` changes. The mirror walk, each evacuation and the reverse pass are actions
of their own, as another process or a cancellation can come in between. `Chain[d]`
is `d` with everything above it, the smallest set closed under `Parent`.

**Evacuate.** `pipe` holds the files in the tar and zstd writers, `disk` the
archives by the second in their name. `Spill` moves data on at any time, as the
encoder does; `broken` is a failed archive. Other processes deliver files
(`Arrive`) and take them (`Depart`). `Restore` treats a whole evacuation as one
step per item; this module opens that step up.

**SQLiteSnapshot.** `Writers` are backups that name the same database, in turn
or at once. `written` and `inBatch` are `rowCount` and `inBatch` of the writer,
`rows` and `meta` the committed tables, `lock` SQLite's write lock, which is
taken by the first insert of a batch. The paths are unique in the table, as in
the schema. The journal is in memory, so a process that dies while it changes
pages leaves a transaction that nobody undoes. `Die` has three outcomes: nothing
of the transaction, all of it (`Arrives`), or a torn file (`Tears`), which loses
any part of its rows and from then on may accept or refuse any statement
(`damaged`). Pages are written whole; a loss of power is outside the model.

**Backup.** `spool` tells what became of the payload buffer, `next` and `offset`
how far a run has written, `files` the contents of the snapshot folder as blocks,
`newer[f]` the files modified after `f`, `victims` what retention decided from
its listing. Open truncates; each run writes at its own offset; a file that
retention removes under a running writer loses its name (`linked`). Blocks stand
for a bufio buffer of records. The suffix and prefix filters of retention choose
which files are in `Names` at all.

**Command.** Processes of one host, each with one command line (`cmd`) and a
program counter through `main.go`: audit log, scan and write, reading the file
back, clone, commit, push, removal of the temporary file, exit. `disk` is what
the snapshot files hold, `local` the clone (its branch, the commit it builds on,
the tags it saw), `commit` what each process committed, `heads` and `tags` the
remote. Commits are named by their process, as none commits twice. `Clone` has
both fallbacks of `git.go`. A push offers the branch and the tag, and the remote
decides for each (`Takes`), so a failed one may have landed in part. A file that
was closed is whole or, through an ignored flush error, short. Reading it back
may fail for any reason, a cloud URL among them, and then the git step is
skipped without a word (`ReadFileFails`).
`Signal` and `Deadline` are the signal trap: the first signal cancels; at the
second, or after 500 ms, the process exits whatever it is doing.

**CloudAuth.** The environment `env` is shared by all streams. A stream looks
variables up one after the other (`Look`), replaces those that hold ciphertext
(`Set`), opens its bucket (`used` is what the client saw) and puts the old values
back when it is closed (`PutBack`). A credential file that cannot be inspected
or read is passed over in silence (`Miss`). A step ends wherever another stream
may come in between. The process does not exit in this model: `os.Exit` with a
stream open leaves its decrypted file behind.

**Paths.** Paths are sequences of names, patterns sequences of segments.
`MatchGlob` has the three branches of the code: the regular expression built for
`**`, segment-wise matching, and the attempt on the leaf name. `FilterMatches` is
the record filter, `Scanned` what the traversal with its own rules reaches.

**TextSnapshot.** The `form` of a name says what is unusual about its spelling;
`Row` and `ReadRecords` are what writers and readers do to it; a TSV row has no
column for the SID of the owner (`WithoutSid`), and the NDJSON reader takes
whatever comes first for the header. A record keeps the number of its
row, so that a skipped comment leaves a gap and renumbers nothing. `Verify` has the
tiers of the verification: sound frames and a header, normal and complete rows,
the count and the hash.

**Identity.** `ReadMeta`, `ApplyMeta` and the identity map. In the text of a
descriptor the mapped SIDs are replaced one after the other (`Rewritten`), in any
order that puts longer ones first; a SID is a sequence, because the code
replaces it wherever the text matches and so also at the beginning of a longer
one. The SID of the owner is looked up as a whole.

**Drift.** One step per command (`CycleNext`): `Backup`, `Damage` (an unsound
frame, a lost header, a torn or a missing end, a changed row), `RunVerify`,
`RestoreAway` on a host with other accounts, and `Diff` with or without the map
and the tolerance of owners, while users `Change` the tree. `artifact` is the
snapshot file, `scene` what is tried: a format, a tree, the filter of the backup
and those of the comparisons, a map. `taken`, `base` and `moved` are history.

## What the runs show

| Run | Instance | Distinct states |
|---|---|---|
| `Scanner_walk` | 7 directories, 2 workers, all channels of capacity 1, limiter with deadline, cancellation, 2 unreliable directories | 98 000 |
| `ScanIter_loop` | 5 directories, 2 workers, limiter, deadline, break, cancellation | 158 000 |
| `AuditLogger_trail` | 2 producers with up to 3 calls each, 2 closers, queue and buffer of 2, an unencodable record, a failing device | 69 000 |
| `Restore_tree` | 8 paths in 4 layers, 5 restores (plain, occupied mirror, throttled mirror, without ApplyPerms, unprivileged), 2 threads | 39 000 |
| `Evacuate_archive` | 2 evacuations, 3 items, 5 files, 2 seconds, full disk, death, cancellation | 536 000 |
| `SQLite_file` | 3 backups of 2 or 3 records, batches of 2, failing statements, death between and within transactions | 208 000 |
| `Backup_folder` | 3 runs; in turn under three names, or overlapping with two of them in one name; one compressed, one with a failing payload buffer; retention to one file | 1 863 000 |
| `Command_line` | 3 processes in 6 cases: backups that share the temporary file, use one of their own, write to the cloud or race for a tag, a reader by tag, commands without git; a remote with the target branch, another one, or none; failing network and disk, up to 2 signals | 667 000 |
| `CloudAuth_streams` | 3 overlapping streams, one without a key, over an encrypted value and an encrypted file that may be unreadable | 120 000 |
| `Drift_cycle` | 15 scenes: both formats, unusual names, filters of each kind, identity maps, descriptors; each damaged, verified, restored and compared, with up to 2 changes | 334 000 |
| `Restore_filtered` | a mirror restore with a filter (violation) | |
| `Drift_filtered` | comparisons with a filter the backup had not (violation) | |

Capacities of one are where blocking happens soonest, and larger ones only add
slack; two workers suffice for every pair of goroutines to meet, and the proofs
cover any number. Two layers above and two below a directory cover every
relation the restore's passes distinguish. A batch of two and three records give
a full batch, an open one and a boundary that coincides with the end. Retention
to one file is the strictest. Three processes are two that race and one that
reads; three streams let one end while two others overlap. Each rule of the
formats, filters and maps is reached by a scene of its own, and two changes are
one that shows and one that might hide it.

**Scanner.** `WaitGroupSound`: the WaitGroup counts exactly what is outstanding,
so the pool is never shut down early and the counter never goes negative.
`ParentFirst`, `QuietAfterClose`: order of records, no send on the closed
channel. `WalksTheTree`: refinement of `TreeWalk`, so nil means complete up to
unreadable subtrees. `WalkEnds`: the channels never deadlock for a caller that
drains or cancels. A directory that the limiter refuses because of a deadline is
given up like an unreadable one, and nil then leaves it out, with what is below.

**Iterator.** `SilentEndIsComplete`: a loop without an error saw all but what lies
below unreadable and late directories, or its caller had cancelled the context,
which the iterator reports as nothing at all (`iter.go:65`). `BreakStopsThePool`,
`LoopEnds`.

**Audit logger.** `NoSendOnClosed` (a panic otherwise), `NothingVanishes` (all
calls accounted for), `DrainedOnClose`, `OrderKept`, `CallsReturn` (`Log` even if
the device hangs, `Close` if it does not), `Recorded`.

**Restore.** `OwnMode` (no directory keeps the mode it got on behalf of a
child), `Accounted` (made or warned of), `TimesExact` (later steps disturb no
timestamp), `MirrorClean`, `RestoreEnds`.

**Evacuation.** `PackedBeforePurged`, `NilMeansArchived`, `OnlyDisasterLoses`
(read errors, vanishing files and cancellation lose nothing), `EvacuationEnds`.

**SQLite.** `RowsOfOneRun` (retries and overlapping backups never mix, although
several transactions could interleave), `SuccessIsStored` and
`LoneHeaderIsHonest` (without an error of `verifySQLite`, the file is complete),
each as long as no death tore the file; `LockHeldByWriter` always. The error is
all that `LoneHeaderIsHonest` speaks of: the three flags, from which the command
line prints its verdict, do not follow it (see below).

**Backup and retention.** `VerifiedIsWhole`: what Verify accepts was written to
the end by one run, even when two write to one name. `SuccessIsStored`.
`AlwaysASnapshot`: partial files count as the newest, yet pruning follows only a
success. The exceptions each names are real: an ignored flush error.

**Command.** `QuietMeansPushed`: exit 0 without a warning does not mean that the
snapshot was pushed, for it may not have been read back. If the result names a
commit, though, it is in the remote's history and under its tag, with the file as
the backup closed it; if not, nothing was read. `TagReadsBack`: a reader by tag
sees what a backup at or before that tag had closed, nothing later and no file in
the making. `RemoteOnlyGrows`, also when half a push lands.

**Cloud streams.** `EnvRestored`: whatever order streams end in, the user's
ciphertext is back and no decrypted file stays. `AloneIsUsable`: a stream nobody
overlaps opens with what was decrypted, but for files it could not look into.
Overlapping streams may open with ciphertext that another one has put back.

**Drift.** `VerifiedReadsBack`: what Verify accepts reads back as it was taken,
for names the format can express. `NoFalseDrift` and `ChangesShow`: with the
filter of the backup, a comparison reports what changed and nothing else, unless
the filter excludes the root itself. `RestoredIsAligned`: after a migration
through a map, a comparison through the same map reports only owners that have no
account, and descriptors where the map sends a SID to one that is mapped again or
an unmapped SID begins like a mapped one.

### Where code and documentation disagree

Two runs end in a counterexample, each to a sentence of the repository:

* `Restore_filtered`: a mirror restore with a filter evacuates directories of
  the snapshot, for unexpected means absent from the filtered records
  (`restore.go:258`; `DESIGN.md:495` says absent from the snapshot).
* `Drift_filtered`: a scan does not enter an excluded directory, but the filter
  keeps the records below it, so `diff --exclude a` reports `a/b` as missing
  (`diff.go:49`, `scanner.go:335`; `README.md:196` says filters scope the
  verification).

Seen while modelling, without a run of their own:

* Scan: after a break, tasks still queued are never counted down and the
  goroutine in `taskWG.Wait` stays (`scanner.go:153`; `iter.go:5`).
* Restore: a cancellation in the reverse pass only breaks the loop, and success
  is reported with timestamps unset (`restore.go:289`). Modes are applied in the
  forward pass (`restore.go:212`), not after the children as `README.md:28` says,
  so an unprivileged restore loses the children of a read-only directory, each
  with a warning. `--base-substitute` is not compared with the base folder of the
  header (`DESIGN.md:518`).
* Evacuation: a disk that fills, or a process that exits, after an item was
  removed and before its bytes left the compressor loses it (`mirror.go:96`;
  `DESIGN.md:502`). A file delivered between the packing of an item and its
  removal is removed unarchived, and two evacuations in one second share an
  archive.
* Snapshots: the last `Flush` of the payload and of the header is unchecked
  (`backup.go:200`, `backup.go:266`). `O_TRUNC` destroys the previous snapshot of
  a name before the new one is complete (`backup.go:238`), and overlapping runs
  can purge each other's only one. A failure after the first batch leaves part of
  a snapshot in an SQLite file (`sqlite.go:156`; `sqlite.go:11`), with which the
  retry collides; a database with two metadata rows is judged by the older one
  (`sqlite.go:259`). `verifySQLite` reports in two ways that do not agree: a
  failed `integrity_check` clears a flag and returns no error, and a wrong count
  returns an error and leaves the flags set (`verify.go:348`), so that `verify`
  prints PASSED and exits 0 for a partial database (`main.go:790`;
  `README.md:203` says 4). A process killed within a batch, or within the one
  metadata row of a later backup, can tear a file that was complete.
* Formats: TSV loses rows whose first column begins with `#`, a directory named
  `-`, tabs and trailing blanks in names, although Verify accepts the file;
  NDJSON replaces what is not UTF-8; Verify refuses good snapshots with reserved
  or backslash names; an uncompressed file cut at a line restores silently, for
  neither reader looks at count or hash, and NDJSON without its header restores
  all but the first record (`ndjson.go:112`).
* Comparison: timestamps are never compared (`README.md:185`), nor are numeric
  owners and groups (`DESIGN.md:618`), nor the SID of the owner from TSV, which
  has no column for it (`tsv.go:34`). A map that sends one SID to another mapped
  one rewrites it twice in the descriptor, and a mapped SID is also replaced at
  the beginning of a longer one that is not mapped, for the substitution is one
  of text (`idmap.go:157`; `DESIGN.md:437` speaks of tokens, `idmap.go:6` of
  preventing prefix collisions).
* Command: a failing push or an unreadable file is a warning or nothing at all,
  with exit 0 (`main.go:395`, `main.go:378`); the temporary file is shared
  (`main.go:247`); a tag may be pushed without its branch (`git.go:199`); a dry
  run never closes its log, and may lose the end of it, for `osExit` runs no
  deferred call (`main.go:318`); `--git-ref` is looked up as a tag only; the
  secret key of the command line never reaches the cloud streams, and an
  encrypted credential file that cannot be read is used as it is
  (`secret.go:260`). The exit codes of `README.md:109` are not those of
  `signal.go:29`.

## Fairness

Weak fairness of goroutine steps: the Go scheduler runs what is runnable, and a
`select` with a ready case proceeds. No fairness is assumed of environment
actions: cancelling, failing, dying, delivering, breaking out of a loop, calling
`Log` or `Close`. A consumer that takes records (`WalkEnds`) and an audit worker
whose writes return (`Recorded`, and `Close` in `CallsReturn`) are premises of
the properties that need them. `Command` assumes none, as scans and network calls
may hang; that the 500 ms timer ends a process would be the fairness of one
action and nothing more. `Backup`, `SQLiteSnapshot`, `CloudAuth` and `Drift` are
straight-line code without waits (SQLite refuses a busy file at once), so
nothing there is said about liveness.

## What is proved

Each proof module finds the inductive invariant behind the properties and derives
them from it, for every value of the constants that meets the named assumptions.
The assumptions are those of the code: finite trees with a root, positive
capacities and batch sizes, snapshots whose first record is the root, items that
do not overlap, paths that do not lie above themselves. Those of `Drift`
(`HostAssumption`, `SceneAssumption`) say that what lies above a directory is a
directory, that paths, SIDs and descriptors are sequences, that a host has modes
or descriptors and not both, that trees and maps are finite, and that a backup is
confined to one entity at most (`--entity` of `backup` is one name,
`main.go:223`). A module that extends two models inherits the assumptions of both
and uses in each theorem only those of its own.

Every module has a `TypeCorrect`; for `ScanIter` and `Drift` the invariants
`IterInv` and `CycleInv` bound the variables more closely than types would.

* **`Scanner_proofs`**: `WaitGroupIsSound`, `EmissionOrder`, `NilIsComplete`,
  `ClosedIsQuiet` and the refinement `ScannerWalksTheTree`. That the counter is
  exact needs that a finishing task is outstanding (`Places`: each such task is
  in exactly one place), which needs that a discovered directory was not
  discovered before (`Disjoint`, from the tree); `Phases`, `Progress` and
  `Endings` tie the control points together. For the range loop `SilentEnd`,
  `BreakIsClean` and `IteratorWalksTheTree`: to the scan, the loop's own steps
  are a reception, a cancellation or nothing, so its invariant carries over;
  `IterInv` adds who cancelled the context (`cause`), that within the loop
  everything received was yielded, and that it is over only when Stream has
  returned and the channel is empty.
* **`AuditLogger_proofs`**: `NoPanic`, `ClosedIsDrained`, `DeviceUntouched`,
  `EveryRecordAccounted`, `OrderIsKept`. A closer that waits has closed the
  queue, and the worker leaves only a drained one (`JoinersClosed`, `WorkerLeft`,
  `ClosedLast`). For the order, device, buffer and queue are one trail; a step
  may lose records of it or append one, which keeps it in order.
* **`Restore_proofs`**: `ModesAreOwn`, `AllAccounted`, `TimesAreExact`,
  `MirrorIsClean`. Layers are joined (`Joined`), so each pass has settled what
  lies on the near side of its layer: on the way down everything is reported
  (`Reported`, `Silence`) and no recorded directory below the layer exists
  through this restore (`Grown`); on the way up the times are set (`Stamped`) and
  nothing below is touched again. Until the evacuation every path has what lies
  above it (`Rooted`), so the walk meets it or something unexpected above it;
  from then on what is unexpected is on the list or below something that is
  (`Leftovers`), and taking whole subtrees keeps that true.
* **`Evacuate_proofs`**: `NothingPurgedUnpacked`, `NilIsHonest`,
  `ErrorsAreHarmless`. What an item holds at its removal was listed by the walk
  or came later (`Listed`), and what was listed was packed (`Written`); `Drained`
  says when the compressors hold nothing back.
* **`Snapshot_proofs`**, SQLite files: `LockDiscipline`, `OneRunOnly`,
  `SuccessStays`, `LoneHeader`. The first record of every tree is the root and
  paths are UNIQUE, so a backup that inserted anything owns the file (`Held`). The
  last three hold until a death tears the file, and the invariant claims nothing
  of its rows from then on.
* **`Snapshot_proofs`**, the life of a text snapshot: `VerifiedIsReadBack`,
  `DriftIsReal`, `ChangesAreShown`, `RestoreAligns`, all from `CycleInv`. The
  records are those of the scan, each directory once, as it was (`Complete`); the
  file is what the backup wrote or one of its damaged forms (`Stored`), and no
  damaged one passes the verification; the report is about the tree and the file
  as they are (`UpToDate`). The lemmas are about the operators: what a format can
  spell is read back as it was written, a scan with a filter and the filter on
  its records select the same paths, `Items` lists exactly the differences, a
  restored directory has the state of its record. What a chain of replacements
  makes of a SID (`Rewritten`, a recursive function) is proved by well-founded
  induction over the number of replacements done: without chained or overlapping
  SIDs it is what a look-up in the map gives (`RewrittenOnce`).
* **`Backup_proofs`**: `VerifiedWhole`, `SuccessStored`, `StillASnapshot`. Every
  block of a file was written by its run (`Traced`), hence one that ends in the
  last block of a stream is of a run that got there; a run with its name to
  itself finds there what it wrote (`Content`). In turn, the run at work has the
  newest file (`Newest`), which it therefore does not find expired and which
  stays settled until the next success (`OneSettled`).
* **`Command_proofs`**: `PushesOnlyAdd`, `QuietIsHonest`, `TagsReadBack`. What a
  branch, tag, clone or commit refers to has been made and does not change
  (`Refs`), and histories are closed (`Closed`). A backup with its file to itself
  carries from it to its commit what it wrote before it closed the file, or stops
  before the commit; and what has landed, whole push or half of one, stays
  (`LandedStays`).
* **`CloudAuth_proofs`**: `Restored`, `UsableAlone`. Only the user's values are
  encrypted and only encrypted values are noted, so whoever puts a value back puts
  back the user's, also when streams overlap. A stream that nobody crossed is the
  only one at work (`Exclusive`), so what it has been through stays decrypted, or
  is a file it has missed, and its files stay (`Solo`).

Only model-checked: liveness (`WalkEnds`, `LoopEnds`, `CallsReturn`, `Recorded`,
`RestoreEnds`, `EvacuationEnds`), which rests on fairness and so on
ENABLED, out of the prover's reach. The two violation runs are counterexamples
and stay with TLC.

## Not modelled

Uploads; loss of power; an exit with cloud streams open; URL parsing and
caller-supplied writers of cloud destinations; cryptography; Windows attributes
and privileges; `--base-substitute` and the rebasing of paths;
`ValidateAndCleanPath`; glob segments that mix `**` with other characters; TSV
rows torn inside a column; detection of format and compression from a file name;
token rates of the limiter; usage errors, version and printing; the test data
generators. They keep no state the properties are about, or belong to libraries
and the operating system. `PROJECT.json` lists every component with its status.
