------------------------------- MODULE Drift -------------------------------
(***************************************************************************)
(* The life of a text snapshot: it is taken of a directory tree            *)
(* (internal/core/backup.go), may be damaged where it is kept, is verified *)
(* (verify.go), restored on another host (restore.go) and compared with    *)
(* the tree, which has changed in the meantime (diff.go).                  *)
(*                                                                         *)
(* Each operation is one step: how scans, writers and restores interleave  *)
(* inside is the subject of Scanner, Backup and Restore.  Here it matters  *)
(* what survives from one operation to the next: names through the text    *)
(* formats, owners through the identity map, paths through the filters.    *)
(***************************************************************************)
EXTENDS TextSnapshot, Identity, FiniteSets

CONSTANTS
    Scenes,     \* what may be tried: [format, zipped, tree, made, take, map, ask]
    Modes, Uids, Acls,  \* what chmod, chown and setfacl may choose from,
    Descriptors,        \* and icacls
    Fresh,      \* the paths that may be created
    Home, Away, \* the accounts of the host of the tree and of the one restored to
    MaxChanges  \* changes made to the tree; bound

\* A path is a sequence of names, an account name is not the empty one, and a
\* directory, [mode, uid, acl, sddl], has a mode on a POSIX host or a descriptor
\* on a Windows host, which is a sequence of SIDs.  What lies above a directory
\* is a directory.  A backup is confined to one entity at most.
IsSeq(p) == p \in Seq({p[k] : k \in DOMAIN p})
Kindred(m, n) ==
    /\ DOMAIN m = {"mode", "uid", "acl", "sddl"} /\ DOMAIN n = DOMAIN m
    /\ m.mode = None <=> n.mode = None
    /\ m.sddl = <<>> <=> n.sddl = <<>>

ASSUME HostAssumption ==
    /\ \A uid \in DOMAIN Home : Home[uid] # None
    /\ None \notin Modes /\ <<>> \notin Descriptors
    /\ \A p \in Fresh : IsSeq(p)
    /\ MaxChanges \in Nat

ASSUME SceneAssumption ==
    \A s \in Scenes :
        /\ s.format \in {"tsv", "ndjson"} /\ s.zipped \in BOOLEAN
        /\ IsFiniteSet(DOMAIN s.tree) /\ <<>> \in DOMAIN s.tree
        /\ \A p \in DOMAIN s.tree :
            /\ IsSeq(p) /\ Lineage(p) \subseteq DOMAIN s.tree
            /\ Kindred(s.tree[p], s.made)
            /\ IsSeq(s.tree[p].sddl) /\ \A k \in DOMAIN s.tree[p].sddl : IsSeq(s.tree[p].sddl[k])
        /\ IsFiniteSet(DOMAIN s.map.sids)
        /\ \A sid \in DOMAIN s.map.sids : IsSeq(sid) /\ IsSeq(s.map.sids[sid])
        /\ \A e, f \in s.take.entities : e = f

VARIABLES
    scene,     \* the scene; made is the state of a new directory, take the filter of
               \* the backup and ask those of the comparisons
    live,      \* the directories of the tree and their states
    payload,   \* those that hold a file
    accounts,  \* of the host of the tree
    artifact,  \* the snapshot
    verdict,   \* of the last verification: "none", "valid" or "invalid"
    report,    \* the last comparison: [items, filter, mapped, ignoring], or None
    changes,   \* changes made so far
    taken, base, moved  \* history: the records of the backup, the tree then, and
                        \* "no", "restored" or "changed": the tree since a restore

tree == <<live, payload, accounts>>
cycleVars == <<scene, tree, artifact, verdict, report, changes, taken, base, moved>>

\* The records a scan with filter f emits, one for each directory.
Record(p) ==
    [entity |-> SubSeq(p, 1, IF p = <<>> THEN 0 ELSE 1), path |-> p,
     meta |-> ReadMeta(live[p], accounts)]
LiveRecords(f) == {Record(p) : p \in Scanned(f, DOMAIN live)}

NoFile == [format |-> "none"]
NoReport == [items |-> {}, filter |-> Everything, mapped |-> FALSE, ignoring |-> FALSE, made |-> FALSE]

CycleInit ==
    /\ scene \in Scenes
    /\ live = scene.tree
    /\ base = scene.tree
    /\ payload = {}
    /\ accounts = Home
    /\ artifact = NoFile
    /\ verdict = "none"
    /\ report = NoReport
    /\ changes = 0
    /\ taken = <<>>
    /\ moved = "no"

----------------------------------------------------------------------------
\* Backup: the root comes first, the others in the order of SortOrder.
Backup ==
    /\ artifact = NoFile
    /\ LET others == {rec \in LiveRecords(scene.take) : rec.path # <<>>}
       IN  taken' = <<Record(<<>>)>> \o SetToSeq(others)
    /\ artifact' = Snapshot(scene.format, scene.zipped, taken')
    /\ UNCHANGED <<scene, tree, verdict, report, changes, base, moved>>

\* The file is cut between two rows or inside one, loses its header, or has
\* a row altered.  A compressed one does not decompress any more.
Damaged(f) ==
    LET n == Len(f.rows)
    IN  IF f.zipped THEN {[f EXCEPT !.sound = FALSE]}
        ELSE {[f EXCEPT !.headed = FALSE], [f EXCEPT !.torn = TRUE]}
             \cup {[f EXCEPT !.rows = SubSeq(f.rows, 1, k)] : k \in 0..(n - 1)}
             \cup {[f EXCEPT !.rows[n].meta.mode = m] : m \in Modes \ {f.rows[n].meta.mode}}

Damage ==
    /\ artifact # NoFile
    /\ artifact = Snapshot(scene.format, scene.zipped, taken)
    /\ artifact' \in Damaged(artifact)
    /\ verdict' = "none"
    /\ report' = NoReport
    /\ UNCHANGED <<scene, tree, changes, taken, base, moved>>

RunVerify ==
    /\ artifact # NoFile
    /\ verdict' = IF Verify(artifact) THEN "valid" ELSE "invalid"
    /\ UNCHANGED <<scene, tree, artifact, report, changes, taken, base, moved>>

----------------------------------------------------------------------------
\* What the records of the snapshot are for a restore or a comparison: each
\* goes through the identity map, if there is one, then through the filter.
Collected(f, mapped, order) ==
    LET read == ReadRecords(artifact)
        Seen(rec) == IF mapped THEN [rec EXCEPT !.meta = Apply(scene.map, order, @)] ELSE rec
    IN  [k \in {j \in DOMAIN read : FilterMatches(f, Seen(read[j]))} |-> Seen(read[k])]

\* The restore of the snapshot into an empty folder of another host.  A
\* directory that only lies above recorded ones is made with the first of
\* them and gets its mode.
Restored(records) ==
    LET Above(p) == {k \in DOMAIN records : p = <<>> \/ p \in Lineage(records[k].path)}
        First(p) == CHOOSE k \in Above(p) :
                        \A j \in Above(p) : Len(records[k].path) <= Len(records[j].path)
        paths == {<<>>} \cup UNION {Lineage(records[k].path) : k \in DOMAIN records}
    IN  [p \in paths |->
            IF Above(p) = {} THEN scene.made
            ELSE LET rec == records[First(p)]
                 IN  IF rec.path = p THEN ApplyMeta(rec.meta, Away)
                     ELSE [scene.made EXCEPT !.mode = rec.meta.mode]]

RestoreAway ==
    /\ artifact # NoFile /\ Readable(artifact) /\ moved = "no"
    /\ \E order \in Orders(scene.map.sids) :
        live' = Restored(Collected(scene.take, TRUE, order))
    /\ payload' = {}
    /\ accounts' = Away
    /\ moved' = "restored"
    /\ report' = NoReport
    /\ UNCHANGED <<scene, artifact, verdict, changes, taken, base>>

----------------------------------------------------------------------------
\* Someone changes the tree.
Change ==
    /\ artifact # NoFile /\ changes < MaxChanges
    /\ changes' = changes + 1
    /\ \/ \E p \in Fresh \ DOMAIN live :
            /\ Front(p) \in DOMAIN live
            /\ live' = [q \in DOMAIN live \cup {p} |-> IF q = p THEN scene.made ELSE live[q]]
            /\ UNCHANGED payload
       \/ \E p \in DOMAIN live \ {<<>>} :
            /\ \A q \in DOMAIN live : p \in Lineage(q) => p = q
            /\ live' = [q \in DOMAIN live \ {p} |-> live[q]]
            /\ payload' = payload \ {p}
       \/ \E p \in DOMAIN live, m \in Modes, u \in Uids, a \in Acls :
            /\ live[p].mode # None
            /\ live' \in {[live EXCEPT ![p].mode = m], [live EXCEPT ![p].uid = u],
                          [live EXCEPT ![p].acl = a]}
            /\ live' # live
            /\ UNCHANGED payload
       \/ \E p \in DOMAIN live, d \in Descriptors :
            /\ live[p].sddl \notin {<<>>, d}
            /\ live' = [live EXCEPT ![p].sddl = d]
            /\ UNCHANGED payload
       \/ \E p \in DOMAIN live \ payload : payload' = payload \cup {p} /\ UNCHANGED live
    /\ report' = NoReport
    /\ moved' = IF moved = "no" THEN "no" ELSE "changed"
    /\ UNCHANGED <<scene, accounts, artifact, verdict, taken, base>>

----------------------------------------------------------------------------
\* Two metadata values differ only if both are known.
Differ(x, y, absent) == x # absent /\ y # absent /\ x # y

\* Variants a careless change could make.
LiveAll(f) == LiveRecords(Everything)
ComparedFirst(r, l, ignoring) ==
    IF Differ(r.mode, l.mode, None) THEN {"mode"}
    ELSE IF ~ignoring /\ Differ(r.user, l.user, None) THEN {"user"}
    ELSE IF Differ(r.acl, l.acl, None) THEN {"acl_access"} ELSE {}

\* The comparison of a directory: r recorded, l live.
Compared(r, l, ignoring) ==
    {kind \in {"mode", "user", "owner_sid", "sddl", "acl_access"} :
        CASE kind = "mode" -> Differ(r.mode, l.mode, None)
          [] kind = "user" -> ~ignoring /\ Differ(r.user, l.user, None)
          [] kind = "owner_sid" -> ~ignoring /\ Differ(r.sid, l.sid, <<>>)
          [] kind = "sddl" -> Differ(r.sddl, l.sddl, <<>>)
          [] kind = "acl_access" -> Differ(r.acl, l.acl, None)}

\* Of several records with one path the last one counts.
Indexed(records) ==
    [p \in {records[k].path : k \in DOMAIN records} |->
        records[CHOOSE k \in DOMAIN records :
                    /\ records[k].path = p
                    /\ \A j \in DOMAIN records : records[j].path = p => j <= k]]

\* The live side is filtered like the snapshot, after a scan with the filter.
LiveKept(f) == {rec \in LiveRecords(f) : FilterMatches(f, rec)}

Items(snap, kept, files, ignoring) ==
    LET paths == {rec.path : rec \in kept}
    IN  {<<p, "missing">> : p \in DOMAIN snap \ paths}
        \cup {<<p, "untracked">> : p \in (paths \ DOMAIN snap) \ {<<>>}}
        \cup {<<p, "file">> : p \in files}
        \cup UNION {{<<rec.path, kind>> : kind \in
                        Compared(snap[rec.path].meta, rec.meta, ignoring)} :
                    rec \in {x \in kept : x.path \in DOMAIN snap}}

\* Diff.  The files are those of every directory the scan opens.
Diff(f, mapped, ignoring) ==
    /\ artifact # NoFile /\ Readable(artifact)
    /\ \E order \in Orders(scene.map.sids) :
        report' =
            [items |-> Items(Indexed(Collected(f, mapped, order)), LiveKept(f),
                             payload \cap Walked(f, DOMAIN live), ignoring),
             filter |-> f, mapped |-> mapped, ignoring |-> ignoring, made |-> TRUE]
    /\ UNCHANGED <<scene, tree, artifact, verdict, changes, taken, base, moved>>

CycleNext ==
    \/ Backup \/ Damage \/ RunVerify \/ RestoreAway \/ Change
    \/ \E f \in scene.ask, mapped, ignoring \in BOOLEAN : Diff(f, mapped, ignoring)

CycleSpec == CycleInit /\ [][CycleNext]_cycleVars

----------------------------------------------------------------------------
\* The names of a record survive its format: TSV has no way to write some of
\* them, JSON none that is not UTF-8.
Speakable(rec) ==
    \A k \in DOMAIN rec.path : rec.path[k].form \notin
        IF scene.format = "tsv" THEN {"hash", "tab", "edge", "dash"} ELSE {"broken"}

\* The snapshot was verified, and its format can express what is in it.
Trusted == verdict = "valid" /\ \A k \in DOMAIN taken : Speakable(taken[k])

\* What the format has a place for.
Recorded(rec) == IF scene.format = "tsv" THEN [rec EXCEPT !.meta = WithoutSid(@)] ELSE rec

\* A snapshot that verify accepts is read back, by restore and by diff, as
\* exactly the records the backup wrote, whatever happened to the file: both
\* readers ignore the hash, the count and every row they take for a comment
\* (verify.go:42-322, tsv.go:158-259, ndjson.go:97-140).
VerifiedReadsBack ==
    Trusted => /\ Readable(artifact)
               /\ ReadRecords(artifact) = [k \in DOMAIN taken |-> Recorded(taken[k])]

\* What a comparison says of p is true of the tree at the backup and now.
Real(p, kind) ==
    CASE kind = "missing" -> p \in DOMAIN base \ DOMAIN live
      [] kind = "untracked" -> p \in DOMAIN live \ DOMAIN base
      [] kind = "file" -> p \in payload
      [] kind = "mode" -> base[p].mode # live[p].mode
      [] kind = "acl_access" -> base[p].acl # live[p].acl
      [] kind = "user" -> base[p].uid # live[p].uid /\ ~report.ignoring
      [] OTHER -> base[p].sddl # live[p].sddl

\* The comparison of the tree with its own verified snapshot.
Audit == report.made /\ Trusted /\ moved = "no" /\ ~report.mapped

\* With the filter of the backup a comparison reports no drift that is not
\* there: the scan with its traversal rules and the filter on the records
\* keep the same directories on both sides (diff.go:32-268).
NoFalseDrift ==
    Audit /\ report.filter = scene.take => \A item \in report.items : Real(item[1], item[2])

\* Nor does it hide one: every recorded directory that is gone or has another
\* mode, access list, descriptor or owner by name, every new directory below a
\* recorded one that the filter selects, and every file in a recorded directory
\* is in the report, unless the filter excludes the root (diff.go:126-240).
ChangesShow ==
    Audit /\ report.filter = scene.take /\ ~SomeMatch(scene.take.exclude, <<>>) =>
        LET recorded == {taken[k].path : k \in DOMAIN taken}
            Shows(p, kind) == <<p, kind>> \in report.items
        IN  /\ \A p \in recorded \ DOMAIN live : Shows(p, "missing")
            /\ \A p \in recorded \cap DOMAIN live :
                /\ base[p].mode # live[p].mode => Shows(p, "mode")
                /\ base[p].sddl # live[p].sddl => Shows(p, "sddl")
                /\ base[p].acl # live[p].acl /\ None \notin {base[p].acl, live[p].acl}
                    => Shows(p, "acl_access")
                /\ {base[p].uid, live[p].uid} \subseteq DOMAIN Home
                    => \/ Home[base[p].uid] = Home[live[p].uid]
                       \/ Shows(p, "user") \/ report.ignoring
                /\ p \in payload => Shows(p, "file")
            /\ \A p \in DOMAIN live \ DOMAIN base :
                Front(p) \in recorded /\ FilterMatches(scene.take, Record(p))
                    => Shows(p, "untracked")

\* A restore through an identity map leaves nothing for a comparison through
\* the same map to report, but owners the other host has no account for, and
\* SIDs that are mapped to each other or begin like a mapped one: the owner of a
\* descriptor is rewritten by one function, its text by another (idmap.go:129-161,
\* 217-261, meta_posix.go:104-131, diff.go:160-185).
RestoredIsAligned ==
    report.made /\ Trusted /\ moved = "restored" /\ report.mapped /\ report.filter = scene.take =>
        \A item \in report.items :
            \/ /\ item[2] = "user"
               /\ Translate(scene.map.users, Home[base[item[1]].uid], None)
                    \notin {Away[u] : u \in DOMAIN Away}
            \/ /\ item[2] \in {"sddl", "owner_sid"}
               /\ \/ Chained(scene.map.sids)
                  \/ Overlapping(scene.map.sids, base[item[1]].sddl)

\* The same as NoFalseDrift whatever the filter of the comparison.
ScopedDriftIsReal == Audit => \A item \in report.items : Real(item[1], item[2])
=============================================================================
