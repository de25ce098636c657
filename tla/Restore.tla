------------------------------ MODULE Restore ------------------------------
(***************************************************************************)
(* The reconstitution of a directory tree by internal/core/restore.go: a   *)
(* forward pass that creates directories depth by depth, the evacuation of *)
(* what a mirror does not expect, and a reverse pass that sets timestamps  *)
(* from the deepest layer up.  Each pass starts a goroutine per record,    *)
(* at most Threads at a time, and waits for its layer.                     *)
(*                                                                         *)
(* A record is named by the directory it describes.  The target tree is a  *)
(* set of existing paths; mode[d] names the record whose mode d has and    *)
(* stamp[d] tells whether its times are those of the snapshot.  Records    *)
(* have distinct paths, and those of a layer are launched in any order.    *)
(***************************************************************************)
EXTENDS Integers, FiniteSets

CONSTANTS
    Dirs, Root, Parent,  \* every path that matters, below the target folder
    Jobs,         \* the restores to consider; see JobAssumption
    Threads,      \* cfg.Workers after clamping
    Kept          \* the mode a directory had before the restore

ASSUME TreeAssumption ==
    /\ IsFiniteSet(Dirs) /\ Root \in Dirs
    /\ Parent \in [Dirs \ {Root} -> Dirs]
    /\ Kept \notin Dirs
    /\ Threads \in Nat \ {0}

\* A restore: the directories the snapshot has a record of, those the entity,
\* include and exclude filters let through, and those whose path leaves the
\* target; what the target holds, and which of it are files; directories whose
\* recorded mode has no owner write bit, and those on which a system call may
\* fail; and the options of the run.
ASSUME JobAssumption ==
    \A j \in Jobs :
        /\ j.snapshot \subseteq Dirs /\ j.selected \subseteq j.snapshot
        /\ j.escaping \subseteq j.selected
        /\ Root \in j.snapshot => Root \in j.selected
        /\ j.files \subseteq j.existing /\ j.existing \subseteq Dirs
        /\ \A d \in j.existing \ {Root} : Parent[d] \in j.existing \ j.files
        /\ j.readOnly \subseteq Dirs /\ j.faulty \subseteq Dirs
        /\ {j.privileged, j.applyPerms, j.mirror} \subseteq BOOLEAN
        /\ {j.throttled, j.deadline, j.mayCancel} \subseteq BOOLEAN

VARIABLES
    job,       \* the restore that runs
    phase,     \* "forward", "walk", "evacuate", "reverse", "ok" or "ctxErr"
    ctxDone,
    layer,     \* the depth at work
    todo,      \* records of the layer that have no goroutine yet
    at,        \* where the goroutine of a record stands
    exists, mode, stamp,     \* the target tree
    made, warned, skipped,   \* how the records fared in the forward pass
    untracked, evacuated,    \* what the mirror walk found, and what was removed
    evacFailed               \* the warning of a failed evacuation

tree == <<exists, mode, stamp>>
results == <<made, warned, skipped>>
mirrorVars == <<untracked, evacuated, evacFailed>>
vars == <<job, phase, ctxDone, layer, todo, at, tree, results, mirrorVars>>

----------------------------------------------------------------------------
\* A directory and all its ancestors: the least set that holds d and with each
\* of its paths the parent.
Chain ==
    [d \in Dirs |-> {x \in Dirs :
        \A S \in SUBSET Dirs : d \in S /\ (\A y \in S \ {Root} : Parent[y] \in S) => x \in S}]

\* No path is above itself.
ASSUME PathAssumption == \A d \in Dirs \ {Root} : d \notin Chain[Parent[d]]

Depth(d) == Cardinality(Chain[d]) - 1
Subtree(d) == {x \in Dirs : d \in Chain[x]}

Selected == job.selected
Privileged == job.privileged
Faulty == job.faulty
Files == job.files
Escaping == job.escaping

Layer(n) == {r \in Selected : Depth(r) = n}
Layers == {Depth(r) : r \in Selected}

\* The next layer with records above n, or below it.
Above(n) == {k \in Layers : k > n}
Below(n) == {k \in Layers : k < n}
Lowest(S) == CHOOSE k \in S : \A j \in S : k <= j
Highest(S) == CHOOSE k \in S : \A j \in S : j <= k

Active == {r \in Selected : at[r] # "out"}

\* New entries can be made in p, and entries of it removed.
CanWrite(p) == Privileged \/ mode[p] \notin job.readOnly

LimiterRefuses == job.throttled /\ (ctxDone \/ job.deadline)

Init ==
    /\ job \in Jobs
    /\ phase = "forward"
    /\ ctxDone = FALSE
    /\ layer = -1
    /\ todo = {}
    /\ at = [r \in Selected |-> "out"]
    /\ exists = job.existing
    /\ mode = [d \in Dirs |-> Kept]
    /\ stamp = [d \in Dirs |-> "now"]
    /\ made = {} /\ warned = {} /\ skipped = {}
    /\ untracked = {} /\ evacuated = {} /\ evacFailed = FALSE

----------------------------------------------------------------------------
(* The forward pass.                                                       *)

\* Mutant: no layerWG.Wait between two layers.
NextLayerUnjoined ==
    /\ phase = "forward"
    /\ todo = {}
    /\ Above(layer) # {}
    /\ layer' = Lowest(Above(layer))
    /\ todo' = Layer(layer')
    /\ UNCHANGED <<job, phase, ctxDone, at, tree, results, mirrorVars>>

\* layerWG.Wait, then the next depth that has records.
NextLayer ==
    /\ phase = "forward"
    /\ todo = {} /\ Active = {}
    /\ Above(layer) # {}
    /\ layer' = Lowest(Above(layer))
    /\ todo' = Layer(layer')
    /\ UNCHANGED <<job, phase, ctxDone, at, tree, results, mirrorVars>>

EndForward ==
    /\ phase = "forward"
    /\ todo = {} /\ Active = {}
    /\ Above(layer) = {}
    /\ phase' = IF job.mirror THEN "walk" ELSE "reverse"
    /\ layer' = IF job.mirror THEN layer ELSE layer + 1
    /\ UNCHANGED <<job, ctxDone, todo, at, tree, results, mirrorVars>>

\* A slot of sem is free: the next record gets its goroutine.
Launch ==
    /\ phase \in {"forward", "reverse"}
    /\ Cardinality(Active) < Threads
    /\ \E r \in todo :
        /\ todo' = todo \ {r}
        /\ at' = [at EXCEPT ![r] = "start"]
    /\ UNCHANGED <<job, phase, ctxDone, layer, tree, results, mirrorVars>>

\* The select sees ctx.Done while it launches: wait for the layer and fail.
CancelForward ==
    /\ phase = "forward"
    /\ ctxDone
    /\ todo # {} /\ Active = {}
    /\ phase' = "ctxErr"
    /\ UNCHANGED <<job, ctxDone, layer, todo, at, tree, results, mirrorVars>>

\* Mutant: the silent return keeps its slot of sem.
SkipHolding(r) ==
    /\ phase = "forward" /\ at[r] = "start"
    /\ ctxDone \/ (r \notin Escaping /\ LimiterRefuses)
    /\ skipped' = skipped \cup {r}
    /\ UNCHANGED <<job, phase, ctxDone, layer, todo, at, tree, made, warned, mirrorVars>>

\* The goroutine gives up without a word: the context is done, or the limiter
\* refuses.
Skip(r) ==
    /\ phase = "forward" /\ at[r] = "start"
    /\ ctxDone \/ (r \notin Escaping /\ LimiterRefuses)
    /\ skipped' = skipped \cup {r}
    /\ at' = [at EXCEPT ![r] = "out"]
    /\ UNCHANGED <<job, phase, ctxDone, layer, todo, tree, made, warned, mirrorVars>>

\* Mutant: a record that leaves the target is dropped without a warning.
EscapeUnwarned(r) ==
    /\ phase = "forward" /\ at[r] = "start"
    /\ ~ctxDone /\ r \in Escaping
    /\ at' = [at EXCEPT ![r] = "out"]
    /\ UNCHANGED <<job, phase, ctxDone, layer, todo, tree, results, mirrorVars>>

Escape(r) ==
    /\ phase = "forward" /\ at[r] = "start"
    /\ ~ctxDone /\ r \in Escaping
    /\ warned' = warned \cup {r}
    /\ at' = [at EXCEPT ![r] = "out"]
    /\ UNCHANGED <<job, phase, ctxDone, layer, todo, tree, made, skipped, mirrorVars>>

\* ctx.Err was nil; with a limiter, the token came before the context ended.
Admit(r) ==
    /\ phase = "forward" /\ at[r] = "start"
    /\ ~ctxDone /\ r \notin Escaping
    /\ at' = [at EXCEPT ![r] = "mkdir"]
    /\ UNCHANGED <<job, phase, ctxDone, layer, todo, tree, results, mirrorVars>>

\* What os.MkdirAll manages to create for r when the calls on bad fail: the
\* missing directories from the top, as far as each has a writable directory
\* for parent.  Those it creates on the way get the mode of r as well.
Missing(r) == Chain[r] \ exists
CanMake(x, r) ==
    \/ x = Root
    \/ IF Parent[x] \in exists THEN CanWrite(Parent[x]) ELSE Privileged \/ r \notin job.readOnly
Creates(r, bad) ==
    {x \in Missing(r) : /\ Chain[x] \cap bad = {}
                        /\ \A y \in Missing(r) \cap Chain[x] : CanMake(y, r)}

\* A new entry changes the modification time of the directory it is in.
Touched(S) == S \cup {Parent[x] : x \in S \ {Root}}

\* A file in the way always makes it fail.
Mkdir(r) ==
    /\ phase = "forward" /\ at[r] = "mkdir"
    /\ \E failing \in SUBSET (Faulty \cap Chain[r]) :
        LET bad == failing \cup (Files \cap Chain[r])
            new == Creates(r, bad)
            good == bad = {} /\ new = Missing(r)
        IN /\ exists' = exists \cup new
           /\ mode' = [d \in Dirs |-> IF d \in new THEN r ELSE mode[d]]
           /\ stamp' = [d \in Dirs |-> IF d \in Touched(new) THEN "now" ELSE stamp[d]]
           /\ made' = IF good THEN made \cup {r} ELSE made
           /\ warned' = IF good THEN warned ELSE warned \cup {r}
           /\ at' = [at EXCEPT ![r] = IF good /\ job.applyPerms THEN "perms" ELSE "out"]
    /\ UNCHANGED <<job, phase, ctxDone, layer, todo, skipped, mirrorVars>>

\* ApplyMeta sets the mode; chmod may fail in silence, chown with a warning.
Perms(r) ==
    /\ phase = "forward" /\ at[r] = "perms"
    /\ \/ mode' = [mode EXCEPT ![r] = r] /\ UNCHANGED warned
       \/ r \in Faulty /\ UNCHANGED mode /\ warned' \in {warned, warned \cup {r}}
    /\ at' = [at EXCEPT ![r] = "out"]
    /\ UNCHANGED <<job, phase, ctxDone, layer, todo, exists, stamp, made, skipped, mirrorVars>>

Forward ==
    \/ NextLayer \/ EndForward \/ CancelForward
    \/ \E r \in Selected : Skip(r) \/ Escape(r) \/ Admit(r) \/ Mkdir(r) \/ Perms(r)

----------------------------------------------------------------------------
(* The mirror: what the walk finds, and its evacuation.                    *)

\* The walk descends into expected directories only; it reports the topmost
\* unexpected ones and every file.
Unexpected ==
    {x \in exists \ {Root} : /\ x \notin Selected \/ x \in Files
                            /\ Chain[x] \ {x, Root} \subseteq Selected}

\* Mutant: the walk skips expected directories too.
WalkMirrorShallow ==
    /\ phase = "walk"
    /\ untracked' = {x \in Unexpected : Parent[x] = Root}
    /\ phase' = "evacuate"
    /\ UNCHANGED <<job, ctxDone, layer, todo, at, tree, results, evacuated, evacFailed>>

\* What lies in a directory that cannot be read is not seen.
WalkMirror ==
    /\ phase = "walk"
    /\ \E blind \in SUBSET Faulty :
        untracked' = {x \in Unexpected : (Chain[x] \ {x}) \cap blind = {}}
    /\ phase' = "evacuate"
    /\ UNCHANGED <<job, ctxDone, layer, todo, at, tree, results, evacuated, evacFailed>>

\* os.RemoveAll leaves what lies in an unwritable directory, what it fails on,
\* and the way there.
Removable(u, bad) ==
    {x \in Subtree(u) \cap exists :
        \A y \in Subtree(x) \cap exists : CanWrite(Parent[y]) /\ y \notin bad}

\* An item is packed and removed; what stays after all is only logged.
EvacuateItem ==
    /\ phase = "evacuate"
    /\ ~ctxDone
    /\ \E u \in untracked : \E bad \in SUBSET (Faulty \cap Subtree(u)) :
        LET gone == Removable(u, bad) IN
        /\ untracked' = untracked \ {u}
        /\ exists' = exists \ gone
        /\ evacuated' = evacuated \cup gone
        /\ stamp' = [d \in Dirs |-> IF d \in Touched(gone) THEN "now" ELSE stamp[d]]
    /\ UNCHANGED <<job, phase, ctxDone, layer, todo, at, mode, results, evacFailed>>

\* Packing an item failed or the context is done: the rest stays, with a
\* warning, and the restore goes on.
EvacuateFails ==
    /\ phase = "evacuate"
    /\ untracked # {}
    /\ ctxDone \/ \E u \in untracked : Subtree(u) \cap Faulty # {}
    /\ evacFailed' = TRUE
    /\ phase' = "reverse"
    /\ layer' = layer + 1
    /\ UNCHANGED <<job, ctxDone, todo, at, tree, results, untracked, evacuated>>

\* Mutant: the reverse pass misses the deepest layer.
EndEvacuationLow ==
    /\ phase = "evacuate"
    /\ untracked = {}
    /\ phase' = "reverse"
    /\ UNCHANGED <<job, ctxDone, layer, todo, at, tree, results, mirrorVars>>

EndEvacuation ==
    /\ phase = "evacuate"
    /\ untracked = {}
    /\ phase' = "reverse"
    /\ layer' = layer + 1
    /\ UNCHANGED <<job, ctxDone, todo, at, tree, results, mirrorVars>>

Evacuation == WalkMirror \/ EvacuateItem \/ EvacuateFails \/ EndEvacuation

----------------------------------------------------------------------------
(* The reverse pass.                                                       *)

NextLayerUp ==
    /\ phase = "reverse"
    /\ todo = {} /\ Active = {}
    /\ Below(layer) # {}
    /\ layer' = Highest(Below(layer))
    /\ todo' = Layer(layer')
    /\ UNCHANGED <<job, phase, ctxDone, at, tree, results, mirrorVars>>

\* The select sees ctx.Done: the rest of this layer is left out.
BreakLayer ==
    /\ phase = "reverse"
    /\ ctxDone
    /\ todo # {}
    /\ todo' = {}
    /\ UNCHANGED <<job, phase, ctxDone, layer, at, tree, results, mirrorVars>>

\* Errors of the limiter and of SetTimes are ignored.
SetTimes(r) ==
    /\ phase = "reverse" /\ at[r] = "start"
    /\ \/ /\ r \in exists /\ r \notin Escaping
          /\ stamp' = [stamp EXCEPT ![r] = "snapshot"]
       \/ /\ ctxDone \/ r \notin exists \/ r \in Escaping \cup Faulty
          /\ UNCHANGED stamp
    /\ at' = [at EXCEPT ![r] = "out"]
    /\ UNCHANGED <<job, phase, ctxDone, layer, todo, exists, mode, results, mirrorVars>>

\* Whatever happened to the context, the restore reports success.
Succeed ==
    /\ phase = "reverse"
    /\ todo = {} /\ Active = {}
    /\ Below(layer) = {}
    /\ phase' = "ok"
    /\ UNCHANGED <<job, ctxDone, layer, todo, at, tree, results, mirrorVars>>

Reverse ==
    \/ NextLayerUp \/ BreakLayer \/ Succeed
    \/ \E r \in Selected : SetTimes(r)

----------------------------------------------------------------------------
Cancel ==
    /\ job.mayCancel
    /\ ~ctxDone /\ phase \notin {"ok", "ctxErr"}
    /\ ctxDone' = TRUE
    /\ UNCHANGED <<job, phase, layer, todo, at, tree, results, mirrorVars>>

Ended == phase \in {"ok", "ctxErr"} /\ UNCHANGED vars

RestoreStep == Forward \/ Launch \/ Evacuation \/ Reverse

Next == RestoreStep \/ Cancel \/ Ended

Spec == Init /\ [][Next]_vars

\* Runnable goroutines are scheduled and system calls return.
FairSpec == Spec /\ WF_vars(RestoreStep)

----------------------------------------------------------------------------
TypeOK ==
    /\ job \in Jobs
    /\ phase \in {"forward", "walk", "evacuate", "reverse", "ok", "ctxErr"}
    /\ ctxDone \in BOOLEAN /\ evacFailed \in BOOLEAN
    /\ layer \in Int
    /\ todo \subseteq Selected
    /\ at \in [Selected -> {"out", "start", "mkdir", "perms"}]
    /\ exists \subseteq Dirs
    /\ mode \in [Dirs -> Dirs \cup {Kept}]
    /\ stamp \in [Dirs -> {"now", "snapshot"}]
    /\ made \subseteq Selected /\ warned \subseteq Selected /\ skipped \subseteq Selected
    /\ untracked \subseteq Dirs /\ evacuated \subseteq Dirs

\* A directory this restore created for its own record has the mode of that
\* record, even without ApplyPerms: MkdirAll never got there first for a child.
OwnMode ==
    \A r \in made \ (job.existing \cup warned) :
        at[r] = "out" /\ r \notin Faulty => mode[r] = r

\* An uninterrupted restore reports every record: it was made, or a warning
\* names it.
Accounted ==
    phase = "ok" /\ ~ctxDone /\ ~LimiterRefuses => Selected = made \cup warned

\* After an uninterrupted restore every restored directory carries the times
\* of the snapshot, although creating its children and evacuating its
\* contents changed them meanwhile.
TimesExact ==
    phase = "ok" /\ ~ctxDone =>
        \A r \in (Selected \cap exists) \ (Faulty \cup Escaping) : stamp[r] = "snapshot"

\* A mirror whose evacuation did not fail holds nothing unexpected, but for
\* what it could not read or remove.
MirrorClean ==
    phase = "ok" /\ job.mirror /\ ~evacFailed /\ Privileged =>
        \A x \in exists \ {Root} : x \in Selected \/ \E y \in Subtree(x) \cup Chain[x] : y \in Faulty

\* Evacuation takes only what the snapshot does not hold as a directory.
TrackedStay == evacuated \cap job.snapshot \subseteq Files

\* The restore ends, cancelled or not.
RestoreEnds == <>(phase \in {"ok", "ctxErr"})
============================================================================
