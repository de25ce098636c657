--------------------------- MODULE Restore_proofs ---------------------------
(***************************************************************************)
(* Proofs about Restore, for any tree, any set of restores and any number  *)
(* of threads.                                                             *)
(*                                                                         *)
(* Both passes go through the depths that have records and join each layer *)
(* before the next (Joined).  What a pass has settled so far is then what  *)
(* lies on the near side of its layer: Reported and Grown on the way down, *)
(* Stamped on the way up.                                                  *)
(***************************************************************************)
EXTENDS Restore, FiniteSetTheorems, WellFoundedInduction, TLAPS

\* The goroutine of r has returned, or never started in this layer.
Done(r) == r \notin todo /\ at[r] = "out"

\* What is at work or waits for a goroutine belongs to the layer; between the
\* passes there is nothing.
Joined ==
    /\ \A r \in Selected : ~Done(r) => phase \in {"forward", "reverse", "ctxErr"} /\ Depth(r) = layer
    /\ \A r \in todo : at[r] = "out"
    /\ phase = "reverse" => \A r \in Selected : at[r] \in {"out", "start"}

\* What the forward pass left behind is created, warned of or skipped.
Reported ==
    /\ phase = "forward" =>
        \A r \in Selected : Depth(r) <= layer /\ Done(r) => r \in made \cup warned \cup skipped
    /\ phase \in {"walk", "evacuate", "reverse", "ok"} => Selected = made \cup warned \cup skipped
    /\ \A r \in Selected : at[r] = "perms" => r \in made

\* Records are skipped in silence only for these reasons.
Silence == skipped # {} => ctxDone \/ LimiterRefuses

\* After the forward pass no record lies below the layer.
Deepest == phase \in {"walk", "evacuate"} => \A r \in Selected : Depth(r) <= layer

\* MkdirAll created a recorded directory on its own behalf, or when its own
\* goroutine was through: only for records below it.
Grown ==
    phase = "forward" =>
        /\ made \subseteq exists
        /\ \A r \in Selected : r \in exists \ job.existing =>
               Depth(r) <= layer /\ r \notin todo /\ at[r] \in {"perms", "out"}

OwnModeNow ==
    \A r \in made \ (job.existing \cup warned) :
        at[r] # "perms" /\ r \notin Faulty => mode[r] = r

\* The reverse pass has set the times of all directories below its layer.
Stamped ==
    phase = "reverse" /\ ~ctxDone =>
        \A r \in (Selected \cap exists) \ (Faulty \cup Escaping) :
            Depth(r) >= layer /\ Done(r) => stamp[r] = "snapshot"

\* Until the evacuation, every path has all the paths above it.
Rooted == phase \in {"forward", "walk"} => \A x \in exists : Chain[x] \subseteq exists

\* What a mirror holds and does not expect is on the list of the evacuation or
\* lies below something that is, unless a call may fail above or below it.
Leftovers ==
    phase \in {"evacuate", "reverse", "ok"} /\ job.mirror /\ ~evacFailed /\ Privileged =>
        \A x \in exists \ {Root} :
            \/ x \in Selected
            \/ \E y \in Subtree(x) \cup Chain[x] : y \in Faulty
            \/ phase = "evacuate" /\ untracked \cap Chain[x] # {}

IInv ==
    /\ TypeOK /\ Joined
    /\ Reported /\ Silence /\ Deepest
    /\ Grown /\ OwnModeNow
    /\ Stamped /\ TimesExact
    /\ Rooted /\ Leftovers

----------------------------------------------------------------------------
(* Paths and depths.                                                       *)

LEMMA ChainHolds ==
  ASSUME NEW d \in Dirs
  PROVE  d \in Chain[d] /\ Chain[d] \subseteq Dirs
BY DEF Chain

LEMMA ChainClosed ==
  ASSUME NEW d \in Dirs, NEW x \in Chain[d], x # Root
  PROVE  Parent[x] \in Chain[d]
<1>1. x \in Dirs /\ Parent[x] \in Dirs
  BY TreeAssumption, ChainHolds
<1>2. ASSUME NEW S \in SUBSET Dirs, d \in S, \A y \in S \ {Root} : Parent[y] \in S
      PROVE  Parent[x] \in S
  BY <1>2 DEF Chain
<1> QED BY <1>1, <1>2 DEF Chain

LEMMA ChainUp ==
  ASSUME NEW d \in Dirs, NEW x \in Chain[d]
  PROVE  Chain[x] \subseteq Chain[d]
<1>1. x \in Dirs
  BY ChainHolds
<1>2. d \in Dirs /\ \A y \in Chain[x] : y \in Dirs
  BY <1>1, ChainHolds
<1>3. ASSUME NEW y \in Chain[x], NEW S \in SUBSET Dirs,
             d \in S, \A z \in S \ {Root} : Parent[z] \in S
      PROVE  y \in S
  <2>1. x \in S
    BY <1>3 DEF Chain
  <2> QED BY <1>1, <1>3, <2>1 DEF Chain
<1> QED BY <1>2, <1>3 DEF Chain

LEMMA NoneAboveItself ==
  ASSUME NEW q \in Dirs, NEW x \in Chain[q], x # q
  PROVE  q \notin Chain[x]
<1>1. q # Root
  <2> SUFFICES ASSUME q = Root PROVE FALSE
    OBVIOUS
  <2>1. {Root} \in SUBSET Dirs /\ q \in {Root} /\ \A y \in {Root} \ {Root} : Parent[y] \in {Root}
    OBVIOUS
  <2>2. x \in {Root}
    BY <2>1 DEF Chain
  <2> QED BY <2>2
<1> DEFINE p == Parent[q]
<1>2. p \in Dirs
  BY <1>1, TreeAssumption
<1> DEFINE S == {q} \cup Chain[p]
<1>3. S \in SUBSET Dirs /\ q \in S
  BY <1>2, ChainHolds
<1>4. \A y \in S \ {Root} : Parent[y] \in S
  <2> SUFFICES ASSUME NEW y \in S \ {Root} PROVE Parent[y] \in S
    OBVIOUS
  <2>1. CASE y = q
    BY <1>2, <2>1, ChainHolds
  <2>2. CASE y # q
    BY <1>2, <2>2, ChainClosed
  <2> QED BY <2>1, <2>2
<1>5. x \in S
  BY <1>3, <1>4 DEF Chain
<1>6. x \in Chain[p]
  BY <1>5
<1>7. Chain[x] \subseteq Chain[p]
  BY <1>2, <1>6, ChainUp
<1>8. q \notin Chain[p]
  BY <1>1, PathAssumption
<1> QED BY <1>7, <1>8

LEMMA DepthType == ASSUME NEW d \in Dirs PROVE Depth(d) \in Nat
<1>1. IsFiniteSet(Chain[d]) /\ Chain[d] # {}
  BY ChainHolds, TreeAssumption, FS_Subset
<1>2. Cardinality(Chain[d]) \in Nat \ {0}
  BY <1>1, FS_CardinalityType, FS_EmptySet
<1> QED BY <1>2 DEF Depth

\* What lies above a directory has a smaller depth.
LEMMA Higher ==
  ASSUME NEW q \in Dirs, NEW x \in Chain[q], x # q
  PROVE  Depth(x) < Depth(q)
<1>1. x \in Dirs /\ IsFiniteSet(Chain[q]) /\ IsFiniteSet(Chain[x])
  BY ChainHolds, TreeAssumption, FS_Subset
<1>2. Chain[x] \in SUBSET Chain[q] /\ Chain[x] # Chain[q]
  BY ChainUp, NoneAboveItself, ChainHolds
<1>3. /\ Cardinality(Chain[x]) <= Cardinality(Chain[q])
      /\ Cardinality(Chain[x]) # Cardinality(Chain[q])
  BY <1>1, <1>2, FS_Subset
<1>4. Cardinality(Chain[x]) \in Nat /\ Cardinality(Chain[q]) \in Nat
  BY <1>1, FS_CardinalityType
<1> QED BY <1>3, <1>4 DEF Depth

LEMMA LeastOf ==
  ASSUME NEW T \in SUBSET Nat, T # {}
  PROVE  \E m \in T : \A k \in T : m <= k
<1>1. \E m \in T : \A k \in T : ~ (<<k, m>> \in OpToRel(<, Nat))
  BY WFMin, NatLessThanWellFounded, Zenon
<1>2. PICK m \in T : \A k \in T : ~ (<<k, m>> \in OpToRel(<, Nat))
  BY <1>1
<1>3. \A k \in T : ~(k < m)
  BY <1>2, Zenon DEF OpToRel
<1> QED BY <1>3

LEMMA GreatestOf ==
  ASSUME NEW T \in SUBSET Nat, T # {}, NEW n \in Int, \A k \in T : k < n
  PROVE  \E m \in T : \A k \in T : k <= m
<1> DEFINE U == {n - k : k \in T}
<1>1. U \in SUBSET Nat /\ U # {}
  <2>1. ASSUME NEW k \in T PROVE n - k \in Nat
    OBVIOUS
  <2> QED BY <2>1
<1>2. PICK u \in U : \A v \in U : u <= v
  BY <1>1, LeastOf
<1>3. PICK m \in T : u = n - m
  BY <1>2
<1>4. ASSUME NEW k \in T PROVE k <= m
  <2>1. n - k \in U
    OBVIOUS
  <2>2. n - m <= n - k
    BY <1>2, <1>3, <2>1
  <2> QED BY <2>2
<1> QED BY <1>4

----------------------------------------------------------------------------
(* The next layer down, and the next layer up.                             *)

LEMMA JobTypes ==
  ASSUME TypeOK
  PROVE  /\ Selected \subseteq Dirs /\ Escaping \subseteq Selected
         /\ job.existing \subseteq Dirs /\ Files \subseteq Dirs /\ Faulty \subseteq Dirs
         /\ job.mirror \in BOOLEAN /\ job.throttled \in BOOLEAN
         /\ \A r \in Selected : Depth(r) \in Nat
<1>1. Selected \subseteq Dirs /\ Escaping \subseteq Selected
      /\ job.existing \subseteq Dirs /\ Files \subseteq Dirs /\ Faulty \subseteq Dirs
      /\ job.mirror \in BOOLEAN /\ job.throttled \in BOOLEAN
  <2>1. job \in Jobs
    BY DEF TypeOK
  <2>2. job.snapshot \subseteq Dirs /\ job.selected \subseteq job.snapshot
        /\ job.escaping \subseteq job.selected
    BY <2>1, JobAssumption
  <2>3. job.files \subseteq job.existing /\ job.existing \subseteq Dirs /\ job.faulty \subseteq Dirs
    BY <2>1, JobAssumption
  <2>4. job.mirror \in BOOLEAN /\ job.throttled \in BOOLEAN
    BY <2>1, JobAssumption
  <2> QED BY <2>2, <2>3, <2>4 DEF Selected, Escaping, Files, Faulty
<1>2. ASSUME NEW r \in Selected PROVE Depth(r) \in Nat
  BY <1>1, DepthType
<1> QED BY <1>1, <1>2

\* Going down, no record lies between two layers in turn.
LEMMA LayerBelow ==
  ASSUME TypeOK, Above(layer) # {}
  PROVE  /\ Lowest(Above(layer)) \in Int /\ Lowest(Above(layer)) > layer
         /\ \A r \in Selected : Depth(r) > layer => Lowest(Above(layer)) <= Depth(r)
<1>1. Above(layer) \in SUBSET Nat
  BY JobTypes DEF Above, Layers
<1>2. \E m \in Above(layer) : \A k \in Above(layer) : m <= k
  BY <1>1, LeastOf
<1>3. /\ Lowest(Above(layer)) \in Above(layer)
      /\ \A k \in Above(layer) : Lowest(Above(layer)) <= k
  BY <1>2 DEF Lowest
<1>4. \A r \in Selected : Depth(r) > layer => Depth(r) \in Above(layer)
  BY DEF Above, Layers
<1>5. \A k \in Above(layer) : k > layer
  BY DEF Above
<1> QED BY <1>1, <1>3, <1>4, <1>5

\* Nor going up.
LEMMA LayerAbove ==
  ASSUME TypeOK, Below(layer) # {}
  PROVE  /\ Highest(Below(layer)) \in Int /\ Highest(Below(layer)) < layer
         /\ \A r \in Selected : Depth(r) < layer => Depth(r) <= Highest(Below(layer))
<1>1. Below(layer) \in SUBSET Nat /\ layer \in Int
  BY JobTypes DEF Below, Layers, TypeOK
<1>2. \A k \in Below(layer) : k < layer
  BY DEF Below
<1>3. \E m \in Below(layer) : \A k \in Below(layer) : k <= m
  BY <1>1, <1>2, GreatestOf
<1>4. /\ Highest(Below(layer)) \in Below(layer)
      /\ \A k \in Below(layer) : k <= Highest(Below(layer))
  BY <1>3 DEF Highest
<1>5. \A r \in Selected : Depth(r) < layer => Depth(r) \in Below(layer)
  BY DEF Below, Layers
<1> QED BY <1>1, <1>2, <1>4, <1>5

----------------------------------------------------------------------------
LEMMA InitIInv == Init => IInv
<1> SUFFICES ASSUME Init PROVE IInv
  OBVIOUS
<1>1. job \in Jobs /\ Selected \subseteq Dirs /\ job.existing \subseteq Dirs
  BY JobAssumption DEF Init, Selected
<1>2. TypeOK
  <2>1. /\ at \in [Selected -> {"out", "start", "mkdir", "perms"}]
        /\ mode \in [Dirs -> Dirs \cup {Kept}] /\ stamp \in [Dirs -> {"now", "snapshot"}]
    BY DEF Init
  <2>2. ctxDone \in BOOLEAN /\ evacFailed \in BOOLEAN
    BY Zenon DEF Init
  <2>3. /\ phase = "forward" /\ layer \in Int
        /\ todo = {} /\ exists \subseteq Dirs /\ untracked = {} /\ evacuated = {}
        /\ made = {} /\ warned = {} /\ skipped = {}
    BY <1>1 DEF Init
  <2> QED BY <1>1, <2>1, <2>2, <2>3 DEF TypeOK
<1>3. \A r \in Selected : Depth(r) \in Nat
  BY <1>2, JobTypes
<1>4. Active = {} /\ todo = {} /\ phase = "forward" /\ layer = -1
  BY DEF Init, Active
<1>5. Joined /\ Reported /\ Silence /\ Deepest
  BY <1>3, <1>4 DEF Init, Joined, Done, Reported, Silence, Deepest
<1>6. Grown /\ OwnModeNow
  BY DEF Init, Grown, OwnModeNow
<1>7. Stamped /\ TimesExact
  BY DEF Init, Stamped, TimesExact
<1>8. Rooted
  <2>1. \A d \in job.existing \ {Root} : Parent[d] \in job.existing
    BY <1>1, JobAssumption
  <2>2. job.existing \in SUBSET Dirs
    BY <1>1
  <2>3. ASSUME NEW x \in job.existing PROVE Chain[x] \subseteq job.existing
    BY <2>1, <2>2, <2>3 DEF Chain
  <2> QED BY <2>3 DEF Init, Rooted
<1>9. Leftovers
  BY <1>4 DEF Leftovers
<1> QED BY <1>2, <1>5, <1>6, <1>7, <1>8, <1>9 DEF IInv

----------------------------------------------------------------------------
(* Types.                                                                  *)

LEMMA JobStays == ASSUME [Next]_vars PROVE job' = job
BY DEF Next, RestoreStep, Forward, Evacuation, Reverse, NextLayer, EndForward, CancelForward,
       Launch, Skip, Escape, Admit, Mkdir, Perms, WalkMirror, EvacuateItem, EvacuateFails,
       EndEvacuation, NextLayerUp, BreakLayer, SetTimes, Succeed, Cancel, Ended, vars

LEMMA LayerTypes ==
  ASSUME TypeOK, NextLayer \/ EndForward \/ CancelForward \/ Launch \/ NextLayerUp
                 \/ BreakLayer \/ Succeed \/ Cancel
  PROVE  TypeOK'
<1>0. \A n : Layer(n) \subseteq Selected
  BY DEF Layer
<1>1. CASE NextLayer
  <2>1. layer' \in Int /\ todo' \subseteq Selected
    BY <1>0, <1>1, LayerBelow DEF NextLayer
  <2> QED BY <1>1, <2>1 DEF NextLayer, TypeOK, Selected, tree, results, mirrorVars
<1>2. CASE EndForward
  <2>1. layer' \in Int /\ phase' \in {"walk", "reverse"}
    BY <1>2 DEF EndForward, TypeOK
  <2> QED BY <1>2, <2>1 DEF EndForward, TypeOK, Selected, tree, results, mirrorVars
<1>3. CASE CancelForward
  BY <1>3 DEF CancelForward, TypeOK, Selected, tree, results, mirrorVars
<1>4. CASE Launch
  <2>1. todo' \subseteq Selected /\ at' \in [Selected -> {"out", "start", "mkdir", "perms"}]
    BY <1>4 DEF Launch, TypeOK
  <2> QED BY <1>4, <2>1 DEF Launch, TypeOK, Selected, tree, results, mirrorVars
<1>5. CASE NextLayerUp
  <2>1. layer' \in Int /\ todo' \subseteq Selected
    BY <1>0, <1>5, LayerAbove DEF NextLayerUp
  <2> QED BY <1>5, <2>1 DEF NextLayerUp, TypeOK, Selected, tree, results, mirrorVars
<1>6. CASE BreakLayer
  BY <1>6 DEF BreakLayer, TypeOK, Selected, tree, results, mirrorVars
<1>7. CASE Succeed
  BY <1>7 DEF Succeed, TypeOK, Selected, tree, results, mirrorVars
<1>8. CASE Cancel
  BY <1>8 DEF Cancel, TypeOK, Selected, tree, results, mirrorVars
<1> QED BY <1>1, <1>2, <1>3, <1>4, <1>5, <1>6, <1>7, <1>8

LEMMA GoroutineTypes ==
  ASSUME TypeOK, NEW r \in Selected,
         Skip(r) \/ Escape(r) \/ Admit(r) \/ Mkdir(r) \/ Perms(r) \/ SetTimes(r)
  PROVE  TypeOK'
<1>0. r \in Dirs
  BY JobTypes
<1>1. CASE Skip(r) \/ Escape(r) \/ Admit(r)
  <2>1. at' \in [Selected -> {"out", "start", "mkdir", "perms"}]
    BY <1>1 DEF Skip, Escape, Admit, TypeOK
  <2>2. warned' \subseteq Selected /\ skipped' \subseteq Selected /\ made' = made
    BY <1>1 DEF Skip, Escape, Admit, TypeOK, results
  <2>3. UNCHANGED <<job, phase, ctxDone, layer, todo, tree, mirrorVars>>
    BY <1>1 DEF Skip, Escape, Admit
  <2> QED BY <2>1, <2>2, <2>3 DEF TypeOK, Selected, tree, mirrorVars
<1>2. CASE Mkdir(r)
  <2>1. PICK failing \in SUBSET (Faulty \cap Chain[r]) :
          LET bad == failing \cup (Files \cap Chain[r])
              new == Creates(r, bad)
              good == bad = {} /\ new = Missing(r)
          IN /\ exists' = exists \cup new
             /\ mode' = [d \in Dirs |-> IF d \in new THEN r ELSE mode[d]]
             /\ stamp' = [d \in Dirs |-> IF d \in Touched(new) THEN "now" ELSE stamp[d]]
             /\ made' = IF good THEN made \cup {r} ELSE made
             /\ warned' = IF good THEN warned ELSE warned \cup {r}
             /\ at' = [at EXCEPT ![r] = IF good /\ job.applyPerms THEN "perms" ELSE "out"]
    BY <1>2 DEF Mkdir
  <2> DEFINE new == Creates(r, failing \cup (Files \cap Chain[r]))
  <2>2. new \subseteq Dirs
    BY <1>0, ChainHolds DEF Creates, Missing
  <2> HIDE DEF new
  <2>3. exists' \subseteq Dirs /\ mode' \in [Dirs -> Dirs \cup {Kept}]
    BY <1>0, <2>1, <2>2 DEF TypeOK, new
  <2>4. stamp' \in [Dirs -> {"now", "snapshot"}]
    BY <2>1 DEF TypeOK
  <2>5. made' \subseteq Selected /\ warned' \subseteq Selected
    BY <2>1 DEF TypeOK
  <2>6. at' \in [Selected -> {"out", "start", "mkdir", "perms"}]
    BY <2>1 DEF TypeOK
  <2> QED BY <1>2, <2>3, <2>4, <2>5, <2>6 DEF Mkdir, TypeOK, Selected, mirrorVars
<1>3. CASE Perms(r)
  <2>1. at' \in [Selected -> {"out", "start", "mkdir", "perms"}]
    BY <1>3 DEF Perms, TypeOK
  <2>2. mode' \in [Dirs -> Dirs \cup {Kept}] /\ warned' \subseteq Selected
    BY <1>0, <1>3 DEF Perms, TypeOK
  <2> QED BY <1>3, <2>1, <2>2 DEF Perms, TypeOK, Selected, mirrorVars
<1>4. CASE SetTimes(r)
  <2>1. at' \in [Selected -> {"out", "start", "mkdir", "perms"}]
    BY <1>4 DEF SetTimes, TypeOK
  <2>2. stamp' \in [Dirs -> {"now", "snapshot"}]
    BY <1>4 DEF SetTimes, TypeOK
  <2> QED BY <1>4, <2>1, <2>2 DEF SetTimes, TypeOK, Selected, results, mirrorVars
<1> QED BY <1>1, <1>2, <1>3, <1>4

LEMMA EvacuationTypes == ASSUME TypeOK, Evacuation PROVE TypeOK'
<1>1. CASE WalkMirror
  <2>1. untracked' \subseteq Dirs
    BY <1>1 DEF WalkMirror, Unexpected, TypeOK
  <2> QED BY <1>1, <2>1 DEF WalkMirror, TypeOK, Selected, tree, results
<1>2. CASE EvacuateItem
  <2>1. PICK u \in untracked : \E bad \in SUBSET (Faulty \cap Subtree(u)) :
          LET gone == Removable(u, bad) IN
          /\ untracked' = untracked \ {u}
          /\ exists' = exists \ gone
          /\ evacuated' = evacuated \cup gone
          /\ stamp' = [d \in Dirs |-> IF d \in Touched(gone) THEN "now" ELSE stamp[d]]
    BY <1>2 DEF EvacuateItem
  <2>2. PICK bad \in SUBSET (Faulty \cap Subtree(u)) :
          /\ untracked' = untracked \ {u}
          /\ exists' = exists \ Removable(u, bad)
          /\ evacuated' = evacuated \cup Removable(u, bad)
          /\ stamp' = [d \in Dirs |-> IF d \in Touched(Removable(u, bad)) THEN "now" ELSE stamp[d]]
    BY <2>1
  <2>3. Removable(u, bad) \subseteq Dirs
    BY DEF Removable, Subtree
  <2>4. /\ untracked' \subseteq Dirs /\ exists' \subseteq Dirs /\ evacuated' \subseteq Dirs
        /\ stamp' \in [Dirs -> {"now", "snapshot"}]
    BY <2>3, <2>2 DEF TypeOK
  <2> QED BY <1>2, <2>4 DEF EvacuateItem, TypeOK, Selected, results
<1>3. CASE EvacuateFails
  <2>1. evacFailed' \in BOOLEAN
    BY <1>3, Zenon DEF EvacuateFails
  <2> QED BY <1>3, <2>1 DEF EvacuateFails, TypeOK, Selected, tree, results
<1>4. CASE EndEvacuation
  BY <1>4 DEF EndEvacuation, TypeOK, Selected, tree, results, mirrorVars
<1> QED BY <1>1, <1>2, <1>3, <1>4 DEF Evacuation

LEMMA TypeStep == ASSUME TypeOK, [Next]_vars PROVE TypeOK'
<1>1. CASE UNCHANGED vars
  BY <1>1 DEF vars, TypeOK, Selected, tree, results, mirrorVars
<1>2. CASE RestoreStep
  BY <1>2, LayerTypes, GoroutineTypes, EvacuationTypes DEF RestoreStep, Forward, Reverse
<1>3. CASE Cancel
  BY <1>3, LayerTypes
<1> QED BY <1>1, <1>2, <1>3 DEF Next, Ended

----------------------------------------------------------------------------
(* Layers are joined.                                                      *)

\* A layer begins with all its records and no goroutine.
LEMMA FreshLayer ==
  ASSUME TypeOK, job' = job, NEW n \in Int, layer' = n, todo' = Layer(n), at' = at,
         todo = {}, Active = {}, phase' = phase, phase \in {"forward", "reverse"}
  PROVE  Joined'
<1>1. \A r \in Selected : at'[r] = "out" /\ (r \in todo' => Depth(r) = n)
  BY DEF Active, Layer
<1> QED BY <1>1 DEF Joined, Done, Selected, TypeOK, Layer

LEMMA JoinedStep ==
  ASSUME TypeOK, Joined, [Next]_vars
  PROVE  Joined'
<1>0. job' = job
  BY JobStays
<1>1. CASE NextLayer
  <2>1. Lowest(Above(layer)) \in Int
    BY <1>1, LayerBelow DEF NextLayer
  <2> QED BY <1>0, <1>1, <2>1, FreshLayer DEF NextLayer
<1>2. CASE NextLayerUp
  <2>1. Highest(Below(layer)) \in Int
    BY <1>2, LayerAbove DEF NextLayerUp
  <2> QED BY <1>0, <1>2, <2>1, FreshLayer DEF NextLayerUp
<1>3. CASE EndForward \/ EvacuateFails \/ EndEvacuation \/ WalkMirror
  <2>1. todo' = todo /\ at' = at /\ \A r \in Selected : Done(r)
    BY <1>3 DEF EndForward, EvacuateFails, EndEvacuation, WalkMirror, Joined, Done, Active
  <2> QED BY <1>0, <2>1 DEF Joined, Done, Selected, TypeOK
<1>4. CASE Launch
  <2>1. PICK q \in todo : todo' = todo \ {q} /\ at' = [at EXCEPT ![q] = "start"]
    BY <1>4 DEF Launch
  <2>2. q \in Selected /\ ~Done(q)
    BY <2>1 DEF TypeOK, Done
  <2>3. phase' = phase /\ layer' = layer /\ phase \in {"forward", "reverse"}
    BY <1>4 DEF Launch
  <2>4. at'[q] = "start" /\ \A r \in Selected \ {q} : at'[r] = at[r] /\ (Done(r)' <=> Done(r))
    BY <2>1 DEF TypeOK, Done
  <2>5. \A r \in Selected : ~Done(r)' => phase' \in {"forward", "reverse", "ctxErr"} /\ Depth(r) = layer'
    BY <2>2, <2>3, <2>4 DEF Joined
  <2>6. \A r \in todo' : at'[r] = "out"
    BY <2>1, <2>4 DEF Joined, TypeOK
  <2>7. phase' = "reverse" => \A r \in Selected : at'[r] \in {"out", "start"}
    BY <2>2, <2>3, <2>4 DEF Joined
  <2> QED BY <1>0, <2>5, <2>6, <2>7 DEF Joined, Selected
<1>5. ASSUME NEW q \in Selected,
             Skip(q) \/ Escape(q) \/ Admit(q) \/ Mkdir(q) \/ Perms(q) \/ SetTimes(q)
      PROVE  Joined'
  <2>1. /\ todo' = todo /\ phase' = phase /\ layer' = layer /\ at[q] # "out"
        /\ phase = "reverse" => at'[q] = "out"
        /\ \A r \in Selected \ {q} : at'[r] = at[r]
    BY <1>5 DEF Skip, Escape, Admit, Mkdir, Perms, SetTimes, TypeOK
  <2>2. q \notin todo /\ ~Done(q)
    BY <2>1 DEF Joined, Done
  <2>3. \A r \in Selected : ~Done(r)' => ~Done(r)
    BY <2>1, <2>2 DEF Done
  <2> QED BY <1>0, <2>1, <2>2, <2>3 DEF Joined, Selected, TypeOK
<1>6. CASE CancelForward \/ Succeed
  <2>1. todo' = todo /\ at' = at /\ layer' = layer /\ phase' \in {"ok", "ctxErr"}
        /\ (phase' = "ok" => todo = {} /\ Active = {})
    BY <1>6 DEF CancelForward, Succeed
  <2> QED BY <1>0, <2>1 DEF Joined, Done, Active, Selected
<1>7. CASE BreakLayer
  <2>1. todo' = {} /\ at' = at /\ layer' = layer /\ phase' = phase
    BY <1>7 DEF BreakLayer
  <2> QED BY <1>0, <2>1 DEF Joined, Done, Selected
<1>8. CASE UNCHANGED <<phase, layer, todo, at>>
  BY <1>0, <1>8 DEF Joined, Done, Selected
<1>9. EvacuateItem \/ Cancel \/ Ended \/ UNCHANGED vars => UNCHANGED <<phase, layer, todo, at>>
  BY DEF EvacuateItem, Cancel, Ended, vars
<1> QED BY <1>1, <1>2, <1>3, <1>4, <1>5, <1>6, <1>7, <1>8, <1>9
        DEF Next, RestoreStep, Forward, Evacuation, Reverse

----------------------------------------------------------------------------
(* The reports of the forward pass.                                        *)

LEMMA SilenceStep ==
  ASSUME Silence, [Next]_vars
  PROVE  Silence'
<1>0. job' = job
  BY JobStays
<1>1. CASE UNCHANGED <<skipped, ctxDone>>
  BY <1>0, <1>1 DEF Silence, LimiterRefuses
<1>2. ASSUME NEW r \in Selected, Skip(r) PROVE Silence'
  BY <1>0, <1>2 DEF Skip, Silence, LimiterRefuses
<1>3. CASE Cancel
  BY <1>3 DEF Cancel, Silence
<1>4. CASE NextLayer \/ EndForward \/ CancelForward \/ Launch \/ Evacuation \/ NextLayerUp
           \/ BreakLayer \/ Succeed \/ Ended \/ UNCHANGED vars
  <2>1. UNCHANGED <<skipped, ctxDone>>
    BY <1>4 DEF NextLayer, EndForward, CancelForward, Launch, Evacuation, WalkMirror, EvacuateItem,
                EvacuateFails, EndEvacuation, NextLayerUp, BreakLayer, Succeed, Ended, vars, results
  <2> QED BY <1>1, <2>1
<1>5. ASSUME NEW r \in Selected, Escape(r) \/ Admit(r) \/ Mkdir(r) \/ Perms(r) \/ SetTimes(r)
      PROVE  Silence'
  <2>1. UNCHANGED <<skipped, ctxDone>>
    BY <1>5 DEF Escape, Admit, Mkdir, Perms, SetTimes, results
  <2> QED BY <1>1, <2>1
<1> QED BY <1>2, <1>3, <1>4, <1>5 DEF Next, RestoreStep, Forward, Reverse

LEMMA DeepestStep ==
  ASSUME TypeOK, Joined, Deepest, [Next]_vars
  PROVE  Deepest'
<1>0. job' = job
  BY JobStays
<1>1. CASE EndForward
  <2>1. \A r \in Selected : ~(Depth(r) > layer)
    BY <1>1 DEF EndForward, Above, Layers
  <2>2. \A r \in Selected : Depth(r) \in Nat
    BY JobTypes
  <2>3. phase' \in {"walk", "evacuate"} => layer' = layer
    BY <1>1 DEF EndForward
  <2>4. layer \in Int
    BY DEF TypeOK
  <2> QED BY <1>0, <2>1, <2>2, <2>3, <2>4 DEF Deepest, Selected
<1>2. CASE UNCHANGED <<phase, layer>>
  BY <1>0, <1>2 DEF Deepest, Selected
<1>3. CASE phase' \notin {"walk", "evacuate"}
  BY <1>3 DEF Deepest
<1>4. CASE WalkMirror
  BY <1>0, <1>4 DEF WalkMirror, Deepest, Selected
<1>5. NextLayer \/ CancelForward \/ EvacuateFails \/ EndEvacuation \/ NextLayerUp \/ Succeed
        => phase' \notin {"walk", "evacuate"}
  BY DEF NextLayer, CancelForward, EvacuateFails, EndEvacuation, NextLayerUp, Succeed
<1>6. Launch \/ EvacuateItem \/ BreakLayer \/ Cancel \/ Ended \/ UNCHANGED vars
        => UNCHANGED <<phase, layer>>
  BY DEF Launch, EvacuateItem, BreakLayer, Cancel, Ended, vars
<1>7. \A r \in Selected :
        Skip(r) \/ Escape(r) \/ Admit(r) \/ Mkdir(r) \/ Perms(r) \/ SetTimes(r)
          => UNCHANGED <<phase, layer>>
  BY DEF Skip, Escape, Admit, Mkdir, Perms, SetTimes
<1> QED BY <1>1, <1>2, <1>3, <1>4, <1>5, <1>6, <1>7
        DEF Next, RestoreStep, Forward, Evacuation, Reverse

LEMMA ReportedStep ==
  ASSUME TypeOK, Joined, Reported, [Next]_vars
  PROVE  Reported'
<1>0. job' = job /\ \A r \in Selected : Depth(r) \in Nat
  BY JobStays, JobTypes
<1>1. CASE NextLayer
  <2>1. /\ layer' = Lowest(Above(layer)) /\ todo' = Layer(layer') /\ at' = at
        /\ todo = {} /\ phase = "forward" /\ phase' = phase /\ UNCHANGED results
    BY <1>1 DEF NextLayer
  <2>2. \A r \in Selected : Done(r)
    BY <1>1 DEF NextLayer, Done, Active
  <2>3. layer \in Int /\ layer' \in Int /\ \A r \in Selected : Depth(r) > layer => layer' <= Depth(r)
    BY <1>1, <2>1, LayerBelow DEF NextLayer, TypeOK
  <2>4. ASSUME NEW r \in Selected, Depth(r) <= layer', Done(r)'
        PROVE  r \in made \cup warned \cup skipped
    <3>1. CASE Depth(r) <= layer
      BY <2>1, <2>2, <3>1 DEF Reported
    <3>2. CASE Depth(r) > layer
      <4>1. Depth(r) = layer'
        BY <1>0, <2>3, <2>4, <3>2
      <4>2. r \in todo'
        BY <2>1, <4>1 DEF Layer
      <4> QED BY <2>4, <4>2 DEF Done
    <3> QED BY <1>0, <2>3, <3>1, <3>2
  <2> QED BY <1>0, <2>1, <2>4 DEF Reported, Selected, results
<1>2. CASE EndForward
  <2>1. /\ todo' = todo /\ at' = at /\ phase = "forward" /\ phase' \in {"walk", "reverse"}
        /\ UNCHANGED results
    BY <1>2 DEF EndForward
  <2>2. \A r \in Selected : Done(r) /\ ~(Depth(r) > layer)
    BY <1>2 DEF EndForward, Done, Active, Above, Layers
  <2>3. \A r \in Selected : r \in made \cup warned \cup skipped
    BY <1>0, <2>1, <2>2 DEF Reported, TypeOK
  <2>4. Selected = made \cup warned \cup skipped
    BY <2>3 DEF TypeOK
  <2> QED BY <1>0, <2>1, <2>2, <2>4 DEF Reported, Selected, results, Done
<1>3. CASE Launch
  <2>1. PICK q \in todo : todo' = todo \ {q} /\ at' = [at EXCEPT ![q] = "start"]
    BY <1>3 DEF Launch
  <2>2. /\ phase' = phase /\ layer' = layer /\ UNCHANGED results /\ phase \in {"forward", "reverse"}
    BY <1>3 DEF Launch
  <2>3. \A r \in Selected : (Done(r)' => Done(r)) /\ (at'[r] = "perms" => at[r] = "perms")
    BY <2>1 DEF TypeOK, Done
  <2> QED BY <1>0, <2>2, <2>3 DEF Reported, Selected, results
<1>4. ASSUME NEW q \in Selected,
             Skip(q) \/ Escape(q) \/ Admit(q) \/ Mkdir(q) \/ Perms(q) \/ SetTimes(q)
      PROVE  Reported'
  <2>1. /\ todo' = todo /\ phase' = phase /\ layer' = layer
        /\ \A r \in Selected \ {q} : at'[r] = at[r]
        /\ made \subseteq made' /\ warned \subseteq warned' /\ skipped \subseteq skipped'
    BY <1>4 DEF Skip, Escape, Admit, Mkdir, Perms, SetTimes, TypeOK, results
  <2>2. CASE phase = "forward"
    <3>1. q \in made' \cup warned' \cup skipped' \/ at'[q] = "mkdir"
      <4>1. CASE Skip(q) \/ Escape(q) \/ Admit(q)
        BY <4>1 DEF Skip, Escape, Admit, TypeOK
      <4>2. CASE Mkdir(q)
        BY <4>2 DEF Mkdir
      <4>3. CASE Perms(q)
        BY <4>3 DEF Perms, Reported
      <4> QED BY <1>4, <2>2, <4>1, <4>2, <4>3 DEF SetTimes
    <3>2. at'[q] = "perms" => q \in made'
      <4>1. CASE Mkdir(q)
        BY <4>1 DEF Mkdir, TypeOK
      <4>2. CASE ~Mkdir(q)
        BY <1>4, <2>2, <4>2 DEF Skip, Escape, Admit, Perms, SetTimes, TypeOK
      <4> QED BY <4>1, <4>2
    <3>3. \A r \in Selected \ {q} : Done(r)' <=> Done(r)
      BY <2>1 DEF Done
    <3>4. Done(q)' => q \in made' \cup warned' \cup skipped'
      BY <3>1 DEF Done
    <3> QED BY <1>0, <2>1, <2>2, <3>2, <3>3, <3>4 DEF Reported, Selected
  <2>3. CASE phase # "forward"
    <3>1. SetTimes(q)
      BY <1>4, <2>3 DEF Skip, Escape, Admit, Mkdir, Perms
    <3>2. UNCHANGED results /\ at' = [at EXCEPT ![q] = "out"]
      BY <3>1 DEF SetTimes
    <3>3. \A r \in Selected : at'[r] = "perms" => at[r] = "perms"
      BY <3>2 DEF TypeOK
    <3> QED BY <1>0, <2>1, <2>3, <3>2, <3>3 DEF Reported, Selected, results
  <2> QED BY <2>2, <2>3
<1>5. CASE at' = at /\ UNCHANGED results /\ phase' # "forward"
           /\ (phase' # "ctxErr" => phase \in {"walk", "evacuate", "reverse", "ok"})
  BY <1>0, <1>5 DEF Reported, Selected, results, TypeOK
<1>6. CASE UNCHANGED <<phase, layer, todo, at, results>>
  BY <1>0, <1>6 DEF Reported, Selected, results, Done
<1>7. Evacuation \/ NextLayerUp \/ BreakLayer \/ Succeed \/ CancelForward
        => /\ at' = at /\ UNCHANGED results /\ phase' # "forward"
           /\ (phase' # "ctxErr" => phase \in {"walk", "evacuate", "reverse", "ok"})
  BY DEF Evacuation, WalkMirror, EvacuateItem, EvacuateFails, EndEvacuation, NextLayerUp,
         BreakLayer, Succeed, CancelForward
<1>8. Cancel \/ Ended \/ UNCHANGED vars => UNCHANGED <<phase, layer, todo, at, results>>
  BY DEF Cancel, Ended, vars
<1> QED BY <1>1, <1>2, <1>3, <1>4, <1>5, <1>6, <1>7, <1>8
        DEF Next, RestoreStep, Forward, Reverse

----------------------------------------------------------------------------
(* What MkdirAll creates, and with whose mode.                             *)

\* MkdirAll on behalf of q: missing paths at or above q.
LEMMA MkdirEffect ==
  ASSUME TypeOK, NEW q \in Selected, Mkdir(q)
  PROVE  \E new \in SUBSET (Chain[q] \ exists) :
           /\ exists' = exists \cup new
           /\ mode' = [d \in Dirs |-> IF d \in new THEN q ELSE mode[d]]
           /\ \/ /\ new = Chain[q] \ exists
                 /\ made' = made \cup {q} /\ warned' = warned
                 /\ at' = [at EXCEPT ![q] = IF job.applyPerms THEN "perms" ELSE "out"]
              \/ /\ made' = made /\ warned' = warned \cup {q}
                 /\ at' = [at EXCEPT ![q] = "out"]
<1>1. PICK failing \in SUBSET (Faulty \cap Chain[q]) :
        LET bad == failing \cup (Files \cap Chain[q])
            new == Creates(q, bad)
            good == bad = {} /\ new = Missing(q)
        IN /\ exists' = exists \cup new
           /\ mode' = [d \in Dirs |-> IF d \in new THEN q ELSE mode[d]]
           /\ stamp' = [d \in Dirs |-> IF d \in Touched(new) THEN "now" ELSE stamp[d]]
           /\ made' = IF good THEN made \cup {q} ELSE made
           /\ warned' = IF good THEN warned ELSE warned \cup {q}
           /\ at' = [at EXCEPT ![q] = IF good /\ job.applyPerms THEN "perms" ELSE "out"]
  BY DEF Mkdir
<1> DEFINE bad == failing \cup (Files \cap Chain[q])
           new == Creates(q, bad)
<1>2. new \in SUBSET (Chain[q] \ exists)
  BY DEF Creates, Missing
<1> WITNESS new \in SUBSET (Chain[q] \ exists)
<1>3. CASE bad = {} /\ new = Missing(q)
  BY <1>1, <1>3 DEF Missing
<1>4. CASE ~(bad = {} /\ new = Missing(q))
  BY <1>1, <1>4
<1> QED BY <1>3, <1>4

LEMMA GrownStep ==
  ASSUME TypeOK, Joined, Grown, [Next]_vars
  PROVE  Grown'
<1>0. job' = job /\ \A r \in Selected : Depth(r) \in Nat /\ r \in Dirs
  BY JobStays, JobTypes
<1>1. CASE phase' # "forward"
  BY <1>1 DEF Grown
<1>2. CASE NextLayer
  <2>1. /\ layer' = Lowest(Above(layer)) /\ todo' = Layer(layer') /\ at' = at
        /\ phase = "forward" /\ exists' = exists /\ made' = made
    BY <1>2 DEF NextLayer, tree, results
  <2>2. layer \in Int /\ layer' \in Int /\ layer' > layer
    BY <1>2, <2>1, LayerBelow DEF NextLayer, TypeOK
  <2>3. \A r \in Selected : Depth(r) <= layer => Depth(r) <= layer' /\ r \notin todo'
    BY <1>0, <2>1, <2>2 DEF Layer
  <2> QED BY <1>0, <2>1, <2>3 DEF Grown, Selected
<1>3. CASE Launch /\ phase = "forward"
  <2>1. PICK q \in todo : todo' = todo \ {q} /\ at' = [at EXCEPT ![q] = "start"]
    BY <1>3 DEF Launch
  <2>2. layer' = layer /\ exists' = exists /\ made' = made
    BY <1>3 DEF Launch, tree, results
  <2>3. \A r \in Selected : r \notin todo => r \notin todo' /\ at'[r] = at[r]
    BY <2>1 DEF TypeOK
  <2> QED BY <1>0, <1>3, <2>2, <2>3 DEF Grown, Selected
<1>4. ASSUME NEW q \in Selected, Skip(q) \/ Escape(q) \/ Admit(q) \/ Perms(q)
      PROVE  Grown'
  <2>1. /\ todo' = todo /\ phase = "forward" /\ layer' = layer /\ exists' = exists /\ made' = made
        /\ \A r \in Selected : at[r] \in {"perms", "out"} => at'[r] \in {"perms", "out"}
    BY <1>4 DEF Skip, Escape, Admit, Perms, TypeOK, tree, results
  <2> QED BY <1>0, <2>1 DEF Grown, Selected
<1>5. ASSUME NEW q \in Selected, Mkdir(q)
      PROVE  Grown'
  <2>1. phase = "forward" /\ at[q] = "mkdir" /\ todo' = todo /\ layer' = layer
    BY <1>5 DEF Mkdir
  <2>2. PICK new \in SUBSET (Chain[q] \ exists) :
           /\ exists' = exists \cup new
           /\ \/ /\ new = Chain[q] \ exists /\ made' = made \cup {q}
                 /\ at' = [at EXCEPT ![q] = IF job.applyPerms THEN "perms" ELSE "out"]
              \/ made' = made /\ at' = [at EXCEPT ![q] = "out"]
    BY <1>5, MkdirEffect
  <2>3. made' \subseteq exists'
    BY <1>0, <2>1, <2>2, ChainHolds DEF Grown
  <2>4. /\ at'[q] \in {"perms", "out"} /\ \A r \in Selected \ {q} : at'[r] = at[r]
        /\ q \notin todo /\ Depth(q) = layer /\ layer \in Int
    BY <2>1, <2>2 DEF TypeOK, Joined, Done
  <2>5. ASSUME NEW r \in Selected, r \in exists' \ job.existing
        PROVE  Depth(r) <= layer /\ r \notin todo /\ at'[r] \in {"perms", "out"}
    <3>1. CASE r = q
      BY <1>0, <2>4, <3>1
    <3>2. CASE r # q /\ r \in exists
      BY <2>1, <2>4, <2>5, <3>2 DEF Grown
    <3>3. CASE r # q /\ r \notin exists
      <4>1. Depth(r) < Depth(q)
        BY <1>0, <2>2, <2>5, <3>3, Higher
      <4>2. Done(r)
        BY <1>0, <2>4, <4>1 DEF Joined
      <4> QED BY <1>0, <2>4, <3>3, <4>1, <4>2 DEF Done
    <3> QED BY <3>1, <3>2, <3>3
  <2> QED BY <1>0, <2>1, <2>3, <2>5 DEF Grown, Selected
<1>6. CASE UNCHANGED <<phase, layer, todo, at, tree, results>>
  BY <1>0, <1>6 DEF Grown, Selected, tree, results
<1>7. Cancel \/ Ended \/ UNCHANGED vars => UNCHANGED <<phase, layer, todo, at, tree, results>>
  BY DEF Cancel, Ended, vars
<1>8. EndForward \/ CancelForward \/ Evacuation \/ NextLayerUp \/ BreakLayer \/ Succeed
        \/ (Launch /\ phase # "forward") => phase' # "forward"
  BY DEF EndForward, CancelForward, Evacuation, WalkMirror, EvacuateItem, EvacuateFails,
         EndEvacuation, NextLayerUp, BreakLayer, Succeed, Launch
<1>9. \A r \in Selected : SetTimes(r) => phase' # "forward"
  BY DEF SetTimes
<1> QED BY <1>1, <1>2, <1>3, <1>4, <1>5, <1>6, <1>7, <1>8, <1>9
        DEF Next, RestoreStep, Forward, Reverse

LEMMA OwnModeStep ==
  ASSUME TypeOK, Joined, Grown, OwnModeNow, [Next]_vars
  PROVE  OwnModeNow'
<1>0. job' = job /\ \A r \in Selected : r \in Dirs
  BY JobStays, JobTypes
<1>1. ASSUME UNCHANGED <<made, mode>>, warned \subseteq warned',
             \A r \in Selected : at'[r] # "perms" => at[r] # "perms"
      PROVE  OwnModeNow'
  BY <1>0, <1>1 DEF OwnModeNow, Selected, Faulty, TypeOK
<1>2. CASE Launch
  <2>1. \A r \in Selected : at'[r] # "perms" => at[r] # "perms"
    BY <1>2 DEF Launch, TypeOK, Joined
  <2> QED BY <1>1, <1>2, <2>1 DEF Launch, results, tree
<1>3. ASSUME NEW q \in Selected, Skip(q) \/ Escape(q) \/ Admit(q) \/ SetTimes(q)
      PROVE  OwnModeNow'
  <2>1. \A r \in Selected : at'[r] # "perms" => at[r] # "perms"
    BY <1>3 DEF Skip, Escape, Admit, SetTimes, TypeOK
  <2> QED BY <1>1, <1>3, <2>1 DEF Skip, Escape, Admit, SetTimes, results, tree
<1>4. ASSUME NEW q \in Selected, Mkdir(q)
      PROVE  OwnModeNow'
  <2>1. phase = "forward" /\ at[q] = "mkdir" /\ made \subseteq exists
    BY <1>4 DEF Mkdir, Grown
  <2>2. PICK new \in SUBSET (Chain[q] \ exists) :
           /\ exists' = exists \cup new
           /\ mode' = [d \in Dirs |-> IF d \in new THEN q ELSE mode[d]]
           /\ \/ /\ new = Chain[q] \ exists
                 /\ made' = made \cup {q} /\ warned' = warned
                 /\ at' = [at EXCEPT ![q] = IF job.applyPerms THEN "perms" ELSE "out"]
              \/ /\ made' = made /\ warned' = warned \cup {q}
                 /\ at' = [at EXCEPT ![q] = "out"]
    BY <1>4, MkdirEffect
  <2> SUFFICES ASSUME NEW r \in made' \ (job.existing \cup warned'), at'[r] # "perms", r \notin Faulty
               PROVE  mode'[r] = r
    BY <1>0 DEF OwnModeNow, Faulty
  <2>3. CASE r = q
    <3>1. new = Chain[q] \ exists
      BY <2>2, <2>3
    <3>2. q \notin exists
      BY <2>1, <2>3 DEF Grown
    <3>3. q \in new /\ q \in Dirs
      BY <1>0, <3>1, <3>2, ChainHolds
    <3> QED BY <2>2, <2>3, <3>3
  <2>4. CASE r # q
    <3>1. r \in made \ (job.existing \cup warned) /\ r \in Selected /\ at'[r] = at[r]
      BY <2>2, <2>4 DEF TypeOK
    <3>2. mode[r] = r
      BY <3>1 DEF OwnModeNow
    <3>3. r \notin new /\ r \in Dirs
      BY <1>0, <2>1, <3>1
    <3> QED BY <2>2, <3>2, <3>3
  <2> QED BY <2>3, <2>4
<1>5. ASSUME NEW q \in Selected, Perms(q)
      PROVE  OwnModeNow'
  <2> SUFFICES ASSUME NEW r \in made' \ (job.existing \cup warned'), at'[r] # "perms", r \notin Faulty
               PROVE  mode'[r] = r
    BY <1>0 DEF OwnModeNow, Faulty
  <2>1. /\ made' = made /\ warned \subseteq warned' /\ r \in Selected
        /\ r # q => at'[r] = at[r] /\ mode'[r] = mode[r]
    BY <1>0, <1>5 DEF Perms, TypeOK
  <2>2. CASE r = q
    BY <1>0, <1>5, <2>2 DEF Perms, TypeOK
  <2>3. CASE r # q
    BY <2>1, <2>3 DEF OwnModeNow
  <2> QED BY <2>2, <2>3
<1>6. CASE UNCHANGED <<at, made, warned, mode>>
  BY <1>1, <1>6
<1>7. NextLayer \/ EndForward \/ CancelForward \/ Evacuation \/ NextLayerUp \/ BreakLayer
        \/ Succeed \/ Cancel \/ Ended \/ UNCHANGED vars
        => UNCHANGED <<at, made, warned, mode>>
  BY DEF NextLayer, EndForward, CancelForward, Evacuation, WalkMirror, EvacuateItem, EvacuateFails,
         EndEvacuation, NextLayerUp, BreakLayer, Succeed, Cancel, Ended, vars, results, tree
<1> QED BY <1>2, <1>3, <1>4, <1>5, <1>6, <1>7 DEF Next, RestoreStep, Forward, Reverse

----------------------------------------------------------------------------
(* The times.                                                              *)

\* The reverse pass starts above every record.
LEMMA FirstStamp ==
  ASSUME TypeOK, Deepest, phase' = "reverse", layer' = layer + 1, job' = job,
         phase = "forward" => Above(layer) = {}, phase \in {"forward", "evacuate"}
  PROVE  Stamped' /\ TimesExact'
<1>1. \A r \in Selected : Depth(r) \in Nat
  BY JobTypes
<1>2. \A r \in Selected : ~(Depth(r) > layer)
  BY <1>1 DEF Deepest, Above, Layers, TypeOK
<1>3. \A r \in Selected : ~(Depth(r) >= layer')
  BY <1>1, <1>2 DEF TypeOK
<1> QED BY <1>3 DEF Stamped, TimesExact, Selected

LEMMA StampedStep ==
  ASSUME TypeOK, Joined, Deepest, Stamped, TimesExact, [Next]_vars
  PROVE  Stamped' /\ TimesExact'
<1>0. job' = job /\ \A r \in Selected : Depth(r) \in Nat
  BY JobStays, JobTypes
<1>1. CASE EndForward \/ EvacuateFails \/ EndEvacuation
  <2>1. CASE phase' = "reverse"
    BY <1>0, <1>1, <2>1, FirstStamp DEF EndForward, EvacuateFails, EndEvacuation
  <2>2. CASE phase' # "reverse"
    BY <1>1, <2>2 DEF EndForward, EvacuateFails, EndEvacuation, Stamped, TimesExact
  <2> QED BY <2>1, <2>2
<1>2. CASE NextLayerUp
  <2>1. /\ layer' = Highest(Below(layer)) /\ todo' = Layer(layer') /\ at' = at /\ ctxDone' = ctxDone
        /\ phase = "reverse" /\ phase' = phase /\ exists' = exists /\ stamp' = stamp
    BY <1>2 DEF NextLayerUp, tree
  <2>2. \A r \in Selected : Done(r)
    BY <1>2 DEF NextLayerUp, Done, Active
  <2>3. layer \in Int /\ layer' \in Int /\ \A r \in Selected : Depth(r) < layer => Depth(r) <= layer'
    BY <1>2, <2>1, LayerAbove DEF NextLayerUp, TypeOK
  <2>4. ASSUME ~ctxDone, NEW r \in (Selected \cap exists) \ (Faulty \cup Escaping),
               Depth(r) >= layer', Done(r)'
        PROVE  stamp[r] = "snapshot"
    <3>1. CASE Depth(r) >= layer
      BY <2>1, <2>2, <2>4, <3>1 DEF Stamped
    <3>2. CASE Depth(r) < layer
      <4>1. Depth(r) = layer'
        BY <1>0, <2>3, <2>4, <3>2
      <4>2. r \in todo'
        BY <2>1, <4>1 DEF Layer
      <4> QED BY <2>4, <4>2 DEF Done
    <3> QED BY <1>0, <2>3, <3>1, <3>2
  <2> QED BY <1>0, <2>1, <2>4 DEF Stamped, TimesExact, Selected, Faulty, Escaping
<1>3. CASE Launch
  <2>1. PICK q \in todo : todo' = todo \ {q} /\ at' = [at EXCEPT ![q] = "start"]
    BY <1>3 DEF Launch
  <2>2. /\ phase' = phase /\ layer' = layer /\ ctxDone' = ctxDone /\ phase \in {"forward", "reverse"}
        /\ exists' = exists /\ stamp' = stamp
    BY <1>3 DEF Launch, tree
  <2>3. \A r \in Selected : Done(r)' => Done(r)
    BY <2>1 DEF TypeOK, Done
  <2> QED BY <1>0, <2>2, <2>3 DEF Stamped, TimesExact, Selected, Faulty, Escaping
<1>4. ASSUME NEW q \in Selected, SetTimes(q)
      PROVE  Stamped' /\ TimesExact'
  <2>1. /\ phase = "reverse" /\ phase' = phase /\ layer' = layer /\ ctxDone' = ctxDone
        /\ todo' = todo /\ exists' = exists
        /\ \A r \in Selected \ {q} : at'[r] = at[r]
    BY <1>4 DEF SetTimes, TypeOK
  <2>2. /\ \A r \in Selected \ {q} : stamp'[r] = stamp[r]
        /\ \/ stamp'[q] = "snapshot"
           \/ ctxDone \/ q \notin exists \/ q \in Faulty \cup Escaping
    BY <1>4, JobTypes DEF SetTimes, TypeOK
  <2>3. \A r \in Selected \ {q} : Done(r)' => Done(r)
    BY <2>1 DEF Done
  <2> QED BY <1>0, <2>1, <2>2, <2>3 DEF Stamped, TimesExact, Selected, Faulty, Escaping
<1>5. CASE Succeed
  <2>1. /\ phase = "reverse" /\ phase' = "ok" /\ ctxDone' = ctxDone
        /\ exists' = exists /\ stamp' = stamp
        /\ \A r \in Selected : Done(r) /\ ~(Depth(r) < layer)
    BY <1>5 DEF Succeed, tree, Done, Active, Below, Layers
  <2>2. \A r \in Selected : Depth(r) >= layer
    BY <1>0, <2>1 DEF TypeOK
  <2> QED BY <1>0, <2>1, <2>2 DEF Stamped, TimesExact, Selected, Faulty, Escaping
<1>6. CASE phase' \notin {"reverse", "ok"} \/ ctxDone'
  BY <1>6 DEF Stamped, TimesExact
<1>7. CASE UNCHANGED <<phase, ctxDone, layer, todo, at, exists, stamp>>
  BY <1>0, <1>7 DEF Stamped, TimesExact, Done, Selected, Faulty, Escaping
<1>8. NextLayer \/ CancelForward \/ WalkMirror \/ EvacuateItem \/ BreakLayer \/ Cancel
        => phase' \notin {"reverse", "ok"} \/ ctxDone'
  BY DEF NextLayer, CancelForward, WalkMirror, EvacuateItem, BreakLayer, Cancel
<1>9. \A r \in Selected : Skip(r) \/ Escape(r) \/ Admit(r) \/ Mkdir(r) \/ Perms(r)
        => phase' \notin {"reverse", "ok"}
  BY DEF Skip, Escape, Admit, Mkdir, Perms
<1>10. Ended \/ UNCHANGED vars => UNCHANGED <<phase, ctxDone, layer, todo, at, exists, stamp>>
  BY DEF Ended, vars, tree
<1> QED BY <1>1, <1>2, <1>3, <1>4, <1>5, <1>6, <1>7, <1>8, <1>9, <1>10
        DEF Next, RestoreStep, Forward, Evacuation, Reverse

----------------------------------------------------------------------------
(* What a mirror leaves behind.                                            *)

\* MkdirAll makes no path without the paths above it.
LEMMA MkdirRooted ==
  ASSUME TypeOK, Rooted, NEW q \in Selected, Mkdir(q)
  PROVE  Rooted'
<1>1. PICK bad \in SUBSET Dirs : exists' = exists \cup Creates(q, bad)
  <2>1. \A failing \in SUBSET (Faulty \cap Chain[q]) : failing \cup (Files \cap Chain[q]) \in SUBSET Dirs
    BY JobTypes
  <2> QED BY <2>1 DEF Mkdir
<1>2. q \in Dirs /\ phase = "forward"
  BY JobTypes DEF Mkdir
<1>3. ASSUME NEW x \in Creates(q, bad), NEW y \in Chain[x]
      PROVE  y \in exists'
  <2>1. x \in Chain[q] /\ y \in Chain[q] /\ Chain[y] \subseteq Chain[x]
    BY <1>2, <1>3, ChainUp, ChainHolds DEF Creates, Missing
  <2>2. y \notin exists => y \in Creates(q, bad)
    BY <1>3, <2>1 DEF Creates, Missing
  <2> QED BY <1>1, <2>2
<1>4. ASSUME NEW x \in exists PROVE Chain[x] \subseteq exists'
  BY <1>1, <1>2 DEF Rooted
<1> QED BY <1>1, <1>3, <1>4 DEF Rooted

LEMMA RootedStep ==
  ASSUME TypeOK, Rooted, [Next]_vars
  PROVE  Rooted'
<1>1. ASSUME NEW q \in Selected, Mkdir(q) PROVE Rooted'
  BY <1>1, MkdirRooted
<1>2. CASE exists' = exists /\ (phase \in {"forward", "walk"} \/ phase' = phase)
  BY <1>2 DEF Rooted
<1>3. CASE phase' \notin {"forward", "walk"}
  BY <1>3 DEF Rooted
<1>4. NextLayer \/ EndForward \/ Launch \/ BreakLayer \/ Cancel \/ Ended \/ UNCHANGED vars
        => exists' = exists /\ (phase \in {"forward", "walk"} \/ phase' = phase)
  BY DEF NextLayer, EndForward, Launch, BreakLayer, Cancel, Ended, vars, tree
<1>5. \A r \in Selected : Skip(r) \/ Escape(r) \/ Admit(r) \/ Perms(r) \/ SetTimes(r)
        => exists' = exists /\ phase' = phase
  BY DEF Skip, Escape, Admit, Perms, SetTimes, tree
<1>6. CancelForward \/ Evacuation \/ NextLayerUp \/ Succeed => phase' \notin {"forward", "walk"}
  BY DEF CancelForward, Evacuation, WalkMirror, EvacuateItem, EvacuateFails, EndEvacuation,
         NextLayerUp, Succeed
<1> QED BY <1>1, <1>2, <1>3, <1>4, <1>5, <1>6 DEF Next, RestoreStep, Forward, Reverse

\* The topmost directory on the way to x that no record describes.
LEMMA Topmost ==
  ASSUME TypeOK, NEW x \in Dirs, x # Root, x \notin Selected
  PROVE  \E u \in Chain[x] \ {Root} : u \notin Selected /\ Chain[u] \ {u, Root} \subseteq Selected
<1> DEFINE T == (Chain[x] \ {Root}) \ Selected
           D == {Depth(y) : y \in T}
<1>1. x \in T /\ \A y \in T : y \in Dirs /\ Depth(y) \in Nat
  BY ChainHolds, DepthType
<1>2. D \in SUBSET Nat /\ D # {}
  BY <1>1
<1>3. PICK m \in D : \A k \in D : m <= k
  BY <1>2, LeastOf
<1>4. PICK u \in T : Depth(u) = m
  BY <1>3
<1>5. ASSUME NEW y \in Chain[u] \ {u, Root}, y \notin Selected PROVE FALSE
  <2>1. y \in T
    BY <1>4, <1>5, ChainUp
  <2>2. Depth(y) < Depth(u)
    BY <1>1, <1>4, <1>5, Higher
  <2> QED BY <1>1, <1>2, <1>3, <1>4, <2>1, <2>2
<1> QED BY <1>4, <1>5

\* The walk of the mirror overlooks only what it cannot read.
LEMMA WalkFinds ==
  ASSUME TypeOK, Rooted, WalkMirror
  PROVE  Leftovers'
<1>1. PICK blind \in SUBSET Faulty :
        untracked' = {x \in Unexpected : (Chain[x] \ {x}) \cap blind = {}}
  BY DEF WalkMirror
<1>2. /\ phase = "walk" /\ phase' = "evacuate" /\ job' = job /\ exists' = exists
      /\ exists \subseteq Dirs
  BY DEF WalkMirror, tree, TypeOK
<1>3. ASSUME NEW x \in exists \ {Root}, x \notin Selected
      PROVE  \/ \E y \in Chain[x] : y \in Faulty
             \/ untracked' \cap Chain[x] # {}
  <2>1. x \in Dirs /\ Chain[x] \subseteq exists
    BY <1>2 DEF Rooted
  <2>2. PICK u \in Chain[x] \ {Root} : u \notin Selected /\ Chain[u] \ {u, Root} \subseteq Selected
    BY <1>3, <2>1, Topmost
  <2>3. u \in Unexpected
    BY <2>1, <2>2 DEF Unexpected
  <2>4. Chain[u] \subseteq Chain[x]
    BY <2>1, <2>2, ChainUp
  <2>5. CASE (Chain[u] \ {u}) \cap blind = {}
    BY <1>1, <2>2, <2>3, <2>5
  <2>6. CASE (Chain[u] \ {u}) \cap blind # {}
    BY <2>4, <2>6
  <2> QED BY <2>5, <2>6
<1> QED BY <1>2, <1>3 DEF Leftovers, Selected, Faulty, Privileged, Subtree

\* What stays of an item after its removal, stays on account of a failed call.
LEMMA ItemLeaves ==
  ASSUME TypeOK, Leftovers, EvacuateItem
  PROVE  Leftovers'
<1>1. /\ phase = "evacuate" /\ phase' = phase /\ job' = job /\ evacFailed' = evacFailed
      /\ exists \subseteq Dirs
  BY DEF EvacuateItem, TypeOK
<1>2. PICK u \in untracked : \E bad \in SUBSET (Faulty \cap Subtree(u)) :
        untracked' = untracked \ {u} /\ exists' = exists \ Removable(u, bad)
  BY DEF EvacuateItem
<1>3. PICK bad \in SUBSET (Faulty \cap Subtree(u)) :
        untracked' = untracked \ {u} /\ exists' = exists \ Removable(u, bad)
  BY <1>2
<1> SUFFICES ASSUME job.mirror, ~evacFailed, Privileged, NEW x \in exists' \ {Root}, x \notin Selected
             PROVE  \/ \E y \in Subtree(x) \cup Chain[x] : y \in Faulty
                    \/ untracked' \cap Chain[x] # {}
  BY <1>1 DEF Leftovers, Selected, Faulty, Privileged, Subtree
<1>4. CASE u \in Chain[x]
  <2>1. x \in Subtree(u) \cap exists /\ x \notin Removable(u, bad)
    BY <1>1, <1>3, <1>4 DEF Subtree
  <2>2. PICK y \in Subtree(x) \cap exists : ~(CanWrite(Parent[y]) /\ y \notin bad)
    BY <2>1 DEF Removable
  <2>3. y \in bad
    BY <2>2 DEF CanWrite
  <2> QED BY <2>2, <2>3
<1>5. CASE u \notin Chain[x]
  <2>1. x \in exists \ {Root}
    BY <1>3
  <2>2. \/ \E y \in Subtree(x) \cup Chain[x] : y \in Faulty
        \/ untracked \cap Chain[x] # {}
    BY <1>1, <2>1 DEF Leftovers
  <2> QED BY <1>3, <1>5, <2>2
<1> QED BY <1>4, <1>5

LEMMA LeftoversStep ==
  ASSUME TypeOK, Rooted, Leftovers, [Next]_vars
  PROVE  Leftovers'
<1>0. job' = job
  BY JobStays
<1>1. CASE phase' \notin {"evacuate", "reverse", "ok"} \/ evacFailed'
  BY <1>1 DEF Leftovers
<1>2. CASE WalkMirror \/ EvacuateItem
  BY <1>2, WalkFinds, ItemLeaves
<1>3. CASE EndForward
  BY <1>0, <1>3 DEF EndForward, Leftovers
<1>4. CASE UNCHANGED <<exists, untracked, evacFailed>> /\ phase \in {"evacuate", "reverse", "ok"}
           /\ (phase = "evacuate" => untracked = {} \/ phase' = phase)
  BY <1>0, <1>4 DEF Leftovers, Selected, Faulty, Privileged, Subtree
<1>5. CASE UNCHANGED <<exists, untracked, evacFailed, phase>>
  BY <1>0, <1>5 DEF Leftovers, Selected, Faulty, Privileged, Subtree
<1>6. NextLayer \/ CancelForward \/ EvacuateFails
        => phase' \notin {"evacuate", "reverse", "ok"} \/ evacFailed'
  BY DEF NextLayer, CancelForward, EvacuateFails
<1>7. NextLayerUp \/ Succeed \/ EndEvacuation
        => /\ UNCHANGED <<exists, untracked, evacFailed>> /\ phase \in {"evacuate", "reverse", "ok"}
           /\ (phase = "evacuate" => untracked = {} \/ phase' = phase)
  BY DEF NextLayerUp, Succeed, EndEvacuation, tree, mirrorVars
<1>8. Launch \/ BreakLayer \/ Cancel \/ Ended \/ UNCHANGED vars
        => UNCHANGED <<exists, untracked, evacFailed, phase>>
  BY DEF Launch, BreakLayer, Cancel, Ended, vars, tree, mirrorVars
<1>9. ASSUME NEW r \in Selected,
             Skip(r) \/ Escape(r) \/ Admit(r) \/ Mkdir(r) \/ Perms(r) \/ SetTimes(r)
      PROVE  Leftovers'
  <2>1. CASE SetTimes(r)
    BY <1>5, <2>1 DEF SetTimes, mirrorVars
  <2>2. CASE ~SetTimes(r)
    BY <1>1, <1>9, <2>2 DEF Skip, Escape, Admit, Mkdir, Perms
  <2> QED BY <2>1, <2>2
<1> QED BY <1>1, <1>2, <1>3, <1>4, <1>5, <1>6, <1>7, <1>8, <1>9
        DEF Next, RestoreStep, Forward, Evacuation, Reverse

----------------------------------------------------------------------------
LEMMA Invariance == Spec => []IInv
<1>1. IInv /\ [Next]_vars => IInv'
  BY TypeStep, JoinedStep, ReportedStep, SilenceStep, DeepestStep, GrownStep, OwnModeStep,
     StampedStep, RootedStep, LeftoversStep DEF IInv
<1> QED BY InitIInv, <1>1, PTL DEF Spec

\* Every variable of a restore keeps its type; no directory or record is
\* invented.
THEOREM TypeCorrect == Spec => []TypeOK
BY Invariance, PTL DEF IInv

\* However the goroutines of a layer race, a directory the restore made gets the
\* mode of its own record: MkdirAll of a record below never comes first.
THEOREM ModesAreOwn == Spec => []OwnMode
<1>1. IInv => OwnMode
  BY DEF IInv, OwnModeNow, OwnMode
<1> QED BY <1>1, Invariance, PTL

\* A restore that nobody interrupts forgets no record.
THEOREM AllAccounted == Spec => []Accounted
<1>1. IInv => Accounted
  BY DEF IInv, Reported, Silence, Accounted
<1> QED BY <1>1, Invariance, PTL

\* The reverse pass reaches every restored directory, and nothing touches one
\* after it.
THEOREM TimesAreExact == Spec => []TimesExact
BY Invariance, PTL DEF IInv

\* The walk finds the topmost entries no record describes and the evacuation
\* takes whole subtrees: what a mirror still holds without a record, it could
\* not read or not remove, or it said so.
THEOREM MirrorIsClean == Spec => []MirrorClean
<1>1. IInv => MirrorClean
  BY DEF IInv, Leftovers, MirrorClean
<1> QED BY <1>1, Invariance, PTL

=============================================================================
