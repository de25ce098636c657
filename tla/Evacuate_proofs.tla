-------------------------- MODULE Evacuate_proofs --------------------------
(***************************************************************************)
(* Proofs about Evacuate, for any number of evacuations of any items.      *)
(*                                                                         *)
(* PackedBeforePurged is about files that are gone; what a step removes is *)
(* known from what the walk listed (Listed) and what was packed of it      *)
(* (Written).  Drained says when the writers hold nothing back.            *)
(***************************************************************************)
EXTENDS Evacuate, TLAPS

Mine(j) == pipe[j] \cup Archived(j)

\* Before the archive is opened nothing is packed and nothing removed.
Idle ==
    \A j \in Jobs : pc[j] = "start" =>
        pipe[j] = {} /\ \A i \in Batch[j] : Content[i] \cap Purged = {}

\* A call works on its own items only.
Own == \A j \in Jobs : todo[j] \subseteq Batch[j] /\ (pc[j] = "pack" => cur[j] \in Batch[j])

\* The walk listed every file of the item but those that came later.
Listed == \A j \in Jobs : pc[j] = "pack" => (Content[cur[j]] \cap live) \ Late \subseteq seen[j]

Written == \A j \in Jobs : pc[j] = "pack" /\ OwnName(j) => packed[j] \subseteq Mine(j)

\* A call whose archive did not fail returns with empty writers.
Drained ==
    \A j \in Jobs : pc[j] = "nil" \/ (pc[j] = "err" /\ ~broken[j]) => pipe[j] = {}

IInv ==
    TypeOK /\ Idle /\ Own /\ Listed /\ Written /\ Drained /\ PackedBeforePurged

----------------------------------------------------------------------------
LEMMA ContentInFiles == \A i \in Items : Content[i] \subseteq AllFiles
BY DEF AllFiles

LEMMA InitIInv == Init => IInv
<1> SUFFICES ASSUME Init PROVE IInv
  OBVIOUS
<1>1. TypeOK
  <2>1. /\ 0 \in 0..LastSecond /\ disk \in [0..LastSecond -> SUBSET AllFiles]
        /\ Batch \in [Jobs -> SUBSET Items] /\ AllFiles \ Late \subseteq AllFiles
    BY EvacuateAssumption DEF Init
  <2> QED BY <2>1 DEF Init, TypeOK
<1>2. Purged = {}
  BY DEF Init, Purged
<1>3. Idle /\ Own /\ Listed /\ Written /\ Drained
  BY <1>2 DEF Init, Idle, Own, Listed, Written, Drained
<1>4. PackedBeforePurged
  BY <1>2 DEF PackedBeforePurged
<1> QED BY <1>1, <1>3, <1>4 DEF IInv

LEMMA JobTypes == ASSUME TypeOK, NEW j \in Jobs, JobStep(j) PROVE TypeOK'
<1> USE DEF TypeOK
<1>1. CASE Open(j)
  <2>1. /\ pc' \in [Jobs -> {"start", "next", "pack", "fail", "nil", "err", "dead"}]
        /\ name' \in [Jobs -> 0..LastSecond]
        /\ \A k \in Jobs : pc'[k] = "pack" => pc[k] = "pack"
    BY <1>1 DEF Open
  <2>2. disk' \in [0..LastSecond -> SUBSET AllFiles]
    BY <1>1 DEF Open
  <2>3. UNCHANGED <<todo, cur, seen, packed, pipe, broken, there, live, taken, clock, ctxDone>>
    BY <1>1 DEF Open, work, folder
  <2> QED BY <2>1, <2>2, <2>3
<1>2. CASE Pick(j)
  <2> PICK i \in todo[j] :
        /\ todo' = [todo EXCEPT ![j] = @ \ {i}]
        /\ IF i \in there
           THEN /\ cur' = [cur EXCEPT ![j] = i]
                /\ seen' = [seen EXCEPT ![j] = Content[i] \cap live]
                /\ packed' = [packed EXCEPT ![j] = {}]
                /\ pc' = [pc EXCEPT ![j] = "pack"]
           ELSE UNCHANGED <<cur, seen, packed, pc>>
    BY <1>2 DEF Pick
  <2>1. UNCHANGED <<pipe, broken, name, disk, there, live, taken, clock, ctxDone>>
    BY <1>2 DEF Pick, folder
  <2>2. i \in Items /\ Content[i] \cap live \subseteq AllFiles
    OBVIOUS
  <2>3. todo' \in [Jobs -> SUBSET Items]
    <3>1. todo' = [todo EXCEPT ![j] = todo[j] \ {i}] /\ todo \in [Jobs -> SUBSET Items]
      OBVIOUS
    <3>2. todo[j] \ {i} \in SUBSET Items
      BY ONLY <3>1, j \in Jobs
    <3> QED BY ONLY <3>1, <3>2
  <2>4. cur' \in [Jobs -> Items \cup {NoItem}]
    BY <2>2
  <2>7. packed' \in [Jobs -> SUBSET AllFiles]
    OBVIOUS
  <2>5. seen' \in [Jobs -> SUBSET AllFiles]
    BY <2>2
  <2>6. /\ pc' \in [Jobs -> {"start", "next", "pack", "fail", "nil", "err", "dead"}]
        /\ \A k \in Jobs : pc'[k] = "pack" => cur'[k] \in Items
    BY <2>2
  <2> QED BY <2>1, <2>3, <2>4, <2>5, <2>6, <2>7
<1>3. CASE Pack(j)
  BY <1>3 DEF Pack, folder
<1>4. CASE Remove(j)
  BY <1>4 DEF Remove, work
<1>5. CASE Spill(j)
  <2>1. broken' \in [Jobs -> BOOLEAN]
    BY <1>5 DEF Spill
  <2>2. pipe' \in [Jobs -> SUBSET AllFiles] /\ disk' \in [0..LastSecond -> SUBSET AllFiles]
    <3>1. CASE UNCHANGED <<pipe, disk>>
      BY <3>1
    <3>2. ASSUME NEW f \in pipe[j], pipe' = [pipe EXCEPT ![j] = @ \ {f}],
                 disk' = [disk EXCEPT ![name[j]] = @ \cup {f}]
          PROVE  pipe' \in [Jobs -> SUBSET AllFiles] /\ disk' \in [0..LastSecond -> SUBSET AllFiles]
      <4>1. pipe[j] \ {f} \in SUBSET AllFiles /\ disk[name[j]] \cup {f} \in SUBSET AllFiles
        OBVIOUS
      <4>2. pipe' \in [Jobs -> SUBSET AllFiles]
        BY <3>2, <4>1
      <4>3. disk' \in [0..LastSecond -> SUBSET AllFiles]
        BY <3>2, <4>1
      <4> QED BY <4>2, <4>3
    <3> QED BY <1>5, <3>1, <3>2 DEF Spill
  <2>4. UNCHANGED <<pc, todo, cur, seen, packed, name, there, live, taken, clock, ctxDone>>
    BY <1>5 DEF Spill, work, folder
  <2> QED BY <2>1, <2>2, <2>4
<1>6. CASE Finish(j) \/ Bail(j) \/ FinishFails(j)
  <2>1. /\ pc' \in [Jobs -> {"start", "next", "pack", "fail", "nil", "err", "dead"}]
        /\ \A k \in Jobs : pc'[k] = "pack" => pc[k] = "pack"
    BY <1>6 DEF Finish, Bail, FinishFails
  <2>2. broken' \in [Jobs -> BOOLEAN]
    BY <1>6 DEF Finish, Bail, FinishFails
  <2>3. pipe' \in [Jobs -> SUBSET AllFiles] /\ disk' \in [0..LastSecond -> SUBSET AllFiles]
    <3>1. CASE Drain(j)
      <4>1. pipe' \in [Jobs -> SUBSET AllFiles]
        BY <3>1 DEF Drain
      <4>2. disk' \in [0..LastSecond -> SUBSET AllFiles]
        BY <3>1 DEF Drain
      <4> QED BY <4>1, <4>2
    <3>2. CASE UNCHANGED <<pipe, disk>>
      BY <3>2
    <3> QED BY <1>6, <3>1, <3>2 DEF Finish, Bail, FinishFails
  <2>4. UNCHANGED <<todo, cur, seen, packed, name, there, live, taken, clock, ctxDone>>
    BY <1>6 DEF Finish, Bail, FinishFails, work, folder
  <2> QED BY <2>1, <2>2, <2>3, <2>4
<1>7. CASE OpenFails(j) \/ PackFails(j) \/ Stop(j)
  BY <1>7 DEF OpenFails, PackFails, Stop, work, folder
<1> QED BY <1>1, <1>2, <1>3, <1>4, <1>5, <1>6, <1>7 DEF JobStep

LEMMA WorldTypes ==
  ASSUME TypeOK, Arrive \/ Depart \/ Tick \/ Cancel \/ Die \/ UNCHANGED vars
  PROVE  TypeOK'
<1> USE DEF TypeOK
<1>1. CASE Arrive
  BY <1>1, ContentInFiles DEF Arrive, work
<1>2. CASE Depart
  BY <1>2, ContentInFiles DEF Depart, work
<1>3. CASE Tick \/ Cancel
  <2>1. clock' \in 0..LastSecond /\ ctxDone' \in BOOLEAN
    <3>1. clock \in Nat /\ LastSecond \in Nat /\ clock <= LastSecond
      BY EvacuateAssumption
    <3>2. CASE Tick
      BY <3>1, <3>2 DEF Tick
    <3>3. CASE Cancel
      BY <3>3 DEF Cancel
    <3> QED BY <1>3, <3>2, <3>3
  <2>2. UNCHANGED <<pc, todo, cur, seen, packed, pipe, broken, name, disk, there, live, taken>>
    BY <1>3 DEF Tick, Cancel, work, folder
  <2> QED BY <2>1, <2>2
<1>4. CASE Die
  BY <1>4 DEF Die, work, folder
<1>5. CASE UNCHANGED vars
  BY <1>5 DEF vars, work, folder
<1> QED BY <1>1, <1>2, <1>3, <1>4, <1>5

----------------------------------------------------------------------------
\* A step that neither opens an archive, nor lists or packs or removes an item.
LEMMA SteadyPreserves ==
  ASSUME IInv, UNCHANGED <<cur, seen, packed, name>>,
         \A j \in Jobs : todo'[j] \subseteq todo[j],
         \A j \in Jobs : pc'[j] \in {"start", "pack"} => pc'[j] = pc[j],
         \A j \in Jobs : pipe'[j] \subseteq pipe[j] /\ Mine(j) \subseteq Mine(j)',
         live' \ Late \subseteq live, live \cup taken \subseteq live' \cup taken'
  PROVE  Idle' /\ Own' /\ Listed' /\ Written' /\ PackedBeforePurged'
<1> USE DEF IInv
<1>1. Purged' \subseteq Purged
  BY DEF Purged
<1>2. \A j \in Jobs : OwnName(j)' => OwnName(j)
  BY DEF OwnName
<1>3. Idle'
  BY <1>1 DEF Idle
<1>4. Own' /\ Listed'
  BY DEF Own, Listed
<1>5. Written'
  BY <1>2 DEF Written
<1>6. PackedBeforePurged'
  <2> SUFFICES ASSUME NEW j \in Jobs, OwnName(j)', NEW i \in Batch[j]
               PROVE  Content[i] \cap Purged' \subseteq Mine(j)'
    BY DEF PackedBeforePurged, Mine
  <2>1. Content[i] \cap Purged \subseteq Mine(j)
    BY <1>2 DEF PackedBeforePurged, Mine
  <2> QED BY <1>1, <2>1
<1> QED BY <1>3, <1>4, <1>5, <1>6

LEMMA OpenPreserves == ASSUME IInv, NEW j \in Jobs, Open(j) PROVE IInv'
<1> USE DEF IInv
<1>1. /\ pc[j] = "start" /\ name' = [name EXCEPT ![j] = clock]
      /\ disk' = [disk EXCEPT ![clock] = {}] /\ pc' = [pc EXCEPT ![j] = "next"]
      /\ UNCHANGED <<todo, cur, seen, packed, pipe, broken, there, live, taken>>
  BY DEF Open, work, folder
<1>2. TypeOK'
  BY JobTypes DEF JobStep
<1>3. Purged' = Purged
  BY <1>1 DEF Purged
<1>4. /\ pc'[j] = "next" /\ name'[j] = clock
      /\ \A k \in Jobs \ {j} : pc'[k] = pc[k] /\ name'[k] = name[k]
  BY <1>1 DEF TypeOK
<1>5. ASSUME NEW k \in Jobs \ {j}, OwnName(k)'
      PROVE  OwnName(k) /\ Mine(k)' = Mine(k)
  <2>1. name'[k] # clock
    BY <1>4, <1>5 DEF OwnName
  <2>2. Archived(k)' = Archived(k)
    BY <1>1, <1>4, <2>1 DEF Archived, TypeOK
  <2>3. OwnName(k)
    BY <1>1, <1>4, <1>5 DEF OwnName
  <2> QED BY <1>1, <2>2, <2>3 DEF Mine
<1>6. Idle' /\ Own' /\ Listed' /\ Drained'
  BY <1>1, <1>3, <1>4 DEF Idle, Own, Listed, Drained
<1>7. Written'
  BY <1>1, <1>4, <1>5 DEF Written
<1>8. PackedBeforePurged'
  <2> SUFFICES ASSUME NEW k \in Jobs, OwnName(k)', NEW i \in Batch[k]
               PROVE  Content[i] \cap Purged \subseteq Mine(k)'
    BY <1>3 DEF PackedBeforePurged, Mine
  <2>1. CASE k = j
    BY <1>1, <2>1 DEF Idle
  <2>2. CASE k # j
    BY <1>5, <2>2 DEF PackedBeforePurged, Mine
  <2> QED BY <2>1, <2>2
<1> QED BY <1>2, <1>6, <1>7, <1>8

LEMMA PickPreserves == ASSUME IInv, NEW j \in Jobs, Pick(j) PROVE IInv'
<1> USE DEF IInv
<1> PICK i \in todo[j] :
      /\ todo' = [todo EXCEPT ![j] = @ \ {i}]
      /\ IF i \in there
         THEN /\ cur' = [cur EXCEPT ![j] = i]
              /\ seen' = [seen EXCEPT ![j] = Content[i] \cap live]
              /\ packed' = [packed EXCEPT ![j] = {}]
              /\ pc' = [pc EXCEPT ![j] = "pack"]
         ELSE UNCHANGED <<cur, seen, packed, pc>>
  BY DEF Pick
<1>1. pc[j] = "next" /\ UNCHANGED <<pipe, broken, name, disk, there, live, taken>>
  BY DEF Pick, folder
<1>2. TypeOK'
  BY JobTypes DEF JobStep
<1>3. \A k \in Jobs : todo'[k] \subseteq todo[k]
  BY DEF TypeOK
<1>4. Purged' = Purged /\ \A k \in Jobs : Mine(k)' = Mine(k)
  BY <1>1 DEF Purged, Mine, Archived
<1>5. CASE i \notin there
  <2>1. Drained'
    BY <1>1, <1>5 DEF Drained
  <2> QED BY <1>1, <1>2, <1>3, <1>4, <1>5, <2>1, SteadyPreserves
<1>6. CASE i \in there
  <2>1. /\ pc'[j] = "pack" /\ cur'[j] = i /\ i \in Batch[j]
        /\ seen'[j] = Content[i] \cap live /\ packed'[j] = {}
        /\ \A k \in Jobs \ {j} : /\ pc'[k] = pc[k] /\ cur'[k] = cur[k]
                                /\ seen'[k] = seen[k] /\ packed'[k] = packed[k]
    BY <1>6 DEF TypeOK, Own
  <2>2. \A k \in Jobs : OwnName(k)' => OwnName(k)
    BY <1>1, <2>1 DEF OwnName
  <2>3. Idle' /\ Drained'
    BY <1>1, <1>4, <2>1 DEF Idle, Drained
  <2>4. Own'
    BY <1>3, <2>1 DEF Own
  <2>5. Listed'
    BY <1>1, <2>1 DEF Listed
  <2>6. Written'
    BY <1>4, <2>1, <2>2 DEF Written
  <2>7. PackedBeforePurged'
    BY <1>4, <2>2 DEF PackedBeforePurged, Mine
  <2> QED BY <1>2, <2>3, <2>4, <2>5, <2>6, <2>7
<1> QED BY <1>5, <1>6

LEMMA PackPreserves == ASSUME IInv, NEW j \in Jobs, Pack(j) PROVE IInv'
<1> USE DEF IInv
<1> PICK f \in (seen[j] \cap live) \ packed[j] :
      /\ packed' = [packed EXCEPT ![j] = @ \cup {f}]
      /\ pipe' = [pipe EXCEPT ![j] = @ \cup {f}]
  BY DEF Pack
<1>1. /\ pc[j] = "pack"
      /\ UNCHANGED <<pc, todo, cur, seen, broken, name, disk, there, live, taken>>
  BY DEF Pack, folder
<1>2. TypeOK'
  BY JobTypes DEF JobStep
<1>3. /\ packed'[j] = packed[j] \cup {f} /\ pipe'[j] = pipe[j] \cup {f}
      /\ \A k \in Jobs \ {j} : packed'[k] = packed[k] /\ pipe'[k] = pipe[k]
  BY DEF TypeOK
<1>4. Purged' = Purged /\ \A k \in Jobs : OwnName(k)' = OwnName(k)
  BY <1>1 DEF Purged, OwnName
<1>5. \A k \in Jobs : Mine(k) \subseteq Mine(k)'
  BY <1>1, <1>3 DEF Mine, Archived
<1>6. f \in Mine(j)'
  BY <1>3 DEF Mine
<1>7. Idle' /\ Own' /\ Listed' /\ Drained'
  BY <1>1, <1>3, <1>4 DEF Idle, Own, Listed, Drained
<1>8. Written'
  BY <1>1, <1>3, <1>4, <1>5, <1>6 DEF Written
<1>9. PackedBeforePurged'
  <2> SUFFICES ASSUME NEW k \in Jobs, OwnName(k), NEW i \in Batch[k]
               PROVE  Content[i] \cap Purged \subseteq Mine(k)'
    BY <1>4 DEF PackedBeforePurged, Mine
  <2>1. Content[i] \cap Purged \subseteq Mine(k)
    BY DEF PackedBeforePurged, Mine
  <2> QED BY <1>5, <2>1
<1> QED BY <1>2, <1>7, <1>8, <1>9

\* What RemoveAll takes from the item at hand was packed; other items are not
\* touched, for no two share a file and no two calls an item.
LEMMA RemovePreserves == ASSUME IInv, NEW j \in Jobs, Remove(j) PROVE IInv'
<1> USE DEF IInv
<1>1. /\ pc[j] = "pack" /\ packed[j] = seen[j]
      /\ live' = live \ (Content[cur[j]] \ Stubborn)
      /\ pc' = [pc EXCEPT ![j] = "next"]
      /\ UNCHANGED <<todo, cur, seen, packed, pipe, broken, name, disk, taken>>
  BY DEF Remove, work
<1>2. TypeOK'
  BY JobTypes DEF JobStep
<1>3. pc'[j] = "next" /\ \A k \in Jobs \ {j} : pc'[k] = pc[k]
  BY <1>1 DEF TypeOK
<1>4. cur[j] \in Batch[j] /\ cur[j] \in Items
  BY <1>1, EvacuateAssumption DEF Own
<1>5. ASSUME NEW i \in Items, i # cur[j]
      PROVE  Content[i] \cap Purged' = Content[i] \cap Purged
  <2>1. Content[i] \cap Content[cur[j]] = {}
    BY <1>4, <1>5, EvacuateAssumption
  <2> QED BY <1>1, <2>1 DEF Purged
<1>6. \A k \in Jobs \ {j} : \A i \in Batch[k] : i \in Items /\ i # cur[j]
  BY <1>4, EvacuateAssumption
<1>7. /\ \A k \in Jobs : OwnName(k)' => OwnName(k)
      /\ \A k \in Jobs : Mine(k)' = Mine(k)
  BY <1>1, <1>3 DEF OwnName, Mine, Archived
<1>8. Idle'
  <2> SUFFICES ASSUME NEW k \in Jobs, pc'[k] = "start"
               PROVE  pipe'[k] = {} /\ \A i \in Batch[k] : Content[i] \cap Purged' = {}
    BY DEF Idle
  <2>1. k # j /\ pc[k] = "start"
    BY <1>3
  <2> QED BY <1>1, <1>5, <1>6, <2>1 DEF Idle
<1>9. Own' /\ Listed' /\ Drained'
  BY <1>1, <1>3 DEF Own, Listed, Drained
<1>10. Written'
  BY <1>1, <1>3, <1>7 DEF Written
<1>11. PackedBeforePurged'
  <2> SUFFICES ASSUME NEW k \in Jobs, OwnName(k), NEW i \in Batch[k]
               PROVE  Content[i] \cap Purged' \subseteq Mine(k)
    BY <1>7 DEF PackedBeforePurged, Mine
  <2>1. Content[i] \cap Purged \subseteq Mine(k)
    BY DEF PackedBeforePurged, Mine
  <2>2. CASE i # cur[j]
    BY <1>5, <2>1, <2>2, EvacuateAssumption
  <2>3. CASE i = cur[j]
    <3>1. k = j
      BY <1>6, <2>3
    <3>2. (Content[i] \cap live) \ Late \subseteq Mine(j)
      BY <1>1, <2>3, <3>1 DEF Listed, Written
    <3>3. Content[i] \cap Purged' \subseteq (Content[i] \cap Purged) \cup ((Content[i] \cap live) \ Late)
      BY <1>1 DEF Purged
    <3> QED BY <2>1, <3>1, <3>2, <3>3
  <2> QED BY <2>2, <2>3
<1> QED BY <1>2, <1>8, <1>9, <1>10, <1>11

\* What leaves the writers is in the archive.
LEMMA SpillPreserves == ASSUME IInv, NEW j \in Jobs, Spill(j) PROVE IInv'
<1> USE DEF IInv
<1>1. /\ pc[j] \in {"next", "pack"} /\ UNCHANGED <<pc, todo, cur, seen, packed, name, live, taken>>
  BY DEF Spill, work, folder
<1>2. TypeOK'
  BY JobTypes DEF JobStep
<1>3. \A k \in Jobs : pipe'[k] \subseteq pipe[k] /\ Mine(k) \subseteq Mine(k)'
  <2>1. CASE UNCHANGED <<pipe, disk>>
    BY <1>1, <2>1 DEF Mine, Archived
  <2>2. ASSUME NEW f \in pipe[j], pipe' = [pipe EXCEPT ![j] = @ \ {f}],
               disk' = [disk EXCEPT ![name[j]] = @ \cup {f}]
        PROVE  \A k \in Jobs : pipe'[k] \subseteq pipe[k] /\ Mine(k) \subseteq Mine(k)'
    BY <1>1, <2>2 DEF Mine, Archived, TypeOK
  <2> QED BY <2>1, <2>2 DEF Spill
<1>4. Drained'
  BY <1>1, <1>2, <1>3 DEF Drained, Spill, TypeOK
<1> QED BY <1>1, <1>2, <1>3, <1>4, SteadyPreserves

LEMMA DrainMoves ==
  ASSUME TypeOK, NEW j \in Jobs, Drain(j), UNCHANGED name
  PROVE  /\ pipe'[j] = {}
         /\ \A k \in Jobs : pipe'[k] \subseteq pipe[k] /\ Mine(k) \subseteq Mine(k)'
BY DEF Drain, Mine, Archived, TypeOK

\* The call returns, after closing its writers or failing to.
LEMMA ReturnPreserves ==
  ASSUME IInv, NEW j \in Jobs, Finish(j) \/ FinishFails(j) \/ Bail(j) \/ OpenFails(j)
  PROVE  IInv'
<1> USE DEF IInv
<1>1. UNCHANGED <<todo, cur, seen, packed, name, live, taken>>
  BY DEF Finish, FinishFails, Bail, OpenFails, work, folder
<1>2. TypeOK'
  BY JobTypes DEF JobStep
<1>3. /\ pc'[j] \in {"nil", "err"}
      /\ \A k \in Jobs \ {j} : pc'[k] = pc[k] /\ broken'[k] = broken[k]
  BY DEF Finish, FinishFails, Bail, OpenFails, TypeOK
<1>4. \A k \in Jobs : pipe'[k] \subseteq pipe[k] /\ Mine(k) \subseteq Mine(k)'
  <2>1. CASE Drain(j)
    BY <1>1, <2>1, DrainMoves
  <2>2. CASE UNCHANGED <<pipe, disk>>
    BY <1>1, <2>2 DEF Mine, Archived
  <2> QED BY <2>1, <2>2 DEF Finish, FinishFails, Bail, OpenFails
<1>5. pc'[j] = "nil" \/ ~broken'[j] => pipe'[j] = {}
  <2>1. CASE Drain(j)
    BY <1>1, <2>1, DrainMoves
  <2>2. CASE OpenFails(j)
    BY <2>2 DEF OpenFails, Idle
  <2>3. CASE pc'[j] = "err" /\ broken'[j]
    BY <2>3
  <2>4. CASE FinishFails(j) \/ (Bail(j) /\ broken' = [broken EXCEPT ![j] = TRUE])
    BY <2>3, <2>4 DEF FinishFails, Bail, TypeOK
  <2> QED BY <2>1, <2>2, <2>4 DEF Finish, Bail
<1>6. Drained'
  BY <1>3, <1>4, <1>5 DEF Drained
<1> QED BY <1>1, <1>2, <1>3, <1>4, <1>6, SteadyPreserves

LEMMA FailPreserves ==
  ASSUME IInv, NEW j \in Jobs, PackFails(j) \/ Stop(j) PROVE IInv'
<1> USE DEF IInv
<1>1. /\ pc' = [pc EXCEPT ![j] = "fail"]
      /\ UNCHANGED <<todo, cur, seen, packed, pipe, broken, name, disk, live, taken>>
  BY DEF PackFails, Stop, work, folder
<1>2. TypeOK'
  BY JobTypes DEF JobStep
<1>3. pc'[j] = "fail" /\ \A k \in Jobs \ {j} : pc'[k] = pc[k]
  BY <1>1 DEF TypeOK
<1>4. Drained'
  BY <1>1, <1>3 DEF Drained
<1>5. \A k \in Jobs : Mine(k)' = Mine(k)
  BY <1>1 DEF Mine, Archived
<1> QED BY <1>1, <1>2, <1>3, <1>4, <1>5, SteadyPreserves

LEMMA WorldPreserves ==
  ASSUME IInv, Arrive \/ Depart \/ Tick \/ Cancel \/ Die \/ UNCHANGED vars PROVE IInv'
<1> USE DEF IInv
<1>1. UNCHANGED <<todo, cur, seen, packed, pipe, broken, name, disk>>
  BY DEF Arrive, Depart, Tick, Cancel, Die, vars, work, folder
<1>2. TypeOK'
  BY WorldTypes
<1>3. \A k \in Jobs : pc'[k] = pc[k] \/ pc'[k] = "dead"
  BY DEF Arrive, Depart, Tick, Cancel, Die, vars, work
<1>4. live' \ Late \subseteq live /\ live \cup taken \subseteq live' \cup taken'
  BY DEF Arrive, Depart, Tick, Cancel, Die, vars, folder
<1>5. Drained'
  BY <1>1, <1>3 DEF Drained
<1>6. \A k \in Jobs : Mine(k)' = Mine(k)
  BY <1>1 DEF Mine, Archived
<1> QED BY <1>1, <1>2, <1>3, <1>4, <1>5, <1>6, SteadyPreserves

LEMMA NextPreserves == IInv /\ [Next]_vars => IInv'
<1> SUFFICES ASSUME IInv, [Next]_vars PROVE IInv'
  OBVIOUS
<1>1. CASE \E j \in Jobs : JobStep(j)
  BY <1>1, OpenPreserves, PickPreserves, PackPreserves, RemovePreserves, SpillPreserves,
     ReturnPreserves, FailPreserves DEF JobStep
<1>2. CASE Arrive \/ Depart \/ Tick \/ Cancel \/ Die \/ UNCHANGED vars
  BY <1>2, WorldPreserves
<1> QED BY <1>1, <1>2 DEF Next, Over

LEMMA Invariance == Spec => []IInv
BY InitIInv, NextPreserves, PTL DEF Spec

----------------------------------------------------------------------------
\* The cells keep their types; whoever packs has an item at hand.
THEOREM TypeCorrect == Spec => []TypeOK
BY Invariance, PTL DEF IInv

\* Whatever fails, departs or dies, RemoveAll takes no file that was there when
\* the item was listed and was not written to the archive stream before.
THEOREM NothingPurgedUnpacked == Spec => []PackedBeforePurged
BY Invariance, PTL DEF IInv

\* EvacuateUntracked returns nil only when what it removed is in the archive,
\* unless another one of the same second truncated that.
THEOREM NilIsHonest == Spec => []NilMeansArchived
<1>1. IInv => NilMeansArchived
  BY DEF IInv, NilMeansArchived, PackedBeforePurged, Drained
<1> QED BY <1>1, Invariance, PTL

\* The early returns close the writers, so an error of the folder, an item or
\* the context costs no file.
THEOREM ErrorsAreHarmless == Spec => []OnlyDisasterLoses
<1>1. IInv => OnlyDisasterLoses
  BY DEF IInv, OnlyDisasterLoses, PackedBeforePurged, Drained
<1> QED BY <1>1, Invariance, PTL

=============================================================================
