-------------------------- MODULE CloudAuth_proofs --------------------------
(***************************************************************************)
(* Proofs about CloudAuth, for any number of streams and variables.        *)
(*                                                                         *)
(* EnvRestored is not inductive: putting a value back must put back what   *)
(* the user had set, also when another stream replaced the variable in the *)
(* meantime.  It does, because only the user's values are encrypted, and   *)
(* only encrypted values are ever noted.                                   *)
(***************************************************************************)
EXTENDS CloudAuth, TLAPS

\* An encrypted value in the environment is the user's.
SealedIsUsers == \A v \in Vars : Encrypted(env[v]) => env[v] = Original[v]

\* A value about to be replaced is the user's.
FoundIsUsers ==
    \A s \in Streams : pc[s] = "set" =>
        at[s] \in 1..Len(Order) /\ found[s] = Original[Order[at[s]]]

\* What the cleanup puts back is the user's.
NotedIsUsers ==
    \A s \in Streams : \A i \in 1..Len(undo[s]) :
        undo[s][i].old = Original[undo[s][i].var]

IInv == TypeOK /\ SealedIsUsers /\ FoundIsUsers /\ NotedIsUsers /\ EnvRestored

----------------------------------------------------------------------------
LEMMA ValuesDiffer ==
  /\ Secret # Plain /\ Path # Plain /\ Secret # Path
  /\ \A s \in Streams, v \in Vars : File(s, v) \notin {Secret, Plain, Path}
  /\ \A s, r \in Streams, v, w \in Vars : File(s, v) = File(r, w) => s = r /\ v = w
BY DEF Secret, Plain, Path, File

\* Every variable is looked up under its place in the order.
LEMMA InOrder == ASSUME NEW i \in 1..Len(Order) PROVE Order[i] \in Vars
BY AuthAssumption

----------------------------------------------------------------------------
LEMMA InitIInv == Init => IInv
<1> SUFFICES ASSUME Init PROVE IInv
  OBVIOUS
<1>1. TypeOK
  BY AuthAssumption DEF Init, TypeOK, Values
<1>2. SealedIsUsers /\ FoundIsUsers /\ NotedIsUsers
  BY DEF Init, SealedIsUsers, FoundIsUsers, NotedIsUsers
<1>3. EnvRestored
  BY DEF Init, EnvRestored
<1> QED BY <1>1, <1>2, <1>3 DEF IInv

(* A step that only moves one stream on, without ending it, keeps what is  *)
(* pending; turning to the cleanup is such a step.                         *)
LEMMA MovePreserves ==
  ASSUME IInv, NEW s \in Streams, UNCHANGED <<env, temp, undo>>, found' \in [Streams -> {Secret, Plain, Path}],
         used' \in [Streams -> [Vars -> Values]], crossed' \in [Streams -> BOOLEAN],
         missed' \in [Streams -> SUBSET Vars],
         NEW step \in {"look", "set", "open", "ready", "undo"}, NEW n \in Nat \ {0},
         pc' = [pc EXCEPT ![s] = step], at' = [at EXCEPT ![s] = n],
         pc[s] # "undo", step = "undo" => n = 1,
         \A r \in Streams \ {s} : found'[r] = found[r],
         step = "set" => n \in 1..Len(Order) /\ found'[s] = Original[Order[n]]
  PROVE  IInv'
<1> USE DEF IInv
<1>1. TypeOK'
  BY DEF TypeOK
<1>2. pc'[s] = step /\ at'[s] = n /\ \A r \in Streams \ {s} : pc'[r] = pc[r] /\ at'[r] = at[r]
  BY DEF TypeOK
<1>3. SealedIsUsers'
  BY DEF SealedIsUsers, Encrypted
<1>4. FoundIsUsers'
  BY <1>2 DEF FoundIsUsers
<1>5. NotedIsUsers'
  BY DEF NotedIsUsers
<1>6. \A r \in Streams, v \in Vars : Busy(r) /\ Pending(r, v) => (Busy(r) /\ Pending(r, v))'
  BY <1>2 DEF Busy, Pending, TypeOK
<1>7. EnvRestored'
  BY <1>6 DEF EnvRestored
<1> QED BY <1>1, <1>3, <1>4, <1>5, <1>7

LEMMA StopPreserves ==
  ASSUME IInv, NEW s \in Streams, UNCHANGED <<env, temp, found, undo, used, crossed, missed>>,
         pc' = [pc EXCEPT ![s] = "undo"], at' = [at EXCEPT ![s] = 1], pc[s] # "undo"
  PROVE  IInv'
<1>1. found' \in [Streams -> {Secret, Plain, Path}] /\ used' \in [Streams -> [Vars -> Values]]
      /\ crossed' \in [Streams -> BOOLEAN] /\ missed' \in [Streams -> SUBSET Vars]
  BY DEF IInv, TypeOK
<1> PICK n \in Nat \ {0} : n = 1
  OBVIOUS
<1> PICK step \in {"look", "set", "open", "ready", "undo"} : step = "undo"
  OBVIOUS
<1>2. pc' = [pc EXCEPT ![s] = step] /\ at' = [at EXCEPT ![s] = n] /\ step # "set"
  OBVIOUS
<1>3. \A r \in Streams \ {s} : found'[r] = found[r]
  OBVIOUS
<1> QED BY <1>1, <1>2, <1>3, MovePreserves

LEMMA SetPreserves ==
  ASSUME IInv, NEW s \in Streams, Set(s) PROVE IInv'
<1> USE DEF IInv
<1>0. Order[at[s]] \in Vars
  BY InOrder DEF FoundIsUsers, Set
<1> PICK w \in Vars : w = Order[at[s]]
  BY <1>0
<1> DEFINE e == [var |-> w, old |-> found[s]]
<1>1. /\ at[s] \in 1..Len(Order) /\ found[s] = Original[w] /\ w \in Vars
      /\ found[s] \in {Secret, Plain, Path}
  BY DEF FoundIsUsers, Set, TypeOK
<1>2. /\ env' = [env EXCEPT ![w] = Decrypted(s, w, found[s])]
      /\ undo' = [undo EXCEPT ![s] = Append(undo[s], e)]
      /\ pc' = [pc EXCEPT ![s] = "look"] /\ at' = [at EXCEPT ![s] = @ + 1]
      /\ temp' = IF found[s] = Path THEN temp \cup {File(s, w)} ELSE temp
      /\ UNCHANGED <<found, used, crossed, missed>> /\ pc[s] = "set"
  BY DEF Set
<1>3. /\ undo[s] \in Seq([var : Vars, old : {Secret, Plain, Path}])
      /\ e \in [var : Vars, old : {Secret, Plain, Path}]
  BY <1>1 DEF TypeOK
<1>4. /\ undo'[s] \in Seq([var : Vars, old : {Secret, Plain, Path}])
      /\ Len(undo'[s]) = Len(undo[s]) + 1 /\ undo'[s][Len(undo[s]) + 1] = e
      /\ \A i \in 1..Len(undo[s]) : undo'[s][i] = undo[s][i]
      /\ Len(undo[s]) \in Nat
      /\ \A r \in Streams \ {s} : undo'[r] = undo[r]
  BY <1>2, <1>3 DEF TypeOK
<1>5. Decrypted(s, w, found[s]) \in {Plain} \cup TempFiles
  BY <1>1 DEF Decrypted, TempFiles
<1>6. TypeOK'
  <2>1. env' \in [Vars -> Values]
    BY <1>2, <1>5 DEF TypeOK, Values
  <2>2. temp' \subseteq TempFiles
    BY <1>1, <1>2 DEF TypeOK, TempFiles
  <2>3. undo' \in [Streams -> Seq([var : Vars, old : {Secret, Plain, Path}])]
    BY <1>2, <1>4 DEF TypeOK
  <2>4. pc' \in [Streams -> {"idle", "look", "set", "open", "ready", "undo", "closed"}]
        /\ at' \in [Streams -> Nat \ {0}]
    BY <1>2 DEF TypeOK
  <2> QED BY <1>2, <2>1, <2>2, <2>3, <2>4 DEF TypeOK
<1>7. SealedIsUsers'
  <2> SUFFICES ASSUME NEW v \in Vars, Encrypted(env'[v]) PROVE env'[v] = Original[v]
    BY DEF SealedIsUsers, Encrypted
  <2>1. v # w
    BY <1>2, <1>5, ValuesDiffer DEF Encrypted, TempFiles, TypeOK
  <2> QED BY <1>2, <2>1 DEF SealedIsUsers, TypeOK
<1>8. FoundIsUsers'
  BY <1>2 DEF FoundIsUsers, TypeOK
<1>9. NotedIsUsers'
  <2> SUFFICES ASSUME NEW r \in Streams, NEW i \in 1..Len(undo'[r])
               PROVE  undo'[r][i].old = Original[undo'[r][i].var]
    BY DEF NotedIsUsers
  <2>1. CASE r = s /\ i = Len(undo[s]) + 1
    BY <1>1, <1>4, <2>1
  <2>2. CASE ~(r = s /\ i = Len(undo[s]) + 1)
    <3>1. undo'[r][i] = undo[r][i] /\ i \in 1..Len(undo[r])
      BY <1>4, <2>2
    <3> QED BY <3>1 DEF NotedIsUsers
  <2> QED BY <2>1, <2>2
<1>10. (Busy(s) /\ Pending(s, w))'
  <2>1. pc'[s] = "look"
    BY <1>2 DEF TypeOK
  <2>2. Len(undo[s]) + 1 \in 1..Len(undo'[s]) /\ undo'[s][Len(undo[s]) + 1].var = w
    BY <1>4
  <2>3. Pending(s, w)'
    BY <2>1, <2>2 DEF Pending
  <2> QED BY <2>1, <2>3 DEF Busy
<1>11. \A r \in Streams, v \in Vars : Busy(r) /\ Pending(r, v) => (Busy(r) /\ Pending(r, v))'
  <2> SUFFICES ASSUME NEW r \in Streams, NEW v \in Vars, Busy(r), Pending(r, v)
               PROVE  (Busy(r) /\ Pending(r, v))'
    OBVIOUS
  <2>1. CASE r = s
    BY <1>2, <1>4, <2>1 DEF Busy, Pending, TypeOK
  <2>2. CASE r # s
    BY <1>2, <1>4, <2>2 DEF Busy, Pending, TypeOK
  <2> QED BY <2>1, <2>2
<1>12. EnvRestored'
  <2>1. ASSUME NEW v \in Vars, env'[v] # Original[v]
        PROVE  \E r \in Streams : (Busy(r) /\ Pending(r, v))'
    <3>1. CASE v = w
      <4>1. (Busy(s) /\ Pending(s, v))'
        BY <1>10, <3>1 DEF Pending
      <4> QED BY <4>1
    <3>2. CASE v # w
      BY <1>2, <1>11, <2>1, <3>2 DEF EnvRestored, TypeOK
    <3> QED BY <3>1, <3>2
  <2>2. ASSUME NEW r \in Streams, NEW v \in Vars, File(r, v) \in temp'
        PROVE  (Busy(r) /\ Pending(r, v))'
    <3>1. CASE File(r, v) = File(s, w)
      <4>1. r = s /\ v = w
        BY <1>1, <3>1, ValuesDiffer
      <4> QED BY <1>10, <4>1 DEF Pending, Busy
    <3>2. CASE File(r, v) \in temp
      BY <1>11, <3>2 DEF EnvRestored
    <3> QED BY <1>2, <2>2, <3>1, <3>2
  <2> QED BY <2>1, <2>2 DEF EnvRestored
<1> QED BY <1>6, <1>7, <1>8, <1>9, <1>12

LEMMA PutBackPreserves ==
  ASSUME IInv, NEW s \in Streams, PutBack(s) PROVE IInv'
<1> DEFINE e == undo[s][at[s]]
<1> USE DEF IInv
<1>1. /\ at[s] \in 1..Len(undo[s]) /\ e.var \in Vars /\ e.old = Original[e.var]
      /\ e.old \in {Secret, Plain, Path}
  <2>1. undo[s] \in Seq([var : Vars, old : {Secret, Plain, Path}]) /\ at[s] \in Nat \ {0}
    BY DEF TypeOK
  <2>2. at[s] <= Len(undo[s])
    BY DEF PutBack
  <2>3. at[s] \in 1..Len(undo[s])
    BY <2>1, <2>2
  <2>4. ASSUME NEW S, NEW q \in Seq(S), NEW i \in 1..Len(q) PROVE q[i] \in S
    OBVIOUS
  <2>5. e \in [var : Vars, old : {Secret, Plain, Path}]
    BY <2>1, <2>3, <2>4
  <2> QED BY <2>3, <2>5 DEF NotedIsUsers
<1>2. /\ env' = [env EXCEPT ![e.var] = e.old] /\ temp' = temp \ {File(s, e.var)}
      /\ at' = [at EXCEPT ![s] = @ + 1] /\ pc[s] = "undo"
      /\ UNCHANGED <<pc, found, undo, used, crossed, missed>>
  BY DEF PutBack
<1>3. TypeOK'
  <2>1. env' \in [Vars -> Values]
    BY <1>1, <1>2 DEF TypeOK, Values
  <2>2. at' \in [Streams -> Nat \ {0}] /\ temp' \subseteq TempFiles
    BY <1>2 DEF TypeOK
  <2> QED BY <1>2, <2>1, <2>2 DEF TypeOK
<1>4. SealedIsUsers'
  BY <1>1, <1>2 DEF SealedIsUsers, TypeOK, Encrypted
<1>5. FoundIsUsers' /\ NotedIsUsers'
  BY <1>2 DEF FoundIsUsers, NotedIsUsers, TypeOK
<1>6. \A r \in Streams, v \in Vars :
          Busy(r) /\ Pending(r, v) /\ (r # s \/ v # e.var) => (Busy(r) /\ Pending(r, v))'
  <2> SUFFICES ASSUME NEW r \in Streams, NEW v \in Vars, Busy(r), Pending(r, v),
                      r # s \/ v # e.var
               PROVE  (Busy(r) /\ Pending(r, v))'
    OBVIOUS
  <2>1. Busy(r)'
    BY <1>2 DEF Busy
  <2>2. PICK i \in 1..Len(undo[r]) : undo[r][i].var = v /\ (pc[r] = "undo" => i >= at[r])
    BY DEF Pending
  <2>3. CASE r # s
    BY <1>2, <2>1, <2>2, <2>3 DEF Pending, TypeOK
  <2>4. CASE r = s
    <3>1. i # at[s] /\ i >= at[s] /\ at[s] \in Nat
      BY <1>1, <1>2, <2>2, <2>4
    <3>2. i >= at[s] + 1
      BY <3>1, <2>2
    <3>3. at'[s] = at[s] + 1
      BY <1>2 DEF TypeOK
    <3> QED BY <1>2, <2>1, <2>2, <2>4, <3>2, <3>3 DEF Pending
  <2> QED BY <2>3, <2>4
<1>7. EnvRestored'
  <2>1. ASSUME NEW v \in Vars, env'[v] # Original[v]
        PROVE  \E r \in Streams : (Busy(r) /\ Pending(r, v))'
    <3>1. v # e.var /\ env'[v] = env[v]
      BY <1>1, <1>2, <2>1 DEF TypeOK
    <3>2. PICK r \in Streams : Busy(r) /\ Pending(r, v)
      BY <2>1, <3>1 DEF EnvRestored
    <3> QED BY <1>6, <3>1, <3>2
  <2>2. ASSUME NEW r \in Streams, NEW v \in Vars, File(r, v) \in temp'
        PROVE  (Busy(r) /\ Pending(r, v))'
    <3>1. File(r, v) \in temp /\ (r # s \/ v # e.var)
      BY <1>2, <2>2
    <3> QED BY <1>6, <3>1 DEF EnvRestored
  <2> QED BY <2>1, <2>2 DEF EnvRestored
<1> QED BY <1>3, <1>4, <1>5, <1>7

LEMMA EndPreserves ==
  ASSUME IInv, NEW s \in Streams, End(s) PROVE IInv'
<1> USE DEF IInv
<1>1. /\ pc' = [pc EXCEPT ![s] = "closed"] /\ pc[s] = "undo" /\ at[s] > Len(undo[s])
      /\ UNCHANGED <<env, temp, at, found, undo, used, crossed, missed>>
  BY DEF End
<1>2. TypeOK' /\ SealedIsUsers' /\ FoundIsUsers' /\ NotedIsUsers'
  BY <1>1 DEF TypeOK, SealedIsUsers, FoundIsUsers, NotedIsUsers, Encrypted
<1>3. \A v \in Vars : ~Pending(s, v)
  <2>1. at[s] \in Nat /\ Len(undo[s]) \in Nat
    BY DEF TypeOK
  <2> QED BY <1>1, <2>1 DEF Pending
<1>4. \A r \in Streams, v \in Vars : Busy(r) /\ Pending(r, v) => (Busy(r) /\ Pending(r, v))'
  BY <1>1, <1>3 DEF Busy, Pending, TypeOK
<1>5. EnvRestored'
  BY <1>1, <1>4 DEF EnvRestored
<1> QED BY <1>2, <1>5

----------------------------------------------------------------------------
LEMMA NextIInv == IInv /\ [Next]_vars => IInv'
<1> SUFFICES ASSUME IInv, [Next]_vars PROVE IInv'
  OBVIOUS
<1>t. TypeOK
  BY DEF IInv
<1>1. CASE UNCHANGED vars
  <2>1. TypeOK'
    BY <1>1 DEF vars, IInv, TypeOK
  <2>2. SealedIsUsers' /\ FoundIsUsers' /\ NotedIsUsers'
    BY <1>1 DEF vars, IInv, SealedIsUsers, FoundIsUsers, NotedIsUsers, Encrypted
  <2>3. EnvRestored'
    BY <1>1 DEF vars, IInv, EnvRestored, Busy, Pending
  <2> QED BY <2>1, <2>2, <2>3 DEF IInv
<1>2. ASSUME NEW s \in Streams, Run(s) PROVE IInv'
  <2>0. at = [at EXCEPT ![s] = at[s]] /\ at[s] \in Nat \ {0}
    BY <1>t DEF TypeOK
  <2>1. CASE Begin(s)
    <3>1. crossed' \in [Streams -> BOOLEAN] /\ pc' = [pc EXCEPT ![s] = "look"] /\ pc[s] # "undo"
      BY <2>1 DEF Begin, Busy
    <3> QED BY <1>t, <2>0, <2>1, <3>1, MovePreserves DEF Begin, TypeOK
  <2>2. CASE Look(s)
    <3> DEFINE v == Order[at[s]]
    <3>1. at[s] \in 1..Len(Order) /\ v \in Vars /\ pc[s] = "look"
          /\ UNCHANGED <<env, temp, undo, used, crossed, missed>>
      BY <1>t, <2>0, <2>2, InOrder DEF Look
    <3>2. CASE ~Encrypted(env[v])
      <4>1. at' = [at EXCEPT ![s] = at[s] + 1] /\ UNCHANGED <<pc, found>>
            /\ pc = [pc EXCEPT ![s] = "look"] /\ at[s] + 1 \in Nat \ {0}
        BY <1>t, <2>0, <2>2, <3>1, <3>2 DEF Look, TypeOK
      <4> QED BY <1>t, <3>1, <4>1, MovePreserves DEF TypeOK
    <3>3. CASE Encrypted(env[v]) /\ s \in Keyed
      <4>1. /\ found' = [found EXCEPT ![s] = env[v]] /\ pc' = [pc EXCEPT ![s] = "set"]
            /\ UNCHANGED at
        BY <2>2, <3>3 DEF Look
      <4>2. env[v] = Original[v] /\ env[v] \in {Secret, Plain, Path}
        BY <3>1, <3>3 DEF IInv, SealedIsUsers, Encrypted
      <4>3. found' \in [Streams -> {Secret, Plain, Path}] /\ found'[s] = Original[v]
            /\ \A r \in Streams \ {s} : found'[r] = found[r]
        BY <1>t, <4>1, <4>2 DEF TypeOK
      <4> QED BY <1>t, <2>0, <3>1, <4>1, <4>3, MovePreserves DEF TypeOK
    <3>4. CASE Encrypted(env[v]) /\ s \notin Keyed
      <4>1. /\ pc' = [pc EXCEPT ![s] = "undo"] /\ at' = [at EXCEPT ![s] = 1]
            /\ UNCHANGED found
        BY <2>2, <3>4 DEF Look
      <4> QED BY <3>1, <4>1, StopPreserves
    <3> QED BY <3>2, <3>3, <3>4
  <2>3. CASE Set(s)
    BY <2>3, SetPreserves
  <2>3a. CASE Miss(s)
    <3>1. /\ at' = [at EXCEPT ![s] = at[s] + 1] /\ pc = [pc EXCEPT ![s] = "look"]
          /\ pc[s] = "look" /\ at[s] + 1 \in Nat \ {0}
          /\ UNCHANGED <<env, temp, pc, found, undo, used, crossed>>
      BY <1>t, <2>0, <2>3a DEF Miss, TypeOK
    <3>2. missed' \in [Streams -> SUBSET Vars]
      <4>1. Order[at[s]] \in Vars
        BY <2>0, <2>3a, InOrder DEF Miss
      <4> QED BY <1>t, <2>3a, <4>1 DEF Miss, TypeOK
    <3> QED BY <1>t, <3>1, <3>2, MovePreserves DEF TypeOK
  <2>4. CASE SetFails(s) \/ OpenFails(s) \/ Close(s)
    <3>1. /\ pc' = [pc EXCEPT ![s] = "undo"] /\ at' = [at EXCEPT ![s] = 1] /\ pc[s] # "undo"
          /\ UNCHANGED <<env, temp, found, undo, used, crossed, missed>>
      BY <2>4 DEF SetFails, OpenFails, Close
    <3> QED BY <3>1, StopPreserves
  <2>5. CASE Prepared(s)
    <3>1. /\ pc' = [pc EXCEPT ![s] = "open"] /\ pc[s] # "undo"
          /\ UNCHANGED <<env, temp, at, found, undo, used, crossed, missed>>
      BY <2>5 DEF Prepared
    <3> QED BY <1>t, <2>0, <3>1, MovePreserves DEF TypeOK
  <2>6. CASE OpenBucket(s)
    <3>1. /\ pc' = [pc EXCEPT ![s] = "ready"] /\ pc[s] # "undo"
          /\ UNCHANGED <<env, temp, at, found, undo, crossed, missed>>
          /\ used' \in [Streams -> [Vars -> Values]]
      BY <1>t, <2>6 DEF OpenBucket, TypeOK
    <3> QED BY <1>t, <2>0, <3>1, MovePreserves DEF TypeOK
  <2>7. CASE PutBack(s)
    BY <2>7, PutBackPreserves
  <2>8. CASE End(s)
    BY <2>8, EndPreserves
  <2> QED BY <1>2, <2>1, <2>2, <2>3, <2>3a, <2>4, <2>5, <2>6, <2>7, <2>8 DEF Run
<1> QED BY <1>1, <1>2 DEF Next, Over

----------------------------------------------------------------------------
(* A stream that has the environment for itself.                           *)

\* A stream that was not crossed is the only one at work.
Exclusive ==
    \A s \in Streams : Busy(s) /\ ~crossed[s] => \A q \in Streams \ {s} : ~Busy(q)

\* The variables it has been through are decrypted, but for those it could not
\* look into, and their files exist.
Solo(s) ==
    /\ pc[s] = "idle" => at[s] = 1
    /\ ~crossed[s] =>
        /\ pc[s] \in {"look", "set"} =>
               \A i \in 1..Len(Order) : i < at[s] => Usable(s, Order[i], env[Order[i]])
        /\ pc[s] = "open" => \A v \in Vars : Usable(s, v, env[v])
        /\ pc[s] \in {"look", "set", "open"} =>
               \A v \in Vars : env[v] \in TempFiles => env[v] \in temp
        /\ pc[s] = "ready" => \A v \in Vars :
               /\ Usable(s, v, used[s][v])
               /\ used[s][v] \in TempFiles => used[s][v] \in temp

AloneInv == Exclusive /\ \A s \in Streams : Solo(s)

\* Nobody is forgotten to have been crossed; only Begin makes a stream busy,
\* and it crosses those at work.
LEMMA WhoRuns ==
  ASSUME TypeOK, NEW s \in Streams, Run(s)
  PROVE  /\ \A r \in Streams : crossed[r] => crossed'[r]
         /\ \A r \in Streams \ {s} : /\ pc'[r] = pc[r] /\ at'[r] = at[r] /\ used'[r] = used[r]
                                   /\ missed'[r] = missed[r]
         /\ ~Begin(s) => Busy(s) /\ crossed' = crossed
         /\ Begin(s) => /\ ~Busy(s)
                        /\ \A r \in Streams \ {s} : Busy(r) => crossed'[r] /\ crossed'[s]
<1>1. CASE Begin(s)
  BY <1>1 DEF Begin, Busy, TypeOK
<1>2. CASE ~Begin(s)
  <2>1. pc[s] \notin {"idle", "closed"} /\ crossed' = crossed
    BY <1>2 DEF Run, Look, Miss, Set, SetFails, Prepared, OpenBucket, OpenFails, Close, PutBack,
       End
  <2>2. \A r \in Streams \ {s} : /\ pc'[r] = pc[r] /\ at'[r] = at[r] /\ used'[r] = used[r]
                               /\ missed'[r] = missed[r]
    BY <1>2 DEF Run, Look, Miss, Set, SetFails, Prepared, OpenBucket, OpenFails, Close, PutBack,
       End, TypeOK
  <2> QED BY <1>2, <2>1, <2>2 DEF Busy
<1> QED BY <1>1, <1>2

LEMMA ExclusiveStep ==
  ASSUME TypeOK, Exclusive, NEW s \in Streams, Run(s)
  PROVE  Exclusive'
<1> SUFFICES ASSUME NEW r \in Streams, Busy(r)', ~crossed'[r], NEW q \in Streams \ {r}
             PROVE  ~Busy(q)'
  BY DEF Exclusive
<1>1. CASE Begin(s)
  <2>1. \A x \in Streams \ {s} : Busy(x)' <=> Busy(x)
    BY WhoRuns DEF Busy
  <2>2. r = s
    BY <1>1, <2>1, WhoRuns
  <2> QED BY <1>1, <2>1, <2>2, WhoRuns
<1>2. CASE ~Begin(s)
  <2>1. Busy(s) /\ ~crossed[r] /\ \A x \in Streams \ {s} : Busy(x)' <=> Busy(x)
    BY <1>2, WhoRuns DEF Busy
  <2> QED BY <2>1 DEF Exclusive
<1> QED BY <1>1, <1>2

\* When nobody is at work the environment is the user's.
LEMMA SoloBegins ==
  ASSUME IInv, NEW s \in Streams, Solo(s), Begin(s)
  PROVE  Solo(s)'
<1>0. pc'[s] = "look"
  BY DEF Begin, IInv, TypeOK
<1> SUFFICES ASSUME ~crossed'[s] PROVE Solo(s)'
  BY <1>0 DEF Solo
<1>1. /\ pc'[s] = "look" /\ at'[s] = at[s] /\ env' = env /\ temp' = temp
      /\ \A r \in Streams : ~Busy(r)
  BY WhoRuns DEF Begin, IInv, TypeOK, Busy, Run
<1>2. \A v \in Vars : env[v] = Original[v]
  BY <1>1 DEF IInv, EnvRestored
<1>3. \A v \in Vars : env[v] \notin TempFiles
  BY <1>2, ValuesDiffer, AuthAssumption DEF TempFiles
<1>4. at[s] = 1
  BY DEF Solo, Begin
<1> QED BY <1>1, <1>3, <1>4 DEF Solo

LEMMA SoloStep ==
  ASSUME IInv, Exclusive, NEW s \in Streams, Solo(s), Run(s)
  PROVE  Solo(s)'
<1>t. TypeOK
  BY DEF IInv
<1>1. CASE Begin(s)
  BY <1>1, SoloBegins
<1>2. CASE Look(s)
  <2>1. pc[s] = "look" /\ at[s] \in 1..Len(Order) /\ UNCHANGED <<env, temp, undo, used, crossed, missed>>
    BY <1>t, <1>2 DEF Look, TypeOK
  <2>2. CASE ~Encrypted(env[Order[at[s]]])
    <3>1. at'[s] = at[s] + 1 /\ pc'[s] = "look"
      BY <1>t, <1>2, <2>1, <2>2 DEF Look, TypeOK
    <3>2. \A i \in 1..Len(Order) : i < at[s] + 1 => i < at[s] \/ i = at[s]
      BY <2>1
    <3> QED BY <2>1, <2>2, <3>1, <3>2 DEF Solo, Usable, Encrypted
  <2>3. CASE Encrypted(env[Order[at[s]]])
    <3>1. pc'[s] = "undo" \/ (pc'[s] = "set" /\ at' = at)
      BY <1>t, <1>2, <2>3 DEF Look, TypeOK
    <3> QED BY <2>1, <3>1 DEF Solo, Usable, Encrypted
  <2> QED BY <2>2, <2>3
<1>2a. CASE Miss(s)
  <2>1. /\ pc[s] = "look" /\ pc'[s] = "look" /\ at'[s] = at[s] + 1 /\ at[s] \in 1..Len(Order)
        /\ env[Order[at[s]]] = Path /\ UNCHANGED <<env, temp, used, crossed>>
    BY <1>t, <1>2a DEF Miss, TypeOK
  <2>2. missed'[s] = missed[s] \cup {Order[at[s]]}
    BY <1>t, <1>2a DEF Miss, TypeOK
  <2>3. ASSUME ~crossed[s], NEW i \in 1..Len(Order), i < at'[s]
        PROVE  Usable(s, Order[i], env[Order[i]])'
    <3>1. CASE i = at[s]
      BY <2>1, <2>2, <3>1 DEF Usable
    <3>2. CASE i < at[s]
      BY <2>1, <2>2, <2>3, <3>2 DEF Solo, Usable, Encrypted
    <3> QED BY <2>1, <2>3, <3>1, <3>2
  <2> QED BY <2>1, <2>3 DEF Solo
<1>3. CASE Set(s)
  <2>0. Order[at[s]] \in Vars /\ at[s] \in 1..Len(Order)
    BY <1>3, InOrder DEF FoundIsUsers, Set, IInv
  <2> PICK w \in Vars : w = Order[at[s]]
    BY <2>0
  <2>1. /\ env' = [env EXCEPT ![w] = Decrypted(s, w, found[s])]
        /\ temp' = IF found[s] = Path THEN temp \cup {File(s, w)} ELSE temp
        /\ pc[s] = "set" /\ pc'[s] = "look" /\ at'[s] = at[s] + 1 /\ crossed' = crossed
        /\ missed' = missed
    BY <1>t, <1>3 DEF Set, TypeOK
  <2>2. /\ ~Encrypted(Decrypted(s, w, found[s]))
        /\ Decrypted(s, w, found[s]) \in TempFiles => Decrypted(s, w, found[s]) \in temp'
    BY <2>1, ValuesDiffer DEF Decrypted, Encrypted, TempFiles
  <2>3. \A v \in Vars : env'[v] = IF v = w THEN Decrypted(s, w, found[s]) ELSE env[v]
    BY <1>t, <2>1 DEF TypeOK
  <2>4. \A i \in 1..Len(Order) : Order[i] \in Vars /\ (i < at[s] + 1 => i < at[s] \/ i = at[s])
    BY <2>0, InOrder
  <2> HIDE DEF Decrypted
  <2>5. ASSUME ~crossed[s], NEW i \in 1..Len(Order), i < at'[s]
        PROVE  Usable(s, Order[i], env[Order[i]])'
    <3>1. CASE Order[i] = w
      BY <2>2, <2>3, <3>1 DEF Usable, Encrypted
    <3>2. CASE Order[i] # w
      BY <2>1, <2>3, <2>4, <2>5, <3>2 DEF Solo, Usable, Encrypted
    <3> QED BY <3>1, <3>2
  <2>6. ASSUME ~crossed[s], NEW v \in Vars, env'[v] \in TempFiles PROVE env'[v] \in temp'
    BY <2>1, <2>2, <2>3, <2>6 DEF Solo
  <2> QED BY <2>1, <2>5, <2>6 DEF Solo, Encrypted
<1>4. CASE SetFails(s) \/ OpenFails(s) \/ Close(s) \/ PutBack(s) \/ End(s)
  <2>1. pc'[s] \in {"undo", "closed"}
    BY <1>t, <1>4 DEF SetFails, OpenFails, Close, PutBack, End, TypeOK
  <2> QED BY <2>1 DEF Solo
<1>5. CASE Prepared(s)
  <2>1. /\ pc[s] = "look" /\ pc'[s] = "open" /\ \A i \in 1..Len(Order) : i < at[s]
        /\ UNCHANGED <<env, temp, crossed, missed>>
    BY <1>t, <1>5 DEF Prepared, TypeOK
  <2>2. \A v \in Vars : \E i \in 1..Len(Order) : Order[i] = v
    BY AuthAssumption
  <2> QED BY <2>1, <2>2 DEF Solo, Usable, Encrypted
<1>6. CASE OpenBucket(s)
  <2>1. /\ pc[s] = "open" /\ pc'[s] = "ready" /\ used'[s] = env
        /\ UNCHANGED <<env, temp, crossed, missed>>
    BY <1>t, <1>6 DEF OpenBucket, TypeOK
  <2> QED BY <2>1 DEF Solo, Usable, Encrypted
<1> QED BY <1>1, <1>2, <1>2a, <1>3, <1>4, <1>5, <1>6 DEF Run

LEMMA AloneStep ==
  ASSUME IInv, AloneInv, [Next]_vars
  PROVE  AloneInv'
<1>1. CASE UNCHANGED vars
  BY <1>1 DEF vars, AloneInv, Exclusive, Solo, Usable, Busy, Encrypted
<1>2. ASSUME NEW s \in Streams, Run(s) PROVE AloneInv'
  <2>1. Exclusive'
    BY <1>2, ExclusiveStep DEF AloneInv, IInv
  <2>2. ASSUME NEW r \in Streams PROVE Solo(r)'
    <3>1. CASE r = s
      BY <1>2, <3>1, SoloStep DEF AloneInv
    <3>2. CASE r # s
      <4>1. pc'[r] = pc[r] /\ at'[r] = at[r] /\ (Busy(r) => crossed'[r])
        BY <1>2, <3>2, WhoRuns DEF AloneInv, Exclusive, IInv
      <4>2. Solo(r)
        BY DEF AloneInv
      <4> QED BY <4>1, <4>2 DEF Solo, Busy
    <3> QED BY <3>1, <3>2
  <2> QED BY <2>1, <2>2 DEF AloneInv
<1> QED BY <1>1, <1>2 DEF Next, Over

LEMMA AloneInit == Init => AloneInv
BY DEF Init, AloneInv, Exclusive, Solo, Busy

----------------------------------------------------------------------------
\* Every variable keeps to its set of values.
THEOREM TypeCorrect == Spec => []TypeOK
<1>1. IInv => TypeOK
  BY DEF IInv
<1> QED BY InitIInv, NextIInv, <1>1, PTL DEF Spec

\* The environment and the disk are the user's again when all streams are over.
THEOREM Restored == Spec => []EnvRestored
<1>1. IInv => EnvRestored
  BY DEF IInv
<1> QED BY InitIInv, NextIInv, <1>1, PTL DEF Spec

\* A stream without competitors never opens its bucket with an encrypted secret,
\* with the path of an encrypted file unless it could not look into that file, nor
\* with the path of a decrypted one that is gone.
THEOREM UsableAlone == Spec => []AloneIsUsable
<1>1. AloneInv => AloneIsUsable
  BY DEF AloneInv, Solo, AloneIsUsable
<1>2. Spec => []IInv
  BY InitIInv, NextIInv, PTL DEF Spec
<1> QED BY AloneInit, AloneStep, <1>1, <1>2, PTL DEF Spec
=============================================================================
