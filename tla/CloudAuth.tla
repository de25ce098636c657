------------------------------ MODULE CloudAuth ------------------------------
(***************************************************************************)
(* Cloud streams: PrepareCloudAuth of internal/storage/secret.go and the   *)
(* readers and writers of internal/storage/cloud.go that call it.          *)
(*                                                                         *)
(* A stream replaces encrypted credentials in the environment of the       *)
(* process by decrypted ones, opens its bucket, and on Close puts the old  *)
(* values back.  The environment is one for all streams of a process, and  *)
(* nothing orders the streams of a library caller.                         *)
(*                                                                         *)
(* A variable holds an encrypted or a plain secret, the path of a file     *)
(* with encrypted content, or the name of a temporary file.                *)
(***************************************************************************)
EXTENDS Integers, Sequences, FiniteSets

CONSTANTS
    Streams, Vars,
    Order,    \* the variables, in the order they are looked up
    Original, \* their values when the process starts
    Keyed     \* the streams that find a master key which decrypts them

Secret == <<"secret">>
Plain == <<"plain">>
Path == <<"path">>
File(s, v) == <<"file", s, v>>

ASSUME AuthAssumption ==
    /\ Order \in Seq(Vars) /\ \A v \in Vars : \E i \in 1..Len(Order) : Order[i] = v
    /\ Original \in [Vars -> {Secret, Plain, Path}]
    /\ Keyed \subseteq Streams

VARIABLES
    env,     \* the environment: value of each variable
    temp,    \* the temporary credential files, named by stream and variable
    pc,      \* "idle", "look", "set", "open", "ready", "undo", "closed"
    at,      \* position in Order, or of the next value to put back
    found,   \* the value found at that position
    undo,    \* the variables a stream has replaced, with their old values
    used,    \* the values of the variables when it opened its bucket
    crossed, \* another stream was between its first lookup and its last restore
    missed   \* variables whose credential file the stream could not look into

vars == <<env, temp, pc, at, found, undo, used, crossed, missed>>

----------------------------------------------------------------------------
Encrypted(val) == val \in {Secret, Path}
Busy(s) == pc[s] \notin {"idle", "closed"}

\* What the decrypted variable holds: a secret, or the path of a decrypted copy.
Decrypted(s, v, val) == IF val = Path THEN File(s, v) ELSE Plain

Init ==
    /\ env = Original /\ temp = {}
    /\ pc = [s \in Streams |-> "idle"] /\ at = [s \in Streams |-> 1]
    /\ found = [s \in Streams |-> Plain]
    /\ undo = [s \in Streams |-> <<>>] /\ used = [s \in Streams |-> Original]
    /\ crossed = [s \in Streams |-> FALSE] /\ missed = [s \in Streams |-> {}]

Begin(s) ==
    /\ pc[s] = "idle"
    /\ pc' = [pc EXCEPT ![s] = "look"]
    /\ crossed' = [r \in Streams |-> \/ crossed[r]
                                     \/ r # s /\ Busy(r)
                                     \/ r = s /\ \E q \in Streams \ {s} : Busy(q)]
    /\ UNCHANGED <<env, temp, at, found, undo, used, missed>>

\* checkAndDecryptEnv up to Decrypt; without a key that works the stream fails.
Look(s) ==
    /\ pc[s] = "look" /\ at[s] <= Len(Order)
    /\ LET val == env[Order[at[s]]]
       IN IF ~Encrypted(val)
          THEN at' = [at EXCEPT ![s] = @ + 1] /\ UNCHANGED <<pc, found>>
          ELSE IF s \in Keyed
          THEN /\ found' = [found EXCEPT ![s] = val]
               /\ pc' = [pc EXCEPT ![s] = "set"] /\ UNCHANGED at
          ELSE /\ pc' = [pc EXCEPT ![s] = "undo"]
               /\ at' = [at EXCEPT ![s] = 1] /\ UNCHANGED found
    /\ UNCHANGED <<env, temp, undo, used, crossed, missed>>

\* Stat or ReadFile fails on the credential file: whatever is in it, the variable
\* is passed over without a word.
Miss(s) ==
    /\ pc[s] = "look" /\ at[s] <= Len(Order) /\ env[Order[at[s]]] = Path
    /\ missed' = [missed EXCEPT ![s] = @ \cup {Order[at[s]]}]
    /\ at' = [at EXCEPT ![s] = @ + 1]
    /\ UNCHANGED <<env, temp, pc, found, undo, used, crossed>>

\* Mutant: the old value is read again when the variable is replaced.
SetRereads(s) ==
    /\ pc[s] = "set"
    /\ LET v == Order[at[s]]
       IN /\ temp' = IF found[s] = Path THEN temp \cup {File(s, v)} ELSE temp
          /\ undo' = [undo EXCEPT ![s] = Append(@, [var |-> v, old |-> env[v]])]
          /\ env' = [env EXCEPT ![v] = Decrypted(s, v, found[s])]
    /\ at' = [at EXCEPT ![s] = @ + 1] /\ pc' = [pc EXCEPT ![s] = "look"]
    /\ UNCHANGED <<found, used, crossed, missed>>

\* The value that was looked up is noted for the cleanup and replaced.
Set(s) ==
    /\ pc[s] = "set"
    /\ LET v == Order[at[s]]
       IN /\ temp' = IF found[s] = Path THEN temp \cup {File(s, v)} ELSE temp
          /\ undo' = [undo EXCEPT ![s] = Append(@, [var |-> v, old |-> found[s]])]
          /\ env' = [env EXCEPT ![v] = Decrypted(s, v, found[s])]
    /\ at' = [at EXCEPT ![s] = @ + 1] /\ pc' = [pc EXCEPT ![s] = "look"]
    /\ UNCHANGED <<found, used, crossed, missed>>

\* The temporary file cannot be created or written; it is removed again.
SetFails(s) ==
    /\ pc[s] = "set" /\ found[s] = Path
    /\ pc' = [pc EXCEPT ![s] = "undo"] /\ at' = [at EXCEPT ![s] = 1]
    /\ UNCHANGED <<env, temp, found, undo, used, crossed, missed>>

\* Mutant: the last variable is left out.
PreparedEarly(s) ==
    /\ pc[s] = "look" /\ at[s] >= Len(Order)
    /\ pc' = [pc EXCEPT ![s] = "open"]
    /\ UNCHANGED <<env, temp, at, found, undo, used, crossed, missed>>

Prepared(s) ==
    /\ pc[s] = "look" /\ at[s] > Len(Order)
    /\ pc' = [pc EXCEPT ![s] = "open"]
    /\ UNCHANGED <<env, temp, at, found, undo, used, crossed, missed>>

\* The URL is parsed and the bucket opened with the credentials of the moment.
OpenBucket(s) ==
    /\ pc[s] = "open"
    /\ used' = [used EXCEPT ![s] = env]
    /\ pc' = [pc EXCEPT ![s] = "ready"]
    /\ UNCHANGED <<env, temp, at, found, undo, crossed, missed>>

OpenFails(s) ==
    /\ pc[s] = "open"
    /\ pc' = [pc EXCEPT ![s] = "undo"] /\ at' = [at EXCEPT ![s] = 1]
    /\ UNCHANGED <<env, temp, found, undo, used, crossed, missed>>

\* Close of the blob and of the bucket; whether they fail makes no difference here.
Close(s) ==
    /\ pc[s] = "ready"
    /\ pc' = [pc EXCEPT ![s] = "undo"] /\ at' = [at EXCEPT ![s] = 1]
    /\ UNCHANGED <<env, temp, found, undo, used, crossed, missed>>

\* The cleanup puts one value back, removing the file it had stood for.
PutBack(s) ==
    /\ pc[s] = "undo" /\ at[s] <= Len(undo[s])
    /\ LET r == undo[s][at[s]]
       IN /\ env' = [env EXCEPT ![r.var] = r.old]
          /\ temp' = temp \ {File(s, r.var)}
    /\ at' = [at EXCEPT ![s] = @ + 1]
    /\ UNCHANGED <<pc, found, undo, used, crossed, missed>>

End(s) ==
    /\ pc[s] = "undo" /\ at[s] > Len(undo[s])
    /\ pc' = [pc EXCEPT ![s] = "closed"]
    /\ UNCHANGED <<env, temp, at, found, undo, used, crossed, missed>>

Over == (\A s \in Streams : pc[s] = "closed") /\ UNCHANGED vars

Run(s) ==
    \/ Begin(s) \/ Look(s) \/ Miss(s) \/ Set(s) \/ SetFails(s) \/ Prepared(s) \/ OpenBucket(s)
    \/ OpenFails(s) \/ Close(s) \/ PutBack(s) \/ End(s)

Next == (\E s \in Streams : Run(s)) \/ Over

Spec == Init /\ [][Next]_vars

----------------------------------------------------------------------------
TempFiles == {File(s, v) : s \in Streams, v \in Vars}
Values == {Secret, Plain, Path} \cup TempFiles

TypeOK ==
    /\ env \in [Vars -> Values] /\ temp \subseteq TempFiles
    /\ pc \in [Streams -> {"idle", "look", "set", "open", "ready", "undo", "closed"}]
    /\ at \in [Streams -> Nat \ {0}]
    /\ found \in [Streams -> {Secret, Plain, Path}]
    /\ undo \in [Streams -> Seq([var : Vars, old : {Secret, Plain, Path}])]
    /\ used \in [Streams -> [Vars -> Values]]
    /\ crossed \in [Streams -> BOOLEAN] /\ missed \in [Streams -> SUBSET Vars]

\* s has yet to put v back.
Pending(s, v) ==
    \E i \in 1..Len(undo[s]) : undo[s][i].var = v /\ (pc[s] = "undo" => i >= at[s])

\* A variable differs from what the user had set, and a credential file exists,
\* only on account of a stream that has yet to put the variable back.  However
\* streams overlap, when all are over the environment is the user's again and
\* no decrypted file is left.
EnvRestored ==
    /\ \A v \in Vars : env[v] # Original[v] => \E s \in Streams : Busy(s) /\ Pending(s, v)
    /\ \A s \in Streams, v \in Vars : File(s, v) \in temp => Busy(s) /\ Pending(s, v)

\* Only a credential file that could not be looked into is passed on encrypted.
Usable(s, v, val) == Encrypted(val) => val = Path /\ v \in missed[s]

\* A stream that no other stream overlaps opens its bucket with decrypted
\* credentials, but for the files it could not look into, and a file it was given
\* stays there as long as the stream is open.
AloneIsUsable ==
    \A s \in Streams : pc[s] = "ready" /\ ~crossed[s] =>
        \A v \in Vars : /\ Usable(s, v, used[s][v])
                        /\ used[s][v] \in TempFiles => used[s][v] \in temp

=============================================================================
