------------------------------ MODULE Identity ------------------------------
(***************************************************************************)
(* Owners: how internal/meta reads and applies them, and how               *)
(* internal/model/idmap.go translates them.                                *)
(*                                                                         *)
(* The state of a directory is [mode, uid, acl, sddl]; what is recorded of *)
(* it also has the name of the owner and its SID.  None is the absent      *)
(* value.  A Windows directory has its security descriptor only: the       *)
(* sequence of the SIDs it names, the owner first.  A SID is the sequence  *)
(* of its characters as far as comparing SIDs needs them.                  *)
(*                                                                         *)
(* accounts maps the uids a host has a name for to these names.  A map is  *)
(* [users, uids, sids], functions with the mapped identities as domains;   *)
(* a target that is "" stands for none.                                    *)
(***************************************************************************)
EXTENDS Integers, Sequences, SequencesExt

None == 0
NoMap == [users |-> <<>>, uids |-> <<>>, sids |-> <<>>]

\* ReadMeta of both engines.
ReadMeta(m, accounts) ==
    [mode |-> m.mode, uid |-> m.uid, acl |-> m.acl, sddl |-> m.sddl,
     user |-> IF m.uid \in DOMAIN accounts THEN accounts[m.uid] ELSE None,
     sid |-> IF m.sddl = <<>> THEN <<>> ELSE Head(m.sddl)]

\* ApplyMeta with permissions: the name of the owner goes before its uid.
ApplyMeta(r, accounts) ==
    LET called == {u \in DOMAIN accounts : r.user # None /\ accounts[u] = r.user}
    IN  [mode |-> r.mode, acl |-> r.acl, sddl |-> r.sddl,
         uid |-> IF called = {} THEN r.uid ELSE CHOOSE u \in called : TRUE]

----------------------------------------------------------------------------
\* TranslateUser, TranslateUID and TranslateSID: x itself when it is absent or
\* not mapped.
Translate(table, x, absent) == IF x # absent /\ x \in DOMAIN table THEN table[x] ELSE x

\* strings.ReplaceAll of one SID by another in the text of sid: SIDs begin
\* alike and nowhere else, so only the beginning can match.
Replace(sid, old, new) ==
    IF IsPrefix(old, sid) THEN new \o SubSeq(sid, Len(old) + 1, Len(sid)) ELSE sid

\* A variant: any order.
OrdersAny(sids) == SetToSeqs(DOMAIN sids)

\* The orders TranslateSDDL may take the mapped SIDs in: the longest first.
Orders(sids) ==
    {s \in SetToSeqs(DOMAIN sids) : \A i, j \in DOMAIN s : i < j => Len(s[i]) >= Len(s[j])}

\* One replacement after the other, in the whole descriptor.
Rewritten(sids, order, sid) ==
    LET after[k \in 0..Len(order)] ==
            IF k = 0 THEN sid ELSE Replace(after[k - 1], order[k], sids[order[k]])
    IN  after[Len(order)]
TranslateSDDL(sids, order, sddl) == [k \in DOMAIN sddl |-> Rewritten(sids, order, sddl[k])]

\* ApplyToPlatformMeta: access lists stay as they are, in hexadecimal.
Apply(map, order, r) ==
    [r EXCEPT !.user = Translate(map.users, r.user, None),
              !.uid = Translate(map.uids, r.uid, None),
              !.sid = Translate(map.sids, r.sid, <<>>),
              !.sddl = TranslateSDDL(map.sids, order, r.sddl)]

\* A SID is mapped to one that another replacement takes for its own; and a
\* descriptor names a SID that is not mapped, but begins like one that is.
Chained(sids) == \E s, t \in DOMAIN sids : s # t /\ IsPrefix(t, sids[s])
Overlapping(sids, sddl) ==
    \E k \in DOMAIN sddl : sddl[k] \notin DOMAIN sids /\ \E s \in DOMAIN sids : IsPrefix(s, sddl[k])
=============================================================================
