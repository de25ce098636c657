------------------------------ MODULE MCDrift ------------------------------
(***************************************************************************)
(* Instances of Drift.                                                     *)
(***************************************************************************)
EXTENDS Drift

Name(of, form) == [base |-> of, form |-> form]
a == Name("a", "plain")
b == Name("b", "plain")

Posix(mode, uid) == [mode |-> mode, uid |-> uid, acl |-> 1, sddl |-> <<>>]
Windows(sddl) == [mode |-> None, uid |-> None, acl |-> None, sddl |-> sddl]

Tree(paths) == [p \in paths \cup {<<>>} |-> Posix(7, 1 + Len(p))]

Plain ==
    [format |-> "tsv", zipped |-> FALSE, tree |-> Tree({<<a>>, <<a, b>>, <<b>>}),
     made |-> Posix(5, 1), take |-> Everything, map |-> NoMap, ask |-> {Everything}]

Including(patterns) == [Everything EXCEPT !.include = patterns]
Excluding(patterns) == [Everything EXCEPT !.exclude = patterns]

\* a/**, **/b and the bare name b.
Below == <<Literal(a), Deep>>
Anywhere == <<Deep, Literal(b)>>
Leaf == <<Literal(b)>>

\* Names that TSV or JSON cannot write.
Awkward == [Plain EXCEPT !.tree = Tree({<<Name("a", "tab")>>, <<Name("a", "space")>>, <<Dash>>})]
Commented == [Plain EXCEPT !.tree = Tree({<<Name("a", "hash")>>, <<Name("a", "hash"), b>>})]
Trailing == [Plain EXCEPT !.tree = Tree({<<Name("a", "edge")>>, <<Name("a", "edge"), b>>})]
Encoded == [Commented EXCEPT !.format = "ndjson"]
Garbled == [Encoded EXCEPT !.tree = Tree({<<Name("a", "broken")>>, <<Name("b", "backslash")>>})]

\* Comparisons with the filter of the backup.
Entity == [Plain EXCEPT !.format = "ndjson", !.take = [Everything EXCEPT !.entities = {a}],
                        !.ask = {[Everything EXCEPT !.entities = {a}]}]
Subtree == [Plain EXCEPT !.take = Including({Below}), !.ask = {Including({Below})}]
Named == [Plain EXCEPT !.take = Including({Anywhere}), !.ask = {Including({Anywhere})}]
Without == [Plain EXCEPT !.zipped = TRUE, !.take = Excluding({<<Literal(a)>>}),
                         !.ask = {Excluding({<<Literal(a)>>})}]

\* Another host: user 102 is mapped by name, uid 3 by number, and user 101 has
\* no account there, while the number its uid is mapped to belongs to another.
Migrated ==
    [Plain EXCEPT !.map = [users |-> [n \in {102} |-> 204], uids |-> (1 :> 3) @@ (3 :> 5),
                           sids |-> <<>>]]

\* SIDs of which one begins like another; and two that change places.
S1 == <<1>>
S12 == <<1, 2>>
Domain ==
    [Plain EXCEPT !.format = "ndjson",
                  !.tree = [p \in {<<>>, <<a>>} |-> Windows(IF p = <<>> THEN <<S1, S12>> ELSE <<S12>>)],
                  !.made = Windows(<<S1>>),
                  !.map = [users |-> <<>>, uids |-> <<>>,
                           sids |-> [s \in {S1, S12} |-> IF s = S1 THEN <<8>> ELSE <<9, 2>>]]]
Swapped ==
    [Domain EXCEPT !.map.sids = [s \in {S12, <<1, 3>>} |-> IF s = S12 THEN <<1, 3>> ELSE S12]]

\* TSV records the descriptors alone.
Columns == [Domain EXCEPT !.format = "tsv"]

\* Only the shorter SID is mapped: the longer one is rewritten with it.
Collided == [Domain EXCEPT !.map.sids = [s \in {S1} |-> <<8>>]]

AllScenes ==
    {Plain, Awkward, Commented, Trailing, Encoded, Garbled, Entity, Subtree, Named, Without,
     Migrated, Domain, Swapped, Columns, Collided}

\* Comparisons with filters of their own.
Audited == [Plain EXCEPT !.ask = {Excluding({<<Literal(a)>>}), Including({Leaf})}]
OtherFilters == {Audited}

NewDescriptors == {<<S1, S12>>, <<S12, S1>>}
NewPaths == {<<a>>, <<a, a>>, <<a, b>>}
HomeAccounts == (1 :> 101) @@ (2 :> 102)
AwayAccounts == (4 :> 204) @@ (3 :> 103)
============================================================================
