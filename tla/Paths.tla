------------------------------- MODULE Paths -------------------------------
(***************************************************************************)
(* Relative paths, glob patterns and filters: internal/model/path.go and   *)
(* the traversal rules of internal/core/scanner.go.                        *)
(*                                                                         *)
(* A path is the sequence of its names, the root <<>>.  A name is a record *)
(* [base, form]: its form says what is unusual about its spelling.         *)
(*                                                                         *)
(* A pattern is a sequence of segments.  "**" is Deep; any other segment   *)
(* is known by the names it matches (of), by whether it has no wildcard    *)
(* (literal), and by the names its text begins with (lead).  A segment     *)
(* that mixes "**" with other characters is not represented.               *)
(***************************************************************************)
EXTENDS Integers, Sequences, SequencesExt

Deep == [deep |-> TRUE, literal |-> FALSE, of |-> {}, lead |-> {}]
Literal(n) == [deep |-> FALSE, literal |-> TRUE, of |-> {n}, lead |-> {n}]
Wild(names) == [deep |-> FALSE, literal |-> FALSE, of |-> names, lead |-> {}]

\* p and the directories above it, without the root.
Lineage(p) == {SubSeq(p, 1, k) : k \in 1..Len(p)}

\* NormalizeRelPath returns p itself: nothing in it is a reserved device name
\* of Windows or a backslash that would become a slash.
IsNormal(p) == \A k \in DOMAIN p : p[k].form \notin {"reserved", "backslash"}

----------------------------------------------------------------------------
\* path.Match, segment by segment.
SegmentsFit(pattern, p) ==
    /\ Len(pattern) = Len(p)
    /\ \A k \in DOMAIN p : p[k] \in pattern[k].of

\* The regular expression of a pattern with "**".  Each Deep segment becomes
\* "(.*/)?", or "(/.*)?" at the end, and takes both its slashes with it: a
\* second one right after it is left with a bare ".*", which needs a name.
Covers(pattern, p) ==
    LET optional[k \in 0..Len(pattern)] ==
            k > 0 /\ pattern[k].deep /\ ~optional[k - 1]
    IN  \E cut \in [0..Len(pattern) -> 0..Len(p)] :
            /\ cut[0] = 0 /\ cut[Len(pattern)] = Len(p)
            /\ \A k \in DOMAIN pattern :
                IF pattern[k].deep
                THEN cut[k] >= cut[k - 1] + (IF optional[k] THEN 0 ELSE 1)
                ELSE cut[k] = cut[k - 1] + 1 /\ p[cut[k]] \in pattern[k].of

\* A pattern without "**" is also tried on the last name alone.
MatchGlob(pattern, p) ==
    IF pattern = <<Deep>> THEN TRUE
    ELSE IF pattern = <<>> \/ p = <<>> THEN pattern = p
    ELSE IF \E k \in DOMAIN pattern : pattern[k].deep THEN Covers(pattern, p)
    ELSE SegmentsFit(pattern, p) \/ SegmentsFit(pattern, <<Last(p)>>)

SomeMatch(patterns, p) == \E pattern \in patterns : MatchGlob(pattern, p)

----------------------------------------------------------------------------
\* A filter: [entities, include, exclude].
Everything == [entities |-> {}, include |-> {}, exclude |-> {}]

\* RecordFilter.Matches.  The root passes the first two tests, not the last.
FilterMatches(f, rec) ==
    /\ f.entities # {} /\ rec.path # <<>> => rec.entity \in {<<e>> : e \in f.entities}
    /\ f.include # {} /\ rec.path # <<>> => SomeMatch(f.include, rec.path)
    /\ ~SomeMatch(f.exclude, rec.path)

\* strings.HasPrefix(pattern, p): the text of the pattern begins with that of p.
TextBegins(pattern, p) ==
    /\ p # <<>> /\ Len(p) <= Len(pattern)
    /\ \A k \in 1..(Len(p) - 1) : pattern[k].literal /\ pattern[k].of = {p[k]}
    /\ Last(p) \in pattern[Len(p)].lead

IsTraversable(f, p) ==
    f.include = {} \/ \E pattern \in f.include : MatchGlob(pattern, p) \/ TextBegins(pattern, p)

IsMatchInclude(f, p) == f.include = {} \/ p = <<>> \/ SomeMatch(f.include, p)

\* readSubdirs takes the child p on: only the entity the scan is confined to,
\* if there is exactly one, nothing excluded, nothing that leads nowhere.
Enters(f, p) ==
    /\ \A e \in f.entities : f.entities = {e} /\ Len(p) = 1 => p = <<e>>
    /\ ~SomeMatch(f.exclude, p)
    /\ IsTraversable(f, p)

\* The directories of a tree the scan opens, and those it emits.
Walked(f, tree) == {p \in tree : \A q \in Lineage(p) : Enters(f, q)}
Scanned(f, tree) == {p \in Walked(f, tree) : IsMatchInclude(f, p)}
=============================================================================
