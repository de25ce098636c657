------------------------------ MODULE TreeWalk ------------------------------
(***************************************************************************)
(* What a directory scan promises its caller: a walk from the root down    *)
(* that shows every directory of the output at most once and before        *)
(* anything below it is opened, leaves out only what cannot be read, or    *)
(* not in time, and is complete when it says so.                           *)
(***************************************************************************)
CONSTANTS
    Dirs, Root, Children,
    Included,   \* the directories of the output
    Unreadable  \* those that may turn out unreadable, or not readable in time

VARIABLES
    todo,         \* directories the walk still owes a visit
    visited,      \* directories shown to the caller
    interrupted,  \* the caller no longer wants the walk
    outcome       \* "walking", "complete" or "failed"

vars == <<todo, visited, interrupted, outcome>>

Init ==
    /\ todo = {Root}
    /\ visited = {}
    /\ interrupted = FALSE
    /\ outcome = "walking"

Visit(d) ==
    /\ outcome = "walking"
    /\ d \in (todo \cap Included) \ visited
    /\ visited' = visited \cup {d}
    /\ UNCHANGED <<todo, interrupted, outcome>>

\* Only a directory that was shown, or is not part of the output, is opened.
Open(d) ==
    /\ outcome = "walking"
    /\ d \in todo
    /\ d \in Included => d \in visited
    /\ todo' = (todo \ {d}) \cup Children[d]
    /\ UNCHANGED <<visited, interrupted, outcome>>

\* A directory below the root that cannot be read, or that nobody waits for any
\* more, costs its own subtree only.
Skip(d) ==
    /\ outcome = "walking"
    /\ d \in todo \ {Root}
    /\ d \in Unreadable \/ interrupted
    /\ d \in Included => d \in visited
    /\ todo' = todo \ {d}
    /\ UNCHANGED <<visited, interrupted, outcome>>

Interrupt ==
    /\ ~interrupted
    /\ interrupted' = TRUE
    /\ UNCHANGED <<todo, visited, outcome>>

Complete ==
    /\ outcome = "walking"
    /\ todo = {}
    /\ outcome' = "complete"
    /\ UNCHANGED <<todo, visited, interrupted>>

\* The walk fails when it was interrupted or could not even open the root.
Fail ==
    /\ outcome = "walking"
    /\ interrupted \/ Root \in todo \cap Unreadable
    /\ todo' \in {todo, todo \ {Root}}
    /\ outcome' = "failed"
    /\ UNCHANGED <<visited, interrupted>>

Next ==
    \/ \E d \in Dirs : Visit(d) \/ Open(d) \/ Skip(d)
    \/ Interrupt \/ Complete \/ Fail

Spec == Init /\ [][Next]_vars
=============================================================================
