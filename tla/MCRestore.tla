----------------------------- MODULE MCRestore -----------------------------
(* Small trees and restores for Restore.                                    *)
EXTENDS Restore, TLC

CONSTANTS r, a, b, c, d, e, x, y

\* Three layers: a holds b, c and x, b holds d; x and y are not in most of
\* the snapshots, x has an entry e.
TreeParent ==
    [n \in Dirs \ {Root} |-> CASE n \in {a, y} -> r
                              [] n \in {b, c, x} -> a
                              [] n = d -> b
                              [] n = e -> x]

\* An empty target, nothing goes wrong, root privileges.
Plain ==
    [snapshot |-> {r, a, b, c, d}, selected |-> {r, a, b, c, d}, escaping |-> {},
     existing |-> {r}, files |-> {}, readOnly |-> {}, faulty |-> {},
     privileged |-> TRUE, applyPerms |-> TRUE, mirror |-> FALSE,
     throttled |-> FALSE, deadline |-> FALSE, mayCancel |-> TRUE]

\* A mirror of an occupied target, with a file y and failing calls.
Occupied ==
    [Plain EXCEPT !.existing = {r, a, x, e, y}, !.files = {y}, !.readOnly = {b},
                  !.faulty = {c, y}, !.mirror = TRUE]

\* A throttled mirror with an escaping record and an item that resists.
Throttled ==
    [Plain EXCEPT !.snapshot = {r, a, b, d, y}, !.selected = {r, a, b, d, y},
                  !.escaping = {y}, !.existing = {r, a, x, e}, !.faulty = {e},
                  !.mirror = TRUE, !.throttled = TRUE]

\* Created directories keep the mode of MkdirAll; a limiter with a deadline.
Unowned ==
    [Plain EXCEPT !.snapshot = {r, a, b, c, d, y}, !.selected = {r, a, b, c, d, y},
                  !.escaping = {y}, !.faulty = {a, c}, !.applyPerms = FALSE,
                  !.throttled = TRUE, !.deadline = TRUE]

\* Without privileges, a read-only directory and a file in the way.
Unprivileged ==
    [Unowned EXCEPT !.existing = {r, a, c}, !.files = {c}, !.readOnly = {b},
                    !.faulty = {a}, !.applyPerms = TRUE, !.privileged = FALSE,
                    !.deadline = FALSE]

AllJobs == {Plain, Occupied, Throttled, Unowned, Unprivileged}

\* A filter that excludes a, whose child b and grandchild d are restored.
Filtered ==
    {[Plain EXCEPT !.selected = {r, b, d}, !.mirror = TRUE, !.mayCancel = FALSE]}
============================================================================
