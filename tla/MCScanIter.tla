------------------------------ MODULE MCScanIter ------------------------------
(* A small tree and pool for ScanIter.                                      *)
EXTENDS ScanIter

CONSTANTS r, a, b, c, d, w1, w2

\* One directory discovers two while its sibling is still being read.
ForkKids ==
    [x \in Dirs |-> CASE x = r -> {a, b}
                      [] x = a -> {c, d}
                      [] OTHER -> {}]
=============================================================================
