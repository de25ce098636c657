------------------------------ MODULE MCScanner ------------------------------
(* A small tree and pool for Scanner.                                       *)
EXTENDS Scanner

CONSTANTS r, a, b, c, d, e, f, w1, w2

\* Two levels below the root, with branches that overtake each other.
TreeKids ==
    [x \in Dirs |-> CASE x = r -> {a, b}
                      [] x = a -> {c, d}
                      [] x = b -> {e, f}
                      [] OTHER -> {}]
=============================================================================
