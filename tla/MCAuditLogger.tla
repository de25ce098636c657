--------------------------- MODULE MCAuditLogger ---------------------------
(* Two goroutines that log and two that close, with small buffers.         *)
EXTENDS AuditLogger

CONSTANTS p, q, c, d

\* The first record of p carries a value that JSON cannot encode.
BadFirst == {[by |-> p, n |-> 1]}
============================================================================
