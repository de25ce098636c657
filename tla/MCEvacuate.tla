----------------------------- MODULE MCEvacuate -----------------------------
(* Two evacuations that may share an archive name: of a directory with       *)
(* files, and of a single file and an empty directory.                       *)
EXTENDS Evacuate, TLC

CONSTANTS j, k, i1, i2, i3, f1, f2, g, l

ItemFiles == [i \in Items |-> CASE i = i1 -> {f1, f2, l}
                                [] i = i2 -> {g}
                                [] i = i3 -> {}]

TwoBatches == [n \in Jobs |-> IF n = j THEN {i1} ELSE {i2, i3}]
=============================================================================
