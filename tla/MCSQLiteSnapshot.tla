-------------------------- MODULE MCSQLiteSnapshot --------------------------
(* Three backups into one file, of trees of three, two and three folders.    *)
EXTENDS SQLiteSnapshot, TLC

CONSTANTS r, a, b, c, w1, w2, w3

Trees == [w \in Writers |-> CASE w = w1 -> <<r, a, b>>
                              [] w = w2 -> <<r, c>>
                              [] w = w3 -> <<r, b, c>>]
=============================================================================
