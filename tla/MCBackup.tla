------------------------------ MODULE MCBackup ------------------------------
(* Three runs, of which one compresses.                                      *)
EXTENDS Backup

CONSTANTS r1, r2, r3, f, g, h

Sizes == [r \in Runs |-> IF r = r2 THEN 2 ELSE 1]

\* One after the other under three names; two at once into one name, a third
\* into another.
Cases ==
    {[target |-> [r \in Runs |-> CASE r = r1 -> f [] r = r2 -> g [] r = r3 -> h],
      overlap |-> FALSE],
     [target |-> [r \in Runs |-> IF r = r3 THEN g ELSE f], overlap |-> TRUE]}
=============================================================================
