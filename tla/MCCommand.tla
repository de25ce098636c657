----------------------------- MODULE MCCommand -----------------------------
(* Three processes: two that write or one that reads what the others push.   *)
EXTENDS Command

CONSTANTS p1, p2, p3, temp, mine, bucket, main, trunk, master, v1

Do(verb, usesGit, file, tag) ==
    [verb |-> verb, dry |-> FALSE, log |-> FALSE, git |-> usesGit, file |-> file, tag |-> tag]
As(a, b, c) == [p \in Procs |-> CASE p = p1 -> a [] p = p2 -> b [] p = p3 -> c]
Heads(b) == [x \in Branches |-> IF x = b THEN Seed ELSE None]

Shared == As(Do("backup", TRUE, temp, None), Do("backup", TRUE, temp, v1),
             Do("verify", TRUE, temp, v1))
Own == As(Do("backup", TRUE, mine, v1), Do("backup", TRUE, temp, v1),
          Do("restore", TRUE, mine, v1))
Away == As(Do("backup", TRUE, bucket, v1), Do("backup", TRUE, mine, None),
           Do("diff", TRUE, mine, v1))
Plain == As([Do("backup", FALSE, mine, None) EXCEPT !.dry = TRUE, !.log = TRUE],
            [Do("status", FALSE, mine, None) EXCEPT !.log = TRUE],
            [Do("diff", FALSE, mine, None) EXCEPT !.log = TRUE])

MCCases ==
    {[cmd |-> Shared, heads |-> Heads(main), default |-> main],
     [cmd |-> Own, heads |-> Heads(main), default |-> main],
     [cmd |-> Own, heads |-> Heads(trunk), default |-> trunk],
     [cmd |-> Own, heads |-> Heads(None), default |-> main],
     [cmd |-> Away, heads |-> Heads(main), default |-> main],
     [cmd |-> Plain, heads |-> Heads(None), default |-> main]}
============================================================================
