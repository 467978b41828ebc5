-------------------------- MODULE MCProcessMemory ---------------------------
(* ProcessMemory on small instances: each clock runs for as long as it takes   *)
(* what is timed to expire, and a table holds fewer entries than there are keys. *)
EXTENDS ProcessMemory, TLC

MCMaxTime == [rate |-> 4, google |-> 2, documents |-> 5, access |-> 3, city |-> 4, hooks |-> 5]
MCRetryBackoff == <<1, 3>>

\* Threads, rate-limited keys and URLs are only compared for equality.
Pools == Permutations(Threads) \cup Permutations(Keys) \cup Permutations(Urls)
=============================================================================
