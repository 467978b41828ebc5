--------------------------- MODULE MCUserAccounts ---------------------------
(* UserAccounts on a small instance: the addresses ann@x, its variant Ann@x, *)
(* and ann@y, which shares its local part; the usernames ann, ann2, ann3.    *)
EXTENDS UserAccounts, TLC

MCEmails == {"ann@x", "Ann@x", "ann@y"}
MCNames == {"ann", "ann2"}  \* what updates choose
MCStrings == MCEmails \cup {"ann", "ann2", "ann3"}
MCFolded == [s \in MCStrings |-> IF s = "Ann@x" THEN "ann@x" ELSE s]
MCCandidate == [c \in MCEmails \X (1..3) |-> <<"ann", "ann2", "ann3">>[c[2]]]

Interchangeable == Permutations(Threads) \cup Permutations(Ids)
=============================================================================
