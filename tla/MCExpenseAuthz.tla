--------------------------- MODULE MCExpenseAuthz ---------------------------
(* ExpenseAuthz on a small instance.  Threads, expenses and the users that  *)
(* are not admins at startup are interchangeable.                           *)
EXTENDS ExpenseAuthz, TLC

Interchangeable == Permutations(Threads) \cup Permutations(Expenses)
                     \cup Permutations(Users \ Admins)
=============================================================================
