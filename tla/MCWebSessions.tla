--------------------------- MODULE MCWebSessions ---------------------------
(* WebSessions on a small instance: two threads and one more session than    *)
(* threads, so that a link could open too many.                              *)
EXTENDS WebSessions, TLC

Interchangeable ==
  Permutations(Threads) \cup Permutations(Tokens) \cup Permutations(Users)
=============================================================================
