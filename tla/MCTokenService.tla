-------------------------- MODULE MCTokenService ----------------------------
(* TokenService on a small instance.  Codes, tokens, clients and users are  *)
(* only compared for equality, so each pool is a symmetric set; the legacy  *)
(* token is left out of the permutations.                                   *)
EXTENDS TokenService, TLC

Pools == Permutations(Codes) \cup Permutations(Tokens \ LegacyTokens)
           \cup Permutations(Clients) \cup Permutations(Users)
           \cup Permutations(Workers)
=============================================================================
