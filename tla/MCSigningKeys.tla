--------------------------- MODULE MCSigningKeys ----------------------------
(* SigningKeys on a small instance.  Keys, rotating threads and the kids     *)
(* after the first are only compared for equality.                           *)
EXTENDS SigningKeys, TLC

Interchangeable == Permutations(Keys) \cup Permutations(Kids \ {KeyId})
                     \cup Permutations(Rotators)
=============================================================================
