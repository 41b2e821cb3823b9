------------------------------ MODULE MCSignIn ------------------------------
(* TLC instances of SignIn. *)
EXTENDS SignIn, TLC

CONSTANTS w1, w2, e1, e2, n1, n2, s1, s2
Symmetric == Permutations(Slots) \cup Permutations(Nonces) \cup Permutations(Wallets)
=============================================================================
