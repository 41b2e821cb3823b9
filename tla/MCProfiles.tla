----------------------------- MODULE MCProfiles -----------------------------
(* TLC instances of Profiles. *)
EXTENDS Profiles, TLC

CONSTANTS u1, u2, w1, w2, e1, e2, k1, s1, s2

(* No definition distinguishes two rows, wallets, e-mails or slots. *)
Symmetric == Permutations(Slots) \cup Permutations(Users) \cup Permutations(Wallets)
                 \cup Permutations(Emails)
=============================================================================
