------------------------------ MODULE MCSignIn ------------------------------
(* One address, two handlers at once.                                      *)
EXTENDS SignIn, TLC

Symmetry == Permutations(Request) \cup Permutations(Password)
=============================================================================
