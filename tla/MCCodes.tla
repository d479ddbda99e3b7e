------------------------------ MODULE MCCodes ------------------------------
(* Requests for and with the codes of one address, for two purposes.       *)
EXTENDS Codes, TLC

Symmetry == Permutations(Request) \cup Permutations(Purpose)
=============================================================================
