----------------------------- MODULE MCPayments -----------------------------
(* An advance of two units of a price of three, which the vendor may be     *)
(* paid in part or in full offline, and two tiers of refund.               *)
EXTENDS Overview
=============================================================================
