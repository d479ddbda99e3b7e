------------------------------ MODULE MCScreens ------------------------------
(* Screens on small instances.                                             *)
EXTENDS Screens, TLC

\* How many calls one visit of a screen makes.
Calls == [hours |-> 4, dates |-> 5, calendar |-> 3, lists |-> 3, booking |-> 4,
          services |-> 4, sessions |-> 4, home |-> 4, settings |-> 3, feed |-> 3]

\* The users with the addresses of the accounts.
Homes == [g |-> "u", h |-> "w"]

Exchanges == Permutations(Item)
==============================================================================
