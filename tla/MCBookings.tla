----------------------------- MODULE MCBookings -----------------------------
(* Two customers over three times: two that overlap only in their buffers, *)
(* and a daily booking with buffer days around it.                         *)
EXTENDS Bookings, TLC

Hourly(from, start, end, to) ==
  [from |-> from, start |-> start, end |-> end, to |-> to, daily |-> FALSE]

MCSpan == {Hourly(2, 2, 4, 5), Hourly(4, 4, 6, 7),
           [from |-> 2, start |-> 3, end |-> 5, to |-> 6, daily |-> TRUE]}
MCOff == {[from |-> 2, to |-> 3]}

Customers == Permutations(Booking)
=============================================================================
