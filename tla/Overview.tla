------------------------------- MODULE Overview -------------------------------
(***************************************************************************)
(* What the dashboard tells the vendor about the money of a booking: the   *)
(* summary of the payments page, the balance and the to-do list of the     *)
(* home page and the actions of the booking's page (dashboard-routes.ts),  *)
(* over the rows of Payments.  Only the windows of 30 and 60 days are left *)
(* out, and a booking is taken before its end.                             *)
(***************************************************************************)
EXTENDS Diagnosis

Rows(st) == {i \in DOMAIN refunds : refunds[i].status = st}
RowsSum(rows) == SumOf(refunds, rows)

Summary ==
  [received |-> Gross(online, offline),
   refunded |-> RowsSum(Rows("processed")),
   owed     |-> RowsSum(Rows("manual")),
   due      |-> IF status \in {"CONFIRMED", "COMPLETED"} /\ Total > NetPaid
                THEN Total - NetPaid ELSE 0]

\* The home page's balance_due counts a pending booking too.
BalanceDue == IF status \in {"PENDING", "CONFIRMED"} THEN Total - NetPaid ELSE 0

\* Variant: what was returned by hand is asked for, a failed refund is not.
ToDoByHand ==
  (IF status = "PENDING" /\ Advance > NetPaid
   THEN {[kind |-> "record_advance", row |-> 0]} ELSE {})
  \cup {[kind |-> "return_money", row |-> i] : i \in Rows("manual")}

ToDo ==
  (IF status = "PENDING" /\ Advance > NetPaid
   THEN {[kind |-> "record_advance", row |-> 0]} ELSE {})
  \cup {[kind |-> "return_money", row |-> i] : i \in Rows("manual")}
  \cup {[kind |-> "refund_failed", row |-> i] : i \in Rows("failed")}

\* The booking's page; reschedule has the condition of cancel before the start.
Actions == {a \in {"cancel", "record_payment"} :
  CASE a = "cancel"         -> status \in {"PENDING", "CONFIRMED"}
    [] a = "record_payment" -> /\ status \in {"PENDING", "CONFIRMED", "COMPLETED"}
                               /\ Total > NetPaid}

\* The vendor can settle every booking from these pages: they never claim that
\* more went back, or is to be given back, than came in; of a booking the vendor
\* cancelled or that was paid too late, each paisa is refunded, owed by hand, on
\* its way or on the to-do list; and an advance to be recorded can be recorded,
\* which no payment that is counted here already makes impossible.
MoneyIsAccountedFor ==
  LET sums == Summary IN
  /\ sums.refunded + sums.owed <= sums.received
  /\ sums.received - sums.refunded = ledger.paid - ledger.refunded
  /\ status = "EXPIRED_PAID" \/ (cancelled # Null /\ cancelled.by = "vendor") =>
       sums.received <= sums.refunded + sums.owed + RowsSum(Rows("pending"))
         + RowsSum({t.row : t \in {x \in ToDo : x.kind = "refund_failed"}})
  /\ \A t \in ToDo : t.kind = "record_advance" =>
       "record_payment" \in Actions /\ BalanceDue >= Advance - NetPaid
  /\ sums.due > 0 => "record_payment" \in Actions

\* Neither the console nor the vendor's pages hide money.
NothingIsHidden == SilenceMeansSettled /\ MoneyIsAccountedFor
=============================================================================
