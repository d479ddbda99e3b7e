----------------------------- MODULE MCProgress -----------------------------
(* The Outbox, Bookings, Payments and a visitor of a sleeping API under     *)
(* their fairness, side by side: a behaviour picks one of them and runs     *)
(* it.  The gateway makes no refunds here: they would come after what the   *)
(* properties wait for.                                                     *)
EXTENDS Outbox

CONSTANT Booked  \* two bookings

VARIABLES
  part,  \* the part that was picked
  clock, bookingStatus, span, expires, advance, bookingOnline,
  bookingOffline, seen, unlocked, timeOff,
  paidStatus, online, offline, refunds, ledger, cancelled, stored, processed,
  review, capture, preview, toIssue, finishing, stops, percent, charged, issued,
  host, pauses, page, apiAwake, calling

bookingVars == <<clock, bookingStatus, span, expires, advance, bookingOnline,
  bookingOffline, seen, unlocked, timeOff>>
paymentVars == <<paidStatus, online, offline, refunds, ledger, cancelled, stored,
  processed, review, capture, preview, toIssue, finishing, stops, percent,
  charged, issued>>
visitVars == <<host, pauses, page, apiAwake, calling>>
all == <<part, bookingVars, paymentVars, visitVars, vars>>

MCBackoff == <<1, 2, 1>>

Hourly(from, start, end, to) ==
  [from |-> from, start |-> start, end |-> end, to |-> to, daily |-> FALSE]

Holding == INSTANCE Bookings WITH
  Booking <- Booked, Off <- {[from |-> 2, to |-> 3]},
  Span <- {Hourly(2, 2, 4, 5), Hourly(4, 4, 6, 7),
           [from |-> 2, start |-> 3, end |-> 5, to |-> 6, daily |-> TRUE]},
  HoldTime <- 1, RequestHoldTime <- 1, OnlinePayments <- FALSE, MaxTime <- 5,
  status <- bookingStatus, online <- bookingOnline, offline <- bookingOffline
Paying == INSTANCE Payments WITH
  Advance <- 2, Total <- 3, OfflineAmounts <- {2}, Percents <- {100},
  Captures <- {"payment.captured", "order.paid"}, MaxRefunds <- 2,
  MaxIssued <- 0, MaxCrashes <- 1, status <- paidStatus, crashes <- stops
Visiting == INSTANCE Waking WITH MaxSleeps <- 3

Start ==
  /\ part \in {"bookings", "payments", "visit", "outbox"}
  /\ Holding!Init /\ Paying!Init /\ Visiting!Init /\ Init
  /\ part # "visit" => host = "up"

Step ==
  \/ part = "bookings" /\ Holding!Next /\ UNCHANGED <<part, paymentVars, visitVars, vars>>
  \/ part = "payments" /\ Paying!Next /\ UNCHANGED <<part, bookingVars, visitVars, vars>>
  \/ part = "visit" /\ Visiting!Next /\ UNCHANGED <<part, bookingVars, paymentVars, vars>>
  \/ part = "outbox" /\ Next /\ UNCHANGED <<part, bookingVars, paymentVars, visitVars>>

\* Time passes, and the scheduler's tick comes again and again: it expires holds,
\* takes up events that wait, and sends; what a process has begun it finishes,
\* unless it stops.
FairParts ==
  /\ Start /\ [][Step]_all
  /\ WF_bookingVars(part = "bookings" /\ Holding!Tick)
  /\ WF_bookingVars(part = "bookings" /\ Holding!ExpireHolds({}))
  /\ WF_paymentVars(part = "payments" /\ Paying!FinishCapture)
  /\ \A event \in Paying!Event : WF_paymentVars(part = "payments" /\ Paying!Receive(event))
  /\ \A event \in Paying!PaymentEvents :
       WF_paymentVars(part = "payments" /\ Paying!BeginCapture(event))
  /\ \A event \in Paying!Event, outcome \in {"done", "waiting", "review"} :
       WF_paymentVars(part = "payments" /\ Paying!Finish(event, outcome))
  /\ \A i \in 1..2 :
       WF_paymentVars(part = "payments" /\ i \in DOMAIN refunds /\ Paying!IssueRefund(i))
  /\ WF_visitVars(part = "visit" /\ Visiting!Wake)
  /\ WF_visitVars(part = "visit" /\ Visiting!Answered)
  /\ WF_visitVars(part = "visit" /\ Visiting!Poll)
  /\ WF_vars(part = "outbox" /\ Tick)
  /\ WF_vars(part = "outbox" /\ \E s \in Sender : Claim(s, FALSE))
  /\ \A s \in Sender :
       /\ WF_vars(part = "outbox" /\ Deliver(s))
       /\ WF_vars(part = "outbox" /\ RecordSent(s))
       /\ WF_vars(part = "outbox" /\ RecordFailure(s))

-----------------------------------------------------------------------------
\* Every wait ends: an unpaid booking does not keep its time for ever
\* (booking-transition.ts:73-85), nor is a visitor kept waiting for an API that
\* sleeps (lib/api.ts:55-74, waking-status.tsx:17-25).
WaitsEnd ==
  /\ part = "bookings" => Holding!HoldsEnd
  /\ part = "visit" => Visiting!ComesBack

\* A payment the gateway captured is recorded, or an event of it is left for a
\* person to look at, also after a crash (payments/webhooks.ts:29-73).
CaptureIsRecorded == Paying!CaptureIsRecorded
=============================================================================
