------------------------------ MODULE Payments ------------------------------
(***************************************************************************)
(* The money of one booking: its payments, refunds and ledger, the gateway *)
(* they mirror, and the webhooks that report what the gateway did.         *)
(*                                                                         *)
(* A database transaction is one action.  What a request keeps in memory   *)
(* between two transactions is state of its own, because other requests    *)
(* run in between and a crash loses it: the status a capture has read, the *)
(* refund a customer was shown, the refunds still to be sent once their    *)
(* rows are committed, the outcome of an event still to be written down.   *)
(*                                                                         *)
(* The booking starts PENDING with an advance due, as AcceptTerms of       *)
(* Bookings leaves it; whether its time is free when it is paid late is a  *)
(* free choice here and decided there.  The gateway is external.           *)
(***************************************************************************)
EXTENDS Integers, Sequences, FiniteSetsExt

CONSTANTS Advance,         \* advance_paise, the amount of the order
          Total,           \* total_paise
          OfflineAmounts,  \* amounts the vendor may record
          Percents,        \* refund_percent of the cancellation tiers
          Captures,        \* the kinds of event that report a capture
          MaxRefunds,      \* bound on the rows of refunds
          MaxIssued,       \* bound on the refunds at the gateway
          MaxCrashes,      \* bound on the crashes of the process
          Null

ASSUME AmountAssumption ==
  /\ Advance \in Nat \ {0} /\ Total \in Nat /\ Advance <= Total
  /\ OfflineAmounts \subseteq Nat \ {0}
  /\ Percents \subseteq 0..100 /\ Percents # {}
  /\ Captures \subseteq {"payment.captured", "order.paid"}
ASSUME BoundAssumption ==
  {MaxRefunds, MaxIssued, MaxCrashes} \subseteq Nat /\ Null \notin 1..MaxIssued

VARIABLES
  \* the database
  status,     \* bookings.status
  online,     \* status of the razorpay payments row, "none" without a row
  offline,    \* amount of the offline payments row, 0 without a row
  refunds,    \* the refunds rows: payment, amount, status, provider id
  ledger,     \* sums of the PAYMENT and the REFUND entries
  cancelled,  \* meta of the CANCELLED event, or Null
  stored,     \* webhook_events
  processed,  \* ... with processed_at set
  review,     \* ... with needs_review
  \* the process
  capture,    \* the open capture transaction: its source, the status it read
  preview,    \* the cancellation a customer is about to make
  toIssue,    \* refunds rows some request goes on to issue
  finishing,  \* events and the outcome their processor goes on to record
  crashes,
  \* outside
  percent,    \* the tier the notice left now falls into
  charged,    \* the gateway captured the order's payment
  issued      \* the gateway's refunds of it

database == <<status, online, offline, refunds, ledger, cancelled, stored,
              processed, review>>
process == <<capture, preview, toIssue, finishing, crashes>>
outside == <<percent, charged, issued>>
vars == <<database, process, outside>>

PaymentEvents == Captures \X {0}
Event == PaymentEvents \cup ({"refund"} \X (1..MaxIssued))
Checkout == <<"checkout", 0>>  \* the customer's browser, or an admin

Statuses == {"PENDING", "CONFIRMED", "COMPLETED", "CANCELLED", "EXPIRED",
             "EXPIRED_PAID"}
Refund == [payment : {"online", "offline"}, amount : Nat \ {0},
           status : {"pending", "processed", "failed", "manual"},
           id : 1..MaxIssued \cup {Null}]

TypeOK ==
  /\ status \in Statuses
  /\ online \in {"none", "created", "captured", "partially_refunded",
                 "refunded"}
  /\ offline \in {0} \cup OfflineAmounts
  /\ refunds \in Seq(Refund) /\ Len(refunds) <= MaxRefunds
  /\ ledger \in [paid : Nat, refunded : Nat]
  /\ cancelled \in {Null} \cup
       [by : {"customer", "vendor"}, paid : Int, refund : Int]
  /\ stored \subseteq Event
  /\ processed \subseteq stored /\ review \subseteq stored
  /\ capture \in {Null} \cup
       [source : stored \cup {Checkout}, seen : Statuses]
  /\ preview \in {Null} \cup [paid : Int, refund : Int]
  /\ toIssue \subseteq 1..MaxRefunds
  /\ finishing \subseteq stored \X {"done", "waiting", "review"}
  /\ crashes \in 0..MaxCrashes
  /\ percent \in Percents /\ charged \in BOOLEAN
  /\ issued \in Seq([amount : 1..Advance,
                     status : {"pending", "processed", "failed"}])
  /\ Len(issued) <= MaxIssued

Init ==
  /\ status = "PENDING" /\ online = "none" /\ offline = 0
  /\ refunds = <<>> /\ ledger = [paid |-> 0, refunded |-> 0]
  /\ cancelled = Null
  /\ stored = {} /\ processed = {} /\ review = {}
  /\ capture = Null /\ preview = Null /\ toIssue = {} /\ finishing = {}
  /\ crashes = 0
  /\ percent = Max(Percents) /\ charged = FALSE /\ issued = <<>>

-----------------------------------------------------------------------------
(* Sums the SQL computes. *)

Verified == {"captured", "partially_refunded", "refunded"}

\* Variant: refunded payments are not counted among the paid ones.
GrossForgettingRefunded(on, off) ==
  (IF on = "captured" THEN Advance ELSE 0) + off
Gross(on, off) == (IF on \in Verified THEN Advance ELSE 0) + off

\* The sum of the amounts of some rows, as the number of their units.
Units(rows, which) == UNION {{i} \X (1..rows[i].amount) : i \in which}
SumOf(rows, which) == Cardinality(Units(rows, which))

\* The rows of a payment with one of these statuses, and their sum.
Of(rows, payment, states) ==
  {i \in DOMAIN rows : rows[i].payment = payment /\ rows[i].status \in states}
Refunded(rows, payment, states) == SumOf(rows, Of(rows, payment, states))
RefundedRows(rows) == Refunded(rows, "online", {"processed"})

NetPaid == Gross(online, offline) - RefundedRows(refunds)
Standing == {"pending", "processed", "manual"}  \* refunds that did not fail

\* percentageOf: integer paise, half a paisa rounded up.
RefundOf(paid, pct) == Min({paid, (paid * pct + 50) \div 100})

\* Variant: only what was paid online is refunded.
NewRowsOnline(amount, on) ==
  LET sendable == IF on \in {"captured", "partially_refunded"}
                  THEN Advance - Refunded(refunds, "online", Standing) ELSE 0
      first    == Max({0, Min({amount, sendable})})
  IN  IF first > 0
      THEN <<[payment |-> "online", amount |-> first, status |-> "pending",
              id |-> Null]>>
      ELSE <<>>

\* Variant: a payment with nothing left to refund gets a row too.
NewRowsUnchecked(amount, on) ==
  LET sendable == IF on \in {"captured", "partially_refunded"}
                  THEN Advance - Refunded(refunds, "online", Standing) ELSE 0
  IN  <<[payment |-> "online", amount |-> Min({amount, sendable}),
         status |-> "pending", id |-> Null]>>

\* createRefundRows: the online payment first, then the offline one.
NewRows(amount, on) ==
  LET sendable == IF on \in {"captured", "partially_refunded"}
                  THEN Advance - Refunded(refunds, "online", Standing) ELSE 0
      byHand   == offline - Refunded(refunds, "offline", Standing)
      first    == Max({0, Min({amount, sendable})})
      second   == Max({0, Min({amount - first, byHand})})
      Row(payment, share, st) ==
        [payment |-> payment, amount |-> share, status |-> st, id |-> Null]
  IN  (IF first > 0 THEN <<Row("online", first, "pending")>> ELSE <<>>)
      \o (IF second > 0 THEN <<Row("offline", second, "manual")>> ELSE <<>>)

\* Rows are inserted, and the request goes on to issue the pending ones.
AddRefunds(amount, on) ==
  LET rows == refunds \o NewRows(amount, on) IN
  /\ Len(rows) <= MaxRefunds
  /\ refunds' = rows
  /\ toIssue' = toIssue \cup
       {i \in (Len(refunds) + 1)..Len(rows) : rows[i].status = "pending"}

-----------------------------------------------------------------------------
(* Paying. *)

CreateOrder ==
  /\ status = "PENDING" /\ online = "none"
  /\ online' = "created"
  /\ UNCHANGED <<status, offline, refunds, ledger, cancelled, stored,
                 processed, review, process, outside>>

\* The hold runs out; a booking with a captured payment is passed over.
Expire ==
  /\ status = "PENDING" /\ online # "captured" /\ offline = 0
  /\ status' = "EXPIRED"
  /\ UNCHANGED <<online, offline, refunds, ledger, cancelled, stored,
                 processed, review, process, outside>>

Complete ==
  /\ status = "CONFIRMED"
  /\ status' = "COMPLETED"
  /\ UNCHANGED <<online, offline, refunds, ledger, cancelled, stored,
                 processed, review, process, outside>>

\* Variant: any offline advance confirms, however small.
OfflineConfirmingPart(amount, kind) ==
  /\ status \in {"PENDING", "CONFIRMED", "COMPLETED"}
  /\ offline = 0 /\ amount <= Total - NetPaid
  /\ offline' = amount
  /\ ledger' = [ledger EXCEPT !.paid = @ + amount]
  /\ status' = IF status = "PENDING" /\ kind = "advance" THEN "CONFIRMED"
               ELSE status
  /\ UNCHANGED <<online, refunds, cancelled, stored, processed, review,
                 process, outside>>

\* recordOfflinePayment; bound: the vendor records one payment.
RecordOffline(amount, kind) ==
  /\ status \in {"PENDING", "CONFIRMED", "COMPLETED"}
  /\ offline = 0 /\ amount <= Total - NetPaid
  /\ offline' = amount
  /\ ledger' = [ledger EXCEPT !.paid = @ + amount]
  /\ status' = IF /\ status = "PENDING" /\ kind = "advance"
                  /\ Gross(online, amount) - RefundedRows(refunds) >= Advance
               THEN "CONFIRMED" ELSE status
  /\ UNCHANGED <<online, refunds, cancelled, stored, processed, review,
                 process, outside>>

\* Events that a processor, or the tick after it, takes up.
Waiting == stored \ (processed \cup review)

\* The capture of an event or a checkout: the row is locked, so no other
\* capture is open, and the booking's status is read without a lock.
BeginCapture(source) ==
  /\ charged /\ online = "created" /\ capture = Null
  /\ source \in PaymentEvents => source \in Waiting
  /\ capture' = [source |-> source, seen |-> status]
  /\ UNCHANGED <<database, preview, toIssue, finishing, crashes, outside>>

\* Variant: an event that meets another capture does not wait for its lock.
AlreadyBeingCaptured(event) ==
  /\ event \in PaymentEvents \cap Waiting
  /\ online \in Verified \/ capture # Null
  /\ finishing' = finishing \cup {<<event, "done">>}
  /\ UNCHANGED <<database, capture, preview, toIssue, crashes, outside>>

\* A second event or checkout for an order that is already paid.
AlreadyCaptured(event) ==
  /\ event \in PaymentEvents \cap Waiting
  /\ online \in Verified
  /\ finishing' = finishing \cup {<<event, "done">>}
  /\ UNCHANGED <<database, capture, preview, toIssue, crashes, outside>>

\* The processor of the event will write down the outcome.
Report(outcome) ==
  finishing' = IF capture.source = Checkout THEN finishing
               ELSE finishing \cup {<<capture.source, outcome>>}

EndCapture(new) ==
  /\ capture # Null
  /\ online' = "captured"
  /\ ledger' = [ledger EXCEPT !.paid = @ + Advance]
  /\ status' = new
  /\ capture' = Null
  /\ Report("done")
  /\ UNCHANGED <<offline, cancelled, stored, processed, review, preview,
                 crashes, outside>>

\* Paid in time, or before this capture's reading of the status went stale;
\* free: the exclusion constraint lets the booking have its time.
ConfirmPaid(free) ==
  /\ capture # Null /\ capture.seen = "PENDING"
  /\ status = "PENDING" \/ (status = "EXPIRED" /\ free)
  /\ EndCapture("CONFIRMED")
  /\ UNCHANGED <<refunds, toIssue>>

ReclaimExpired ==
  /\ capture # Null /\ capture.seen = "EXPIRED" /\ status = "EXPIRED"
  /\ EndCapture("CONFIRMED")
  /\ UNCHANGED <<refunds, toIssue>>

\* Variant: a parked payment is left for somebody to notice.
ParkWithoutRefund ==
  /\ capture # Null /\ capture.seen = "EXPIRED" /\ status = "EXPIRED"
  /\ EndCapture("EXPIRED_PAID")
  /\ UNCHANGED <<refunds, toIssue>>

ParkExpired ==
  /\ capture # Null /\ capture.seen = "EXPIRED" /\ status = "EXPIRED"
  /\ AddRefunds(Advance, "captured")
  /\ EndCapture("EXPIRED_PAID")

\* Money for a booking that no longer waits for it.
RefundUnwanted ==
  /\ capture # Null /\ capture.seen \notin {"PENDING", "EXPIRED"}
  /\ AddRefunds(Advance, "captured")
  /\ EndCapture(status)

\* transitionBooking or the constraint refuses: nothing is recorded, and the
\* event is left for a person (a checkout only answers with an error).
AbortCapture(free) ==
  /\ capture # Null /\ capture.seen = "PENDING"
  /\ ~ (status = "PENDING" \/ (status = "EXPIRED" /\ free))
  /\ capture' = Null
  /\ Report("review")
  /\ UNCHANGED <<database, preview, toIssue, crashes, outside>>

FinishCapture ==
  \/ \E free \in BOOLEAN : ConfirmPaid(free) \/ AbortCapture(free)
  \/ ReclaimExpired \/ ParkExpired \/ RefundUnwanted

-----------------------------------------------------------------------------
(* Cancelling. *)

\* The customer's request looks at the booking, and refuses if it cannot be
\* cancelled, before its transaction begins.
ViewCancellation ==
  /\ preview = Null /\ status \in {"PENDING", "CONFIRMED"}
  /\ preview' = [paid |-> NetPaid, refund |-> RefundOf(NetPaid, percent)]
  /\ UNCHANGED <<database, capture, toIssue, finishing, crashes, outside>>

CancelBooking(by, paid, refund) ==
  /\ status \in {"PENDING", "CONFIRMED", "EXPIRED_PAID"}
  /\ status' = "CANCELLED"
  /\ cancelled' = [by |-> by, paid |-> paid, refund |-> refund]
  /\ AddRefunds(refund, online)
  /\ UNCHANGED <<online, offline, ledger, stored, processed, review, capture,
                 finishing, crashes, outside>>

CustomerCancel ==
  /\ preview # Null
  /\ preview' = Null
  /\ CancelBooking("customer", preview.paid, preview.refund)

\* The booking moved on, so the customer's transaction is refused.
CancelRefused ==
  /\ preview # Null /\ status \notin {"PENDING", "CONFIRMED", "EXPIRED_PAID"}
  /\ preview' = Null
  /\ UNCHANGED <<database, capture, toIssue, finishing, crashes, outside>>

VendorCancel ==
  /\ CancelBooking("vendor", NetPaid, NetPaid)
  /\ UNCHANGED preview

-----------------------------------------------------------------------------
(* Refunds and the gateway. *)

\* applyRefundProcessed: once per row, with its ledger entry and the status of
\* the payment it belongs to.  rows is the table with the caller's change.
MarkProcessed(rows, i) ==
  IF rows[i].status = "processed"
  THEN refunds' = rows /\ UNCHANGED <<ledger, online>>
  ELSE LET after == [rows EXCEPT ![i].status = "processed"] IN
       /\ refunds' = after
       /\ ledger' = [ledger EXCEPT !.refunded = @ + rows[i].amount]
       /\ online' = IF RefundedRows(after) >= Advance
                    THEN "refunded" ELSE "partially_refunded"

\* What the gateway still accepts to refund.
Refundable ==
  Advance - SumOf(issued, {i \in DOMAIN issued : issued[i].status # "failed"})

GatewayRefund(amount, st) ==
  /\ Len(issued) < MaxIssued
  /\ amount <= Refundable
  /\ issued' = Append(issued, [amount |-> amount, status |-> st])

\* A pending row the gateway has not heard of, and one that a request is about
\* to send.
Unsent(i) == /\ i \in DOMAIN refunds
             /\ refunds[i].status = "pending" /\ refunds[i].id = Null
Sendable(i) == i \in toIssue /\ Unsent(i)

\* issueRefund, with the gateway's answer.
IssueAccepted(i, st) ==
  /\ Sendable(i)
  /\ GatewayRefund(refunds[i].amount, st)
  /\ toIssue' = toIssue \ {i}
  /\ LET rows == [refunds EXCEPT ![i].id = Len(issued) + 1] IN
     IF st = "processed" THEN MarkProcessed(rows, i)
     ELSE refunds' = rows /\ UNCHANGED <<ledger, online>>
  /\ UNCHANGED <<status, offline, cancelled, stored, processed, review,
                 capture, preview, finishing, crashes, percent, charged>>

\* The call fails: the row is marked failed for a person to look at, although
\* after a timeout the gateway may have made the refund.
IssueFailed(i) ==
  /\ Sendable(i)
  /\ toIssue' = toIssue \ {i}
  /\ refunds' = [refunds EXCEPT ![i].status = "failed"]
  /\ \/ UNCHANGED issued
     \/ GatewayRefund(refunds[i].amount, "pending")
  /\ UNCHANGED <<status, online, offline, ledger, cancelled, stored,
                 processed, review, capture, preview, finishing, crashes,
                 percent, charged>>

\* A webhook was faster, or the row is not pending any more.
IssueSkipped(i) ==
  /\ i \in toIssue /\ ~ Sendable(i)
  /\ toIssue' = toIssue \ {i}
  /\ UNCHANGED <<database, capture, preview, finishing, crashes, outside>>

IssueRefund(i) ==
  \/ \E st \in {"pending", "processed"} : IssueAccepted(i, st)
  \/ IssueFailed(i) \/ IssueSkipped(i)

\* Variant: a refund the gateway reports is taken for the oldest pending one,
\* whatever its amount.
OwnRowIgnoringAmount(g) ==
  {i \in DOMAIN refunds : /\ refunds[i].payment = "online"
                          /\ refunds[i].id = Null
                          /\ refunds[i].status = "pending"}

\* Rows that may be our own refund g, whose id was not stored yet.
OwnRow(g) ==
  {i \in DOMAIN refunds : /\ refunds[i].payment = "online"
                          /\ refunds[i].amount = issued[g].amount
                          /\ refunds[i].id = Null
                          /\ refunds[i].status = "pending"}

\* applyProviderRefund finds the row of gateway refund g: the one that has its
\* id, or our own that waits for one, or a new one for a refund made elsewhere.
IndexOf(g) ==
  LET known == {i \in DOMAIN refunds : refunds[i].id = g} IN
  Min(IF known # {} THEN known ELSE OwnRow(g) \cup {Len(refunds) + 1})

RowsWith(g) ==
  IF IndexOf(g) \in DOMAIN refunds THEN [refunds EXCEPT ![IndexOf(g)].id = g]
  ELSE Append(refunds, [payment |-> "online", amount |-> issued[g].amount,
                        status |-> "pending", id |-> g])

MarkFailed(rows, i) ==
  /\ refunds' = IF rows[i].status = "pending"
                THEN [rows EXCEPT ![i].status = "failed"] ELSE rows
  /\ UNCHANGED <<ledger, online>>

\* refund.processed or refund.failed, in any order relative to our own call.
ApplyProviderRefund(g) ==
  /\ <<"refund", g>> \in Waiting
  /\ online \in Verified
  /\ Len(RowsWith(g)) <= MaxRefunds
  /\ IF issued[g].status = "processed" THEN MarkProcessed(RowsWith(g), IndexOf(g))
     ELSE MarkFailed(RowsWith(g), IndexOf(g))
  /\ finishing' = finishing \cup {<<<<"refund", g>>, "done">>}
  /\ UNCHANGED <<status, offline, cancelled, stored, processed, review,
                 capture, preview, toIssue, crashes, outside>>

\* Its payment is not recorded yet, so the event has to wait for it.
RefundNotYetKnown(g) ==
  /\ <<"refund", g>> \in Waiting
  /\ online \notin Verified
  /\ finishing' = finishing \cup {<<<<"refund", g>>, "waiting">>}
  /\ UNCHANGED <<database, capture, preview, toIssue, crashes, outside>>

-----------------------------------------------------------------------------
(* Webhooks. *)

\* Delivered at least once, in any order; a second delivery changes nothing.
Receive(event) ==
  /\ event \notin stored
  /\ IF event \in PaymentEvents THEN charged
     ELSE /\ event[2] \in DOMAIN issued
          /\ issued[event[2]].status # "pending"
  /\ stored' = stored \cup {event}
  /\ UNCHANGED <<status, online, offline, refunds, ledger, cancelled,
                 processed, review, process, outside>>

\* A statement of its own, so it may undo what another processor of the same
\* event has written meanwhile.
Finish(event, outcome) ==
  /\ <<event, outcome>> \in finishing
  /\ finishing' = finishing \ {<<event, outcome>>}
  /\ processed' = IF outcome = "waiting" THEN processed \ {event}
                  ELSE processed \cup {event}
  /\ review' = IF outcome = "review" THEN review \cup {event} ELSE review
  /\ UNCHANGED <<status, online, offline, refunds, ledger, cancelled, stored,
                 capture, preview, toIssue, crashes, outside>>

\* The nightly cleanup: an event has been waiting for more than a day, which,
\* with a tick or more a day, only one does whose payment is not recorded.
FlagStuck(event) ==
  /\ event \in Waiting \ PaymentEvents /\ online \notin Verified
  /\ review' = review \cup {event}
  /\ UNCHANGED <<status, online, offline, refunds, ledger, cancelled, stored,
                 processed, process, outside>>

\* An admin has an event applied again.
Reprocess(event) ==
  /\ event \in (stored \ processed) \cup review
  /\ processed' = processed \ {event} /\ review' = review \ {event}
  /\ UNCHANGED <<status, online, offline, refunds, ledger, cancelled, stored,
                 process, outside>>

-----------------------------------------------------------------------------
(* The gateway, the clock and crashes. *)

\* The customer pays the order, maybe long after the hold ran out.
Charge ==
  /\ online = "created" /\ ~ charged
  /\ charged' = TRUE
  /\ UNCHANGED <<database, process, percent, issued>>

SettleRefund(g, st) ==
  /\ issued[g].status = "pending"
  /\ issued' = [issued EXCEPT ![g].status = st]
  /\ UNCHANGED <<database, process, percent, charged>>

\* A refund made by hand in the gateway's dashboard.
DashboardRefund(amount) ==
  /\ charged
  /\ GatewayRefund(amount, "processed")
  /\ UNCHANGED <<database, process, percent, charged>>

TimePasses ==
  /\ \E p \in Percents : p < percent /\ percent' = p
  /\ UNCHANGED <<database, process, charged, issued>>

\* The process stops: transactions roll back, memory is lost.  A refund call
\* may have reached the gateway just before.
Crash ==
  /\ crashes < MaxCrashes
  /\ crashes' = crashes + 1
  /\ capture' = Null /\ preview' = Null /\ toIssue' = {} /\ finishing' = {}
  /\ \/ UNCHANGED issued
     \/ \E i \in toIssue :
          Sendable(i) /\ GatewayRefund(refunds[i].amount, "pending")
  /\ UNCHANGED <<database, percent, charged>>

-----------------------------------------------------------------------------
Money == \/ CreateOrder \/ Expire \/ Complete
         \/ \E amount \in OfflineAmounts, kind \in {"advance", "balance"} :
              RecordOffline(amount, kind)
         \/ \E source \in PaymentEvents \cup {Checkout} : BeginCapture(source)
         \/ FinishCapture

Cancelling == ViewCancellation \/ CustomerCancel \/ CancelRefused \/ VendorCancel

Webhooks == \E event \in Event :
  \/ Receive(event) \/ AlreadyCaptured(event) \/ FlagStuck(event)
  \/ Reprocess(event)
  \/ \E outcome \in {"done", "waiting", "review"} : Finish(event, outcome)

Gateway == \/ Charge
           \/ \E g \in DOMAIN issued : \/ ApplyProviderRefund(g)
                                      \/ RefundNotYetKnown(g)
                                      \/ SettleRefund(g, "processed")
                                      \/ SettleRefund(g, "failed")
           \/ \E amount \in 1..Advance : DashboardRefund(amount)

Next == \/ Money \/ Cancelling \/ Webhooks \/ Gateway
        \/ \E i \in DOMAIN refunds : IssueRefund(i)
        \/ TimePasses \/ Crash

Spec == Init /\ [][Next]_vars

\* The gateway repeats an event until it is accepted, the tick takes up what
\* waits, and a transaction or statement once begun comes to its end.
FairSpec ==
  /\ Spec
  /\ WF_vars(FinishCapture)
  /\ \A event \in Event : WF_vars(Receive(event))
  /\ \A event \in PaymentEvents : WF_vars(BeginCapture(event))
  /\ \A event \in Event, outcome \in {"done", "waiting", "review"} :
       WF_vars(Finish(event, outcome))
  /\ \A i \in 1..MaxRefunds : WF_vars(i \in DOMAIN refunds /\ IssueRefund(i))

-----------------------------------------------------------------------------
(* Properties. *)

\* The ledger and the payment rows tell the same story (the ledger_drift query
\* of the nightly reconcile), through any mix of captures, offline payments,
\* refunds that fail first and are processed later, and repeated events.
LedgerMatchesRows == ledger.paid - ledger.refunded = NetPaid

\* Every refund with a gateway id is that refund: no two rows share one, the
\* amounts agree and nothing is processed here that is not processed there
\* (the unrecorded, amount and status differences of the reconcile).
RefundsMirrorGateway ==
  \A i, j \in DOMAIN refunds :
    /\ refunds[i].id # Null =>
         /\ refunds[i].id \in DOMAIN issued
         /\ refunds[i].amount = issued[refunds[i].id].amount
         /\ refunds[i].status = "processed" =>
              issued[refunds[i].id].status = "processed"
    /\ refunds[i].status = "processed" => refunds[i].id # Null
    /\ i # j /\ refunds[i].id # Null => refunds[i].id # refunds[j].id

\* A confirmed booking has been paid its advance in full, by verified payments
\* of whatever kind (SPEC 10).
ConfirmedIsCovered ==
  status \in {"CONFIRMED", "COMPLETED"} => Gross(online, offline) >= Advance

\* Recording a captured payment confirms the booking, or else queues the whole
\* amount for refund in the same transaction (SPEC 11.4).
CaptureConfirmsOrRefunds ==
  [][online = "created" /\ online' = "captured" =>
       \/ status # "CONFIRMED" /\ status' = "CONFIRMED"
       \/ Refunded(refunds', "online", {"pending"}) = Advance]_vars

\* After the vendor cancels, nothing the customer paid is left without a refund
\* that stands (BK-11), whatever refunds were made or failed before.
VendorCancelRefundsAll ==
  [][cancelled = Null /\ cancelled' # Null =>
       \/ cancelled'.by = "customer"
       \/ Gross(online, offline) <= Refunded(refunds', "online", Standing)
                                   + Refunded(refunds', "offline", Standing)]_vars

\* What the customer gets back follows from what was paid when the booking was
\* cancelled, at a tier that was offered (SPEC 10, BK-10).
CustomerRefundFollowsPolicy ==
  [][cancelled = Null /\ cancelled' # Null /\ cancelled'.by = "customer" =>
       \E p \in Percents : p >= percent /\ cancelled'.refund = RefundOf(NetPaid, p)
    ]_vars

\* A payment the gateway captured is recorded, or an event of it is left for a
\* person to look at, also after a crash.
CaptureIsRecorded == charged ~> online \in Verified \/ review # {}

\* A refund that was promised reaches the gateway, or is marked failed for a
\* person to look at (SPEC 11.4: created automatically).
RefundsAreSent == \A i \in 1..MaxRefunds : Unsent(i) ~> ~ Unsent(i)
=============================================================================
