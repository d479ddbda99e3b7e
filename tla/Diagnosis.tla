------------------------------ MODULE Diagnosis ------------------------------
(***************************************************************************)
(* What the admin console says of a stuck booking (diagnose in             *)
(* admin-routes.ts), over the rows of Payments.  Its emails and its hold   *)
(* are not in those rows; those findings are left out.                     *)
(***************************************************************************)
EXTENDS Payments

VerifiedRows == online \in Verified \/ offline > 0

RefundFindings ==
  UNION {{[level |-> "problem", about |-> "failed refund"] : i \in
            {j \in DOMAIN refunds : refunds[j].status = "failed"}},
         {[level |-> "warning", about |-> "refund never sent"] : i \in
            {j \in DOMAIN refunds : Unsent(j)}},
         {[level |-> "info", about |-> "paid offline"] : i \in
            {j \in DOMAIN refunds : refunds[j].status = "manual"}}}

EventFindings ==
  {[level |-> "problem", about |-> "needs review"] : e \in review} \cup
  {[level |-> "warning", about |-> "waiting"] :
     e \in stored \ (processed \cup review)}

BookingFindings ==
  {f \in {[level |-> "info", about |-> "to be paid"],
          [level |-> "problem", about |-> "verified but pending"],
          [level |-> "problem", about |-> "confirmed unpaid"],
          [level |-> "problem", about |-> "late payment"],
          [level |-> "problem", about |-> "not refunded"]} :
     CASE f.about = "to be paid" ->
            status = "PENDING" /\ Gross(online, offline) < Advance
       [] f.about = "verified but pending" ->
            status = "PENDING" /\ online \in Verified
       [] f.about = "confirmed unpaid" ->
            status \in {"CONFIRMED", "COMPLETED"} /\ ~ VerifiedRows
       [] f.about = "late payment" -> status = "EXPIRED" /\ VerifiedRows
       [] f.about = "not refunded" ->
            /\ status = "EXPIRED_PAID"
            /\ \A i \in DOMAIN refunds :
                 refunds[i].status \notin {"pending", "processed"}}

Diagnose == BookingFindings \cup RefundFindings \cup EventFindings

\* Nothing that needs a person.
Quiet == \A f \in Diagnose : f.level = "info"
Idle == capture = Null /\ toIssue = {} /\ finishing = {}

\* What goes back: rows the gateway knows, and what the vendor returns by hand.
Returning ==
  SumOf(refunds,
    {i \in DOMAIN refunds : /\ refunds[i].status \in Standing
                            /\ refunds[i].id # Null \/ refunds[i].status = "manual"})

\* When nothing is under way and the console finds nothing wrong, the money is
\* where it belongs: a captured payment some event reported is recorded, an
\* expired booking holds none, and what a vendor cancelled or a late payment
\* paid has gone back, whatever crashed or failed before (SPEC 4.8 AD-04).
QuietMeansSettled ==
  Idle /\ Quiet =>
    /\ stored \cap PaymentEvents # {} => online \in Verified
    /\ status = "EXPIRED" => ~ VerifiedRows
    /\ status \in {"CONFIRMED", "COMPLETED"} => Gross(online, offline) >= Advance
    /\ status = "EXPIRED_PAID" \/ (cancelled # Null /\ cancelled.by = "vendor") =>
         Gross(online, offline) <= Returning

-----------------------------------------------------------------------------
(* What the nightly reconcile says, over the same rows and the gateway's.  *)

\* One look of it.  It asks the gateway for what was created there in the last 48
\* hours, and then reads the rows, so the gateway may have gone on since.
\*   paid    how the order's payment was listed, if it is that young
\*   listed  the refunds in the list, the youngest there were
\*   done    those of them that were listed as processed
\*   recent  the payments rows that were written in the last 48 hours
\*   waits   an event has been waiting for more than ten minutes
\* A payment is younger than its row's last write and older than its refunds.
Looks(paid, done) ==
  LET first == IF paid = "unlisted" THEN 1..(Len(issued) + 1) ELSE {1}
  IN [paid : {paid}, done : {done},
      listed : {l \in {a..b : a \in first, b \in 0..Len(issued)} : done \subseteq l},
      recent : {rows \in SUBSET {"online", "offline"} :
                  paid # "unlisted" /\ online \in Verified => "online" \in rows},
      waits : {FALSE, stored \ processed # {}}]

\* What a look compares, each of them an entry of its report.
MissingCapture(w) == w.paid = "captured" /\ online \notin Verified
NotCapturedThere(w) ==
  w.paid = "open" /\ online \in Verified /\ "online" \in w.recent
RowsOf(g) == {i \in DOMAIN refunds : refunds[i].id = g}
UnrecordedRefund(w) == \E g \in w.listed : RowsOf(g) = {}
RefundDiffers(w) ==
  \E g \in w.listed : \E i \in RowsOf(g) :
    \/ refunds[i].amount # issued[g].amount
    \/ g \in w.done /\ refunds[i].status # "processed"
LedgerDrifts(w) == w.recent # {} /\ ledger.paid - ledger.refunded # NetPaid
WebhookReview(w) == review # {} \/ w.waits

\* Variant: a refund that is known here is not compared any further.
ReconcileById(w) ==
  \/ MissingCapture(w) \/ NotCapturedThere(w) \/ UnrecordedRefund(w)
  \/ LedgerDrifts(w) \/ WebhookReview(w)

Reconcile(w) ==
  \/ MissingCapture(w) \/ NotCapturedThere(w)
  \/ UnrecordedRefund(w) \/ RefundDiffers(w)
  \/ LedgerDrifts(w) \/ WebhookReview(w)

\* The money as it was listed and the rows agree: of the refunds that were made,
\* and of all that the gateway holds of the order when its payment was listed.
Agrees(paid, done) ==
  LET here == SumOf(refunds, {i \in DOMAIN refunds :
                               refunds[i].status = "processed" /\ refunds[i].id \in done})
  IN /\ here = SumOf(issued, done)
     /\ paid # "unlisted" =>
          (IF paid = "captured" THEN Advance ELSE 0) - SumOf(issued, done)
            = Gross(online, 0) - here

\* A reconcile that finds no difference vouches for what it listed, although it
\* compares row by row and only the rows it finds: what the gateway had returned,
\* and held of a payment of the last 48 hours, is what the rows say (SPEC 11.7).
\* It says nothing of a payment that is older.
CleanMeansBalanced ==
  \A paid \in {"unlisted", "open"} \cup (IF charged THEN {"captured"} ELSE {}),
     done \in SUBSET {g \in DOMAIN issued : issued[g].status = "processed"} :
    Agrees(paid, done) \/ \A w \in Looks(paid, done) : Reconcile(w)

\* Whenever neither finds anything wrong there is nothing wrong.
SilenceMeansSettled == QuietMeansSettled /\ CleanMeansBalanced
=============================================================================
