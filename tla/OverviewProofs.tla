--------------------------- MODULE OverviewProofs ---------------------------
(***************************************************************************)
(* Theorems of Overview: what the console, the nightly reconcile and the   *)
(* vendor's pages say of the money.                                        *)
(***************************************************************************)
EXTENDS Overview, PaymentsProofs

-----------------------------------------------------------------------------
(* More about sums.                                                        *)

\* Rows of one table that are matched by different rows of another, of the same
\* amount each, sum up to no more.
LEMMA SumMatched ==
  ASSUME NEW rows, NEW which, NEW table, NEW goal, IsFiniteSet(goal),
         \A g \in goal : table[g].amount \in Nat,
         NEW m,
         \A i \in which : m[i] \in goal /\ table[m[i]].amount = rows[i].amount,
         \A i, j \in which : m[i] = m[j] => i = j
  PROVE  SumOf(rows, which) <= SumOf(table, goal)
<1> DEFINE f == [u \in Units(rows, which) |-> <<m[u[1]], u[2]>>]
<1>1. \A u \in Units(rows, which) :
        u = <<u[1], u[2]>> /\ u[1] \in which /\ u[2] \in 1..rows[u[1]].amount
  BY DEF Units
<1>2. \A u \in Units(rows, which) : f[u] \in Units(table, goal)
  <2> SUFFICES ASSUME NEW u \in Units(rows, which)
               PROVE  <<m[u[1]], u[2]>> \in Units(table, goal)
    OBVIOUS
  <2>1. m[u[1]] \in goal /\ u[2] \in 1..table[m[u[1]]].amount
    BY <1>1
  <2> QED BY <2>1 DEF Units
<1>3. \A u, v \in Units(rows, which) : f[u] = f[v] => u = v
  <2> SUFFICES ASSUME NEW u \in Units(rows, which), NEW v \in Units(rows, which),
                      f[u] = f[v]
               PROVE  u = v
    OBVIOUS
  <2>1. m[u[1]] = m[v[1]] /\ u[2] = v[2]
    OBVIOUS
  <2> HIDE DEF f
  <2> QED BY <1>1, <2>1
<1>4. f \in [Units(rows, which) -> Units(table, goal)]
  BY <1>2
<1> HIDE DEF f
<1>5. f \in Injection(Units(rows, which), Units(table, goal))
  BY <1>3, <1>4 DEF Injection, IsInjective
<1> QED BY <1>5, SumType, FS_Injection DEF SumOf

\* The sum of rows of two kinds.
LEMMA SumOfBoth ==
  ASSUME NEW rows, NEW some, NEW others, IsFiniteSet(some), IsFiniteSet(others),
         some \cap others = {},
         \A i \in some \cup others : rows[i].amount \in Nat
  PROVE  SumOf(rows, some \cup others) = SumOf(rows, some) + SumOf(rows, others)
<1>1. Units(rows, some \cup others) = Units(rows, some) \cup Units(rows, others)
  BY DEF Units
<1>2. Units(rows, some) \cap Units(rows, others) = {}
  BY DEF Units
<1>3. /\ IsFiniteSet(Units(rows, some)) /\ IsFiniteSet(Units(rows, others))
      /\ SumOf(rows, some) \in Nat /\ SumOf(rows, others) \in Nat
  BY SumType
<1>4. Cardinality(Units(rows, some) \cup Units(rows, others)) =
        Cardinality(Units(rows, some)) + Cardinality(Units(rows, others))
          - Cardinality(Units(rows, some) \cap Units(rows, others))
  BY <1>3, FS_Union
<1>5. Cardinality({}) = 0
  BY FS_EmptySet
<1>6. SumOf(rows, some \cup others) = SumOf(rows, some) + SumOf(rows, others) - 0
  BY <1>1, <1>2, <1>4, <1>5, Zenon DEF SumOf
<1> QED BY <1>3, <1>6

\* All rows are of one of four kinds.
LEMMA AllRows ==
  ASSUME refunds \in Table
  PROVE  /\ \A st : IsFiniteSet(Rows(st)) /\ RowsSum(Rows(st)) \in Nat
         /\ IsFiniteSet(DOMAIN refunds)
         /\ SumOf(refunds, DOMAIN refunds) =
              RowsSum(Rows("processed")) + RowsSum(Rows("manual"))
                + RowsSum(Rows("pending")) + RowsSum(Rows("failed"))
<1>1. IsFiniteSet(DOMAIN refunds)
  <2>1. DOMAIN refunds = 1..Len(refunds) /\ Len(refunds) \in Nat
    BY DEF Table
  <2> QED BY <2>1, FS_Interval
<1>2. \A i \in DOMAIN refunds : refunds[i].amount \in Nat
  BY RowType
<1>3. \A st : IsFiniteSet(Rows(st)) /\ Rows(st) \subseteq DOMAIN refunds
  BY <1>1, FS_Subset DEF Rows
<1>4. \A st : RowsSum(Rows(st)) \in Nat
  BY <1>2, <1>3, SumType DEF RowsSum
<1> DEFINE a == Rows("processed")  b == Rows("manual")
           c == Rows("pending")    d == Rows("failed")
<1>5. DOMAIN refunds = ((a \cup b) \cup c) \cup d
  BY RowType DEF Rows
<1>6. /\ a \cap b = {} /\ (a \cup b) \cap c = {} /\ ((a \cup b) \cup c) \cap d = {}
  BY DEF Rows
<1>7. /\ IsFiniteSet(a) /\ IsFiniteSet(b) /\ IsFiniteSet(c) /\ IsFiniteSet(d)
      /\ a \cup b \cup c \cup d \subseteq DOMAIN refunds
  BY <1>3
<1>8. IsFiniteSet(a \cup b) /\ IsFiniteSet((a \cup b) \cup c)
  BY <1>7, FS_Union
<1>9. RowsSum(a) \in Nat /\ RowsSum(b) \in Nat /\ RowsSum(c) \in Nat /\ RowsSum(d) \in Nat
  BY <1>4
<1> HIDE DEF a, b, c, d
<1>10. SumOf(refunds, a \cup b) = SumOf(refunds, a) + SumOf(refunds, b)
  BY <1>2, <1>6, <1>7, SumOfBoth
<1>11. SumOf(refunds, (a \cup b) \cup c) = SumOf(refunds, a \cup b) + SumOf(refunds, c)
  BY <1>2, <1>6, <1>7, <1>8, SumOfBoth
<1>12. SumOf(refunds, ((a \cup b) \cup c) \cup d) =
         SumOf(refunds, (a \cup b) \cup c) + SumOf(refunds, d)
  BY <1>2, <1>6, <1>7, <1>8, SumOfBoth
<1>13. SumOf(refunds, DOMAIN refunds) = RowsSum(a) + RowsSum(b) + RowsSum(c) + RowsSum(d)
  BY <1>5, <1>9, <1>10, <1>11, <1>12 DEF RowsSum
<1> QED BY <1>1, <1>3, <1>4, <1>13 DEF a, b, c, d

-----------------------------------------------------------------------------
(* The invariant.                                                          *)

\* The gateway never refunds more than it holds, and what is to be returned by
\* hand is never more than what was received by hand.
Live(table) == {g \in DOMAIN table : table[g].status # "failed"}
Vouched ==
  /\ SumOf(issued, Live(issued)) <= Advance
  /\ Refunded(refunds, "offline", Standing) <= offline

\* A cancelled booking stays so, an expired one was not paid by hand, and the
\* refunds of one that the vendor cancelled or that was paid too late, failed
\* ones included, come to all that it holds.
ByVendor == cancelled # Null /\ cancelled.by = "vendor"
Fates ==
  /\ cancelled # Null => status = "CANCELLED"
  /\ status \in {"EXPIRED", "EXPIRED_PAID"} => offline = 0
  /\ status = "EXPIRED_PAID" \/ ByVendor =>
       Gross(online, offline) <= SumOf(refunds, DOMAIN refunds)

\* A payment event that is done with has its payment recorded, or is left for a
\* person, and never waits for another.
Reports == \A e \in PaymentEvents :
  /\ e \in processed => online \in Verified \/ e \in review
  /\ <<e, "done">> \in finishing => online \in Verified
  /\ <<e, "waiting">> \notin finishing

Whole == Inv /\ Vouched /\ Fates /\ Reports

LEMMA WholeInit == Init => Whole
<1> SUFFICES ASSUME Init PROVE Whole
  OBVIOUS
<1>1. refunds = <<>> /\ issued = <<>> /\ offline = 0
  BY DEF Init
<1>2. SumOf(issued, Live(issued)) = 0
  <2>1. Live(issued) = {}
    BY <1>1 DEF Live
  <2> QED BY <2>1, SumNone
<1>3. Refunded(refunds, "offline", Standing) = 0
  <2>1. Of(refunds, "offline", Standing) = {}
    BY <1>1 DEF Of
  <2> QED BY <2>1, SumNone DEF Refunded
<1>4. Vouched
  BY <1>1, <1>2, <1>3, Numbers DEF Vouched
<1>5. Fates /\ Reports
  BY DEF Init, Fates, ByVendor, Reports
<1> QED BY <1>4, <1>5, InvInit DEF Whole

-----------------------------------------------------------------------------
(* The gateway's refunds.                                                  *)

GatewayMoves ==
  \/ UNCHANGED issued
  \/ \E amount \in Nat \ {0}, st \in {"pending", "processed"} :
       GatewayRefund(amount, st)
  \/ \E g \in DOMAIN issued, st \in {"processed", "failed"} : SettleRefund(g, st)

LEMMA Moving ==
  ASSUME TypeOK, [Next]_vars
  PROVE  GatewayMoves
<1> USE DEF database, process, outside
<1>1. CASE Money \/ Cancelling \/ Webhooks \/ TimePasses \/ UNCHANGED vars
  <2>1. UNCHANGED issued
    BY <1>1 DEF Money, CreateOrder, Expire, Complete, RecordOffline, BeginCapture,
         FinishCapture, ConfirmPaid, ReclaimExpired, ParkExpired, RefundUnwanted,
         EndCapture, AbortCapture, AddRefunds, Cancelling, ViewCancellation,
         CustomerCancel, CancelRefused, VendorCancel, CancelBooking, Webhooks, Receive,
         AlreadyCaptured, FlagStuck, Reprocess, Finish, TimePasses, vars
  <2> QED BY <2>1 DEF GatewayMoves
<1>2. \A i : Sendable(i) => refunds[i].amount \in Nat \ {0}
  BY Typed, RowType DEF Sendable, Unsent
<1>3. CASE Gateway
  <2>1. \A amount \in 1..Advance : amount \in Nat \ {0}
    BY Numbers
  <2> QED BY <1>3, <2>1 DEF Gateway, Charge, ApplyProviderRefund, RefundNotYetKnown,
             DashboardRefund, GatewayMoves
<1>4. ASSUME NEW i, IssueRefund(i)
      PROVE  GatewayMoves
  BY <1>2, <1>4 DEF IssueRefund, IssueAccepted, IssueFailed, IssueSkipped, GatewayMoves
<1>5. CASE Crash
  BY <1>2, <1>5 DEF Crash, GatewayMoves
<1> QED BY <1>1, <1>3, <1>4, <1>5 DEF Next

LEMMA LiveFinite ==
  ASSUME TypeOK
  PROVE  /\ IsFiniteSet(DOMAIN issued)
         /\ IsFiniteSet(Live(issued)) /\ SumOf(issued, Live(issued)) \in Nat
         /\ \A g \in DOMAIN issued : issued[g].amount \in Nat
<1>1. DOMAIN issued = 1..Len(issued) /\ Len(issued) \in Nat
  BY Typed, Numbers
<1>2. IsFiniteSet(DOMAIN issued)
  BY <1>1, FS_Interval
<1>3. IsFiniteSet(Live(issued)) /\ Live(issued) \subseteq DOMAIN issued
  BY <1>2, FS_Subset DEF Live
<1>4. \A g \in DOMAIN issued : issued[g].amount \in Nat
  BY Typed, Numbers
<1> QED BY <1>2, <1>3, <1>4, SumType

\* The gateway refuses what exceeds the rest of the payment.
LEMMA StaysBounded ==
  ASSUME TypeOK, TypeOK', [Next]_vars, SumOf(issued, Live(issued)) <= Advance
  PROVE  SumOf(issued', Live(issued')) <= Advance
<1>1. GatewayMoves
  BY Moving
<1>2. CASE UNCHANGED issued
  BY <1>2
<1>3. ASSUME NEW amount \in Nat \ {0}, NEW st \in {"pending", "processed"},
             GatewayRefund(amount, st)
      PROVE  SumOf(issued', Live(issued')) <= Advance
  <2> DEFINE n == Len(issued) + 1
  <2>1. /\ issued' \in Seq(Provided) /\ Len(issued') = n
        /\ \A g \in DOMAIN issued : issued'[g] = issued[g]
        /\ issued'[n] = [amount |-> amount, status |-> st]
    BY <1>3, Granted, Zenon
  <2>2. DOMAIN issued = 1..Len(issued) /\ Len(issued) \in Nat
    BY Typed, Numbers
  <2>3. DOMAIN issued' = 1..n
    BY <2>1
  <2>4. Live(issued') = Live(issued) \cup {n} /\ n \notin Live(issued)
    BY <2>1, <2>2, <2>3 DEF Live
  <2>5. \A g \in Live(issued) \cup {n} : issued'[g].amount \in Nat
    BY <2>1, LiveFinite DEF Live
  <2>6. SumOf(issued', Live(issued) \cup {n}) = SumOf(issued', Live(issued)) + amount
    <3>1. issued'[n].amount = amount
      BY <2>1
    <3> HIDE DEF n
    <3> QED BY <2>4, <2>5, <3>1, LiveFinite, SumAdds
  <2>7. SumOf(issued', Live(issued)) = SumOf(issued, Live(issued))
    <3>1. \A g \in Live(issued) : issued[g].amount = issued'[g].amount
      BY <2>1 DEF Live
    <3> QED BY <3>1, SumSame
  <2>8. amount <= Advance - SumOf(issued, Live(issued))
    BY <1>3 DEF GatewayRefund, Refundable, Live
  <2>9. SumOf(issued', Live(issued')) = SumOf(issued, Live(issued)) + amount
    BY <2>4, <2>6, <2>7
  <2> QED BY <2>8, <2>9, LiveFinite, Numbers
<1>4. ASSUME NEW g \in DOMAIN issued, NEW st \in {"processed", "failed"},
             SettleRefund(g, st)
      PROVE  SumOf(issued', Live(issued')) <= Advance
  <2>1. /\ issued' = [issued EXCEPT ![g].status = st]
        /\ issued[g].status = "pending" /\ issued[g] \in Provided
    BY <1>4, Typed DEF SettleRefund
  <2>2. DOMAIN issued' = DOMAIN issued /\ \A h \in DOMAIN issued : h # g => issued'[h] = issued[h]
    BY <2>1
  <2>3. issued'[g].amount = issued[g].amount
    <3>1. issued'[g] = [issued[g] EXCEPT !.status = st]
      BY <2>1
    <3> QED BY <2>1, <3>1 DEF Provided
  <2>4. Live(issued') \in SUBSET Live(issued)
    BY <2>1, <2>2 DEF Live
  <2>5. SumOf(issued', Live(issued')) = SumOf(issued, Live(issued'))
    <3>1. \A h \in Live(issued') : issued'[h].amount = issued[h].amount
      BY <2>2, <2>3 DEF Live
    <3> QED BY <3>1, SumSame
  <2>6. SumOf(issued, Live(issued')) <= SumOf(issued, Live(issued))
    <3>1. \A h \in Live(issued) : issued[h].amount \in Nat
      BY LiveFinite DEF Live
    <3> QED BY <2>4, <3>1, LiveFinite, SumGrows
  <2>7. SumOf(issued, Live(issued')) \in Nat
    <3>1. IsFiniteSet(Live(issued'))
      BY <2>4, LiveFinite, FS_Subset
    <3>2. \A h \in Live(issued') : issued[h].amount \in Nat
      BY <2>4, LiveFinite DEF Live
    <3> QED BY <3>1, <3>2, SumType
  <2> QED BY <2>5, <2>6, <2>7, LiveFinite, Numbers
<1> QED BY <1>1, <1>2, <1>3, <1>4 DEF GatewayMoves

-----------------------------------------------------------------------------
(* The table of refunds.                                                   *)

\* At most one row is touched, whose payment and amount stay, or is added for a
\* refund of the online payment.
Touched(i) ==
  /\ Differ(refunds, refunds', i)
  /\ i \in DOMAIN refunds =>
       /\ i \in DOMAIN refunds' /\ refunds'[i].amount = refunds[i].amount
       /\ refunds'[i].payment = refunds[i].payment
  /\ i \in DOMAIN refunds' \ DOMAIN refunds => refunds'[i].payment = "online"

RowStep ==
  \/ \E i \in DOMAIN refunds, st \in {"pending", "processed"} : IssueAccepted(i, st)
  \/ \E i \in DOMAIN refunds : IssueFailed(i)
  \/ \E g \in DOMAIN issued : ApplyProviderRefund(g)

\* A table that MarkProcessed or MarkFailed starts from and leaves.
LEMMA Restated ==
  ASSUME TypeOK, NEW rows \in Table, NEW i \in DOMAIN rows,
         \/ refunds' = rows /\ UNCHANGED online
         \/ MarkProcessed(rows, i) \/ MarkFailed(rows, i)
  PROVE  /\ refunds' \in Table /\ DOMAIN refunds' = DOMAIN rows
         /\ \A j \in DOMAIN rows : j # i => refunds'[j] = rows[j]
         /\ refunds'[i].payment = rows[i].payment
         /\ refunds'[i].amount = rows[i].amount
         /\ online' \in {online, "refunded", "partially_refunded"}
<1>1. rows[i] \in Refund /\ DOMAIN rows = 1..Len(rows)
  BY RowType DEF Table
<1>2. CASE refunds' = rows /\ UNCHANGED online
  BY <1>2
<1>3. CASE MarkProcessed(rows, i)
  <2>1. /\ refunds' \in Table /\ Len(refunds') = Len(rows)
        /\ online' \in {online, "refunded", "partially_refunded"}
        /\ \A j \in DOMAIN rows : j # i => refunds'[j] = rows[j]
        /\ refunds'[i] = [rows[i] EXCEPT !.status = "processed"]
    BY <1>3, Typed, Marked
  <2>2. DOMAIN refunds' = 1..Len(refunds')
    BY <2>1 DEF Table
  <2> QED BY <1>1, <2>1, <2>2 DEF Refund
<1>4. CASE MarkFailed(rows, i)
  <2>1. CASE rows[i].status = "pending"
    <3>1. PICK row \in Refund : row = [rows[i] EXCEPT !.status = "failed"]
      BY <1>1 DEF Refund
    <3>2. refunds' = [rows EXCEPT ![i] = row] /\ UNCHANGED online
      BY <1>4, <2>1, <3>1 DEF MarkFailed
    <3>3. row.payment = rows[i].payment /\ row.amount = rows[i].amount
      BY <1>1, <3>1 DEF Refund
    <3>4. refunds' \in Table
      BY <3>2 DEF Table
    <3> QED BY <1>1, <3>2, <3>3, <3>4
  <2>2. CASE rows[i].status # "pending"
    BY <1>4, <2>2 DEF MarkFailed
  <2> QED BY <2>1, <2>2
<1> QED BY <1>2, <1>3, <1>4

LEMMA RowSteps ==
  ASSUME Inv, RowStep
  PROVE  /\ \E i : Touched(i)
         /\ online \in Verified /\ online' \in Verified
         /\ UNCHANGED <<status, offline>>
<1>1. /\ refunds \in Table /\ DOMAIN refunds = 1..Len(refunds) /\ Len(refunds) \in Nat
      /\ Len(issued) \in Nat /\ TypeOK
  BY Typed, Numbers DEF Inv
<1>2. ASSUME NEW i \in DOMAIN refunds, Sendable(i)
      PROVE  online \in Verified
  <2>1. refunds[i].payment = "online"
    BY <1>1, <1>2, RowType DEF Inv, RowsOK, Sendable, Unsent
  <2> QED BY <2>1 DEF Inv, RowsOK
<1>3. ASSUME NEW i \in DOMAIN refunds, NEW st, IssueAccepted(i, st)
      PROVE  /\ Touched(i) /\ online \in Verified /\ online' \in Verified
             /\ UNCHANGED <<status, offline>>
  <2> DEFINE rows == [refunds EXCEPT ![i].id = Len(issued) + 1]
  <2>1. Len(issued) + 1 \in 1..MaxIssued
    BY <1>1, <1>3, Numbers DEF IssueAccepted, GatewayRefund
  <2>0. refunds[i] \in Refund
    BY <1>1, RowType
  <2>2. PICK row \in Refund : row = [refunds[i] EXCEPT !.id = Len(issued) + 1]
    BY <2>0, <2>1 DEF Refund
  <2>3. row.payment = refunds[i].payment /\ row.amount = refunds[i].amount
    BY <2>0, <2>2 DEF Refund
  <2>4. rows = [refunds EXCEPT ![i] = row]
    BY <2>2
  <2>5. /\ rows \in Table /\ DOMAIN rows = DOMAIN refunds /\ rows[i] = row
        /\ \A j \in DOMAIN refunds : j # i => rows[j] = refunds[j]
    BY <1>1, <2>4 DEF Table
  <2>6. MarkProcessed(rows, i) \/ (refunds' = rows /\ UNCHANGED online)
    BY <1>3 DEF IssueAccepted
  <2> HIDE DEF rows
  <2>7. /\ refunds' \in Table /\ DOMAIN refunds' = DOMAIN rows
        /\ \A j \in DOMAIN rows : j # i => refunds'[j] = rows[j]
        /\ refunds'[i].payment = rows[i].payment
        /\ refunds'[i].amount = rows[i].amount
        /\ online' \in {online, "refunded", "partially_refunded"}
    BY <1>1, <2>5, <2>6, Restated
  <2>8. Touched(i)
    BY <1>1, <2>3, <2>5, <2>7 DEF Touched, Differ
  <2>9. online \in Verified
    BY <1>2, <1>3 DEF IssueAccepted
  <2>10. online' \in Verified
    BY <2>7, <2>9 DEF Verified
  <2>11. UNCHANGED <<status, offline>>
    BY <1>3 DEF IssueAccepted
  <2> QED BY <2>8, <2>9, <2>10, <2>11
<1>4. ASSUME NEW i \in DOMAIN refunds, IssueFailed(i)
      PROVE  /\ Touched(i) /\ online \in Verified /\ online' \in Verified
             /\ UNCHANGED <<status, offline>>
  <2>1. MarkFailed(refunds, i)
    BY <1>4 DEF IssueFailed, MarkFailed, Sendable, Unsent
  <2>2. /\ refunds' \in Table /\ DOMAIN refunds' = DOMAIN refunds
        /\ \A j \in DOMAIN refunds : j # i => refunds'[j] = refunds[j]
        /\ refunds'[i].payment = refunds[i].payment
        /\ refunds'[i].amount = refunds[i].amount
    BY <1>1, <2>1, Restated
  <2>3. Touched(i)
    BY <1>1, <2>2 DEF Touched, Differ
  <2> QED BY <1>2, <1>4, <2>3 DEF IssueFailed
<1>5. ASSUME NEW g \in DOMAIN issued, ApplyProviderRefund(g)
      PROVE  /\ \E i : Touched(i)
             /\ online \in Verified /\ online' \in Verified
             /\ UNCHANGED <<status, offline>>
  <2>1. PICK i, rows : i = IndexOf(g) /\ rows = RowsWith(g)
    OBVIOUS
  <2>2. Finds(g, i, rows)
    BY <1>1, <2>1, RowFound
  <2>3. rows \in Table /\ DOMAIN rows = 1..Len(rows) /\ Len(rows) \in Nat /\ i \in DOMAIN rows
    BY <2>2 DEF Finds, Table
  <2>4. DOMAIN refunds \subseteq DOMAIN rows
    BY <1>1, <2>2, <2>3 DEF Finds
  <2>5. MarkProcessed(rows, i) \/ MarkFailed(rows, i)
    BY <1>5, <2>1 DEF ApplyProviderRefund
  <2>6. /\ refunds' \in Table /\ DOMAIN refunds' = DOMAIN rows
        /\ \A j \in DOMAIN rows : j # i => refunds'[j] = rows[j]
        /\ refunds'[i].payment = rows[i].payment
        /\ refunds'[i].amount = rows[i].amount
        /\ online' \in {online, "refunded", "partially_refunded"}
    BY <1>1, <2>3, <2>5, Restated
  <2>7. \A j \in DOMAIN rows : j # i => j \in DOMAIN refunds /\ rows[j] = refunds[j]
    BY <2>2, <2>3 DEF Finds
  <2>8. i \in DOMAIN refunds =>
          rows[i].payment = refunds[i].payment /\ rows[i].amount = refunds[i].amount
    <3> SUFFICES ASSUME i \in DOMAIN refunds
                 PROVE  /\ rows[i].payment = refunds[i].payment
                        /\ rows[i].amount = refunds[i].amount
      OBVIOUS
    <3>1. rows[i] = [refunds[i] EXCEPT !.id = g] /\ refunds[i] \in Refund
      BY <1>1, <2>2, RowType DEF Finds
    <3> QED BY <3>1 DEF Refund
  <2>9. i \notin DOMAIN refunds => rows[i].payment = "online"
    BY <2>2 DEF Finds
  <2>10. Touched(i)
    BY <1>1, <2>3, <2>4, <2>6, <2>7, <2>8, <2>9 DEF Touched, Differ
  <2> QED BY <1>5, <2>6, <2>10 DEF ApplyProviderRefund, Verified
<1> QED BY <1>3, <1>4, <1>5 DEF RowStep

\* The amounts that stay make up as much as before.
LEMMA NothingLost ==
  ASSUME refunds \in Table, refunds' \in Table,
         \A i \in DOMAIN refunds :
           i \in DOMAIN refunds' /\ refunds'[i].amount = refunds[i].amount
  PROVE  /\ SumOf(refunds, DOMAIN refunds) \in Nat
         /\ SumOf(refunds', DOMAIN refunds') \in Nat
         /\ SumOf(refunds, DOMAIN refunds) <= SumOf(refunds', DOMAIN refunds')
         /\ \A j \in DOMAIN refunds' \ DOMAIN refunds :
              SumOf(refunds, DOMAIN refunds) + refunds'[j].amount
                <= SumOf(refunds', DOMAIN refunds')
<1> DEFINE old == DOMAIN refunds
           new == DOMAIN refunds'
<1>1. IsFiniteSet(old) /\ IsFiniteSet(new) /\ old \in SUBSET new
  <2>1. /\ old = 1..Len(refunds) /\ new = 1..Len(refunds')
        /\ Len(refunds) \in Nat /\ Len(refunds') \in Nat
    BY DEF Table
  <2> QED BY <2>1, FS_Interval
<1>2. \A i \in new : refunds'[i].amount \in Nat
  BY RowType
<1>3. SumOf(refunds, old) = SumOf(refunds', old)
  BY SumSame
<1> HIDE DEF old, new
<1>4. SumOf(refunds', old) \in Nat /\ SumOf(refunds', new) \in Nat
  BY <1>1, <1>2, SumType
<1>5. SumOf(refunds', old) <= SumOf(refunds', new)
  BY <1>1, <1>2, SumGrows
<1>6. ASSUME NEW j \in new \ old
      PROVE  SumOf(refunds', old) + refunds'[j].amount <= SumOf(refunds', new)
  <2>1. SumOf(refunds', old \cup {j}) = SumOf(refunds', old) + refunds'[j].amount
    BY <1>1, <1>2, SumAdds
  <2>2. old \cup {j} \in SUBSET new
    BY <1>1
  <2>3. SumOf(refunds', old \cup {j}) <= SumOf(refunds', new)
    BY <1>1, <1>2, <2>2, SumGrows
  <2> QED BY <2>1, <2>3
<1> QED BY <1>3, <1>4, <1>5, <1>6 DEF old, new

-----------------------------------------------------------------------------
(* The invariant is kept.                                                  *)

LEMMA Sorted ==
  ASSUME Inv, [Next]_vars
  PROVE  /\ TypeOK /\ TypeOK' /\ Inv' /\ refunds \in Table /\ refunds' \in Table
         /\ offline \in Nat /\ offline' \in Nat
         /\ \/ Still \/ CreateOrder
            \/ \E kind : \E amount \in OfflineAmounts : RecordOffline(amount, kind)
            \/ \E new : Capturing(new)
            \/ \E by, paid : \E refund \in Int : CancelBooking(by, paid, refund)
            \/ RowStep
<1>1. Kinds
  BY Stepping DEF Inv
<1>2. TypeOK /\ Inv' /\ TypeOK'
  BY InvStep DEF Inv
<1>3. refunds \in Table /\ offline \in Nat
  BY <1>2, Typed
<1>4. refunds' \in Table /\ offline' \in Nat
  BY <1>2, Numbers DEF TypeOK, Table
<1> QED BY <1>1, <1>2, <1>3, <1>4 DEF Kinds, RowStep

LEMMA StaysVerified ==
  ASSUME Inv, [Next]_vars, online \in Verified
  PROVE  online' \in Verified
<1>1. CASE RowStep
  BY <1>1, RowSteps
<1>2. \A amount, kind : RecordOffline(amount, kind) => online' = online
  BY DEF RecordOffline
<1>3. \A by, paid, refund : CancelBooking(by, paid, refund) => online' = online
  BY DEF CancelBooking
<1>4. CASE Still \/ CreateOrder \/ \E new : Capturing(new)
  BY <1>4 DEF Still, CreateOrder, Capturing, EndCapture, Verified
<1> QED BY <1>1, <1>2, <1>3, <1>4, Sorted

LEMMA ManualRows ==
  ASSUME NEW rows \in Table,
         \A i \in DOMAIN rows : rows[i].payment = "offline" <=> rows[i].status = "manual"
  PROVE  Of(rows, "offline", Standing) = {i \in DOMAIN rows : rows[i].payment = "offline"}
BY DEF Of, Standing

LEMMA VouchedStep ==
  ASSUME Inv, Vouched, [Next]_vars
  PROVE  Vouched'
<1>1. /\ TypeOK /\ TypeOK' /\ Inv' /\ refunds \in Table /\ refunds' \in Table
      /\ offline \in Nat /\ offline' \in Nat
  BY Sorted
<1>2. SumOf(issued', Live(issued')) <= Advance
  BY <1>1, StaysBounded DEF Vouched
<1> DEFINE byHand == Refunded(refunds, "offline", Standing)
<1>3. byHand \in Nat /\ byHand <= offline
  BY <1>1, RefundedType DEF Vouched
<1>4. CASE UNCHANGED <<refunds, offline>>
  BY <1>2, <1>4 DEF Vouched
<1>5. ASSUME NEW amount \in OfflineAmounts, NEW kind, RecordOffline(amount, kind)
      PROVE  Vouched'
  <2>1. offline = 0 /\ refunds' = refunds
    BY <1>5 DEF RecordOffline
  <2> QED BY <1>1, <1>2, <1>3, <2>1 DEF Vouched
<1>6. ASSUME NEW amount \in Int, NEW on, AddRefunds(amount, on), UNCHANGED offline
      PROVE  Vouched'
  <2>1. PICK first \in Nat, second \in Nat :
          /\ AreShares(amount, on, first, second)
          /\ Refunded(refunds', "offline", Standing) = byHand + second
    BY <1>6, Shares
  <2>2. second = 0 \/ second <= offline - byHand
    BY <2>1 DEF AreShares
  <2> HIDE DEF byHand
  <2>3. Refunded(refunds', "offline", Standing) <= offline'
    BY <1>1, <1>3, <1>6, <2>1, <2>2
  <2> QED BY <1>2, <2>3 DEF Vouched
<1>7. CASE RowStep
  <2>1. PICK i : Touched(i)
    BY <1>7, RowSteps
  <2>2. UNCHANGED offline
    BY <1>7, RowSteps
  <2>3. /\ Of(refunds, "offline", Standing) =
             {j \in DOMAIN refunds : refunds[j].payment = "offline"}
        /\ Of(refunds', "offline", Standing) =
             {j \in DOMAIN refunds' : refunds'[j].payment = "offline"}
    <3>1. \A j \in DOMAIN refunds :
            refunds[j].payment = "offline" <=> refunds[j].status = "manual"
      BY DEF Inv, RowsOK
    <3>2. \A j \in DOMAIN refunds' :
            refunds'[j].payment = "offline" <=> refunds'[j].status = "manual"
      BY <1>1 DEF Inv, RowsOK
    <3> QED BY <1>1, <3>1, <3>2, ManualRows
  <2>4. \A j : /\ j \in Of(refunds', "offline", Standing) <=>
                    j \in Of(refunds, "offline", Standing)
               /\ j \in Of(refunds, "offline", Standing) =>
                    refunds[j].amount = refunds'[j].amount
    BY <2>1, <2>3 DEF Touched, Differ
  <2>5. Of(refunds', "offline", Standing) = Of(refunds, "offline", Standing)
    BY <2>4
  <2>6. Refunded(refunds', "offline", Standing) = byHand
    BY <2>4, <2>5, RefundedSame
  <2> QED BY <1>2, <1>3, <2>2, <2>6 DEF Vouched
<1>8. CASE Still \/ CreateOrder
  <2>1. UNCHANGED <<refunds, offline>>
    BY <1>8 DEF Still, CreateOrder
  <2> QED BY <1>4, <2>1
<1>9. ASSUME NEW new, Capturing(new)
      PROVE  Vouched'
  <2>1. UNCHANGED offline /\ (UNCHANGED refunds \/ AddRefunds(Advance, "captured"))
    BY <1>9 DEF Capturing, EndCapture
  <2> QED BY <1>4, <1>6, <2>1, Numbers
<1>10. ASSUME NEW by, NEW paid, NEW refund \in Int, CancelBooking(by, paid, refund)
       PROVE  Vouched'
  <2>1. AddRefunds(refund, online) /\ UNCHANGED offline
    BY <1>10 DEF CancelBooking
  <2> QED BY <1>6, <2>1
<1> QED BY <1>5, <1>7, <1>8, <1>9, <1>10, Sorted

\* What a capture that refunds at once adds to the table.
LEMMA RefundAtOnce ==
  ASSUME Inv, online = "created", AddRefunds(Advance, "captured"), refunds' \in Table
  PROVE  /\ SumOf(refunds, DOMAIN refunds) \in Nat
         /\ SumOf(refunds', DOMAIN refunds') \in Nat
         /\ SumOf(refunds, DOMAIN refunds) + Advance
              <= SumOf(refunds', DOMAIN refunds')
<1>1. refunds \in Table /\ offline \in Nat /\ Advance \in Nat \ {0}
  BY Typed, Numbers DEF Inv
<1>2. PICK first, second :
        AreShares(Advance, "captured", first, second) /\ Inserted(first, second)
  BY <1>1, AddedRows
<1>3. Refunded(refunds, "online", Standing) = 0
  <2>1. Of(refunds, "online", Standing) = {}
    BY DEF Inv, RowsOK, Of, Verified
  <2> QED BY <2>1, SumNone DEF Refunded
<1>4. first = Advance
  <2>1. /\ first \in Nat
        /\ first = 0 \/ first <= Advance
        /\ first >= Advance \/ first >= Advance - 0
    BY <1>2, <1>3 DEF AreShares
  <2> QED BY <1>1, <2>1
<1> DEFINE a == Len(refunds) + 1
<1>5. Len(refunds) \in Nat /\ DOMAIN refunds = 1..Len(refunds)
  BY <1>1 DEF Table
<1>6. a \in DOMAIN refunds' \ DOMAIN refunds
  <2>1. a \in DOMAIN refunds'
    <3>1. first > 0
      BY <1>1, <1>4
    <3> QED BY <1>2, <3>1, Zenon DEF Inserted
  <2> QED BY <1>5, <2>1
<1>7. refunds'[a].amount = Advance
  <2>1. \/ refunds'[a] = OnlineRow(first)
        \/ second > 0 /\ a = Len(refunds')
    <3>1. \A i \in DOMAIN refunds' \ DOMAIN refunds :
            \/ first > 0 /\ i = Len(refunds) + 1 /\ refunds'[i] = OnlineRow(first)
            \/ second > 0 /\ i = Len(refunds') /\ refunds'[i] = OfflineRow(second)
      BY <1>2 DEF Inserted
    <3> HIDE DEF a
    <3> QED BY <1>6, <3>1
  <2>2. second > 0 => a # Len(refunds')
    BY <1>1, <1>2, <1>4, <1>5 DEF Inserted
  <2> QED BY <1>4, <2>1, <2>2 DEF OnlineRow
<1>8. \A i \in DOMAIN refunds :
        i \in DOMAIN refunds' /\ refunds'[i].amount = refunds[i].amount
  BY <1>2 DEF Inserted
<1> HIDE DEF a
<1> QED BY <1>1, <1>6, <1>7, <1>8, NothingLost

\* The refunds of both payments that stand are among all of them.
LEMMA StandingRows ==
  ASSUME NEW rows \in Table
  PROVE  Refunded(rows, "online", Standing) + Refunded(rows, "offline", Standing)
           <= SumOf(rows, DOMAIN rows)
<1> DEFINE a == Of(rows, "online", Standing)
           b == Of(rows, "offline", Standing)
           all == DOMAIN rows
<1>1. /\ IsFiniteSet(a) /\ IsFiniteSet(b) /\ a \cap b = {}
      /\ a \cup b \in SUBSET all /\ IsFiniteSet(all)
  <2>1. all = 1..Len(rows) /\ Len(rows) \in Nat
    BY DEF Table
  <2>2. IsFiniteSet(all)
    BY <2>1, FS_Interval
  <2>3. IsFiniteSet(a) /\ IsFiniteSet(b)
    BY OfFinite
  <2>4. a \cap b = {} /\ a \cup b \in SUBSET all
    BY DEF Of
  <2> QED BY <2>2, <2>3, <2>4
<1>2. \A i \in all : rows[i].amount \in Nat
  BY RowType
<1> HIDE DEF a, b, all
<1>3. SumOf(rows, a \cup b) = SumOf(rows, a) + SumOf(rows, b)
  <2>1. \A i \in a \cup b : rows[i].amount \in Nat
    BY <1>1, <1>2
  <2> QED BY <1>1, <2>1, SumOfBoth
<1>4. SumOf(rows, a \cup b) <= SumOf(rows, all)
  BY <1>1, <1>2, SumGrows
<1> QED BY <1>3, <1>4 DEF a, b, all, Refunded

\* Rows are kept by every step.
LEMMA RowsKept ==
  ASSUME Inv, [Next]_vars, NEW i \in DOMAIN refunds
  PROVE  i \in DOMAIN refunds' /\ refunds'[i].amount = refunds[i].amount
<1>1. refunds \in Table /\ offline \in Nat
  BY Sorted
<1>2. ASSUME NEW amount \in Int, NEW on, AddRefunds(amount, on)
      PROVE  i \in DOMAIN refunds' /\ refunds'[i].amount = refunds[i].amount
  <2>1. PICK first, second : Inserted(first, second)
    BY <1>1, <1>2, AddedRows
  <2> QED BY <2>1 DEF Inserted
<1>3. CASE RowStep
  <2>1. PICK j : Touched(j)
    BY <1>3, RowSteps
  <2> QED BY <2>1 DEF Touched, Differ
<1>4. \A amount, kind : RecordOffline(amount, kind) => refunds' = refunds
  BY DEF RecordOffline
<1>5. ASSUME NEW new, Capturing(new)
      PROVE  i \in DOMAIN refunds' /\ refunds'[i].amount = refunds[i].amount
  BY <1>2, <1>5, Numbers DEF Capturing
<1>6. ASSUME NEW by, NEW paid, NEW refund \in Int, CancelBooking(by, paid, refund)
      PROVE  i \in DOMAIN refunds' /\ refunds'[i].amount = refunds[i].amount
  BY <1>2, <1>6 DEF CancelBooking
<1>7. CASE Still \/ CreateOrder
  BY <1>7 DEF Still, CreateOrder
<1> QED BY <1>3, <1>4, <1>5, <1>6, <1>7, Sorted

LEMMA FatesStep ==
  ASSUME Inv, Fates, [Next]_vars
  PROVE  Fates'
<1> DEFINE all == SumOf(refunds, DOMAIN refunds)
<1>1. /\ TypeOK /\ TypeOK' /\ Inv' /\ refunds \in Table /\ refunds' \in Table
      /\ offline \in Nat /\ offline' \in Nat
      /\ Gross(online, offline) \in Nat
  BY Sorted, Typed
<1>2. all \in Nat /\ all' \in Nat /\ all <= all'
  BY <1>1, RowsKept, NothingLost
<1> HIDE DEF all
<1>3. Fates <=> /\ cancelled # Null => status = "CANCELLED"
                /\ status \in {"EXPIRED", "EXPIRED_PAID"} => offline = 0
                /\ status = "EXPIRED_PAID" \/ ByVendor => Gross(online, offline) <= all
  BY DEF Fates, all
<1>4. Fates' <=> /\ cancelled' # Null => status' = "CANCELLED"
                 /\ status' \in {"EXPIRED", "EXPIRED_PAID"} => offline' = 0
                 /\ status' = "EXPIRED_PAID" \/ ByVendor' =>
                      Gross(online', offline') <= all'
  BY DEF Fates, all
<1>5. CASE CustomerCancel
  BY <1>4, <1>5 DEF CustomerCancel, CancelBooking, ByVendor
<1>6. CASE VendorCancel
  <2>1. status' = "CANCELLED" /\ UNCHANGED <<online, offline>>
    BY <1>6 DEF VendorCancel, CancelBooking
  <2>2. Gross(online, offline) <= Refunded(refunds', "online", Standing)
                                 + Refunded(refunds', "offline", Standing)
    BY <1>6, VendorCovers
  <2>3. Refunded(refunds', "online", Standing) + Refunded(refunds', "offline", Standing)
          <= all'
    BY <1>1, StandingRows DEF all
  <2>4. /\ Refunded(refunds', "online", Standing) \in Nat
        /\ Refunded(refunds', "offline", Standing) \in Nat
    BY <1>1, RefundedType
  <2> QED BY <1>1, <1>2, <1>4, <2>1, <2>2, <2>3, <2>4
<1>7. CASE ~ CustomerCancel /\ ~ VendorCancel
  <2>1. cancelled' = cancelled /\ (ByVendor' <=> ByVendor)
    BY <1>7, OnlyCancels DEF ByVendor
  <2>2. ByVendor => status = "CANCELLED"
    BY <1>3 DEF ByVendor
  <2>3. ASSUME UNCHANGED <<status, offline>>, Gross(online', offline') = Gross(online, offline)
        PROVE  Fates'
    BY <1>1, <1>2, <1>3, <1>4, <2>1, <2>3
  <2>4. CASE Still
    <3>1. UNCHANGED <<online, offline>>
      BY <2>4 DEF Still
    <3>2. CASE status' = status
      BY <2>3, <3>1, <3>2
    <3>3. CASE status' # status
      <4>1. status # "CANCELLED" /\ (status' = "COMPLETED" \/ (status' = "EXPIRED" /\ offline = 0))
        BY <2>4, <3>3 DEF Still
      <4> QED BY <1>3, <1>4, <2>1, <2>2, <3>1, <4>1
    <3> QED BY <3>2, <3>3
  <2>5. CASE CreateOrder
    <3>1. UNCHANGED <<status, offline>> /\ Gross(online', offline') = Gross(online, offline)
      BY <2>5 DEF CreateOrder, Gross, Verified
    <3> QED BY <2>3, <3>1
  <2>6. ASSUME NEW kind, NEW amount, RecordOffline(amount, kind)
        PROVE  Fates'
    <3>1. /\ status \in {"PENDING", "CONFIRMED", "COMPLETED"}
          /\ status' \in {status, "CONFIRMED"}
      BY <2>6 DEF RecordOffline
    <3> QED BY <1>3, <1>4, <2>1, <2>2, <3>1
  <2>7. ASSUME NEW new, Capturing(new)
        PROVE  Fates'
    <3>1. /\ online = "created" /\ online' = "captured" /\ UNCHANGED offline
          /\ status' = new
      BY <2>7 DEF Inv, Books, Capturing, EndCapture
    <3>2. CASE new = "CONFIRMED" /\ status \in {"PENDING", "EXPIRED"}
      BY <1>3, <1>4, <2>1, <2>2, <3>1, <3>2
    <3>3. CASE /\ AddRefunds(Advance, "captured")
               /\ new = status \/ (new = "EXPIRED_PAID" /\ status = "EXPIRED")
      <4>1. all + Advance <= all'
        BY <1>1, <3>1, <3>3, RefundAtOnce DEF all
      <4>2. /\ Gross(online, offline) = offline
            /\ Gross(online', offline') = Advance + offline
        BY <1>1, <3>1, Numbers DEF Gross, Verified
      <4>3. CASE new = status
        BY <1>1, <1>2, <1>3, <1>4, <2>1, <3>1, <4>1, <4>2, <4>3, Numbers
      <4>4. CASE new = "EXPIRED_PAID" /\ status = "EXPIRED"
        BY <1>1, <1>2, <1>3, <1>4, <2>1, <2>2, <3>1, <4>1, <4>2, <4>4, Numbers
      <4> QED BY <3>3, <4>3, <4>4
    <3> QED BY <2>7, <3>2, <3>3 DEF Capturing
  <2>8. ASSUME NEW by, NEW paid, NEW refund, CancelBooking(by, paid, refund)
        PROVE  Fates'
    <3>1. status' = "CANCELLED" /\ status # "CANCELLED"
      BY <2>8 DEF CancelBooking
    <3> QED BY <1>3, <1>4, <2>1, <2>2, <3>1
  <2>9. CASE RowStep
    <3>1. /\ online \in Verified /\ online' \in Verified
          /\ UNCHANGED <<status, offline>>
      BY <2>9, RowSteps
    <3> QED BY <2>3, <3>1 DEF Gross
  <2> QED BY <2>4, <2>5, <2>6, <2>7, <2>8, <2>9, Sorted
<1> QED BY <1>5, <1>6, <1>7

LEMMA ReportsStep ==
  ASSUME Inv, Reports, [Next]_vars
  PROVE  Reports'
<1> USE DEF database, process, outside
<1>1. online \in Verified => online' \in Verified
  BY StaysVerified
<1> SUFFICES ASSUME NEW e \in PaymentEvents
             PROVE  /\ e \in processed' => online' \in Verified \/ e \in review'
                    /\ <<e, "done">> \in finishing' => online' \in Verified
                    /\ <<e, "waiting">> \notin finishing'
  BY DEF Reports
<1>2. /\ e \in processed => online \in Verified \/ e \in review
      /\ <<e, "done">> \in finishing => online \in Verified
      /\ <<e, "waiting">> \notin finishing
  BY DEF Reports
<1>3. \A g : e # <<"refund", g>>
  BY AmountAssumption DEF PaymentEvents
<1>4. ASSUME UNCHANGED <<processed, review, finishing>>
      PROVE  /\ e \in processed' => online' \in Verified \/ e \in review'
             /\ <<e, "done">> \in finishing' => online' \in Verified
             /\ <<e, "waiting">> \notin finishing'
  BY <1>1, <1>2, <1>4
<1>5. CASE Money
  <2>1. ASSUME NEW new, EndCapture(new)
        PROVE  /\ e \in processed' => online' \in Verified \/ e \in review'
               /\ <<e, "done">> \in finishing' => online' \in Verified
               /\ <<e, "waiting">> \notin finishing'
    <3>1. /\ online' = "captured"
          /\ finishing' \subseteq finishing \cup {<<capture.source, "done">>}
      BY <2>1 DEF EndCapture, Report
    <3> QED BY <1>2, <3>1 DEF Verified
  <2>2. ASSUME NEW free, AbortCapture(free)
        PROVE  /\ e \in processed' => online' \in Verified \/ e \in review'
               /\ <<e, "done">> \in finishing' => online' \in Verified
               /\ <<e, "waiting">> \notin finishing'
    <3>1. /\ UNCHANGED <<online, processed, review>>
          /\ finishing' \subseteq finishing \cup {<<capture.source, "review">>}
      BY <2>2 DEF AbortCapture, Report
    <3> QED BY <1>2, <3>1
  <2>3. ASSUME \/ CreateOrder \/ Expire \/ Complete
               \/ \E amount, kind : RecordOffline(amount, kind)
               \/ \E source : BeginCapture(source)
        PROVE  UNCHANGED <<processed, review, finishing>>
    BY <2>3 DEF CreateOrder, Expire, Complete, RecordOffline, BeginCapture
  <2>4. \/ \E new : EndCapture(new)
        \/ \E free : AbortCapture(free)
        \/ CreateOrder \/ Expire \/ Complete
        \/ \E amount, kind : RecordOffline(amount, kind)
        \/ \E source : BeginCapture(source)
    BY <1>5 DEF Money, FinishCapture, ConfirmPaid, ReclaimExpired, ParkExpired,
         RefundUnwanted
  <2> QED BY <1>4, <2>1, <2>2, <2>3, <2>4
<1>6. CASE Cancelling
  BY <1>4, <1>6 DEF Cancelling, ViewCancellation, CustomerCancel, CancelRefused,
       VendorCancel, CancelBooking
<1>7. CASE Webhooks
  <2>1. PICK event \in Event :
          \/ Receive(event) \/ AlreadyCaptured(event) \/ FlagStuck(event)
          \/ Reprocess(event)
          \/ \E outcome \in {"done", "waiting", "review"} : Finish(event, outcome)
    BY <1>7 DEF Webhooks
  <2>2. CASE Receive(event)
    BY <1>4, <2>2 DEF Receive
  <2>3. CASE AlreadyCaptured(event)
    BY <1>1, <1>2, <2>3 DEF AlreadyCaptured
  <2>4. CASE FlagStuck(event)
    BY <1>1, <1>2, <2>4 DEF FlagStuck
  <2>5. CASE Reprocess(event)
    BY <1>1, <1>2, <2>5 DEF Reprocess
  <2>6. ASSUME NEW outcome \in {"done", "waiting", "review"}, Finish(event, outcome)
        PROVE  /\ e \in processed' => online' \in Verified \/ e \in review'
               /\ <<e, "done">> \in finishing' => online' \in Verified
               /\ <<e, "waiting">> \notin finishing'
    <3>1. /\ <<event, outcome>> \in finishing /\ online' = online
          /\ finishing' \subseteq finishing
          /\ processed' = IF outcome = "waiting" THEN processed \ {event}
                          ELSE processed \cup {event}
          /\ review' = IF outcome = "review" THEN review \cup {event} ELSE review
      BY <2>6 DEF Finish
    <3>2. event = e => outcome \in {"done", "review"} /\ (outcome = "done" => online \in Verified)
      BY <1>2, <3>1
    <3> QED BY <1>2, <3>1, <3>2
  <2> QED BY <2>1, <2>2, <2>3, <2>4, <2>5, <2>6
<1>8. CASE Gateway
  <2>1. ASSUME NEW g, ApplyProviderRefund(g) \/ RefundNotYetKnown(g)
        PROVE  /\ UNCHANGED <<processed, review>>
               /\ finishing' \subseteq
                    finishing \cup {<<<<"refund", g>>, o>> : o \in {"done", "waiting"}}
    BY <2>1 DEF ApplyProviderRefund, RefundNotYetKnown
  <2>2. ASSUME \/ Charge \/ \E g, st : SettleRefund(g, st)
               \/ \E amount : DashboardRefund(amount)
        PROVE  UNCHANGED <<processed, review, finishing>>
    BY <2>2 DEF Charge, SettleRefund, DashboardRefund
  <2>3. \/ \E g : ApplyProviderRefund(g) \/ RefundNotYetKnown(g)
        \/ Charge \/ \E g, st : SettleRefund(g, st)
        \/ \E amount : DashboardRefund(amount)
    BY <1>8 DEF Gateway
  <2> QED BY <1>1, <1>2, <1>3, <1>4, <2>1, <2>2, <2>3
<1>9. ASSUME NEW i, IssueRefund(i)
      PROVE  UNCHANGED <<processed, review, finishing>>
  BY <1>9 DEF IssueRefund, IssueAccepted, IssueFailed, IssueSkipped
<1>10. CASE TimePasses \/ UNCHANGED vars
  BY <1>4, <1>10 DEF TimePasses, vars
<1>11. CASE Crash
  BY <1>1, <1>2, <1>11 DEF Crash
<1> QED BY <1>4, <1>5, <1>6, <1>7, <1>8, <1>9, <1>10, <1>11 DEF Next

LEMMA WholeIsKept == Spec => []Whole
<1>1. Whole /\ [Next]_vars => Whole'
  BY InvStep, VouchedStep, FatesStep, ReportsStep DEF Whole
<1> QED BY <1>1, WholeInit, PTL DEF Spec

-----------------------------------------------------------------------------
(* What the pages and the console claim.                                   *)

\* What was processed here was processed there, refund by refund.
LEMMA ProcessedThere ==
  ASSUME Inv
  PROVE  LET there == {g \in DOMAIN issued : issued[g].status = "processed"} IN
         /\ IsFiniteSet(there) /\ SumOf(issued, there) \in Nat
         /\ RowsSum(Rows("processed")) = RefundedRows(refunds)
         /\ RefundedRows(refunds) <= SumOf(issued, there)
         /\ SumOf(issued, there) <= SumOf(issued, Live(issued))
<1> DEFINE there == {g \in DOMAIN issued : issued[g].status = "processed"}
           here == Rows("processed")
           m == [i \in DOMAIN refunds |-> refunds[i].id]
<1>1. there \in SUBSET Live(issued)
  BY DEF Live
<1>2. /\ IsFiniteSet(Live(issued)) /\ \A g \in Live(issued) : issued[g].amount \in Nat
      /\ refunds \in Table
  BY LiveFinite, Typed DEF Inv, Live
<1>3. IsFiniteSet(there) /\ \A g \in there : issued[g].amount \in Nat
  BY <1>1, <1>2, FS_Subset
<1>4. Of(refunds, "online", {"processed"}) = here
  BY <1>2, RowType DEF Inv, RowsOK, Of, Rows
<1>5. \A i \in here : m[i] \in there /\ issued[m[i]].amount = refunds[i].amount
  BY MirrorIs DEF Inv, RowMirrors, Rows
<1>6. \A i, j \in here : m[i] = m[j] => i = j
  BY MirrorIs DEF Inv, RowMirrors, Apart, Rows
<1> HIDE DEF m, there, here
<1>7. SumOf(refunds, here) <= SumOf(issued, there)
  BY <1>3, <1>5, <1>6, SumMatched
<1>8. SumOf(issued, there) <= SumOf(issued, Live(issued)) /\ SumOf(issued, there) \in Nat
  BY <1>1, <1>2, <1>3, SumGrows, SumType
<1>9. RowsSum(here) = RefundedRows(refunds) /\ SumOf(refunds, here) = RefundedRows(refunds)
  BY <1>4 DEF RowsSum, RefundedRows, Refunded
<1> QED BY <1>3, <1>7, <1>8, <1>9 DEF here, there

\* No more is processed than was paid online.
LEMMA RefundedIsPaid ==
  ASSUME Whole
  PROVE  /\ RefundedRows(refunds) \in Nat
         /\ RefundedRows(refunds) <= IF online \in Verified THEN Advance ELSE 0
<1>1. /\ refunds \in Table /\ SumOf(issued, Live(issued)) \in Nat
      /\ SumOf(issued, Live(issued)) <= Advance /\ Advance \in Nat
  BY Typed, LiveFinite, Numbers DEF Whole, Inv, Vouched
<1>2. RefundedRows(refunds) \in Nat
  BY <1>1, RefundedType DEF RefundedRows
<1>3. CASE online \in Verified
  <2> DEFINE there == {g \in DOMAIN issued : issued[g].status = "processed"}
  <2>1. /\ SumOf(issued, there) \in Nat
        /\ RefundedRows(refunds) <= SumOf(issued, there)
        /\ SumOf(issued, there) <= SumOf(issued, Live(issued))
    BY ProcessedThere DEF Whole
  <2> HIDE DEF there
  <2> QED BY <1>1, <1>2, <1>3, <2>1
<1>4. CASE online \notin Verified
  <2>1. Of(refunds, "online", {"processed"}) = {}
    BY <1>4 DEF Whole, Inv, RowsOK, Of
  <2>2. RefundedRows(refunds) = 0
    BY <2>1, SumNone DEF RefundedRows, Refunded
  <2> QED BY <1>4, <2>2
<1> QED BY <1>2, <1>3, <1>4

LEMMA Accounted ==
  ASSUME Whole
  PROVE  MoneyIsAccountedFor
<1> DEFINE done == RowsSum(Rows("processed"))
           byHand == RowsSum(Rows("manual"))
           sent == RowsSum(Rows("pending"))
           failed == RowsSum(Rows("failed"))
           all == SumOf(refunds, DOMAIN refunds)
           gross == Gross(online, offline)
           owes == status \in {"CONFIRMED", "COMPLETED"} /\ Total > NetPaid
<1>1. /\ refunds \in Table /\ offline \in Nat /\ gross \in Nat /\ NetPaid \in Int
      /\ Advance \in Nat /\ Total \in Nat /\ Advance <= Total
  BY Typed, Numbers DEF Whole, Inv
<1>2. /\ done \in Nat /\ byHand \in Nat /\ sent \in Nat /\ failed \in Nat
      /\ all = done + byHand + sent + failed
  BY <1>1, AllRows
<1>3. done = RefundedRows(refunds)
  BY ProcessedThere DEF Whole
<1>4. NetPaid = gross - done
  BY <1>3, Zenon DEF NetPaid
<1>5. ledger.paid - ledger.refunded = NetPaid
  <2>1. ledger.paid = gross /\ ledger.refunded = RefundedRows(refunds)
    BY DEF Whole, Inv, Books
  <2> QED BY <2>1 DEF NetPaid
<1>6. byHand <= offline
  <2>1. Rows("manual") = Of(refunds, "offline", Standing)
    BY <1>1, RowType DEF Whole, Inv, RowsOK, Rows, Of, Standing
  <2> QED BY <2>1 DEF Whole, Vouched, RowsSum, Refunded
<1>7. done + byHand <= gross
  <2> DEFINE paid == IF online \in Verified THEN Advance ELSE 0
  <2>1. gross = paid + offline
    BY DEF Gross
  <2>2. done <= paid
    BY <1>3, RefundedIsPaid
  <2>3. paid \in Nat
    BY <1>1
  <2> HIDE DEF done, byHand, gross, paid
  <2> QED BY <1>1, <1>2, <1>6, <2>1, <2>2, <2>3
<1>8. status = "EXPIRED_PAID" \/ ByVendor => gross <= all
  BY DEF Whole, Fates
<1>9. {t.row : t \in {x \in ToDo : x.kind = "refund_failed"}} = Rows("failed")
  <2> DEFINE failing == {[kind |-> "refund_failed", row |-> i] : i \in Rows("failed")}
  <2>1. \A x : x \in ToDo /\ x.kind = "refund_failed" <=> x \in failing
    BY DEF ToDo
  <2>2. \A i : i \in {t.row : t \in {x \in ToDo : x.kind = "refund_failed"}} <=>
               \E t \in failing : i = t.row
    BY <2>1
  <2>3. \A i : (\E t \in failing : i = t.row) <=> i \in Rows("failed")
    <3>1. \A i : [kind |-> "refund_failed", row |-> i].row = i
      OBVIOUS
    <3> QED BY <3>1, Zenon
  <2> QED BY <2>2, <2>3
<1>10. \A t \in ToDo : t.kind = "record_advance" => status = "PENDING" /\ Advance > NetPaid
  BY DEF ToDo
<1>11. /\ Summary.received = gross /\ Summary.refunded = done /\ Summary.owed = byHand
       /\ Summary.due = IF owes THEN Total - NetPaid ELSE 0
  BY DEF Summary
<1>12. "record_payment" \in Actions <=>
         status \in {"PENDING", "CONFIRMED", "COMPLETED"} /\ Total > NetPaid
  BY DEF Actions
<1>13. status = "PENDING" => BalanceDue = Total - NetPaid
  BY DEF BalanceDue
<1> HIDE DEF done, byHand, sent, failed, all, gross, owes
<1>14. Summary.refunded + Summary.owed <= Summary.received
  BY <1>7, <1>11
<1>15. Summary.received - Summary.refunded = ledger.paid - ledger.refunded
  BY <1>4, <1>5, <1>11
<1>16. status = "EXPIRED_PAID" \/ ByVendor =>
         Summary.received <= Summary.refunded + Summary.owed + RowsSum(Rows("pending"))
           + RowsSum({t.row : t \in {x \in ToDo : x.kind = "refund_failed"}})
  <2>1. /\ RowsSum(Rows("pending")) = sent
        /\ RowsSum({t.row : t \in {x \in ToDo : x.kind = "refund_failed"}}) = failed
    BY <1>9 DEF sent, failed
  <2> QED BY <1>1, <1>2, <1>8, <1>11, <2>1
<1>17. \A t \in ToDo : t.kind = "record_advance" =>
         "record_payment" \in Actions /\ BalanceDue >= Advance - NetPaid
  <2>1. status = "PENDING" /\ Advance > NetPaid =>
          "record_payment" \in Actions /\ BalanceDue >= Advance - NetPaid
    BY <1>1, <1>12, <1>13
  <2> QED BY <1>10, <2>1
<1>18. Summary.due > 0 => "record_payment" \in Actions
  BY <1>1, <1>11, <1>12 DEF owes
<1> QED BY <1>14, <1>15, <1>16, <1>17, <1>18 DEF MoneyIsAccountedFor, ByVendor

\* What a quiet console rules out.
LEMMA Quietly ==
  ASSUME Quiet
  PROVE  /\ \A i \in DOMAIN refunds : refunds[i].status # "failed" /\ ~ Unsent(i)
         /\ review = {} /\ stored \subseteq processed
         /\ status = "EXPIRED" => ~ VerifiedRows
<1>1. \A f \in BookingFindings \cup RefundFindings \cup EventFindings : f.level = "info"
  BY DEF Quiet, Diagnose
<1> DEFINE Found(l, a) == [level |-> l, about |-> a]
<1>2. \A l, a : Found(l, a).level = l
  OBVIOUS
<1>3. \A i \in DOMAIN refunds :
        refunds[i].status = "failed" => Found("problem", "failed refund") \in RefundFindings
  BY DEF RefundFindings
<1>4. \A i \in DOMAIN refunds :
        Unsent(i) => Found("warning", "refund never sent") \in RefundFindings
  BY DEF RefundFindings
<1>5. /\ \A e \in review : Found("problem", "needs review") \in EventFindings
      /\ \A e \in stored \ (processed \cup review) :
           Found("warning", "waiting") \in EventFindings
  BY DEF EventFindings
<1>6. status = "EXPIRED" /\ VerifiedRows =>
        Found("problem", "late payment") \in BookingFindings
  BY DEF BookingFindings
<1> HIDE DEF Found
<1>7. \A i \in DOMAIN refunds : refunds[i].status # "failed" /\ ~ Unsent(i)
  <2>1. ASSUME NEW a, \/ Found("problem", a) \in RefundFindings
                      \/ Found("warning", a) \in RefundFindings
        PROVE  FALSE
    BY <1>1, <1>2, <2>1
  <2> QED BY <1>3, <1>4, <2>1
<1>8. review = {} /\ \A e \in stored : e \in processed
  <2>1. ASSUME NEW a, \/ Found("problem", a) \in EventFindings
                      \/ Found("warning", a) \in EventFindings
        PROVE  FALSE
    BY <1>1, <1>2, <2>1
  <2> QED BY <1>5, <2>1
<1>9. status = "EXPIRED" => ~ VerifiedRows
  BY <1>1, <1>2, <1>6
<1> QED BY <1>7, <1>8, <1>9

LEMMA QuietSettles ==
  ASSUME Whole
  PROVE  QuietMeansSettled
<1> SUFFICES ASSUME Quiet
             PROVE  /\ stored \cap PaymentEvents # {} => online \in Verified
                    /\ status = "EXPIRED" => ~ VerifiedRows
                    /\ status \in {"CONFIRMED", "COMPLETED"} =>
                         Gross(online, offline) >= Advance
                    /\ status = "EXPIRED_PAID" \/ ByVendor =>
                         Gross(online, offline) <= Returning
  BY DEF QuietMeansSettled, ByVendor
<1>1. /\ \A i \in DOMAIN refunds : refunds[i].status # "failed" /\ ~ Unsent(i)
      /\ review = {} /\ stored \subseteq processed
      /\ status = "EXPIRED" => ~ VerifiedRows
  BY Quietly
<1>2. stored \cap PaymentEvents # {} => online \in Verified
  BY <1>1 DEF Whole, Reports
<1>3. status \in {"CONFIRMED", "COMPLETED"} => Gross(online, offline) >= Advance
  BY DEF Whole, Inv, ConfirmedIsCovered
<1>4. Returning = SumOf(refunds, DOMAIN refunds)
  <2>1. refunds \in Table
    BY Typed DEF Whole, Inv
  <2>2. ASSUME NEW i \in DOMAIN refunds
        PROVE  /\ refunds[i].status \in Standing
               /\ refunds[i].id # Null \/ refunds[i].status = "manual"
    <3>1. refunds[i].status \in {"pending", "processed", "manual"}
      BY <1>1, <2>1, RowType
    <3>2. refunds[i].status = "pending" => refunds[i].id # Null
      BY <1>1 DEF Unsent
    <3>3. refunds[i].status = "processed" => refunds[i].id # Null
      BY MirrorIs DEF Whole, Inv, RowMirrors
    <3> QED BY <3>1, <3>2, <3>3 DEF Standing
  <2>3. {i \in DOMAIN refunds : /\ refunds[i].status \in Standing
                                /\ refunds[i].id # Null \/ refunds[i].status = "manual"}
          = DOMAIN refunds
    BY <2>2
  <2> QED BY <2>3 DEF Returning
<1>5. status = "EXPIRED_PAID" \/ ByVendor => Gross(online, offline) <= Returning
  BY <1>4 DEF Whole, Fates
<1> QED BY <1>1, <1>2, <1>3, <1>5

\* The processed refunds of a list and their rows, one for one.
LEMMA ListedAreRows ==
  ASSUME Whole, NEW done, done \subseteq {g \in DOMAIN issued : issued[g].status = "processed"},
         NEW w, w.done = done, done \subseteq w.listed,
         ~ UnrecordedRefund(w), ~ RefundDiffers(w)
  PROVE  SumOf(issued, done)
           = SumOf(refunds, {i \in DOMAIN refunds :
                               refunds[i].status = "processed" /\ refunds[i].id \in done})
<1> DEFINE here == {i \in DOMAIN refunds :
                      refunds[i].status = "processed" /\ refunds[i].id \in done}
           own == [g \in done |-> CHOOSE i \in here : refunds[i].id = g]
           its == [i \in DOMAIN refunds |-> refunds[i].id]
<1>1. ASSUME NEW g \in done
      PROVE  \E i \in here : refunds[i].id = g
  <2>1. PICK i \in DOMAIN refunds : refunds[i].id = g
    BY DEF UnrecordedRefund, RowsOf
  <2>2. refunds[i].status = "processed"
    BY <2>1 DEF RefundDiffers, RowsOf
  <2> QED BY <2>1, <2>2
<1>2. \A g \in done : own[g] \in here /\ refunds[own[g]].id = g
  BY <1>1
<1>3. \A i \in here : its[i] \in done /\ issued[its[i]].amount = refunds[i].amount
  BY MirrorIs DEF Whole, Inv, RowMirrors
<1>4. \A i, j \in here : its[i] = its[j] => i = j
  BY MirrorIs DEF Whole, Inv, RowMirrors, Apart
<1>5. /\ IsFiniteSet(here) /\ \A i \in here : refunds[i].amount \in Nat
      /\ refunds \in Table
  <2>1. refunds \in Table /\ here \subseteq Rows("processed")
    BY Typed DEF Whole, Inv, Rows
  <2>2. IsFiniteSet(Rows("processed"))
    BY <2>1, AllRows DEF Rows
  <2>3. IsFiniteSet(here)
    BY <2>1, <2>2, FS_Subset
  <2> QED BY <2>1, <2>3, RowType
<1>6. IsFiniteSet(done) /\ \A g \in done : issued[g].amount \in Nat
  <2>1. IsFiniteSet(Live(issued)) /\ \A g \in Live(issued) : issued[g].amount \in Nat
    BY LiveFinite DEF Whole, Inv, Live
  <2>2. done \subseteq Live(issued)
    BY DEF Live
  <2> QED BY <2>1, <2>2, FS_Subset
<1>7. \A g \in done : own[g] \in here /\ refunds[own[g]].amount = issued[g].amount
  <2>1. \A g \in done : issued[refunds[own[g]].id].amount = refunds[own[g]].amount
    BY <1>2, <1>3
  <2> QED BY <1>2, <2>1
<1>8. \A g, h \in done : own[g] = own[h] => g = h
  BY <1>2, Zenon
<1> HIDE DEF here, own, its
<1>9. SumOf(issued, done) <= SumOf(refunds, here)
  BY <1>5, <1>7, <1>8, SumMatched
<1>10. SumOf(refunds, here) <= SumOf(issued, done)
  BY <1>3, <1>4, <1>6, SumMatched
<1>11. SumOf(refunds, here) \in Nat /\ SumOf(issued, done) \in Nat
  BY <1>5, <1>6, SumType
<1> QED BY <1>9, <1>10, <1>11 DEF here

LEMMA CleanBalances ==
  ASSUME Whole
  PROVE  CleanMeansBalanced
<1> SUFFICES ASSUME NEW paid \in {"unlisted", "open", "captured"},
                    NEW done \in SUBSET {g \in DOMAIN issued : issued[g].status = "processed"},
                    NEW w \in Looks(paid, done), ~ Reconcile(w)
             PROVE  Agrees(paid, done)
  BY DEF CleanMeansBalanced
<1>1. /\ w.paid = paid /\ w.done = done /\ done \subseteq w.listed
      /\ paid # "unlisted" /\ online \in Verified => "online" \in w.recent
  BY DEF Looks
<1>2. ~ MissingCapture(w) /\ ~ NotCapturedThere(w) /\ ~ UnrecordedRefund(w) /\ ~ RefundDiffers(w)
  BY DEF Reconcile
<1>3. SumOf(issued, done)
        = SumOf(refunds, {i \in DOMAIN refunds :
                            refunds[i].status = "processed" /\ refunds[i].id \in done})
  BY <1>1, <1>2, ListedAreRows
<1>4. paid # "unlisted" => (paid = "captured" <=> online \in Verified)
  BY <1>1, <1>2 DEF MissingCapture, NotCapturedThere
<1>5. paid # "unlisted" => Gross(online, 0) = IF paid = "captured" THEN Advance ELSE 0
  BY <1>4, Numbers DEF Gross
<1> QED BY <1>3, <1>5 DEF Agrees

\* Neither the diagnosis of the console, nor the nightly reconcile, nor the pages
\* of the vendor leave money out: a quiet console means that captured payments are
\* recorded and late or cancelled ones on their way back; a clean reconcile that
\* what it listed, of the last 48 hours, is what the rows say, although it compares
\* row by row (it says nothing of an older payment); and the vendor's totals and
\* to-do list add up to what came in.
THEOREM PagesHideNothing == Spec => []NothingIsHidden
<1>1. Whole => NothingIsHidden
  BY Accounted, QuietSettles, CleanBalances DEF NothingIsHidden, SilenceMeansSettled
<1> QED BY <1>1, WholeIsKept, PTL
=============================================================================
