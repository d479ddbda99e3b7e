--------------------------- MODULE PaymentsProofs ---------------------------
(***************************************************************************)
(* Theorems of Payments.                                                   *)
(***************************************************************************)
EXTENDS Payments, TLAPS, FiniteSetTheorems, SequenceTheorems,
        WellFoundedInduction

-----------------------------------------------------------------------------
(* Sums, least and greatest.                                               *)

LEMMA UnitsOf ==
  ASSUME NEW i, NEW n \in Nat
  PROVE  IsFiniteSet({i} \X (1..n)) /\ Cardinality({i} \X (1..n)) = n
<1>1. IsFiniteSet({i}) /\ Cardinality({i}) = 1
  BY FS_Singleton
<1>2. IsFiniteSet(1..n) /\ Cardinality(1..n) = n
  <2>1. IsFiniteSet(1..n) /\ Cardinality(1..n) = IF 1 > n THEN 0 ELSE n - 1 + 1
    BY FS_Interval
  <2> QED BY <2>1
<1>3. /\ IsFiniteSet({i} \X (1..n))
      /\ Cardinality({i} \X (1..n)) = Cardinality({i}) * Cardinality(1..n)
  BY <1>1, <1>2, FS_Product, Zenon
<1> QED BY <1>1, <1>2, <1>3

\* The rows have a sum.
LEMMA SumType ==
  ASSUME NEW rows, NEW which, IsFiniteSet(which),
         \A i \in which : rows[i].amount \in Nat
  PROVE  IsFiniteSet(Units(rows, which)) /\ SumOf(rows, which) \in Nat
<1> DEFINE Block == [i \in which |-> {i} \X (1..rows[i].amount)]
           Blocks == {{i} \X (1..rows[i].amount) : i \in which}
<1>1. Block \in Surjection(which, Blocks)
  BY DEF Surjection
<1>2. IsFiniteSet(Blocks)
  BY <1>1, FS_Surjection
<1>3. \A b \in Blocks : IsFiniteSet(b)
  <2> SUFFICES ASSUME NEW i \in which PROVE IsFiniteSet({i} \X (1..rows[i].amount))
    OBVIOUS
  <2> QED BY UnitsOf
<1>4. IsFiniteSet(Units(rows, which))
  BY <1>2, <1>3, FS_UNION DEF Units
<1> QED BY <1>4, FS_CardinalityType DEF SumOf

\* More rows have no smaller sum.
LEMMA SumGrows ==
  ASSUME NEW rows, NEW which, IsFiniteSet(which), NEW some \in SUBSET which,
         \A i \in which : rows[i].amount \in Nat
  PROVE  SumOf(rows, some) <= SumOf(rows, which)
<1>1. Units(rows, some) \subseteq Units(rows, which)
  BY DEF Units
<1> QED BY <1>1, SumType, FS_Subset DEF SumOf

\* One row more.
LEMMA SumAdds ==
  ASSUME NEW rows, NEW which, IsFiniteSet(which), NEW j, j \notin which,
         \A i \in which \cup {j} : rows[i].amount \in Nat
  PROVE  SumOf(rows, which \cup {j}) = SumOf(rows, which) + rows[j].amount
<1> DEFINE Block == {j} \X (1..rows[j].amount)
<1>1. Units(rows, which \cup {j}) = Units(rows, which) \cup Block
  BY DEF Units
<1>2. Units(rows, which) \cap Block = {}
  BY DEF Units
<1>3. IsFiniteSet(Units(rows, which)) /\ SumOf(rows, which) \in Nat
  BY SumType
<1>4. IsFiniteSet(Block) /\ Cardinality(Block) = rows[j].amount
  BY UnitsOf
<1>5. Cardinality({}) = 0
  BY FS_EmptySet
<1> HIDE DEF Block
<1>6. Cardinality(Units(rows, which) \cup Block)
        = Cardinality(Units(rows, which)) + Cardinality(Block)
            - Cardinality(Units(rows, which) \cap Block)
  BY <1>3, <1>4, FS_Union, Zenon
<1>7. SumOf(rows, which \cup {j}) = SumOf(rows, which) + rows[j].amount - 0
  BY <1>1, <1>2, <1>4, <1>5, <1>6, Zenon DEF SumOf
<1>8. rows[j].amount \in Nat
  OBVIOUS
<1> QED BY <1>3, <1>7, <1>8

\* The sum is about the amounts of the rows in question and nothing else.
LEMMA SumSame ==
  ASSUME NEW rows, NEW other, NEW which,
         \A i \in which : rows[i].amount = other[i].amount
  PROVE  SumOf(rows, which) = SumOf(other, which)
<1>1. Units(rows, which) = Units(other, which)
  BY DEF Units
<1> QED BY <1>1 DEF SumOf

LEMMA SumNone ==
  ASSUME NEW rows
  PROVE  SumOf(rows, {}) = 0
<1>1. Units(rows, {}) = {}
  BY DEF Units
<1> QED BY <1>1, FS_EmptySet DEF SumOf

LEMMA Least ==
  ASSUME NEW S \in SUBSET Nat, S # {}
  PROVE  Min(S) \in S /\ \A y \in S : Min(S) <= y
<1>1. PICK x \in S : \A y \in S : ~ (<<y, x>> \in OpToRel(<, Nat))
  BY NatLessThanWellFounded, WFMin
<1>2. \A y \in S : x <= y
  <2> SUFFICES ASSUME NEW y \in S PROVE ~ (y < x)
    OBVIOUS
  <2> QED BY <1>1 DEF OpToRel
<1> QED BY <1>2 DEF Min

LEMMA Greatest ==
  ASSUME NEW S \in SUBSET (0..100), S # {}
  PROVE  Max(S) \in S
<1> DEFINE Short == {100 - p : p \in S}
<1>1. Short \in SUBSET Nat /\ Short # {}
  <2>1. \A p \in S : 100 - p \in Nat
    OBVIOUS
  <2> QED BY <2>1
<1>2. PICK x \in S : Min(Short) = 100 - x
  BY <1>1, Least
<1>3. \A y \in S : x >= y
  <2> SUFFICES ASSUME NEW y \in S PROVE x >= y
    OBVIOUS
  <2>1. 100 - x <= 100 - y
    BY <1>1, <1>2, Least
  <2> QED BY <2>1
<1> QED BY <1>3 DEF Max

\* The smaller and the larger of two numbers.
LEMMA OfTwo ==
  ASSUME NEW a \in Int, NEW b \in Int
  PROVE  /\ Min({a, b}) = IF a <= b THEN a ELSE b
         /\ Max({a, b}) = IF a >= b THEN a ELSE b
<1>1. \E m \in {a, b} : \A y \in {a, b} : m <= y
  OBVIOUS
<1>2. Min({a, b}) \in {a, b} /\ \A y \in {a, b} : Min({a, b}) <= y
  BY <1>1 DEF Min
<1>3. \E m \in {a, b} : \A y \in {a, b} : m >= y
  OBVIOUS
<1>4. Max({a, b}) \in {a, b} /\ \A y \in {a, b} : Max({a, b}) >= y
  BY <1>3 DEF Max
<1> QED BY <1>2, <1>4

-----------------------------------------------------------------------------
(* The table of refunds.                                                   *)

\* A table of refunds; how long it may get is not its business.
Table == Seq(Refund)

LEMMA Numbers ==
  /\ Advance \in Nat \ {0} /\ Total \in Nat /\ Advance <= Total
  /\ OfflineAmounts \subseteq Nat \ {0}
  /\ MaxRefunds \in Nat /\ MaxIssued \in Nat /\ MaxCrashes \in Nat
  /\ Null \notin 1..MaxIssued
BY AmountAssumption, BoundAssumption

LEMMA RowType ==
  ASSUME NEW rows \in Table, NEW i \in DOMAIN rows
  PROVE  /\ i \in 1..Len(rows) /\ rows[i] \in Refund
         /\ rows[i].payment \in {"online", "offline"}
         /\ rows[i].amount \in Nat \ {0}
         /\ rows[i].status \in {"pending", "processed", "failed", "manual"}
         /\ rows[i].id \in 1..MaxIssued \cup {Null}
<1>1. i \in 1..Len(rows) /\ rows[i] \in Refund
  BY DEF Table
<1> QED BY <1>1 DEF Refund

LEMMA OfFinite ==
  ASSUME NEW rows \in Table, NEW payment, NEW states
  PROVE  /\ IsFiniteSet(Of(rows, payment, states))
         /\ \A i \in Of(rows, payment, states) : rows[i].amount \in Nat
<1>1. Of(rows, payment, states) \subseteq 1..Len(rows) /\ Len(rows) \in Nat
  BY DEF Of, Table
<1>2. IsFiniteSet(1..Len(rows))
  BY <1>1, FS_Interval
<1>3. IsFiniteSet(Of(rows, payment, states))
  BY <1>1, <1>2, FS_Subset
<1> QED BY <1>3, RowType DEF Of

LEMMA RefundedType ==
  ASSUME NEW rows \in Table, NEW payment, NEW states
  PROVE  Refunded(rows, payment, states) \in Nat
BY OfFinite, SumType DEF Refunded

\* Refunds of more states sum up to no less.
LEMMA RefundedGrows ==
  ASSUME NEW rows \in Table, NEW payment, NEW states, NEW some \in SUBSET states
  PROVE  Refunded(rows, payment, some) <= Refunded(rows, payment, states)
<1>1. Of(rows, payment, some) \in SUBSET Of(rows, payment, states)
  BY DEF Of
<1> QED BY <1>1, OfFinite, SumGrows DEF Refunded

\* Two tables that agree on the rows in question.
LEMMA RefundedSame ==
  ASSUME NEW rows, NEW other, NEW payment, NEW states,
         Of(other, payment, states) = Of(rows, payment, states),
         \A i \in Of(rows, payment, states) : rows[i].amount = other[i].amount
  PROVE  Refunded(other, payment, states) = Refunded(rows, payment, states)
BY SumSame DEF Refunded

\* ... except for one that is in question only in the other.
LEMMA RefundedAdds ==
  ASSUME NEW rows \in Table, NEW other \in Table, NEW payment, NEW states, NEW j,
         j \notin Of(rows, payment, states),
         Of(other, payment, states) = Of(rows, payment, states) \cup {j},
         \A i \in Of(rows, payment, states) : rows[i].amount = other[i].amount
  PROVE  Refunded(other, payment, states)
           = Refunded(rows, payment, states) + other[j].amount
<1> DEFINE which == Of(rows, payment, states)
<1>1. IsFiniteSet(which)
  BY OfFinite
<1>2. \A i \in which \cup {j} : other[i].amount \in Nat
  BY OfFinite
<1>3. SumOf(other, which \cup {j}) = SumOf(other, which) + other[j].amount
  <2>1. j \notin which
    OBVIOUS
  <2> HIDE DEF which
  <2> QED BY <1>1, <1>2, <2>1, SumAdds
<1>4. SumOf(rows, which) = SumOf(other, which)
  BY SumSame
<1> QED BY <1>3, <1>4 DEF Refunded

\* What createRefundRows inserts.
OnlineRow(n) == [payment |-> "online", amount |-> n, status |-> "pending", id |-> Null]
OfflineRow(n) == [payment |-> "offline", amount |-> n, status |-> "manual", id |-> Null]

\* The shares of the two payments in a refund: as much online as the payment
\* still allows, and the rest by hand as far as it was paid by hand.
AreShares(amount, on, first, second) ==
  LET sendable == Advance - Refunded(refunds, "online", Standing)
      byHand == offline - Refunded(refunds, "offline", Standing) IN
  /\ first \in Nat /\ second \in Nat
  /\ first = 0 \/ (first <= amount /\ first <= sendable)
  /\ IF on \in {"captured", "partially_refunded"}
     THEN first >= amount \/ first >= sendable ELSE first = 0
  /\ second >= amount - first \/ second >= byHand
  /\ second = 0 \/ second <= byHand

LEMMA NewRowsAre ==
  ASSUME refunds \in Table, offline \in Nat, NEW amount \in Int, NEW on
  PROVE  \E first, second :
           /\ AreShares(amount, on, first, second)
           /\ NewRows(amount, on) =
                (IF first > 0 THEN <<OnlineRow(first)>> ELSE <<>>)
                \o (IF second > 0 THEN <<OfflineRow(second)>> ELSE <<>>)
<1> DEFINE left == Advance - Refunded(refunds, "online", Standing)
           sendable == IF on \in {"captured", "partially_refunded"} THEN left ELSE 0
           byHand == offline - Refunded(refunds, "offline", Standing)
           first == Max({0, Min({amount, sendable})})
           rest == amount - first
           second == Max({0, Min({rest, byHand})})
<1>1. left \in Int /\ byHand \in Int /\ sendable \in Int
  BY RefundedType, Numbers
<1>2. NewRows(amount, on) =
        (IF first > 0 THEN <<OnlineRow(first)>> ELSE <<>>)
        \o (IF second > 0 THEN <<OfflineRow(second)>> ELSE <<>>)
  BY DEF NewRows, OnlineRow, OfflineRow
<1>3. AreShares(amount, on, first, second)
  <2>0. sendable = IF on \in {"captured", "partially_refunded"} THEN left ELSE 0
    OBVIOUS
  <2> HIDE DEF left, byHand, sendable
  <2>1. first = IF amount <= sendable THEN (IF amount > 0 THEN amount ELSE 0)
                ELSE (IF sendable > 0 THEN sendable ELSE 0)
    BY <1>1, OfTwo
  <2> HIDE DEF first
  <2>2. first \in Int /\ rest \in Int /\ rest = amount - first
    BY <1>1, <2>1
  <2> HIDE DEF rest
  <2>3. second = IF rest <= byHand THEN (IF rest > 0 THEN rest ELSE 0)
                 ELSE (IF byHand > 0 THEN byHand ELSE 0)
    <3>1. Min({rest, byHand}) = IF rest <= byHand THEN rest ELSE byHand
      BY <1>1, <2>2, OfTwo
    <3>2. second = IF 0 >= Min({rest, byHand}) THEN 0 ELSE Min({rest, byHand})
      BY <1>1, <2>2, <3>1, OfTwo
    <3> HIDE DEF second
    <3> QED BY <1>1, <2>2, <3>1, <3>2
  <2> HIDE DEF second
  <2>4. /\ first \in Nat /\ second \in Nat
        /\ first = 0 \/ (first <= amount /\ first <= left)
        /\ IF on \in {"captured", "partially_refunded"}
           THEN first >= amount \/ first >= left ELSE first = 0
        /\ second >= amount - first \/ second >= byHand
        /\ second = 0 \/ second <= byHand
    BY <1>1, <2>0, <2>1, <2>2, <2>3
  <2> QED BY <2>4 DEF AreShares, left, byHand
<1> HIDE DEF first, second
<1> QED BY <1>2, <1>3

\* The table after an insert: the old rows, and the shares that are not zero.
Inserted(first, second) ==
  /\ refunds' \in Table /\ Len(refunds) <= Len(refunds')
  /\ \A i \in DOMAIN refunds : i \in DOMAIN refunds' /\ refunds'[i] = refunds[i]
  /\ \A i \in DOMAIN refunds' \ DOMAIN refunds :
       \/ first > 0 /\ i = Len(refunds) + 1 /\ refunds'[i] = OnlineRow(first)
       \/ second > 0 /\ i = Len(refunds') /\ refunds'[i] = OfflineRow(second)
  /\ first > 0 => Len(refunds) + 1 \in DOMAIN refunds'
  /\ second > 0 => Len(refunds') \in DOMAIN refunds' \ DOMAIN refunds
  /\ first > 0 /\ second > 0 => Len(refunds') = Len(refunds) + 2

LEMMA AddedRows ==
  ASSUME refunds \in Table, offline \in Nat, NEW amount \in Int, NEW on,
         AddRefunds(amount, on)
  PROVE  \E first, second :
           AreShares(amount, on, first, second) /\ Inserted(first, second)
<1>1. PICK first, second :
        /\ AreShares(amount, on, first, second)
        /\ NewRows(amount, on) =
             (IF first > 0 THEN <<OnlineRow(first)>> ELSE <<>>)
             \o (IF second > 0 THEN <<OfflineRow(second)>> ELSE <<>>)
  BY NewRowsAre
<1> DEFINE a == IF first > 0 THEN <<OnlineRow(first)>> ELSE <<>>
           b == IF second > 0 THEN <<OfflineRow(second)>> ELSE <<>>
<1>2. first \in Nat /\ second \in Nat
  BY <1>1 DEF AreShares
<1>3. /\ first > 0 => OnlineRow(first) \in Refund
      /\ second > 0 => OfflineRow(second) \in Refund
  BY <1>2 DEF OnlineRow, OfflineRow, Refund
<1>4. /\ a \in Table /\ Len(a) = IF first > 0 THEN 1 ELSE 0
      /\ first > 0 => a[1] = OnlineRow(first)
  BY <1>2, <1>3 DEF Table
<1>5. /\ b \in Table /\ Len(b) = IF second > 0 THEN 1 ELSE 0
      /\ second > 0 => b[1] = OfflineRow(second)
  BY <1>2, <1>3 DEF Table
<1>6. refunds' = refunds \o (a \o b)
  BY <1>1 DEF AddRefunds
<1> HIDE DEF a, b
<1>7. /\ a \o b \in Table /\ Len(a \o b) = Len(a) + Len(b)
      /\ \A i \in 1..(Len(a) + Len(b)) :
           (a \o b)[i] = IF i <= Len(a) THEN a[i] ELSE b[i - Len(a)]
  BY <1>4, <1>5, ConcatProperties DEF Table
<1> DEFINE ab == a \o b
<1> HIDE DEF ab
<1>8. /\ refunds \o ab \in Table /\ Len(refunds \o ab) = Len(refunds) + Len(ab)
      /\ \A i \in 1..(Len(refunds) + Len(ab)) :
           (refunds \o ab)[i] =
              IF i <= Len(refunds) THEN refunds[i] ELSE ab[i - Len(refunds)]
  BY <1>7, ConcatProperties DEF Table, ab
<1>9. /\ refunds' = refunds \o ab /\ Len(ab) = Len(a) + Len(b)
      /\ \A i \in 1..(Len(a) + Len(b)) :
           ab[i] = IF i <= Len(a) THEN a[i] ELSE b[i - Len(a)]
  BY <1>6, <1>7 DEF ab
<1>10. /\ Len(refunds) \in Nat /\ DOMAIN refunds = 1..Len(refunds)
       /\ Len(refunds') \in Nat /\ DOMAIN refunds' = 1..Len(refunds')
       /\ Len(refunds') = Len(refunds) + Len(a) + Len(b) /\ refunds' \in Table
  <2>1. /\ refunds' \in Table
        /\ Len(refunds') = Len(refunds) + Len(ab) /\ Len(ab) = Len(a) + Len(b)
    BY <1>8, <1>9, Zenon
  <2>2. /\ Len(refunds) \in Nat /\ DOMAIN refunds = 1..Len(refunds)
        /\ Len(refunds') \in Nat /\ DOMAIN refunds' = 1..Len(refunds')
    BY <2>1 DEF Table
  <2>3. Len(a) \in Nat /\ Len(b) \in Nat
    BY <1>4, <1>5
  <2> QED BY <2>1, <2>2, <2>3
<1>11. \A i \in DOMAIN refunds : i \in DOMAIN refunds' /\ refunds'[i] = refunds[i]
  BY <1>4, <1>5, <1>8, <1>9, <1>10
<1>12. /\ (Len(a) = 0 /\ ~ (first > 0)) \/ (Len(a) = 1 /\ first > 0)
       /\ (Len(b) = 0 /\ ~ (second > 0)) \/ (Len(b) = 1 /\ second > 0)
  BY <1>2, <1>4, <1>5
<1>15. PICK x \in Nat, y \in Nat : x = Len(a) /\ y = Len(b)
  BY <1>4, <1>5
<1>13. ASSUME NEW i \in DOMAIN refunds' \ DOMAIN refunds
       PROVE  \/ first > 0 /\ i = Len(refunds) + 1 /\ refunds'[i] = OnlineRow(first)
              \/ second > 0 /\ i = Len(refunds') /\ refunds'[i] = OfflineRow(second)
  <2>1. /\ i - Len(refunds) \in 1..(Len(a) + Len(b))
        /\ refunds'[i] = ab[i - Len(refunds)]
    BY <1>4, <1>5, <1>8, <1>9, <1>10
  <2>2. CASE i - Len(refunds) <= Len(a)
    BY <1>2, <1>4, <1>9, <1>10, <2>1, <2>2
  <2>3. CASE ~ (i - Len(refunds) <= Len(a))
    <3>1. i - Len(refunds) - Len(a) = 1 /\ second > 0 /\ i = Len(refunds')
      <4>1. i \in 1..Len(refunds') /\ ~ (i \in 1..Len(refunds))
        BY <1>10, Zenon
      <4>2. i \in Int /\ i <= Len(refunds') /\ i > Len(refunds)
        BY <1>10, <4>1
      <4>3. Len(refunds') = Len(refunds) + x + y /\ ~ (i - Len(refunds) <= x)
        BY <1>10, <1>15, <2>3, Zenon
      <4>4. /\ (x = 0 /\ ~ (first > 0)) \/ (x = 1 /\ first > 0)
            /\ (y = 0 /\ ~ (second > 0)) \/ (y = 1 /\ second > 0)
        BY <1>12, <1>15, Zenon
      <4>5. i - Len(refunds) - x = 1 /\ second > 0 /\ i = Len(refunds')
        BY <1>10, <4>2, <4>3, <4>4
      <4> QED BY <1>15, <4>5, Zenon
    <3>2. refunds'[i] = b[i - Len(refunds) - Len(a)]
      BY <1>9, <2>1, <2>3
    <3> QED BY <1>5, <3>1, <3>2
  <2> QED BY <2>2, <2>3
<1>14. Inserted(first, second)
  <2>1. Len(refunds) <= Len(refunds')
    BY <1>10, <1>12
  <2>2. first > 0 => Len(refunds) + 1 \in DOMAIN refunds'
    BY <1>10, <1>12
  <2>3. second > 0 => Len(refunds') \in DOMAIN refunds' \ DOMAIN refunds
    <3>1. second > 0 => Len(refunds') > Len(refunds)
      BY <1>10, <1>12
    <3>2. second > 0 => /\ Len(refunds') \in 1..Len(refunds')
                        /\ ~ (Len(refunds') \in 1..Len(refunds))
      BY <1>10, <3>1
    <3> QED BY <1>10, <3>2, Zenon
  <2>4. first > 0 /\ second > 0 => Len(refunds') = Len(refunds) + 2
    BY <1>4, <1>5, <1>10, <1>12
  <2> QED BY <1>10, <1>11, <1>13, <2>1, <2>2, <2>3, <2>4 DEF Inserted
<1> QED BY <1>1, <1>14

-----------------------------------------------------------------------------
(* What the gateway's refunds do to the table.                             *)

Provided == [amount : 1..Advance, status : {"pending", "processed", "failed"}]

LEMMA Typed ==
  ASSUME TypeOK
  PROVE  /\ refunds \in Table /\ Len(refunds) \in 0..MaxRefunds
         /\ DOMAIN refunds = 1..Len(refunds)
         /\ issued \in Seq(Provided) /\ Len(issued) \in 0..MaxIssued
         /\ DOMAIN issued = 1..Len(issued)
         /\ \A g \in DOMAIN issued :
              /\ issued[g] \in Provided /\ issued[g].amount \in 1..Advance
              /\ issued[g].status \in {"pending", "processed", "failed"}
         /\ offline \in Nat /\ offline \in {0} \cup OfflineAmounts
         /\ ledger \in [paid : Nat, refunded : Nat]
         /\ NetPaid \in Int /\ Gross(online, offline) \in Nat
<1>1. /\ refunds \in Table /\ Len(refunds) \in 0..MaxRefunds
      /\ DOMAIN refunds = 1..Len(refunds)
  BY Numbers DEF TypeOK, Table
<1>2. /\ issued \in Seq(Provided) /\ Len(issued) \in 0..MaxIssued
      /\ DOMAIN issued = 1..Len(issued)
  BY Numbers DEF TypeOK, Provided
<1>3. \A g \in DOMAIN issued :
        /\ issued[g] \in Provided /\ issued[g].amount \in 1..Advance
        /\ issued[g].status \in {"pending", "processed", "failed"}
  <2> SUFFICES ASSUME NEW g \in DOMAIN issued
               PROVE  issued[g] \in Provided
    BY DEF Provided
  <2> QED BY <1>2
<1>4. offline \in Nat /\ offline \in {0} \cup OfflineAmounts
  BY Numbers DEF TypeOK
<1>5. ledger \in [paid : Nat, refunded : Nat]
  BY DEF TypeOK
<1>6. Gross(online, offline) \in Nat
  BY <1>4, Numbers DEF Gross
<1>7. RefundedRows(refunds) \in Nat
  BY <1>1, RefundedType DEF RefundedRows
<1>8. NetPaid \in Int
  BY <1>6, <1>7 DEF NetPaid
<1> QED BY <1>1, <1>2, <1>3, <1>4, <1>5, <1>6, <1>8

\* A refund the gateway makes is one more, and small enough.
LEMMA Granted ==
  ASSUME TypeOK, NEW amount \in Nat \ {0}, NEW st \in {"pending", "processed"},
         GatewayRefund(amount, st)
  PROVE  /\ issued' \in Seq(Provided) /\ Len(issued') = Len(issued) + 1
         /\ Len(issued') \in 1..MaxIssued
         /\ \A g \in DOMAIN issued : issued'[g] = issued[g]
         /\ issued'[Len(issued')] = [amount |-> amount, status |-> st]
<1> DEFINE kept == {i \in DOMAIN issued : issued[i].status # "failed"}
<1>1. IsFiniteSet(kept)
  <2>1. kept \subseteq 1..Len(issued) /\ IsFiniteSet(1..Len(issued))
    BY Typed, FS_Interval, Numbers
  <2> QED BY <2>1, FS_Subset
<1>2. \A i \in kept : issued[i].amount \in Nat
  BY Typed, Numbers
<1>3. SumOf(issued, kept) \in Nat
  <2> HIDE DEF kept
  <2> QED BY <1>1, <1>2, SumType
<1>4. amount <= Advance
  BY <1>3, Numbers DEF GatewayRefund, Refundable
<1>5. [amount |-> amount, status |-> st] \in Provided
  BY <1>4, Numbers DEF Provided
<1>6. /\ issued' = Append(issued, [amount |-> amount, status |-> st])
      /\ Len(issued) < MaxIssued
  BY DEF GatewayRefund
<1> DEFINE new == [amount |-> amount, status |-> st]
<1>7. /\ Append(issued, new) \in Seq(Provided)
      /\ Len(Append(issued, new)) = Len(issued) + 1
      /\ \A i \in 1..Len(issued) : Append(issued, new)[i] = issued[i]
      /\ Append(issued, new)[Len(issued) + 1] = new
  <2> HIDE DEF new
  <2> QED BY <1>5, Typed, AppendProperties DEF new
<1> QED BY <1>6, <1>7, Typed, Numbers

\* The row of a refund that is found is given its id, or is a new one; no
\* other row is touched, and no other has the id unless this one had it.
Finds(g, i, rows) ==
  /\ rows \in Table /\ i \in 1..Len(rows) /\ rows[i].id = g
  /\ rows[i].payment = "online" \/ (i \in DOMAIN refunds /\ refunds[i].id = g)
  /\ Len(refunds) <= Len(rows)
  /\ \A j \in 1..Len(rows) : j # i => j \in DOMAIN refunds /\ rows[j] = refunds[j]
  /\ i \in DOMAIN refunds =>
       /\ rows[i] = [refunds[i] EXCEPT !.id = g]
       /\ \/ refunds[i].id = g
          \/ /\ \A j \in DOMAIN refunds : refunds[j].id # g
             /\ refunds[i].id = Null /\ refunds[i].amount = issued[g].amount
             /\ refunds[i].status = "pending"
  /\ i \notin DOMAIN refunds =>
       /\ \A j \in DOMAIN refunds : refunds[j].id # g
       /\ rows[i] = [payment |-> "online", amount |-> issued[g].amount,
                     status |-> "pending", id |-> g]

LEMMA RowFound ==
  ASSUME TypeOK, NEW g \in DOMAIN issued
  PROVE  Finds(g, IndexOf(g), RowsWith(g))
<1> DEFINE known == {i \in DOMAIN refunds : refunds[i].id = g}
           choice == IF known # {} THEN known ELSE OwnRow(g) \cup {Len(refunds) + 1}
           new == [payment |-> "online", amount |-> issued[g].amount,
                   status |-> "pending", id |-> g]
<1>1. choice \in SUBSET Nat /\ choice # {}
  <2>1. /\ DOMAIN refunds \subseteq Nat /\ Len(refunds) + 1 \in Nat
        /\ known \subseteq DOMAIN refunds /\ OwnRow(g) \subseteq DOMAIN refunds
    BY Typed DEF OwnRow
  <2> QED BY <2>1
<1>2. IndexOf(g) \in choice
  <2>1. IndexOf(g) = Min(choice)
    BY DEF IndexOf
  <2> HIDE DEF choice
  <2> QED BY <1>1, <2>1, Least
<1>3. PICK i : i = IndexOf(g) /\ i \in choice
  BY <1>2
<1>4. g \in 1..MaxIssued /\ issued[g].amount \in Nat \ {0}
  BY Typed, Numbers
<1>5. CASE i \in DOMAIN refunds
  <2> DEFINE rows == [refunds EXCEPT ![i].id = g]
  <2>1. RowsWith(g) = rows
    BY <1>3, <1>5 DEF RowsWith
  <2>2. rows \in Table /\ Len(rows) = Len(refunds) /\ rows[i] = [refunds[i] EXCEPT !.id = g]
        /\ \A j \in DOMAIN refunds : j # i => rows[j] = refunds[j]
    <3>1. [refunds[i] EXCEPT !.id = g] \in Refund
      BY <1>4, <1>5, Typed, RowType DEF Refund
    <3>2. PICK row \in Refund : row = [refunds[i] EXCEPT !.id = g]
      BY <3>1
    <3>3. rows = [refunds EXCEPT ![i] = row]
      BY <3>2
    <3>4. refunds \in Table
      BY Typed
    <3> HIDE DEF rows
    <3>5. /\ rows \in Table /\ Len(rows) = Len(refunds)
          /\ DOMAIN rows = DOMAIN refunds
          /\ rows[i] = row /\ \A j \in DOMAIN refunds : j # i => rows[j] = refunds[j]
      BY <1>5, <3>3, <3>4 DEF Table
    <3> QED BY <3>2, <3>5, Zenon
  <2>3. \/ refunds[i].id = g
        \/ /\ \A j \in DOMAIN refunds : refunds[j].id # g
           /\ refunds[i].id = Null /\ refunds[i].amount = issued[g].amount
           /\ refunds[i].status = "pending" /\ refunds[i].payment = "online"
    BY <1>3, <1>5, Typed DEF OwnRow
  <2>4. rows[i].id = g /\ rows[i].payment = refunds[i].payment
    BY <1>5, <2>2, Typed, RowType DEF Refund
  <2> HIDE DEF rows
  <2> QED BY <1>3, <1>5, <2>1, <2>2, <2>3, <2>4, Typed DEF Finds
<1>6. CASE i \notin DOMAIN refunds
  <2>1. RowsWith(g) = Append(refunds, new) /\ i = Len(refunds) + 1 /\ known = {}
    BY <1>3, <1>6, Typed DEF RowsWith, OwnRow
  <2>2. new \in Refund
    BY <1>4 DEF Refund
  <2>3. /\ Append(refunds, new) \in Table
        /\ Len(Append(refunds, new)) = Len(refunds) + 1
        /\ \A j \in 1..Len(refunds) : Append(refunds, new)[j] = refunds[j]
        /\ Append(refunds, new)[Len(refunds) + 1] = new
    <3> HIDE DEF new
    <3> QED BY <2>2, Typed, AppendProperties DEF Table
  <2>4. \A j \in DOMAIN refunds : refunds[j].id # g
    BY <2>1
  <2> QED BY <1>3, <1>6, <2>1, <2>3, <2>4, Typed DEF Finds
<1> QED BY <1>5, <1>6

\* applyRefundProcessed: a row that was processed before, or the change of
\* the three.
LEMMA Marked ==
  ASSUME NEW rows \in Table, NEW i \in DOMAIN rows, MarkProcessed(rows, i),
         ledger \in [paid : Nat, refunded : Nat]
  PROVE  /\ refunds' \in Table /\ Len(refunds') = Len(rows)
         /\ ledger' \in [paid : Nat, refunded : Nat] /\ ledger'.paid = ledger.paid
         /\ online' \in {online, "refunded", "partially_refunded"}
         /\ \A j \in DOMAIN rows : j # i => refunds'[j] = rows[j]
         /\ refunds'[i] = [rows[i] EXCEPT !.status = "processed"]
<1>1. CASE rows[i].status = "processed"
  <2>1. refunds' = rows /\ UNCHANGED <<ledger, online>>
    BY <1>1 DEF MarkProcessed
  <2>2. rows[i] = [rows[i] EXCEPT !.status = "processed"]
    BY <1>1, RowType DEF Refund
  <2> QED BY <2>1, <2>2
<1>2. CASE rows[i].status # "processed"
  <2>1. /\ refunds' = [rows EXCEPT ![i].status = "processed"]
        /\ ledger' = [ledger EXCEPT !.refunded = @ + rows[i].amount]
        /\ online' \in {"refunded", "partially_refunded"}
    BY <1>2 DEF MarkProcessed
  <2>2. /\ refunds' \in Table /\ Len(refunds') = Len(rows)
        /\ \A j \in DOMAIN rows : j # i => refunds'[j] = rows[j]
        /\ refunds'[i] = [rows[i] EXCEPT !.status = "processed"]
    <3>1. [rows[i] EXCEPT !.status = "processed"] \in Refund
      BY RowType DEF Refund
    <3>2. PICK row \in Refund : row = [rows[i] EXCEPT !.status = "processed"]
      BY <3>1
    <3>3. refunds' = [rows EXCEPT ![i] = row]
      BY <2>1, <3>2
    <3>4. /\ refunds' \in Table /\ Len(refunds') = Len(rows)
          /\ DOMAIN refunds' = DOMAIN rows
          /\ refunds'[i] = row /\ \A j \in DOMAIN rows : j # i => refunds'[j] = rows[j]
      BY <3>3 DEF Table
    <3> QED BY <3>2, <3>4, Zenon
  <2>3. ledger' \in [paid : Nat, refunded : Nat] /\ ledger'.paid = ledger.paid
    BY <2>1, RowType
  <2> QED BY <2>1, <2>2, <2>3
<1> QED BY <1>1, <1>2

-----------------------------------------------------------------------------
(* Types.                                                                  *)

\* Rows that are inserted are well typed, and so are the numbers in hand.
LEMMA AddedTypes ==
  ASSUME TypeOK, NEW amount \in Int, NEW on, AddRefunds(amount, on)
  PROVE  /\ refunds' \in Seq(Refund) /\ Len(refunds') <= MaxRefunds
         /\ toIssue' \subseteq 1..MaxRefunds
<1>1. PICK first, second : Inserted(first, second)
  BY Typed, AddedRows
<1>2. refunds' \in Table /\ Len(refunds') \in Nat
  BY <1>1 DEF Inserted, Table
<1>3. refunds' = refunds \o NewRows(amount, on) /\ Len(refunds') <= MaxRefunds
  BY DEF AddRefunds
<1>4. toIssue' \subseteq toIssue \cup ((Len(refunds) + 1)..Len(refunds'))
  BY <1>3 DEF AddRefunds
<1>5. toIssue \subseteq 1..MaxRefunds
  BY DEF TypeOK
<1>6. (Len(refunds) + 1)..Len(refunds') \subseteq 1..MaxRefunds
  BY <1>2, <1>3, Typed, Numbers
<1> QED BY <1>2, <1>3, <1>4, <1>5, <1>6 DEF Table

\* The parts of the state.
StatusOK ==
  /\ status \in Statuses
  /\ online \in {"none", "created", "captured", "partially_refunded", "refunded"}
  /\ offline \in {0} \cup OfflineAmounts
  /\ ledger \in [paid : Nat, refunded : Nat]
  /\ cancelled \in {Null} \cup [by : {"customer", "vendor"}, paid : Int, refund : Int]
TableOK == refunds \in Seq(Refund) /\ Len(refunds) <= MaxRefunds
EventsOK ==
  /\ stored \subseteq Event
  /\ processed \subseteq stored /\ review \subseteq stored
  /\ finishing \subseteq stored \X {"done", "waiting", "review"}
MemoryOK ==
  /\ capture \in {Null} \cup [source : stored \cup {Checkout}, seen : Statuses]
  /\ preview \in {Null} \cup [paid : Int, refund : Int]
  /\ toIssue \subseteq 1..MaxRefunds
  /\ crashes \in 0..MaxCrashes
OutsideOK ==
  /\ percent \in Percents /\ charged \in BOOLEAN
  /\ issued \in Seq([amount : 1..Advance, status : {"pending", "processed", "failed"}])
  /\ Len(issued) <= MaxIssued

LEMMA Parts ==
  /\ TypeOK <=> StatusOK /\ TableOK /\ EventsOK /\ MemoryOK /\ OutsideOK
  /\ TypeOK' <=> StatusOK' /\ TableOK' /\ EventsOK' /\ MemoryOK' /\ OutsideOK'
BY DEF TypeOK, StatusOK, TableOK, EventsOK, MemoryOK, OutsideOK

LEMMA TypeInit == Init => TypeOK
<1> SUFFICES ASSUME Init PROVE TypeOK
  OBVIOUS
<1>1. percent \in Percents
  <2>1. Percents \in SUBSET (0..100) /\ Percents # {}
    BY AmountAssumption
  <2> QED BY <2>1, Greatest DEF Init
<1>2. refunds = <<>> /\ issued = <<>> /\ Len(refunds) = 0 /\ Len(issued) = 0
  BY DEF Init
<1>3. refunds \in Seq(Refund)
  BY <1>2
<1>4. issued \in Seq([amount : 1..Advance, status : {"pending", "processed", "failed"}])
  BY <1>2
<1>5. StatusOK
  BY DEF Init, StatusOK, Statuses
<1>6. TableOK
  BY <1>2, <1>3, Numbers DEF TableOK
<1>7. OutsideOK
  <2>1. charged \in BOOLEAN
    BY DEF Init
  <2> QED BY <1>1, <1>2, <1>4, <2>1, Numbers DEF OutsideOK
<1>8. EventsOK /\ MemoryOK
  BY Numbers DEF Init, EventsOK, MemoryOK
<1> QED BY <1>5, <1>6, <1>7, <1>8, Parts

LEMMA MoneyTypes ==
  ASSUME TypeOK, Money
  PROVE  TypeOK'
<1> USE DEF database, process, outside
<1>1. StatusOK /\ TableOK /\ EventsOK /\ MemoryOK /\ OutsideOK
  BY Parts
<1>2. CASE CreateOrder
  <2>1. StatusOK'
    BY <1>1, <1>2 DEF StatusOK, CreateOrder
  <2> QED BY <1>1, <1>2, <2>1, Parts
        DEF CreateOrder, TableOK, EventsOK, MemoryOK, OutsideOK
<1>3. CASE Expire
  <2>1. StatusOK'
    BY <1>1, <1>3 DEF StatusOK, Expire, Statuses
  <2> QED BY <1>1, <1>3, <2>1, Parts
        DEF Expire, TableOK, EventsOK, MemoryOK, OutsideOK
<1>4. CASE Complete
  <2>1. StatusOK'
    BY <1>1, <1>4 DEF StatusOK, Complete, Statuses
  <2> QED BY <1>1, <1>4, <2>1, Parts
        DEF Complete, TableOK, EventsOK, MemoryOK, OutsideOK
<1>5. ASSUME NEW amount \in OfflineAmounts, NEW kind, RecordOffline(amount, kind)
      PROVE  TypeOK'
  <2>1. StatusOK'
    BY <1>1, <1>5, Numbers DEF StatusOK, RecordOffline, Statuses
  <2> QED BY <1>1, <1>5, <2>1, Parts
        DEF RecordOffline, TableOK, EventsOK, MemoryOK, OutsideOK
<1>6. ASSUME NEW source \in PaymentEvents \cup {Checkout}, BeginCapture(source)
      PROVE  TypeOK'
  <2>1. MemoryOK'
    BY <1>1, <1>6 DEF MemoryOK, BeginCapture, StatusOK, Waiting
  <2> QED BY <1>1, <1>6, <2>1, Parts
        DEF BeginCapture, TableOK, EventsOK, StatusOK, OutsideOK
<1>7. ASSUME NEW outcome \in {"done", "review"}, capture # Null, Report(outcome)
      PROVE  finishing' \subseteq stored \X {"done", "waiting", "review"}
  <2>1. capture.source \in stored \cup {Checkout}
    BY <1>1, <1>7 DEF MemoryOK
  <2> QED BY <1>1, <1>7, <2>1 DEF Report, EventsOK
<1>8. ASSUME NEW new \in Statuses, EndCapture(new), TableOK', toIssue' \subseteq 1..MaxRefunds
      PROVE  TypeOK'
  <2>1. StatusOK'
    BY <1>1, <1>8, Numbers DEF StatusOK, EndCapture
  <2>2. EventsOK'
    BY <1>1, <1>7, <1>8 DEF EventsOK, EndCapture
  <2>3. MemoryOK'
    BY <1>1, <1>8 DEF MemoryOK, EndCapture
  <2> QED BY <1>1, <1>8, <2>1, <2>2, <2>3, Parts DEF EndCapture, OutsideOK
<1>9. ASSUME UNCHANGED <<refunds, toIssue>>
      PROVE  TableOK' /\ toIssue' \subseteq 1..MaxRefunds
  BY <1>1, <1>9 DEF TableOK, MemoryOK
<1>10. ASSUME AddRefunds(Advance, "captured")
       PROVE  TableOK' /\ toIssue' \subseteq 1..MaxRefunds
  BY <1>10, AddedTypes, Numbers DEF TableOK
<1>11. "CONFIRMED" \in Statuses /\ "EXPIRED_PAID" \in Statuses /\ status \in Statuses
  BY <1>1 DEF Statuses, StatusOK
<1>12. ASSUME NEW free \in BOOLEAN, ConfirmPaid(free)
       PROVE  TypeOK'
  BY <1>8, <1>9, <1>11, <1>12 DEF ConfirmPaid
<1>13. ASSUME NEW free \in BOOLEAN, AbortCapture(free)
       PROVE  TypeOK'
  <2>1. EventsOK'
    BY <1>1, <1>7, <1>13 DEF EventsOK, AbortCapture
  <2>2. MemoryOK'
    BY <1>1, <1>13 DEF MemoryOK, AbortCapture
  <2> QED BY <1>1, <1>13, <2>1, <2>2, Parts DEF AbortCapture, StatusOK, TableOK, OutsideOK
<1>14. CASE ReclaimExpired
  BY <1>8, <1>9, <1>11, <1>14 DEF ReclaimExpired
<1>15. CASE ParkExpired
  BY <1>8, <1>10, <1>11, <1>15 DEF ParkExpired
<1>16. CASE RefundUnwanted
  BY <1>8, <1>10, <1>11, <1>16 DEF RefundUnwanted
<1> QED BY <1>2, <1>3, <1>4, <1>5, <1>6, <1>12, <1>13, <1>14, <1>15, <1>16
      DEF Money, FinishCapture

LEMMA CancellingTypes ==
  ASSUME TypeOK, Cancelling
  PROVE  TypeOK'
<1> USE DEF database, process, outside
<1>1. StatusOK /\ TableOK /\ EventsOK /\ MemoryOK /\ OutsideOK
  BY Parts
<1>2. CASE ViewCancellation
  <2>1. RefundOf(NetPaid, percent) \in Int
    <3>1. percent \in Nat /\ NetPaid \in Int
      BY <1>1, Typed, AmountAssumption DEF OutsideOK
    <3>2. (NetPaid * percent + 50) \div 100 \in Int
      BY <3>1
    <3> DEFINE share == (NetPaid * percent + 50) \div 100
    <3> HIDE DEF share
    <3>3. Min({NetPaid, share}) \in Int
      BY <3>1, <3>2, OfTwo DEF share
    <3> QED BY <3>3 DEF RefundOf, share
  <2>2. MemoryOK'
    BY <1>1, <1>2, <2>1, Typed DEF MemoryOK, ViewCancellation
  <2> QED BY <1>1, <1>2, <2>2, Parts
        DEF ViewCancellation, StatusOK, TableOK, EventsOK, OutsideOK
<1>3. ASSUME NEW by \in {"customer", "vendor"}, NEW paid \in Int, NEW refund \in Int,
             CancelBooking(by, paid, refund), preview' \in {Null, preview}
      PROVE  TypeOK'
  <2>1. TableOK' /\ toIssue' \subseteq 1..MaxRefunds
    BY <1>3, AddedTypes DEF CancelBooking, TableOK
  <2>2. StatusOK'
    BY <1>1, <1>3 DEF StatusOK, CancelBooking, Statuses
  <2>3. MemoryOK'
    BY <1>1, <1>3, <2>1 DEF MemoryOK, CancelBooking
  <2> QED BY <1>1, <1>3, <2>1, <2>2, <2>3, Parts DEF CancelBooking, EventsOK, OutsideOK
<1>4. CASE CustomerCancel
  <2>1. preview.paid \in Int /\ preview.refund \in Int
    BY <1>1, <1>4 DEF MemoryOK, CustomerCancel
  <2> QED BY <1>3, <1>4, <2>1 DEF CustomerCancel
<1>5. CASE VendorCancel
  BY <1>3, <1>5, Typed DEF VendorCancel
<1>6. CASE CancelRefused
  BY <1>1, <1>6, Parts
    DEF CancelRefused, StatusOK, TableOK, EventsOK, MemoryOK, OutsideOK
<1> QED BY <1>2, <1>4, <1>5, <1>6 DEF Cancelling

LEMMA IssueTypes ==
  ASSUME TypeOK, NEW i \in DOMAIN refunds, IssueRefund(i)
  PROVE  TypeOK'
<1> USE DEF database, process, outside
<1>1. StatusOK /\ TableOK /\ EventsOK /\ MemoryOK /\ OutsideOK
  BY Parts
<1>2. /\ refunds \in Table /\ Len(refunds) <= MaxRefunds
      /\ refunds[i].amount \in Nat \ {0} /\ refunds[i] \in Refund
  BY Typed, RowType, Numbers
<1>3. ASSUME NEW st \in {"pending", "processed"}, GatewayRefund(refunds[i].amount, st),
             UNCHANGED <<percent, charged>>
      PROVE  OutsideOK' /\ Len(issued) + 1 \in 1..MaxIssued
  <2>1. /\ issued' \in Seq(Provided) /\ Len(issued') = Len(issued) + 1
        /\ Len(issued') \in 1..MaxIssued
    BY <1>2, <1>3, Granted, Zenon
  <2> QED BY <1>1, <1>3, <2>1, Numbers DEF OutsideOK, Provided
<1>4. ASSUME NEW st \in {"pending", "processed"}, IssueAccepted(i, st)
      PROVE  TypeOK'
  <2>1. OutsideOK' /\ Len(issued) + 1 \in 1..MaxIssued
    BY <1>3, <1>4 DEF IssueAccepted
  <2> DEFINE rows == [refunds EXCEPT ![i].id = Len(issued) + 1]
  <2>2. PICK row \in Refund : row = [refunds[i] EXCEPT !.id = Len(issued) + 1]
    BY <1>2, <2>1 DEF Refund
  <2>3. rows = [refunds EXCEPT ![i] = row]
    BY <2>2
  <2>4. rows \in Table /\ Len(rows) = Len(refunds) /\ i \in DOMAIN rows
    <3> HIDE DEF rows
    <3> QED BY <1>2, <2>3 DEF Table
  <2>5. \/ MarkProcessed(rows, i)
        \/ refunds' = rows /\ UNCHANGED <<ledger, online>>
    BY <1>4 DEF IssueAccepted
  <2>6. /\ refunds' \in Table /\ Len(refunds') = Len(refunds)
        /\ ledger' \in [paid : Nat, refunded : Nat]
        /\ online' \in {online, "refunded", "partially_refunded"}
    <3>1. ledger \in [paid : Nat, refunded : Nat]
      BY Typed
    <3> HIDE DEF rows
    <3> QED BY <2>4, <2>5, <3>1, Marked
  <2>7. TableOK'
    BY <1>2, <2>6 DEF TableOK, Table
  <2>8. StatusOK'
    BY <1>1, <1>4, <2>6 DEF StatusOK, IssueAccepted
  <2> QED BY <1>1, <1>4, <2>1, <2>7, <2>8, Parts DEF IssueAccepted, EventsOK, MemoryOK
<1>5. CASE IssueFailed(i)
  <2>1. OutsideOK'
    BY <1>1, <1>3, <1>5 DEF IssueFailed, OutsideOK
  <2>2. PICK row \in Refund : row = [refunds[i] EXCEPT !.status = "failed"]
    BY <1>2 DEF Refund
  <2>3. refunds' = [refunds EXCEPT ![i] = row]
    BY <1>5, <2>2 DEF IssueFailed
  <2>4. TableOK'
    BY <1>2, <2>3 DEF TableOK, Table
  <2> QED BY <1>1, <1>5, <2>1, <2>4, Parts DEF IssueFailed, StatusOK, EventsOK, MemoryOK
<1>6. CASE IssueSkipped(i)
  BY <1>1, <1>6, Parts
    DEF IssueSkipped, StatusOK, TableOK, EventsOK, MemoryOK, OutsideOK
<1> QED BY <1>4, <1>5, <1>6 DEF IssueRefund

LEMMA WebhookTypes ==
  ASSUME TypeOK, Webhooks
  PROVE  TypeOK'
<1> USE DEF database, process, outside
<1>1. StatusOK /\ TableOK /\ EventsOK /\ MemoryOK /\ OutsideOK
  BY Parts
<1> SUFFICES ASSUME NEW event \in Event,
                    \/ Receive(event) \/ AlreadyCaptured(event) \/ FlagStuck(event)
                    \/ Reprocess(event)
                    \/ \E outcome \in {"done", "waiting", "review"} : Finish(event, outcome)
             PROVE  EventsOK' /\ stored \subseteq stored' /\
                    UNCHANGED <<status, online, offline, refunds, ledger, cancelled,
                      capture, preview, toIssue, crashes, outside>>
  BY <1>1, Parts DEF Webhooks, StatusOK, TableOK, MemoryOK, OutsideOK
<1>2. CASE Receive(event)
  BY <1>1, <1>2 DEF Receive, EventsOK
<1>3. CASE AlreadyCaptured(event)
  BY <1>1, <1>3 DEF AlreadyCaptured, EventsOK, Waiting
<1>4. CASE FlagStuck(event)
  BY <1>1, <1>4 DEF FlagStuck, EventsOK, Waiting
<1>5. CASE Reprocess(event)
  BY <1>1, <1>5 DEF Reprocess, EventsOK
<1>6. ASSUME NEW outcome \in {"done", "waiting", "review"}, Finish(event, outcome)
      PROVE  /\ processed' \subseteq processed \cup {event}
             /\ review' \subseteq review \cup {event}
             /\ finishing' \subseteq finishing
             /\ UNCHANGED <<status, online, offline, refunds, ledger, stored,
                  cancelled, capture, preview, toIssue, crashes, outside>>
  BY <1>6 DEF Finish
<1>7. ASSUME NEW outcome \in {"done", "waiting", "review"}, Finish(event, outcome)
      PROVE  EventsOK' /\ stored \subseteq stored' /\
             UNCHANGED <<status, online, offline, refunds, ledger, cancelled,
               capture, preview, toIssue, crashes, outside>>
  <2>1. event \in stored
    BY <1>1, <1>7 DEF Finish, EventsOK
  <2>2. processed' \subseteq processed \cup {event} /\ review' \subseteq review \cup {event}
        /\ finishing' \subseteq finishing
        /\ UNCHANGED <<status, online, offline, refunds, ledger, stored, cancelled,
              capture, preview, toIssue, crashes, outside>>
    BY <1>6, <1>7
  <2>3. processed' \subseteq stored' /\ review' \subseteq stored' /\ stored' \subseteq Event
    BY <1>1, <2>1, <2>2 DEF EventsOK
  <2>4. finishing' \subseteq stored' \X {"done", "waiting", "review"}
    <3>1. finishing \subseteq stored \X {"done", "waiting", "review"} /\ stored' = stored
      BY <1>1, <2>2 DEF EventsOK
    <3>2. finishing' \subseteq finishing
      BY <2>2
    <3> QED BY <3>1, <3>2, Zenon
  <2> QED BY <2>2, <2>3, <2>4 DEF EventsOK
<1> QED BY <1>2, <1>3, <1>4, <1>5, <1>7

LEMMA GatewayTypes ==
  ASSUME TypeOK, Gateway
  PROVE  TypeOK'
<1> USE DEF database, process, outside
<1>1. StatusOK /\ TableOK /\ EventsOK /\ MemoryOK /\ OutsideOK
  BY Parts
<1>2. CASE Charge
  BY <1>1, <1>2, Parts DEF Charge, StatusOK, TableOK, EventsOK, MemoryOK, OutsideOK
<1>4. ASSUME NEW g \in DOMAIN issued, ApplyProviderRefund(g)
      PROVE  TypeOK'
  <2> DEFINE i == IndexOf(g)
             rows == RowsWith(g)
  <2>1. rows \in Table /\ i \in DOMAIN rows /\ Len(rows) <= MaxRefunds
    <3>1. Finds(g, i, rows)
      BY <1>4, RowFound
    <3>2. Len(rows) <= MaxRefunds
      BY <1>4 DEF ApplyProviderRefund
    <3> HIDE DEF i, rows
    <3> QED BY <3>1, <3>2 DEF Finds, Table
  <2>2. MarkProcessed(rows, i) \/ MarkFailed(rows, i)
    BY <1>4 DEF ApplyProviderRefund
  <2>3. /\ refunds' \in Table /\ Len(refunds') = Len(rows)
        /\ ledger' \in [paid : Nat, refunded : Nat]
        /\ online' \in {online, "refunded", "partially_refunded"}
    <3>1. ledger \in [paid : Nat, refunded : Nat]
      BY Typed
    <3> HIDE DEF rows, i
    <3>2. CASE MarkProcessed(rows, i)
      BY <2>1, <3>1, <3>2, Marked
    <3>3. CASE MarkFailed(rows, i)
      <4>1. PICK row \in Refund : row = [rows[i] EXCEPT !.status = "failed"]
        <5>1. rows[i] \in Refund
          BY <2>1, RowType
        <5> QED BY <5>1 DEF Refund
      <4>2. refunds' \in {rows, [rows EXCEPT ![i] = row]} /\ UNCHANGED <<ledger, online>>
        BY <3>3, <4>1 DEF MarkFailed
      <4> QED BY <2>1, <3>1, <4>2 DEF Table
    <3> QED BY <2>2, <3>2, <3>3
  <2>4. TableOK'
    BY <2>1, <2>3 DEF TableOK, Table
  <2>5. StatusOK'
    BY <1>1, <1>4, <2>3 DEF StatusOK, ApplyProviderRefund
  <2>6. EventsOK'
    BY <1>1, <1>4 DEF EventsOK, ApplyProviderRefund, Waiting
  <2> QED BY <1>1, <1>4, <2>4, <2>5, <2>6, Parts DEF ApplyProviderRefund, MemoryOK, OutsideOK
<1>5. ASSUME NEW g \in DOMAIN issued, RefundNotYetKnown(g)
      PROVE  TypeOK'
  <2>1. EventsOK'
    BY <1>1, <1>5 DEF EventsOK, RefundNotYetKnown, Waiting
  <2> QED BY <1>1, <1>5, <2>1, Parts
        DEF RefundNotYetKnown, StatusOK, TableOK, MemoryOK, OutsideOK
<1>6. ASSUME NEW g \in DOMAIN issued, NEW st \in {"processed", "failed"}, SettleRefund(g, st)
      PROVE  TypeOK'
  <2>1. PICK refund \in Provided : refund = [issued[g] EXCEPT !.status = st]
    BY Typed DEF Provided
  <2>2. issued' = [issued EXCEPT ![g] = refund] /\ issued \in Seq(Provided)
    BY <1>6, <2>1, Typed DEF SettleRefund
  <2>3. issued' \in Seq(Provided) /\ Len(issued') = Len(issued)
    BY <2>2
  <2>4. OutsideOK'
    BY <1>1, <1>6, <2>3 DEF OutsideOK, SettleRefund, Provided
  <2> QED BY <1>1, <1>6, <2>4, Parts DEF SettleRefund, StatusOK, TableOK, EventsOK, MemoryOK
<1>7. ASSUME NEW amount \in 1..Advance, DashboardRefund(amount)
      PROVE  TypeOK'
  <2>1. GatewayRefund(amount, "processed") /\ UNCHANGED <<percent, charged>>
    BY <1>7 DEF DashboardRefund
  <2>2. amount \in Nat \ {0}
    BY <1>7
  <2>3. issued' \in Seq(Provided) /\ Len(issued') \in 1..MaxIssued
    BY <2>1, <2>2, Granted, Zenon
  <2>4. OutsideOK'
    BY <1>1, <2>1, <2>3, Numbers DEF OutsideOK, Provided
  <2> QED BY <1>1, <1>7, <2>4, Parts DEF DashboardRefund, StatusOK, TableOK, EventsOK, MemoryOK
<1> QED BY <1>2, <1>4, <1>5, <1>6, <1>7 DEF Gateway

LEMMA TypeStep == TypeOK /\ [Next]_vars => TypeOK'
<1> SUFFICES ASSUME TypeOK, [Next]_vars PROVE TypeOK'
  OBVIOUS
<1> USE DEF database, process, outside
<1>1. StatusOK /\ TableOK /\ EventsOK /\ MemoryOK /\ OutsideOK
  BY Parts
<1>2. CASE TimePasses
  BY <1>1, <1>2, Parts
    DEF TimePasses, StatusOK, TableOK, EventsOK, MemoryOK, OutsideOK
<1>3. CASE Crash
  <2>1. OutsideOK'
    <3>1. ASSUME NEW i \in toIssue, Sendable(i), GatewayRefund(refunds[i].amount, "pending")
          PROVE  issued' \in Seq(Provided) /\ Len(issued') <= MaxIssued
      <4>1. refunds[i].amount \in Nat \ {0}
        BY <3>1, Typed, RowType DEF Sendable, Unsent
      <4>2. issued' \in Seq(Provided) /\ Len(issued') \in 1..MaxIssued
        BY <3>1, <4>1, Granted, Zenon
      <4> QED BY <4>2, Numbers
    <3> QED BY <1>1, <1>3, <3>1 DEF OutsideOK, Crash, Provided
  <2>2. EventsOK' /\ MemoryOK'
    BY <1>1, <1>3, Numbers DEF Crash, EventsOK, MemoryOK
  <2> QED BY <1>1, <1>3, <2>1, <2>2, Parts DEF Crash, StatusOK, TableOK
<1>4. CASE UNCHANGED vars
  BY <1>1, <1>4, Parts DEF vars, StatusOK, TableOK, EventsOK, MemoryOK, OutsideOK
<1> QED BY <1>2, <1>3, <1>4, MoneyTypes, CancellingTypes, WebhookTypes, GatewayTypes,
           IssueTypes DEF Next

\* The variables have their types: statuses, rows and events of the schema, and
\* events in hand are stored ones.
THEOREM Typing == Spec => []TypeOK
BY TypeInit, TypeStep, PTL DEF Spec
-----------------------------------------------------------------------------
(* What the steps do to the sums.                                          *)

\* An insert adds the online share to the pending refunds of the one payment
\* and the other share to the manual refunds of the other.
LEMMA InsertedSums ==
  ASSUME refunds \in Table, NEW first \in Nat, NEW second \in Nat,
         Inserted(first, second), NEW states
  PROVE  /\ Refunded(refunds', "online", states) =
              Refunded(refunds, "online", states)
                + IF "pending" \in states THEN first ELSE 0
         /\ Refunded(refunds', "offline", states) =
              Refunded(refunds, "offline", states)
                + IF "manual" \in states THEN second ELSE 0
<1> DEFINE added == DOMAIN refunds' \ DOMAIN refunds
           a == Len(refunds) + 1
           b == Len(refunds')
<1>1. /\ refunds' \in Table /\ Len(refunds) \in Nat /\ Len(refunds') \in Nat
      /\ DOMAIN refunds = 1..Len(refunds) /\ DOMAIN refunds' = 1..Len(refunds')
      /\ \A i \in DOMAIN refunds : i \in DOMAIN refunds' /\ refunds'[i] = refunds[i]
  BY DEF Inserted, Table
<1>2. \A i \in added : \/ first > 0 /\ i = a /\ refunds'[i] = OnlineRow(first)
                       \/ second > 0 /\ i = b /\ refunds'[i] = OfflineRow(second)
  BY DEF Inserted
<1>3. first > 0 => a \in added
  <2>1. first > 0 => a \in DOMAIN refunds'
    BY Zenon DEF Inserted
  <2> QED BY <1>1, <2>1
<1>4. second > 0 => b \in added
  BY Zenon DEF Inserted
<1>5. first > 0 => refunds'[a] = OnlineRow(first)
  <2>1. first > 0 /\ second > 0 => a # b
    BY <1>1 DEF Inserted
  <2> QED BY <1>2, <1>3, <2>1
<1>6. second > 0 => refunds'[b] = OfflineRow(second)
  <2>1. first > 0 /\ second > 0 => a # b
    BY <1>1 DEF Inserted
  <2> QED BY <1>2, <1>4, <2>1
<1> HIDE DEF added, a, b
<1>7. \A payment : \A i : i \in Of(refunds', payment, states) <=>
        \/ i \in Of(refunds, payment, states)
        \/ i \in added /\ refunds'[i].payment = payment /\ refunds'[i].status \in states
  BY <1>1 DEF Of, added
<1>8. \A payment : \A i \in Of(refunds, payment, states) :
        i \notin added /\ refunds[i].amount = refunds'[i].amount
  BY <1>1 DEF Of, added
<1>9. \A i \in added :
        \/ /\ first > 0 /\ i = a /\ refunds'[i].payment = "online"
           /\ refunds'[i].status = "pending" /\ refunds'[i].amount = first
        \/ /\ second > 0 /\ i = b /\ refunds'[i].payment = "offline"
           /\ refunds'[i].status = "manual" /\ refunds'[i].amount = second
  BY <1>2 DEF OnlineRow, OfflineRow
<1>10. /\ first > 0 => /\ refunds'[a].payment = "online" /\ refunds'[a].status = "pending"
                       /\ refunds'[a].amount = first
       /\ second > 0 => /\ refunds'[b].payment = "offline" /\ refunds'[b].status = "manual"
                        /\ refunds'[b].amount = second
  BY <1>5, <1>6 DEF OnlineRow, OfflineRow
<1>11. ASSUME NEW payment,
              \A i \in added : ~ (refunds'[i].payment = payment /\ refunds'[i].status \in states)
       PROVE  Refunded(refunds', payment, states) = Refunded(refunds, payment, states)
  <2>1. Of(refunds', payment, states) = Of(refunds, payment, states)
    BY <1>7, <1>11
  <2> QED BY <1>8, <2>1, RefundedSame
<1>12. ASSUME NEW payment, NEW j \in added,
              \A i \in added : (refunds'[i].payment = payment /\ refunds'[i].status \in states)
                                 <=> i = j
       PROVE  Refunded(refunds', payment, states)
                = Refunded(refunds, payment, states) + refunds'[j].amount
  <2>1. Of(refunds', payment, states) = Of(refunds, payment, states) \cup {j}
    BY <1>7, <1>12
  <2>2. j \notin Of(refunds, payment, states)
    BY <1>8, <1>12
  <2> QED BY <1>1, <1>8, <2>1, <2>2, RefundedAdds
<1>13. /\ Refunded(refunds, "online", states) \in Nat
       /\ Refunded(refunds, "offline", states) \in Nat
  BY RefundedType
<1>14. Refunded(refunds', "online", states) =
         Refunded(refunds, "online", states) + IF "pending" \in states THEN first ELSE 0
  <2>1. CASE first > 0 /\ "pending" \in states
    <3>1. \A i \in added : (refunds'[i].payment = "online" /\ refunds'[i].status \in states)
                             <=> i = a
      BY <1>9, <1>10, <2>1
    <3> QED BY <1>3, <1>10, <1>12, <2>1, <3>1
  <2>2. CASE ~ (first > 0 /\ "pending" \in states)
    <3>1. \A i \in added : ~ (refunds'[i].payment = "online" /\ refunds'[i].status \in states)
      BY <1>9, <2>2
    <3>2. Refunded(refunds', "online", states) = Refunded(refunds, "online", states)
      BY <1>11, <3>1
    <3> QED BY <1>13, <2>2, <3>2
  <2> QED BY <2>1, <2>2
<1>15. Refunded(refunds', "offline", states) =
         Refunded(refunds, "offline", states) + IF "manual" \in states THEN second ELSE 0
  <2>1. CASE second > 0 /\ "manual" \in states
    <3>1. \A i \in added : (refunds'[i].payment = "offline" /\ refunds'[i].status \in states)
                             <=> i = b
      BY <1>9, <1>10, <2>1
    <3> QED BY <1>4, <1>10, <1>12, <2>1, <3>1
  <2>2. CASE ~ (second > 0 /\ "manual" \in states)
    <3>1. \A i \in added : ~ (refunds'[i].payment = "offline" /\ refunds'[i].status \in states)
      BY <1>9, <2>2
    <3>2. Refunded(refunds', "offline", states) = Refunded(refunds, "offline", states)
      BY <1>11, <3>1
    <3> QED BY <1>13, <2>2, <3>2
  <2> QED BY <2>1, <2>2
<1> QED BY <1>14, <1>15

\* Two tables that differ in one row, which one of them may not have.
Differ(rows, other, i) ==
  /\ rows \in Table /\ other \in Table
  /\ \A j : j # i => (j \in DOMAIN rows <=> j \in DOMAIN other)
  /\ \A j \in DOMAIN rows : j # i => other[j] = rows[j]

Repaid(rows) == {j \in DOMAIN rows : rows[j].payment = "online"
                                      /\ rows[j].status = "processed"}

LEMMA OneRow ==
  ASSUME NEW rows, NEW other, NEW i, Differ(rows, other, i)
  PROVE  /\ (i \in Repaid(rows) <=> i \in Repaid(other))
            /\ (i \in Repaid(rows) => other[i].amount = rows[i].amount)
              => RefundedRows(other) = RefundedRows(rows)
         /\ i \notin Repaid(rows) /\ i \in Repaid(other)
              => RefundedRows(other) = RefundedRows(rows) + other[i].amount
<1> DEFINE P(t) == Of(t, "online", {"processed"})
<1>1. P(rows) = Repaid(rows) /\ P(other) = Repaid(other)
  BY DEF Of, Repaid
<1>2. \A j : j # i => (j \in Repaid(rows) <=> j \in Repaid(other))
  BY DEF Differ, Repaid
<1>3. \A j \in Repaid(rows) : j # i => rows[j].amount = other[j].amount
  BY DEF Differ, Repaid
<1>4. ASSUME i \in Repaid(rows) <=> i \in Repaid(other),
             i \in Repaid(rows) => other[i].amount = rows[i].amount
      PROVE  RefundedRows(other) = RefundedRows(rows)
  <2>1. P(other) = P(rows) /\ \A j \in P(rows) : rows[j].amount = other[j].amount
    BY <1>1, <1>2, <1>3, <1>4
  <2> QED BY <2>1, RefundedSame DEF RefundedRows
<1>5. ASSUME i \notin Repaid(rows), i \in Repaid(other)
      PROVE  RefundedRows(other) = RefundedRows(rows) + other[i].amount
  <2>1. /\ P(other) = P(rows) \cup {i} /\ i \notin P(rows)
        /\ \A j \in P(rows) : rows[j].amount = other[j].amount
    BY <1>1, <1>2, <1>3, <1>5
  <2> QED BY <2>1, RefundedAdds DEF RefundedRows, Differ
<1> QED BY <1>4, <1>5

-----------------------------------------------------------------------------
(* The invariant.                                                          *)

\* Manual rows are those of the offline payment and never reach the gateway;
\* the online payment has rows once it is verified.
RowsOK == \A i \in DOMAIN refunds :
  /\ refunds[i].payment = "offline" <=> refunds[i].status = "manual"
  /\ refunds[i].payment = "offline" => refunds[i].id = Null
  /\ refunds[i].payment = "online" => online \in Verified

\* Each side of the ledger, and the status of the online payment, follow from
\* the rows; a capture holds the lock of a payment that still waits for it.
Books ==
  /\ capture # Null => online = "created"
  /\ ledger.paid = Gross(online, offline)
  /\ ledger.refunded = RefundedRows(refunds)
  /\ online = "refunded" => RefundedRows(refunds) >= Advance

Inv == TypeOK /\ RowsOK /\ Books /\ RefundsMirrorGateway /\ ConfirmedIsCovered

\* RefundsMirrorGateway is about each row and about pairs of rows.
RowMirrors(row, gateway) ==
  /\ row.id # Null =>
       /\ row.id \in DOMAIN gateway
       /\ row.amount = gateway[row.id].amount
       /\ row.status = "processed" => gateway[row.id].status = "processed"
  /\ row.status = "processed" => row.id # Null
Apart(rows) == \A i, j \in DOMAIN rows :
  i # j /\ rows[i].id # Null => rows[i].id # rows[j].id

LEMMA MirrorIs ==
  /\ RefundsMirrorGateway <=>
       (\A i \in DOMAIN refunds : RowMirrors(refunds[i], issued)) /\ Apart(refunds)
  /\ RefundsMirrorGateway' <=>
       (\A i \in DOMAIN refunds' : RowMirrors(refunds'[i], issued')) /\ Apart(refunds')
BY DEF RefundsMirrorGateway, RowMirrors, Apart

\* The gateway's refunds stay, and one that is processed stays so.
Keeps == \A g \in DOMAIN issued :
  /\ g \in DOMAIN issued' /\ issued'[g].amount = issued[g].amount
  /\ issued[g].status = "processed" => issued'[g].status = "processed"

LEMMA KeptRows ==
  ASSUME Keeps, NEW row, RowMirrors(row, issued)
  PROVE  RowMirrors(row, issued')
BY DEF Keeps, RowMirrors

LEMMA GrantKeeps ==
  ASSUME TypeOK, NEW amount \in Nat \ {0}, NEW st \in {"pending", "processed"},
         GatewayRefund(amount, st)
  PROVE  Keeps
<1>1. /\ issued' \in Seq(Provided) /\ Len(issued') = Len(issued) + 1
      /\ \A g \in DOMAIN issued : issued'[g] = issued[g]
  BY Granted, Zenon
<1>2. DOMAIN issued = 1..Len(issued) /\ Len(issued) \in Nat
  BY Typed, Numbers
<1>3. DOMAIN issued' = 1..Len(issued')
  BY <1>1
<1>4. \A g \in DOMAIN issued : g \in DOMAIN issued'
  BY <1>1, <1>2, <1>3
<1> QED BY <1>1, <1>4 DEF Keeps

LEMMA SettleKeeps ==
  ASSUME TypeOK, NEW g \in DOMAIN issued, NEW st, SettleRefund(g, st)
  PROVE  Keeps
<1>1. /\ issued' = [issued EXCEPT ![g].status = st]
      /\ issued[g].status = "pending"
  BY DEF SettleRefund
<1>2. DOMAIN issued' = DOMAIN issued
  BY <1>1
<1>3. \A h \in DOMAIN issued : h # g => issued'[h] = issued[h]
  BY <1>1
<1>4. issued'[g].amount = issued[g].amount
  <2>1. issued[g] \in Provided /\ issued'[g] = [issued[g] EXCEPT !.status = st]
    BY <1>1, Typed
  <2> QED BY <2>1 DEF Provided
<1> QED BY <1>1, <1>2, <1>3, <1>4 DEF Keeps

\* Steps that leave the sums alone, and of the statuses all but these two.
Still ==
  /\ UNCHANGED <<online, offline, refunds, ledger>>
  /\ capture' # Null => capture # Null \/ online = "created"
  /\ \/ status' = status
     \/ status = "CONFIRMED" /\ status' = "COMPLETED"
     \/ status = "PENDING" /\ offline = 0 /\ status' = "EXPIRED"

\* Every other step is one of these.
Capturing(new) ==
  /\ EndCapture(new) /\ UNCHANGED issued
  /\ \/ UNCHANGED refunds /\ new = "CONFIRMED" /\ status \in {"PENDING", "EXPIRED"}
     \/ /\ AddRefunds(Advance, "captured")
        /\ new = status \/ (new = "EXPIRED_PAID" /\ status = "EXPIRED")

Kinds ==
  \/ Still
  \/ CreateOrder
  \/ \E kind : \E amount \in OfflineAmounts : RecordOffline(amount, kind)
  \/ \E new : Capturing(new)
  \/ \E by, paid : \E refund \in Int : CancelBooking(by, paid, refund)
  \/ \E i \in DOMAIN refunds, st \in {"pending", "processed"} : IssueAccepted(i, st)
  \/ \E i \in DOMAIN refunds : IssueFailed(i)
  \/ \E g \in DOMAIN issued : ApplyProviderRefund(g)

LEMMA Stepping ==
  ASSUME TypeOK, [Next]_vars
  PROVE  Kinds /\ Keeps
<1> USE DEF database, process, outside
<1>1. ASSUME UNCHANGED issued
      PROVE  Keeps
  BY <1>1 DEF Keeps
<1>2. CASE Money
  <2>1. UNCHANGED issued
    BY <1>2 DEF Money, CreateOrder, Expire, Complete, RecordOffline, BeginCapture,
         FinishCapture, ConfirmPaid, ReclaimExpired, ParkExpired, RefundUnwanted,
         EndCapture, AbortCapture, AddRefunds
  <2>2. CASE CreateOrder
    BY <1>1, <2>1, <2>2 DEF Kinds
  <2>3. CASE Expire \/ Complete
    <3>1. Still
      BY <2>3 DEF Expire, Complete, Still
    <3> QED BY <1>1, <2>1, <3>1 DEF Kinds
  <2>4. ASSUME NEW amount \in OfflineAmounts, NEW kind, RecordOffline(amount, kind)
        PROVE  Kinds
    BY <2>4 DEF Kinds
  <2>5. ASSUME NEW source, BeginCapture(source)
        PROVE  Kinds
    <3>1. Still
      BY <2>5 DEF BeginCapture, Still
    <3> QED BY <3>1 DEF Kinds
  <2>6. ASSUME NEW free, AbortCapture(free)
        PROVE  Kinds
    <3>1. Still
      BY <2>6 DEF AbortCapture, Still
    <3> QED BY <3>1 DEF Kinds
  <2>7. ASSUME \/ \E free \in BOOLEAN : ConfirmPaid(free)
               \/ ReclaimExpired \/ ParkExpired \/ RefundUnwanted
        PROVE  Kinds
    <3>1. CASE (\E free \in BOOLEAN : ConfirmPaid(free)) \/ ReclaimExpired
      <4>1. Capturing("CONFIRMED")
        BY <2>1, <3>1 DEF ConfirmPaid, ReclaimExpired, Capturing
      <4> QED BY <4>1 DEF Kinds
    <3>2. CASE ParkExpired
      <4>1. Capturing("EXPIRED_PAID")
        BY <2>1, <3>2 DEF ParkExpired, Capturing
      <4> QED BY <4>1 DEF Kinds
    <3>3. CASE RefundUnwanted
      <4>1. Capturing(status)
        BY <2>1, <3>3 DEF RefundUnwanted, Capturing
      <4> QED BY <4>1 DEF Kinds
    <3> QED BY <2>7, <3>1, <3>2, <3>3
  <2>8. Kinds
    BY <1>2, <2>2, <2>3, <2>4, <2>5, <2>6, <2>7 DEF Money, FinishCapture
  <2> QED BY <1>1, <2>1, <2>8
<1>3. CASE Cancelling
  <2>1. UNCHANGED issued
    BY <1>3 DEF Cancelling, ViewCancellation, CustomerCancel, CancelRefused,
         VendorCancel, CancelBooking
  <2>2. CASE ViewCancellation \/ CancelRefused
    <3>1. Still
      BY <2>2 DEF ViewCancellation, CancelRefused, Still
    <3> QED BY <1>1, <2>1, <3>1 DEF Kinds
  <2>3. CASE CustomerCancel
    <3>1. preview.refund \in Int
      BY <2>3 DEF CustomerCancel, TypeOK
    <3>2. CancelBooking("customer", preview.paid, preview.refund)
      BY <2>3 DEF CustomerCancel
    <3> QED BY <1>1, <2>1, <3>1, <3>2 DEF Kinds
  <2>4. CASE VendorCancel
    <3>1. CancelBooking("vendor", NetPaid, NetPaid) /\ NetPaid \in Int
      BY <2>4, Typed DEF VendorCancel
    <3> QED BY <1>1, <2>1, <3>1 DEF Kinds
  <2> QED BY <1>1, <1>3, <2>1, <2>2, <2>3, <2>4 DEF Cancelling
<1>4. CASE Webhooks
  <2>1. Still /\ UNCHANGED issued
    BY <1>4 DEF Webhooks, Receive, AlreadyCaptured, FlagStuck, Reprocess, Finish, Still
  <2> QED BY <1>1, <2>1 DEF Kinds
<1>5. CASE Gateway
  <2>1. CASE Charge
    <3>1. Still /\ UNCHANGED issued
      BY <2>1 DEF Charge, Still
    <3> QED BY <1>1, <3>1 DEF Kinds
  <2>2. ASSUME NEW g \in DOMAIN issued, ApplyProviderRefund(g)
        PROVE  Kinds /\ UNCHANGED issued
    BY <2>2 DEF Kinds, ApplyProviderRefund
  <2>3. ASSUME NEW g \in DOMAIN issued, RefundNotYetKnown(g)
        PROVE  Kinds /\ UNCHANGED issued
    <3>1. Still /\ UNCHANGED issued
      BY <2>3 DEF RefundNotYetKnown, Still
    <3> QED BY <3>1 DEF Kinds
  <2>4. ASSUME NEW g \in DOMAIN issued, NEW st, SettleRefund(g, st)
        PROVE  Kinds /\ Keeps
    <3>1. Still
      BY <2>4 DEF SettleRefund, Still
    <3> QED BY <2>4, <3>1, SettleKeeps DEF Kinds
  <2>5. ASSUME NEW amount \in 1..Advance, DashboardRefund(amount)
        PROVE  Kinds /\ Keeps
    <3>1. Still /\ GatewayRefund(amount, "processed") /\ amount \in Nat \ {0}
      BY <2>5 DEF DashboardRefund, Still
    <3>2. Keeps
      BY <3>1, GrantKeeps, Zenon
    <3> QED BY <3>1, <3>2 DEF Kinds
  <2> QED BY <1>1, <1>5, <2>1, <2>2, <2>3, <2>4, <2>5 DEF Gateway
<1>6. ASSUME NEW i \in DOMAIN refunds, IssueRefund(i)
      PROVE  Kinds /\ Keeps
  <2>1. refunds[i].amount \in Nat \ {0}
    BY Typed, RowType
  <2>2. ASSUME NEW st \in {"pending", "processed"}, IssueAccepted(i, st)
        PROVE  Kinds /\ Keeps
    <3>1. GatewayRefund(refunds[i].amount, st)
      BY <2>2 DEF IssueAccepted
    <3>2. Keeps
      BY <2>1, <3>1, GrantKeeps, Zenon
    <3> QED BY <2>2, <3>2 DEF Kinds
  <2>3. CASE IssueFailed(i)
    <3>1. GatewayRefund(refunds[i].amount, "pending") => Keeps
      BY <2>1, GrantKeeps, Zenon
    <3>2. Keeps
      BY <1>1, <2>3, <3>1 DEF IssueFailed
    <3> QED BY <2>3, <3>2 DEF Kinds
  <2>4. CASE IssueSkipped(i)
    <3>1. Still /\ UNCHANGED issued
      BY <2>4 DEF IssueSkipped, Still
    <3> QED BY <1>1, <3>1 DEF Kinds
  <2> QED BY <1>6, <2>2, <2>3, <2>4 DEF IssueRefund
<1>7. CASE TimePasses \/ UNCHANGED vars
  <2>1. Still /\ UNCHANGED issued
    BY <1>7 DEF TimePasses, Still, vars
  <2> QED BY <1>1, <2>1 DEF Kinds
<1>8. CASE Crash
  <2>1. Still
    BY <1>8 DEF Crash, Still
  <2>2. ASSUME NEW i \in toIssue, Sendable(i), GatewayRefund(refunds[i].amount, "pending")
        PROVE  Keeps
    <3>1. refunds[i].amount \in Nat \ {0}
      BY <2>2, Typed, RowType DEF Sendable, Unsent
    <3> QED BY <2>2, <3>1, GrantKeeps, Zenon
  <2>3. Keeps
    BY <1>1, <1>8, <2>2 DEF Crash
  <2> QED BY <2>1, <2>3 DEF Kinds
<1> QED BY <1>2, <1>3, <1>4, <1>5, <1>6, <1>7, <1>8 DEF Next

-----------------------------------------------------------------------------
(* The invariant is kept, kind by kind.                                    *)

LEMMA InvInit == Init => Inv
<1> SUFFICES ASSUME Init PROVE Inv
  OBVIOUS
<1>1. TypeOK
  BY TypeInit
<1>2. refunds = <<>> /\ DOMAIN refunds = {}
  BY DEF Init
<1>3. RefundedRows(refunds) = 0
  <2>1. Of(refunds, "online", {"processed"}) = {}
    BY <1>2 DEF Of
  <2> QED BY <2>1, SumNone DEF RefundedRows, Refunded
<1>4. Books
  <2>1. Gross(online, offline) = 0
    BY DEF Init, Gross, Verified
  <2> QED BY <1>3, <2>1 DEF Init, Books
<1>5. RowsOK /\ RefundsMirrorGateway
  BY <1>2 DEF RowsOK, RefundsMirrorGateway
<1>6. ConfirmedIsCovered
  BY DEF Init, ConfirmedIsCovered
<1> QED BY <1>1, <1>4, <1>5, <1>6 DEF Inv

\* Rows that are not touched still mirror the gateway.
LEMMA SameRows ==
  ASSUME RefundsMirrorGateway, Keeps, UNCHANGED refunds
  PROVE  RefundsMirrorGateway'
BY KeptRows, MirrorIs DEF Apart

\* What is paid by verified payments does not shrink.
LEMMA GrossGrows ==
  ASSUME NEW on, NEW on2, NEW off \in Nat, NEW off2 \in Nat,
         on \in Verified => on2 \in Verified, off2 >= off
  PROVE  /\ Gross(on, off) \in Nat /\ Gross(on2, off2) \in Nat
         /\ Gross(on2, off2) >= Gross(on, off)
<1>1. /\ Gross(on, off) = IF on \in Verified THEN Advance + off ELSE off
      /\ Gross(on2, off2) = IF on2 \in Verified THEN Advance + off2 ELSE off2
  BY Numbers DEF Gross
<1> QED BY <1>1, Numbers

LEMMA StaysCovered ==
  ASSUME TypeOK, ConfirmedIsCovered, offline' \in Nat,
         online \in Verified => online' \in Verified, offline' >= offline,
         status' \in {"CONFIRMED", "COMPLETED"} => status \in {"CONFIRMED", "COMPLETED"}
  PROVE  ConfirmedIsCovered'
<1>1. offline \in Nat
  BY Typed
<1>2. /\ Gross(online, offline) \in Nat /\ Gross(online', offline') \in Nat
      /\ Gross(online', offline') >= Gross(online, offline)
  BY <1>1, GrossGrows
<1> QED BY <1>2, Numbers DEF ConfirmedIsCovered

LEMMA KeptStill ==
  ASSUME Inv, Still, Keeps, TypeOK'
  PROVE  Inv'
<1>1. RefundsMirrorGateway'
  BY SameRows DEF Inv, Still
<1>2. ConfirmedIsCovered'
  <2>1. offline \in Nat /\ offline' = offline /\ online' = online
    BY Typed DEF Inv, Still
  <2> QED BY <2>1, StaysCovered DEF Inv, Still
<1>3. RowsOK' /\ Books'
  BY DEF Inv, Still, RowsOK, Books
<1> QED BY <1>1, <1>2, <1>3 DEF Inv

LEMMA KeptOrder ==
  ASSUME Inv, CreateOrder, Keeps, TypeOK'
  PROVE  Inv'
<1>1. /\ online = "none" /\ online' = "created"
      /\ UNCHANGED <<status, offline, refunds, ledger, capture>>
  BY DEF CreateOrder, process
<1>2. RefundsMirrorGateway'
  BY <1>1, SameRows DEF Inv
<1>3. Gross(online', offline') = Gross(online, offline)
  BY <1>1 DEF Gross, Verified
<1>4. RowsOK' /\ Books'
  BY <1>1, <1>3 DEF Inv, RowsOK, Books, Verified
<1>5. ConfirmedIsCovered'
  BY <1>1, <1>3 DEF Inv, ConfirmedIsCovered
<1> QED BY <1>2, <1>4, <1>5 DEF Inv

LEMMA KeptOffline ==
  ASSUME Inv, NEW amount \in OfflineAmounts, NEW kind, RecordOffline(amount, kind),
         Keeps, TypeOK'
  PROVE  Inv'
<1>1. /\ offline = 0 /\ offline' = amount /\ UNCHANGED <<online, refunds, capture>>
      /\ ledger' = [ledger EXCEPT !.paid = @ + amount]
  BY DEF RecordOffline, process
<1>2. RefundsMirrorGateway'
  BY <1>1, SameRows DEF Inv
<1>3. amount \in Nat /\ Advance \in Nat /\ ledger \in [paid : Nat, refunded : Nat]
  BY Numbers, Typed DEF Inv
<1>4. Gross(online', offline') = Gross(online, offline) + amount
  BY <1>1, <1>3 DEF Gross
<1>5. RowsOK' /\ Books'
  BY <1>1, <1>3, <1>4 DEF Inv, RowsOK, Books
<1>6. ConfirmedIsCovered'
  <2>1. CASE status' = status
    BY <1>1, <1>3, <2>1, StaysCovered DEF Inv
  <2>2. CASE status' # status
    <3>1. Gross(online, amount) - RefundedRows(refunds) >= Advance
      BY <2>2 DEF RecordOffline
    <3>2. RefundedRows(refunds) \in Nat /\ Gross(online, amount) \in Nat
      BY <1>3, Typed, RefundedType DEF Inv, RefundedRows, Gross
    <3>3. Gross(online', offline') >= Advance
      BY <1>1, <1>3, <3>1, <3>2
    <3> QED BY <3>3 DEF ConfirmedIsCovered
  <2> QED BY <2>1, <2>2
<1> QED BY <1>2, <1>5, <1>6 DEF Inv

\* Rows that are inserted: not processed, without an id, of the right kind.
LEMMA KeptInsert ==
  ASSUME Inv, NEW first \in Nat, NEW second \in Nat, Inserted(first, second), Keeps,
         online \in Verified => online' \in Verified,
         first > 0 => online' \in Verified
  PROVE  /\ RowsOK' /\ RefundsMirrorGateway'
         /\ RefundedRows(refunds') = RefundedRows(refunds)
<1>1. /\ refunds \in Table /\ refunds' \in Table
      /\ \A i \in DOMAIN refunds : i \in DOMAIN refunds' /\ refunds'[i] = refunds[i]
      /\ \A i \in DOMAIN refunds' \ DOMAIN refunds :
           \/ first > 0 /\ refunds'[i] = OnlineRow(first)
           \/ second > 0 /\ refunds'[i] = OfflineRow(second)
  BY Typed DEF Inv, Inserted
<1>2. RefundedRows(refunds') = RefundedRows(refunds)
  <2>1. Refunded(refunds', "online", {"processed"}) =
          Refunded(refunds, "online", {"processed"})
            + IF "pending" \in {"processed"} THEN first ELSE 0
    BY <1>1, InsertedSums
  <2>2. RefundedRows(refunds) \in Nat
    BY <1>1, RefundedType DEF RefundedRows
  <2> QED BY <2>1, <2>2 DEF RefundedRows
<1>3. RowsOK'
  BY <1>1 DEF Inv, RowsOK, OnlineRow, OfflineRow
<1>4. \A i \in DOMAIN refunds' : RowMirrors(refunds'[i], issued')
  <2>1. \A i \in DOMAIN refunds : RowMirrors(refunds[i], issued')
    BY KeptRows, MirrorIs DEF Inv
  <2>2. \A i \in DOMAIN refunds' \ DOMAIN refunds :
          refunds'[i].id = Null /\ refunds'[i].status # "processed"
    BY <1>1 DEF OnlineRow, OfflineRow
  <2> QED BY <1>1, <2>1, <2>2 DEF RowMirrors
<1>5. Apart(refunds')
  <2>1. Apart(refunds)
    BY MirrorIs DEF Inv
  <2>2. \A i \in DOMAIN refunds' \ DOMAIN refunds : refunds'[i].id = Null
    BY <1>1 DEF OnlineRow, OfflineRow
  <2> QED BY <1>1, <2>1, <2>2 DEF Apart
<1>6. RefundsMirrorGateway'
  BY <1>4, <1>5, MirrorIs
<1> QED BY <1>2, <1>3, <1>6

LEMMA KeptCapture ==
  ASSUME Inv, NEW new, Capturing(new), Keeps, TypeOK'
  PROVE  Inv'
<1>1. /\ online = "created" /\ online' = "captured" /\ UNCHANGED offline
      /\ capture' = Null /\ status' = new
      /\ ledger' = [ledger EXCEPT !.paid = @ + Advance]
  BY DEF Inv, Books, Capturing, EndCapture
<1>2. /\ Advance \in Nat /\ offline \in Nat /\ refunds \in Table
      /\ ledger \in [paid : Nat, refunded : Nat]
  BY Numbers, Typed DEF Inv
<1>3. online \notin Verified /\ online' \in Verified
  BY <1>1 DEF Verified
<1>4. RowsOK' /\ RefundsMirrorGateway' /\ RefundedRows(refunds') = RefundedRows(refunds)
  <2>1. CASE UNCHANGED refunds
    <3>1. RefundsMirrorGateway'
      BY <2>1, SameRows DEF Inv
    <3>2. RowsOK'
      BY <1>3, <2>1 DEF Inv, RowsOK
    <3> QED BY <2>1, <3>1, <3>2
  <2>2. CASE AddRefunds(Advance, "captured")
    <3>1. PICK first, second :
            AreShares(Advance, "captured", first, second) /\ Inserted(first, second)
      BY <1>2, <2>2, AddedRows
    <3>2. first \in Nat /\ second \in Nat
      BY <3>1 DEF AreShares
    <3> QED BY <1>3, <3>1, <3>2, KeptInsert
  <2> QED BY <2>1, <2>2 DEF Capturing
<1>5. /\ Gross(online', offline') = Gross(online, offline) + Advance
      /\ Gross(online', offline') >= Advance
  BY <1>1, <1>2, <1>3 DEF Gross
<1>6. Books'
  BY <1>1, <1>2, <1>4, <1>5 DEF Inv, Books
<1>7. ConfirmedIsCovered'
  BY <1>5 DEF ConfirmedIsCovered
<1> QED BY <1>4, <1>6, <1>7 DEF Inv

LEMMA KeptCancel ==
  ASSUME Inv, NEW by, NEW paid, NEW refund \in Int, CancelBooking(by, paid, refund),
         Keeps, TypeOK'
  PROVE  Inv'
<1>1. UNCHANGED <<online, offline, ledger, capture>> /\ status' = "CANCELLED"
  BY DEF CancelBooking
<1>2. refunds \in Table /\ offline \in Nat
  BY Typed DEF Inv
<1>3. PICK first, second :
        AreShares(refund, online, first, second) /\ Inserted(first, second)
  BY <1>2, AddedRows DEF CancelBooking
<1>4. first \in Nat /\ second \in Nat
  BY <1>3 DEF AreShares
<1>5. first > 0 => online' \in Verified
  BY <1>1, <1>3, <1>4 DEF AreShares, Verified
<1>6. RowsOK' /\ RefundsMirrorGateway' /\ RefundedRows(refunds') = RefundedRows(refunds)
  BY <1>1, <1>3, <1>4, <1>5, KeptInsert
<1>7. Books'
  BY <1>1, <1>6 DEF Inv, Books
<1>8. ConfirmedIsCovered'
  BY <1>1 DEF ConfirmedIsCovered
<1> QED BY <1>6, <1>7, <1>8 DEF Inv

\* A table in which one row has been given the id of the gateway's refund g.
Given(rows, i, g) ==
  /\ Differ(refunds, rows, i) /\ i \in DOMAIN rows /\ g # Null
  /\ rows[i].payment = "online" /\ rows[i].id = g /\ rows[i].status # "manual"
  /\ g \in DOMAIN issued' /\ rows[i].amount = issued'[g].amount
  /\ \A j \in DOMAIN refunds : j # i => refunds[j].id # g
  /\ i \in DOMAIN refunds =>
       /\ refunds[i].payment = "online" /\ refunds[i].status = rows[i].status
       /\ refunds[i].amount = rows[i].amount
  /\ i \notin DOMAIN refunds => rows[i].status # "processed"
  /\ rows[i].status = "processed" => issued'[g].status = "processed"

\* ... and perhaps another status.
LEMMA KeptGiven ==
  ASSUME Inv, Keeps, NEW rows, NEW i, NEW g, Given(rows, i, g),
         online \in Verified, online' \in Verified,
         NEW s \in {"pending", "processed", "failed"},
         s = "processed" => issued'[g].status = "processed",
         Differ(rows, refunds', i), i \in DOMAIN refunds',
         refunds'[i] = [rows[i] EXCEPT !.status = s]
  PROVE  RowsOK' /\ RefundsMirrorGateway'
<1>1. rows \in Table /\ rows[i] \in Refund
  BY RowType DEF Given, Differ
<1>2. /\ refunds'[i].payment = "online" /\ refunds'[i].id = g
      /\ refunds'[i].status = s /\ refunds'[i].amount = issued'[g].amount
  BY <1>1 DEF Given, Refund
<1>3. \A j \in DOMAIN refunds' : j # i =>
        j \in DOMAIN refunds /\ refunds'[j] = refunds[j]
  BY DEF Given, Differ
<1>4. RowsOK'
  <2> SUFFICES ASSUME NEW j \in DOMAIN refunds'
               PROVE  /\ refunds'[j].payment = "offline" <=> refunds'[j].status = "manual"
                      /\ refunds'[j].payment = "offline" => refunds'[j].id = Null
                      /\ refunds'[j].payment = "online" => online' \in Verified
    BY DEF RowsOK
  <2>1. CASE j = i
    BY <1>2, <2>1
  <2>2. CASE j # i
    BY <1>3, <2>2 DEF Inv, RowsOK
  <2> QED BY <2>1, <2>2
<1>5. RefundsMirrorGateway'
  <2>1. \A j \in DOMAIN refunds' : RowMirrors(refunds'[j], issued')
    <3> SUFFICES ASSUME NEW j \in DOMAIN refunds'
                 PROVE  RowMirrors(refunds'[j], issued')
      OBVIOUS
    <3>1. CASE j = i
      BY <1>2, <3>1 DEF RowMirrors, Given
    <3>2. CASE j # i
      BY <1>3, <3>2, KeptRows, MirrorIs DEF Inv
    <3> QED BY <3>1, <3>2
  <2>2. Apart(refunds')
    <3>1. Apart(refunds)
      BY MirrorIs DEF Inv
    <3>2. \A j \in DOMAIN refunds' : j # i => refunds'[j].id # g
      BY <1>3 DEF Given
    <3> SUFFICES ASSUME NEW j \in DOMAIN refunds', NEW k \in DOMAIN refunds',
                        j # k, refunds'[j].id # Null
                 PROVE  refunds'[j].id # refunds'[k].id
      BY Zenon DEF Apart
    <3>3. CASE j = i \/ k = i
      BY <1>2, <3>2, <3>3
    <3>4. CASE j # i /\ k # i
      BY <1>3, <3>1, <3>4 DEF Apart
    <3> QED BY <3>3, <3>4
  <2> QED BY <2>1, <2>2, MirrorIs
<1> QED BY <1>4, <1>5

\* The row is marked processed, once.
LEMMA KeptMarked ==
  ASSUME Inv, Keeps, NEW rows, NEW i, NEW g, Given(rows, i, g), online \in Verified,
         issued'[g].status = "processed", MarkProcessed(rows, i),
         UNCHANGED <<offline, status, capture>>
  PROVE  RowsOK' /\ RefundsMirrorGateway' /\ Books' /\ online' \in Verified
<1>1. /\ rows \in Table /\ refunds \in Table /\ rows[i] \in Refund /\ i \in DOMAIN rows
      /\ ledger \in [paid : Nat, refunded : Nat]
  BY Typed, RowType DEF Given, Differ, Inv
<1>2. /\ refunds' \in Table /\ Len(refunds') = Len(rows)
      /\ ledger' \in [paid : Nat, refunded : Nat] /\ ledger'.paid = ledger.paid
      /\ online' \in {online, "refunded", "partially_refunded"}
      /\ \A j \in DOMAIN rows : j # i => refunds'[j] = rows[j]
      /\ refunds'[i] = [rows[i] EXCEPT !.status = "processed"]
  BY <1>1, Marked
<1>3. DOMAIN refunds' = DOMAIN rows
  BY <1>1, <1>2 DEF Table
<1>4. Differ(rows, refunds', i) /\ Differ(refunds, refunds', i)
  BY <1>1, <1>2, <1>3 DEF Given, Differ
<1>5. online' \in Verified
  BY <1>2 DEF Verified
<1>6. RowsOK' /\ RefundsMirrorGateway'
  BY <1>1, <1>2, <1>3, <1>4, <1>5, KeptGiven
<1>7. /\ Gross(online', offline') = Gross(online, offline)
      /\ capture = Null
  BY <1>5 DEF Inv, Books, Gross, Verified
<1>8. i \in Repaid(refunds') /\ refunds'[i].amount = rows[i].amount
  BY <1>1, <1>2, <1>3 DEF Repaid, Given, Refund
<1>9. CASE rows[i].status = "processed"
  <2>1. refunds' = rows /\ UNCHANGED <<ledger, online>>
    BY <1>9 DEF MarkProcessed
  <2>2. i \in Repaid(refunds) /\ refunds[i].amount = refunds'[i].amount
    BY <1>9, <2>1 DEF Given, Repaid
  <2>3. RefundedRows(refunds') = RefundedRows(refunds)
    BY <1>4, <1>8, <2>2, OneRow
  <2> QED BY <1>5, <1>6, <1>7, <2>1, <2>3 DEF Inv, Books
<1>10. CASE rows[i].status # "processed"
  <2> DEFINE after == [rows EXCEPT ![i].status = "processed"]
  <2>1. /\ refunds' = after
        /\ ledger' = [ledger EXCEPT !.refunded = @ + rows[i].amount]
        /\ online' = IF RefundedRows(after) >= Advance
                     THEN "refunded" ELSE "partially_refunded"
    BY <1>10 DEF MarkProcessed
  <2>2. i \notin Repaid(refunds)
    BY <1>10 DEF Given, Repaid
  <2>3. RefundedRows(refunds') = RefundedRows(refunds) + rows[i].amount
    BY <1>4, <1>8, <2>2, OneRow
  <2>4. online' = "refunded" => RefundedRows(refunds') >= Advance
    <3> HIDE DEF after
    <3> QED BY <2>1
  <2>5. ledger'.refunded = ledger.refunded + rows[i].amount
    <3> HIDE DEF after
    <3> QED BY <1>1, <2>1
  <2>6. ledger'.refunded = RefundedRows(refunds')
    BY <2>3, <2>5 DEF Inv, Books
  <2>7. Books'
    BY <1>2, <1>7, <2>4, <2>6 DEF Inv, Books
  <2> QED BY <1>5, <1>6, <2>7
<1> QED BY <1>9, <1>10

\* It is not marked processed, and was not before if its status changes.
LEMMA KeptUnmarked ==
  ASSUME Inv, Keeps, NEW rows, NEW i, NEW g, Given(rows, i, g), online \in Verified,
         UNCHANGED <<ledger, online, offline, status, capture>>,
         \/ refunds' = rows
         \/ rows[i].status = "pending" /\ refunds' = [rows EXCEPT ![i].status = "failed"]
  PROVE  RowsOK' /\ RefundsMirrorGateway' /\ Books'
<1>1. /\ rows \in Table /\ refunds \in Table /\ rows[i] \in Refund /\ i \in DOMAIN rows
      /\ rows[i].status \in {"pending", "processed", "failed"}
  BY Typed, RowType DEF Given, Differ, Inv
<1>2. PICK s \in {"pending", "processed", "failed"} :
        /\ refunds'[i] = [rows[i] EXCEPT !.status = s]
        /\ s = "processed" <=> rows[i].status = "processed"
        /\ refunds' \in Table /\ DOMAIN refunds' = DOMAIN rows
        /\ \A j \in DOMAIN rows : j # i => refunds'[j] = rows[j]
  <2>1. CASE refunds' = rows
    <3>1. rows[i] = [rows[i] EXCEPT !.status = rows[i].status]
      BY <1>1 DEF Refund
    <3> QED BY <1>1, <2>1, <3>1
  <2>2. CASE rows[i].status = "pending" /\ refunds' = [rows EXCEPT ![i].status = "failed"]
    <3>1. PICK row \in Refund : row = [rows[i] EXCEPT !.status = "failed"]
      BY <1>1 DEF Refund
    <3>2. refunds' = [rows EXCEPT ![i] = row]
      BY <2>2, <3>1
    <3>3. /\ refunds' \in Table /\ DOMAIN refunds' = DOMAIN rows /\ refunds'[i] = row
          /\ \A j \in DOMAIN rows : j # i => refunds'[j] = rows[j]
      BY <1>1, <3>2 DEF Table
    <3> QED BY <2>2, <3>1, <3>3
  <2> QED BY <2>1, <2>2
<1>3. Differ(rows, refunds', i) /\ Differ(refunds, refunds', i)
  BY <1>1, <1>2 DEF Given, Differ
<1>4. RowsOK' /\ RefundsMirrorGateway'
  <2>1. s = "processed" => issued'[g].status = "processed"
    BY <1>2 DEF Given
  <2> QED BY <1>1, <1>2, <1>3, <2>1, KeptGiven
<1>5. RefundedRows(refunds') = RefundedRows(refunds)
  <2>1. /\ i \in Repaid(refunds) <=> i \in Repaid(refunds')
        /\ i \in Repaid(refunds) => refunds'[i].amount = refunds[i].amount
    BY <1>1, <1>2 DEF Given, Repaid, Refund
  <2> QED BY <1>3, <2>1, OneRow
<1> QED BY <1>4, <1>5 DEF Inv, Books

LEMMA KeptAccepted ==
  ASSUME Inv, NEW i \in DOMAIN refunds, NEW st \in {"pending", "processed"},
         IssueAccepted(i, st), Keeps, TypeOK'
  PROVE  Inv'
<1> DEFINE g == Len(issued) + 1
           rows == [refunds EXCEPT ![i].id = g]
<1>1. /\ refunds \in Table /\ refunds[i] \in Refund /\ refunds[i].amount \in Nat \ {0}
      /\ Len(issued) \in Nat /\ DOMAIN issued = 1..Len(issued)
  BY Typed, RowType, Numbers DEF Inv
<1>2. /\ GatewayRefund(refunds[i].amount, st)
      /\ refunds[i].status = "pending" /\ refunds[i].id = Null
      /\ UNCHANGED <<offline, status, capture>>
  BY DEF IssueAccepted, Sendable, Unsent
<1>3. /\ issued' \in Seq(Provided) /\ Len(issued') = Len(issued) + 1
      /\ Len(issued') \in 1..MaxIssued
      /\ issued'[Len(issued')] = [amount |-> refunds[i].amount, status |-> st]
  BY <1>1, <1>2, Granted, Zenon DEF Inv
<1>4. /\ g \in 1..MaxIssued /\ g \in DOMAIN issued' /\ g \notin DOMAIN issued
      /\ issued'[g].amount = refunds[i].amount /\ issued'[g].status = st
  BY <1>1, <1>3
<1>5. refunds[i].payment = "online" /\ online \in Verified
  BY <1>1, <1>2 DEF Inv, RowsOK, Refund
<1>6. PICK row \in Refund : row = [refunds[i] EXCEPT !.id = g]
  BY <1>1, <1>4 DEF Refund
<1>7. rows = [refunds EXCEPT ![i] = row]
  BY <1>6
<1>8. row.payment = "online" /\ row.status = "pending" /\ row.id = g
      /\ row.amount = refunds[i].amount
  BY <1>1, <1>2, <1>5, <1>6 DEF Refund
<1>9. \/ st = "processed" /\ MarkProcessed(rows, i)
      \/ st = "pending" /\ refunds' = rows /\ UNCHANGED <<ledger, online>>
  BY DEF IssueAccepted
<1> HIDE DEF rows, g
<1>10. /\ rows \in Table /\ DOMAIN rows = DOMAIN refunds /\ rows[i] = row
       /\ \A j \in DOMAIN refunds : j # i => rows[j] = refunds[j]
  BY <1>1, <1>7 DEF Table
<1>11. \A j \in DOMAIN refunds : refunds[j].id # g
  BY <1>4, Numbers, MirrorIs DEF Inv, RowMirrors
<1>12. Given(rows, i, g)
  BY <1>1, <1>2, <1>4, <1>5, <1>8, <1>10, <1>11, Numbers DEF Given, Differ
<1>13. RowsOK' /\ RefundsMirrorGateway' /\ Books' /\ online' \in Verified
  <2>1. CASE st = "processed" /\ MarkProcessed(rows, i)
    BY <1>2, <1>4, <1>5, <1>12, <2>1, KeptMarked
  <2>2. CASE st = "pending" /\ refunds' = rows /\ UNCHANGED <<ledger, online>>
    BY <1>2, <1>5, <1>12, <2>2, KeptUnmarked
  <2> QED BY <1>9, <2>1, <2>2
<1>14. ConfirmedIsCovered'
  <2>1. offline \in Nat /\ offline' = offline
    BY <1>2, Typed DEF Inv
  <2> QED BY <1>2, <1>13, <2>1, StaysCovered DEF Inv
<1> QED BY <1>13, <1>14 DEF Inv

LEMMA KeptFailed ==
  ASSUME Inv, NEW i \in DOMAIN refunds, IssueFailed(i), Keeps, TypeOK'
  PROVE  Inv'
<1>1. /\ refunds \in Table /\ refunds[i] \in Refund
  BY Typed, RowType DEF Inv
<1>2. /\ refunds[i].status = "pending" /\ refunds[i].id = Null
      /\ UNCHANGED <<online, offline, ledger, status, capture>>
  BY DEF IssueFailed, Sendable, Unsent
<1>3. PICK row \in Refund : row = [refunds[i] EXCEPT !.status = "failed"]
  BY <1>1 DEF Refund
<1>4. refunds' = [refunds EXCEPT ![i] = row]
  BY <1>3 DEF IssueFailed
<1>5. /\ refunds' \in Table /\ DOMAIN refunds' = DOMAIN refunds /\ refunds'[i] = row
      /\ \A j \in DOMAIN refunds : j # i => refunds'[j] = refunds[j]
  BY <1>1, <1>4 DEF Table
<1>6. row.payment = refunds[i].payment /\ row.status = "failed" /\ row.id = Null
  BY <1>1, <1>2, <1>3 DEF Refund
<1>7. refunds[i].payment = "online"
  BY <1>1, <1>2 DEF Inv, RowsOK, Refund
<1>8. RowsOK'
  <2> SUFFICES ASSUME NEW j \in DOMAIN refunds'
               PROVE  /\ refunds'[j].payment = "offline" <=> refunds'[j].status = "manual"
                      /\ refunds'[j].payment = "offline" => refunds'[j].id = Null
                      /\ refunds'[j].payment = "online" => online' \in Verified
    BY DEF RowsOK
  <2>1. CASE j = i
    BY <1>2, <1>5, <1>6, <1>7, <2>1 DEF Inv, RowsOK
  <2>2. CASE j # i
    BY <1>2, <1>5, <2>2 DEF Inv, RowsOK
  <2> QED BY <2>1, <2>2
<1>9. RefundsMirrorGateway'
  <2>1. \A j \in DOMAIN refunds' : RowMirrors(refunds'[j], issued')
    <3> SUFFICES ASSUME NEW j \in DOMAIN refunds'
                 PROVE  RowMirrors(refunds'[j], issued')
      OBVIOUS
    <3>1. CASE j = i
      BY <1>5, <1>6, <3>1 DEF RowMirrors
    <3>2. CASE j # i
      BY <1>5, <3>2, KeptRows, MirrorIs DEF Inv
    <3> QED BY <3>1, <3>2
  <2>2. Apart(refunds')
    <3>1. Apart(refunds)
      BY MirrorIs DEF Inv
    <3>2. \A j \in DOMAIN refunds : refunds'[j].id = refunds[j].id
      BY <1>2, <1>5, <1>6
    <3> QED BY <1>5, <3>1, <3>2 DEF Apart
  <2> QED BY <2>1, <2>2, MirrorIs
<1>10. RefundedRows(refunds') = RefundedRows(refunds)
  <2>1. Differ(refunds, refunds', i)
    BY <1>1, <1>5 DEF Differ
  <2>2. i \notin Repaid(refunds) /\ i \notin Repaid(refunds')
    BY <1>2, <1>5, <1>6 DEF Repaid
  <2> QED BY <2>1, <2>2, OneRow
<1>11. Books'
  BY <1>2, <1>10 DEF Inv, Books
<1>12. ConfirmedIsCovered'
  BY <1>2 DEF Inv, ConfirmedIsCovered
<1> QED BY <1>8, <1>9, <1>11, <1>12 DEF Inv

LEMMA KeptProvider ==
  ASSUME Inv, NEW g \in DOMAIN issued, ApplyProviderRefund(g), Keeps, TypeOK'
  PROVE  Inv'
<1>1. PICK i, rows : i = IndexOf(g) /\ rows = RowsWith(g)
  OBVIOUS
<1>2. Finds(g, i, rows)
  BY <1>1, RowFound DEF Inv
<1>3. /\ online \in Verified /\ UNCHANGED <<offline, status, capture, issued>>
      /\ \/ issued[g].status = "processed" /\ MarkProcessed(rows, i)
         \/ MarkFailed(rows, i)
  BY <1>1 DEF ApplyProviderRefund, outside
<1>4. /\ refunds \in Table /\ DOMAIN refunds = 1..Len(refunds) /\ Len(refunds) \in Nat
      /\ g \in 1..MaxIssued /\ g # Null
  BY Typed, Numbers DEF Inv
<1>5. /\ rows \in Table /\ DOMAIN rows = 1..Len(rows) /\ Len(rows) \in Nat
      /\ i \in DOMAIN rows
  BY <1>2 DEF Finds, Table
<1>6. Differ(refunds, rows, i)
  <2>1. Len(refunds) <= Len(rows)
    BY <1>2 DEF Finds
  <2>2. DOMAIN refunds \subseteq DOMAIN rows
    BY <1>4, <1>5, <2>1
  <2> QED BY <1>2, <1>4, <1>5, <2>2 DEF Finds, Differ
<1>7. Given(rows, i, g)
  <2>1. CASE i \in DOMAIN refunds
    <3>1. refunds[i] \in Refund /\ rows[i] = [refunds[i] EXCEPT !.id = g]
      BY <1>2, <1>4, <2>1, RowType DEF Finds
    <3>2. /\ rows[i].payment = refunds[i].payment /\ rows[i].status = refunds[i].status
          /\ rows[i].amount = refunds[i].amount /\ rows[i].id = g
      BY <3>1 DEF Refund
    <3>3. refunds[i].payment = "online" /\ refunds[i].status # "manual"
      <4>1. refunds[i].payment = "online" \/ refunds[i].id = g
        BY <1>2, <3>2 DEF Finds
      <4> QED BY <1>4, <2>1, <3>1, <4>1 DEF Inv, RowsOK, Refund
    <3>4. /\ refunds[i].amount = issued[g].amount
          /\ refunds[i].status = "processed" => issued[g].status = "processed"
          /\ \A j \in DOMAIN refunds : j # i => refunds[j].id # g
      <4>1. CASE refunds[i].id = g
        BY <1>4, <2>1, <4>1, MirrorIs DEF Inv, RowMirrors, Apart
      <4>2. CASE refunds[i].id # g
        BY <1>2, <2>1, <4>2 DEF Finds
      <4> QED BY <4>1, <4>2
    <3> QED BY <1>3, <1>4, <1>5, <1>6, <2>1, <3>2, <3>3, <3>4 DEF Given
  <2>2. CASE i \notin DOMAIN refunds
    <3>1. /\ rows[i].payment = "online" /\ rows[i].status = "pending"
          /\ rows[i].id = g /\ rows[i].amount = issued[g].amount
          /\ \A j \in DOMAIN refunds : refunds[j].id # g
      BY <1>2, <2>2 DEF Finds
    <3> QED BY <1>3, <1>4, <1>5, <1>6, <2>2, <3>1 DEF Given
  <2> QED BY <2>1, <2>2
<1>8. RowsOK' /\ RefundsMirrorGateway' /\ Books' /\ online' \in Verified
  <2>1. CASE issued[g].status = "processed" /\ MarkProcessed(rows, i)
    BY <1>3, <1>7, <2>1, KeptMarked
  <2>2. CASE MarkFailed(rows, i)
    <3>1. /\ UNCHANGED <<ledger, online>>
          /\ \/ refunds' = rows
             \/ /\ rows[i].status = "pending"
                /\ refunds' = [rows EXCEPT ![i].status = "failed"]
      BY <2>2 DEF MarkFailed
    <3> QED BY <1>3, <1>7, <3>1, KeptUnmarked
  <2> QED BY <1>3, <2>1, <2>2
<1>9. ConfirmedIsCovered'
  <2>1. offline \in Nat /\ offline' = offline
    BY <1>3, Typed DEF Inv
  <2> QED BY <1>3, <1>8, <2>1, StaysCovered DEF Inv
<1> QED BY <1>8, <1>9 DEF Inv

LEMMA InvStep ==
  ASSUME Inv, [Next]_vars
  PROVE  Inv'
<1>1. Kinds /\ Keeps
  BY Stepping DEF Inv
<1>2. TypeOK'
  BY TypeStep DEF Inv
<1> QED BY <1>1, <1>2, KeptStill, KeptOrder, KeptOffline, KeptCapture, KeptCancel,
           KeptAccepted, KeptFailed, KeptProvider DEF Kinds

LEMMA Invariance == Spec => []Inv
<1>1. Inv /\ [Next]_vars => Inv'
  BY InvStep
<1> QED BY <1>1, InvInit, PTL DEF Spec

-----------------------------------------------------------------------------
(* Theorems.                                                               *)

\* The ledger's entries and the rows of payments and refunds agree, whichever
\* of a capture, an offline payment, a refund call and a webhook writes them
\* (the ledger_drift query of the nightly reconcile finds nothing).
THEOREM LedgerAgrees == Spec => []LedgerMatchesRows
<1>1. Inv => LedgerMatchesRows
  <2> SUFFICES ASSUME Inv PROVE LedgerMatchesRows
    OBVIOUS
  <2>1. ledger.paid = Gross(online, offline) /\ ledger.refunded = RefundedRows(refunds)
    BY DEF Inv, Books
  <2> QED BY <2>1 DEF LedgerMatchesRows, NetPaid
<1> QED BY <1>1, Invariance, PTL

\* Refunds with the gateway's id are the gateway's refunds, each once, although
\* applyProviderRefund may find a row by its amount before our own call has
\* stored the id.
THEOREM RefundsAgree == Spec => []RefundsMirrorGateway
<1>1. Inv => RefundsMirrorGateway
  BY DEF Inv
<1> QED BY <1>1, Invariance, PTL

\* A confirmed booking has its advance in full, be it captured, recorded by the
\* vendor or both (the capture's transaction, recordOfflinePayment).
THEOREM ConfirmedIsPaid == Spec => []ConfirmedIsCovered
<1>1. Inv => ConfirmedIsCovered
  BY DEF Inv
<1> QED BY <1>1, Invariance, PTL

\* The shares that an insert adds to the refunds that stand, or are pending.
LEMMA Shares ==
  ASSUME Inv, NEW amount \in Int, NEW on, AddRefunds(amount, on)
  PROVE  \E first \in Nat, second \in Nat :
           /\ AreShares(amount, on, first, second)
           /\ Refunded(refunds', "online", {"pending"}) =
                Refunded(refunds, "online", {"pending"}) + first
           /\ Refunded(refunds', "online", Standing) =
                Refunded(refunds, "online", Standing) + first
           /\ Refunded(refunds', "offline", Standing) =
                Refunded(refunds, "offline", Standing) + second
<1>1. refunds \in Table /\ offline \in Nat
  BY Typed DEF Inv
<1>2. PICK first, second : AreShares(amount, on, first, second) /\ Inserted(first, second)
  BY <1>1, AddedRows
<1>3. first \in Nat /\ second \in Nat
  BY <1>2 DEF AreShares
<1>4. Refunded(refunds', "online", {"pending"}) =
        Refunded(refunds, "online", {"pending"})
          + IF "pending" \in {"pending"} THEN first ELSE 0
  BY <1>1, <1>2, <1>3, InsertedSums
<1>5. /\ Refunded(refunds', "online", Standing) =
           Refunded(refunds, "online", Standing)
             + IF "pending" \in Standing THEN first ELSE 0
      /\ Refunded(refunds', "offline", Standing) =
           Refunded(refunds, "offline", Standing)
             + IF "manual" \in Standing THEN second ELSE 0
  BY <1>1, <1>2, <1>3, InsertedSums
<1>6. "pending" \in Standing /\ "manual" \in Standing
  BY DEF Standing
<1> QED BY <1>2, <1>3, <1>4, <1>5, <1>6

\* A payment is recorded only by the end of a capture.
LEMMA OnlyCaptures ==
  ASSUME Inv, [Next]_vars, online = "created", online' = "captured"
  PROVE  \E new : Capturing(new)
<1>1. Kinds
  BY Stepping DEF Inv
<1>2. ASSUME NEW rows, NEW i, MarkProcessed(rows, i)
      PROVE  FALSE
  BY <1>2 DEF MarkProcessed
<1>3. ~ Still /\ ~ CreateOrder /\ \A amount, kind : ~ RecordOffline(amount, kind)
  BY DEF Still, CreateOrder, RecordOffline
<1>4. /\ \A by, paid, refund : ~ CancelBooking(by, paid, refund)
      /\ \A i : ~ IssueFailed(i)
  BY DEF CancelBooking, IssueFailed
<1>5. ASSUME NEW i, NEW st, IssueAccepted(i, st)
      PROVE  FALSE
  BY <1>2, <1>5 DEF IssueAccepted
<1>6. ASSUME NEW g, ApplyProviderRefund(g)
      PROVE  FALSE
  BY <1>6 DEF ApplyProviderRefund, Verified
<1> QED BY <1>1, <1>3, <1>4, <1>5, <1>6 DEF Kinds

\* A capture that is recorded confirms the booking or queues the whole amount for
\* refund in the same transaction, whatever became of the booking since its status
\* was read.
THEOREM CaptureSettles == Spec => CaptureConfirmsOrRefunds
<1>1. ASSUME Inv, [Next]_vars, online = "created", online' = "captured"
      PROVE  \/ status # "CONFIRMED" /\ status' = "CONFIRMED"
             \/ Refunded(refunds', "online", {"pending"}) = Advance
  <2>1. PICK new : Capturing(new)
    BY <1>1, OnlyCaptures
  <2>2. CASE /\ UNCHANGED refunds /\ new = "CONFIRMED"
             /\ status \in {"PENDING", "EXPIRED"}
    BY <2>1, <2>2 DEF Capturing, EndCapture
  <2>3. CASE AddRefunds(Advance, "captured")
    <3>1. Advance \in Nat \ {0} /\ Advance \in Int
      BY Numbers
    <3>2. PICK first \in Nat, second \in Nat :
            /\ AreShares(Advance, "captured", first, second)
            /\ Refunded(refunds', "online", {"pending"}) =
                 Refunded(refunds, "online", {"pending"}) + first
      BY <1>1, <2>3, <3>1, Shares
    <3>3. ASSUME NEW states
          PROVE  Refunded(refunds, "online", states) = 0
      <4>1. Of(refunds, "online", states) = {}
        BY <1>1 DEF Inv, RowsOK, Of, Verified
      <4> QED BY <4>1, SumNone DEF Refunded
    <3>4. /\ first = 0 \/ first <= Advance
          /\ first >= Advance \/ first >= Advance - Refunded(refunds, "online", Standing)
      BY <3>2 DEF AreShares
    <3>5. Refunded(refunds, "online", Standing) = 0
      BY <3>3
    <3>6. Refunded(refunds', "online", {"pending"}) = 0 + first
      BY <3>2, <3>3
    <3> QED BY <3>1, <3>4, <3>5, <3>6
  <2> QED BY <2>1, <2>2, <2>3 DEF Capturing
<1>2. Inv /\ [Next]_vars =>
        [online = "created" /\ online' = "captured" =>
           \/ status # "CONFIRMED" /\ status' = "CONFIRMED"
           \/ Refunded(refunds', "online", {"pending"}) = Advance]_vars
  BY <1>1
<1> QED BY <1>2, Invariance, PTL DEF Spec, CaptureConfirmsOrRefunds

\* A booking is cancelled only by its customer or its vendor.
LEMMA OnlyCancels ==
  ASSUME [Next]_vars, cancelled' # cancelled
  PROVE  CustomerCancel \/ VendorCancel
<1> USE DEF database, process, outside
<1>1. ~ Money
  BY DEF Money, CreateOrder, Expire, Complete, RecordOffline, BeginCapture,
       FinishCapture, ConfirmPaid, ReclaimExpired, ParkExpired, RefundUnwanted,
       EndCapture, AbortCapture, AddRefunds
<1>2. ~ Webhooks
  BY DEF Webhooks, Receive, AlreadyCaptured, FlagStuck, Reprocess, Finish
<1>3. ~ Gateway
  BY DEF Gateway, Charge, ApplyProviderRefund, RefundNotYetKnown, SettleRefund,
       DashboardRefund
<1>4. \A i : ~ IssueRefund(i)
  BY DEF IssueRefund, IssueAccepted, IssueFailed, IssueSkipped
<1>5. ~ TimePasses /\ ~ Crash /\ ~ UNCHANGED vars
  BY DEF TimePasses, Crash, vars
<1>6. ~ ViewCancellation /\ ~ CancelRefused
  BY DEF ViewCancellation, CancelRefused
<1> QED BY <1>1, <1>2, <1>3, <1>4, <1>5, <1>6 DEF Next, Cancelling

\* A cancellation by the vendor covers all that was paid.
LEMMA VendorCovers ==
  ASSUME Inv, VendorCancel
  PROVE  Gross(online, offline) <= Refunded(refunds', "online", Standing)
                                 + Refunded(refunds', "offline", Standing)
<1> DEFINE paid == IF online \in Verified THEN Advance ELSE 0
           done == RefundedRows(refunds)
           stand == Refunded(refunds, "online", Standing)
           byHand == Refunded(refunds, "offline", Standing)
<1>1. /\ refunds \in Table /\ offline \in Nat /\ Advance \in Nat
      /\ NetPaid \in Int
  BY Typed, Numbers DEF Inv
<1>2. done \in Nat /\ stand \in Nat /\ byHand \in Nat /\ done <= stand
  <2>1. {"processed"} \in SUBSET Standing
    BY DEF Standing
  <2> QED BY <1>1, <2>1, RefundedType, RefundedGrows DEF RefundedRows
<1>3. /\ Gross(online, offline) = paid + offline /\ paid \in Nat
      /\ NetPaid = paid + offline - done
  <2>1. Gross(online, offline) = paid + offline /\ paid \in Nat
    BY <1>1 DEF Gross
  <2>2. NetPaid = Gross(online, offline) - done
    BY Zenon DEF NetPaid
  <2> HIDE DEF paid, done
  <2> QED BY <1>1, <1>2, <2>1, <2>2
<1>4. AddRefunds(NetPaid, online)
  BY DEF VendorCancel, CancelBooking
<1>5. PICK first \in Nat, second \in Nat :
        /\ AreShares(NetPaid, online, first, second)
        /\ Refunded(refunds', "online", Standing) = stand + first
        /\ Refunded(refunds', "offline", Standing) = byHand + second
  BY <1>1, <1>4, Shares
<1>6. /\ online \in {"captured", "partially_refunded"} =>
           first >= NetPaid \/ first >= Advance - stand
      /\ second >= NetPaid - first \/ second >= offline - byHand
  BY <1>5 DEF AreShares
<1>7. online \notin {"captured", "partially_refunded"} => paid = 0 \/ done >= Advance
  BY DEF Inv, Books, Verified
<1>8. paid = 0 \/ paid = Advance
  OBVIOUS
<1> HIDE DEF paid, done, stand, byHand
<1>9. paid + offline <= stand + first + byHand + second
  <2>1. \/ first >= NetPaid \/ first >= Advance - stand \/ paid = 0 \/ done >= Advance
    BY <1>6, <1>7
  <2> QED BY <1>1, <1>2, <1>3, <1>6, <1>8, <2>1
<1> QED BY <1>2, <1>3, <1>5, <1>9

\* After the vendor cancels, the refunds that stand cover all that was paid,
\* however createRefundRows has to split the amount over the payments.
THEOREM VendorRepaysAll == Spec => VendorCancelRefundsAll
<1> DEFINE Covered == Gross(online, offline) <= Refunded(refunds', "online", Standing)
                                              + Refunded(refunds', "offline", Standing)
<1>1. ASSUME Inv, VendorCancel
      PROVE  Covered
  BY <1>1, VendorCovers
<1>2. Inv /\ [Next]_vars =>
        [cancelled = Null /\ cancelled' # Null =>
           cancelled'.by = "customer" \/ Covered]_vars
  <2> SUFFICES ASSUME Inv, [Next]_vars, cancelled = Null, cancelled' # Null
               PROVE  cancelled'.by = "customer" \/ Covered
    OBVIOUS
  <2>1. CustomerCancel \/ VendorCancel
    BY OnlyCancels
  <2>2. CustomerCancel => cancelled'.by = "customer"
    BY DEF CustomerCancel, CancelBooking
  <2> HIDE DEF Covered
  <2> QED BY <1>1, <2>1, <2>2
<1> QED BY <1>2, Invariance, PTL DEF Spec, VendorCancelRefundsAll
=============================================================================
