--------------------------- MODULE BookingsProofs ---------------------------
(***************************************************************************)
(* Proofs about Bookings, for every set of bookings, spans and time off.   *)
(* Each theorem has the shape Init => Inv, Inv /\ [Next]_vars => Inv', and *)
(* rests on the theorems before it.                                        *)
(***************************************************************************)
EXTENDS Bookings, TLAPS

\* What the lazy expiry may do to a status: only an unpaid hold changes, and
\* it changes to EXPIRED (booking-transition.ts, expireOverdueHolds).
LEMMA SweptStatus ==
  ASSUME TypeOK, NEW skipped
  PROVE  /\ Swept(skipped) \in [Booking -> Statuses]
         /\ \A b \in Booking :
              \/ Swept(skipped)[b] = status[b]
              \/ /\ Swept(skipped)[b] = "EXPIRED"
                 /\ status[b] \in {"HELD", "PENDING"}
                 /\ ~ Captured(b)
  BY DEF TypeOK, Swept, Statuses

\* A sold range lies within the range that carries its buffers.
LEMMA ServiceWithinBlock ==
  ASSUME NEW s \in Span, NEW o \in Off, ~ Overlaps(s, o)
  PROVE  ~ Overlaps(ServiceRange(s), o)
  <1>1. SpanOK(s) /\ o.from \in Nat /\ o.to \in Nat
    BY SpanAssumption, OffAssumption
  <1> QED BY <1>1 DEF SpanOK, Overlaps, ServiceRange

-----------------------------------------------------------------------------

LEMMA InitType == Init => TypeOK
  <1>1. (CHOOSE s \in Span : TRUE) \in Span
    BY SpanAssumption
  <1> QED BY <1>1, TimeAssumption DEF Init, TypeOK, Statuses

LEMMA InsertType ==
  ASSUME TypeOK, NEW skipped, NEW b \in Booking, NEW s \in Span,
         NEW new \in Statuses, NEW until \in Int \cup {Null},
         NEW due \in BOOLEAN,
         Insert(b, s, Swept(skipped), new, until, due)
  PROVE  TypeOK'
  <1>1. Swept(skipped) \in [Booking -> Statuses] BY SweptStatus
  <1> QED BY <1>1 DEF Insert, TypeOK

LEMMA EndCaptureType ==
  ASSUME TypeOK, NEW b \in Booking, NEW new \in Statuses, EndCapture(b, new),
         unlocked' \subseteq Booking
  PROVE  TypeOK'
  BY DEF EndCapture, SetStatus, TypeOK

LEMMA NextType == TypeOK /\ [Next]_vars => TypeOK'
  <1> SUFFICES ASSUME TypeOK, [Next]_vars PROVE TypeOK'
    OBVIOUS
  <1>1. ASSUME NEW skipped \in SUBSET Booking, VendorLocked(skipped)
        PROVE  TypeOK'
    <2>1. Swept(skipped) \in [Booking -> Statuses] BY SweptStatus
    <2>2. ASSUME NEW b \in Booking, NEW s \in Span, NEW due \in BOOLEAN,
                 CreateHold(b, s, due, skipped)
          PROVE  TypeOK'
      <3>1. "HELD" \in Statuses /\ clock + HoldTime \in Int
        BY TimeAssumption DEF Statuses, TypeOK
      <3> QED BY <2>2, <3>1, InsertType DEF CreateHold
    <2>3. ASSUME NEW b \in Booking, NEW s \in Span,
                 ManualBooking(b, s, skipped)
          PROVE  TypeOK'
      BY <2>3, InsertType DEF ManualBooking, Statuses
    <2>4. ASSUME NEW b \in Booking, NEW s \in Span, Reschedule(b, s, skipped)
          PROVE  TypeOK'
      BY <2>1, <2>4 DEF Reschedule, TypeOK
    <2>5. ASSUME NEW o \in Off, BlockTime(o, skipped) PROVE TypeOK'
      BY <2>1, <2>5 DEF BlockTime, TypeOK
    <2>6. ASSUME ExpireHolds(skipped) PROVE TypeOK'
      BY <2>1, <2>6 DEF ExpireHolds, TypeOK
    <2> QED BY <1>1, <2>2, <2>3, <2>4, <2>5, <2>6 DEF VendorLocked
  <1>2. ASSUME NEW o \in Off, UnblockTime(o) PROVE TypeOK'
    BY <1>2 DEF UnblockTime, TypeOK
  <1>3. ASSUME NEW b \in Booking, RowLocked(b) PROVE TypeOK'
    <2>1. CASE AcceptTerms(b)
      <3>1. clock + RequestHoldTime \in Int
        BY TimeAssumption DEF TypeOK
      <3>2. /\ status' \in [Booking -> Statuses]
            /\ expires' \in [Booking -> Int \cup {Null}]
        BY <2>1, <3>1 DEF AcceptTerms, SetStatus, TypeOK, Statuses
      <3> QED BY <2>1, <3>2 DEF AcceptTerms, SetStatus, TypeOK
    <2>2. CASE CreateOrder(b)
      BY <2>2 DEF CreateOrder, TypeOK
    <2>3. ASSUME NEW covers \in BOOLEAN, OfflinePayment(b, covers)
          PROVE  TypeOK'
      <3>1. status' \in [Booking -> Statuses]
        BY <2>3 DEF OfflinePayment, SetStatus, TypeOK, Statuses
      <3> QED BY <2>3, <3>1 DEF OfflinePayment, SetStatus, TypeOK
    <2>4. CASE Cancel(b)
      BY <2>4 DEF Cancel, SetStatus, TypeOK, Statuses
    <2>5. CASE VendorComplete(b)
      BY <2>5 DEF VendorComplete, SetStatus, TypeOK, Statuses
    <2>6. CASE BeginCapture(b)
      BY <2>6 DEF BeginCapture, TypeOK
    <2>7. CASE FinishCapture(b)
      <3>0. /\ {"CONFIRMED", "EXPIRED_PAID", status[b]} \subseteq Statuses
            /\ unlocked \subseteq Booking
        BY DEF Statuses, TypeOK
      <3>1. CASE ConfirmPaid(b)
        BY <3>0, <3>1, EndCaptureType DEF ConfirmPaid
      <3>2. CASE ReclaimExpired(b)
        BY <3>0, <3>2, EndCaptureType DEF ReclaimExpired
      <3>3. CASE ParkExpired(b)
        BY <3>0, <3>3, EndCaptureType DEF ParkExpired
      <3>4. CASE RefundUnwanted(b)
        BY <3>0, <3>4, EndCaptureType DEF RefundUnwanted
      <3>5. CASE AbortCapture(b)
        BY <3>5 DEF AbortCapture, TypeOK
      <3> QED BY <2>7, <3>1, <3>2, <3>3, <3>4, <3>5 DEF FinishCapture
    <2> QED BY <1>3, <2>1, <2>2, <2>3, <2>4, <2>5, <2>6, <2>7 DEF RowLocked
  <1>4. CASE Tick
    BY <1>4, TimeAssumption DEF Tick, TypeOK
  <1>5. CASE UNCHANGED vars
    BY <1>5 DEF vars, TypeOK
  <1> QED BY <1>1, <1>2, <1>3, <1>4, <1>5 DEF Next

\* Every column of the tables and every status read keeps its type.
THEOREM Typing == Spec => []TypeOK
  BY InitType, NextType, PTL DEF Spec

-----------------------------------------------------------------------------
(* Payments.  A capture reads a status and acts on it later; what it read  *)
(* bounds what the booking can have become since.                          *)

CaptureInv ==
  \A b \in Booking :
    /\ seen[b] # Null => online[b] = "open"
    /\ online[b] = "open" => status[b] \notin {"NONE", "HELD"}
    /\ seen[b] \notin {Null, "PENDING", "EXPIRED"} =>
         status[b] \notin {"NONE", "HELD", "PENDING", "EXPIRED"}

PaidInv == CaptureInv /\ ExpiredIsUnpaid /\ ConfirmedIsPaid

LEMMA InitPaid == Init => PaidInv
  BY DEF Init, PaidInv, CaptureInv, ExpiredIsUnpaid, ConfirmedIsPaid, Captured

\* Statuses other than those of b only go through lazy expiry.
LEMMA InsertPaid ==
  ASSUME TypeOK, PaidInv, NEW skipped, NEW b \in Booking, NEW s \in Span,
         NEW new \in {"HELD", "CONFIRMED"}, NEW until, NEW due \in BOOLEAN,
         new = "CONFIRMED" => due = FALSE,
         Insert(b, s, Swept(skipped), new, until, due)
  PROVE  PaidInv'
  <1>1. PICK st : /\ st = Swept(skipped)
                  /\ st \in [Booking -> Statuses]
                  /\ \A c \in Booking :
                       \/ st[c] = status[c]
                       \/ /\ st[c] = "EXPIRED"
                          /\ status[c] \in {"HELD", "PENDING"}
                          /\ ~ Captured(c)
    BY SweptStatus
  <1>2. /\ status[b] = "NONE" /\ online[b] # "open" /\ seen[b] = Null
        /\ status' = [st EXCEPT ![b] = new]
        /\ advance' = [advance EXCEPT ![b] = due]
        /\ UNCHANGED <<online, offline, seen>>
    BY <1>1 DEF Insert, PaidInv, CaptureInv
  <1>3. \A c \in Booking : Captured(c)' = Captured(c)
    BY <1>2 DEF Captured
  <1>4. CaptureInv'
    BY <1>1, <1>2 DEF PaidInv, CaptureInv, TypeOK, Statuses
  <1>5. ExpiredIsUnpaid'
    BY <1>1, <1>2, <1>3 DEF PaidInv, ExpiredIsUnpaid, TypeOK, Statuses
  <1>6. ConfirmedIsPaid'
    BY <1>1, <1>2, <1>3 DEF PaidInv, ConfirmedIsPaid, TypeOK, Statuses
  <1> QED BY <1>4, <1>5, <1>6 DEF PaidInv

\* Lazy expiry alone keeps the payment invariants.
LEMMA SweepPaid ==
  ASSUME TypeOK, PaidInv, NEW skipped, status' = Swept(skipped),
         UNCHANGED <<advance, online, offline, seen>>
  PROVE  PaidInv'
  <1>1. PICK st : /\ status' = st
                  /\ st \in [Booking -> Statuses]
                  /\ \A c \in Booking :
                       \/ st[c] = status[c]
                       \/ /\ st[c] = "EXPIRED"
                          /\ status[c] \in {"HELD", "PENDING"}
                          /\ ~ Captured(c)
    BY SweptStatus
  <1>2. \A c \in Booking : Captured(c)' = Captured(c)
    BY DEF Captured
  <1>3. CaptureInv'
    BY <1>1 DEF PaidInv, CaptureInv, TypeOK, Statuses
  <1>4. ExpiredIsUnpaid' /\ ConfirmedIsPaid'
    BY <1>1, <1>2 DEF PaidInv, ExpiredIsUnpaid, ConfirmedIsPaid, TypeOK,
                      Statuses
  <1> QED BY <1>3, <1>4 DEF PaidInv

\* The end of a capture, when the status it leaves is not a live one.
LEMMA EndCapturePaid ==
  ASSUME TypeOK, PaidInv, NEW b \in Booking, seen[b] # Null, NEW new,
         new \in Statuses \ {"NONE", "HELD", "PENDING", "EXPIRED"},
         EndCapture(b, new)
  PROVE  PaidInv'
  <1>1. \A c \in Booking : Captured(c)' <=> (c = b \/ Captured(c))
    BY DEF EndCapture, SetStatus, Captured, TypeOK
  <1>2. CaptureInv'
    BY DEF EndCapture, SetStatus, PaidInv, CaptureInv, TypeOK
  <1>3. ExpiredIsUnpaid' /\ ConfirmedIsPaid'
    BY <1>1 DEF EndCapture, SetStatus, PaidInv, ExpiredIsUnpaid,
                ConfirmedIsPaid, TypeOK
  <1> QED BY <1>2, <1>3 DEF PaidInv

LEMMA FinishPaid ==
  ASSUME TypeOK, PaidInv, NEW b \in Booking, FinishCapture(b)
  PROVE  PaidInv'
  <1>1. /\ {"CONFIRMED", "EXPIRED_PAID"} \subseteq
             Statuses \ {"NONE", "HELD", "PENDING", "EXPIRED"}
        /\ Null \notin {"PENDING", "EXPIRED"}
    BY NullAssumption DEF Statuses
  <1>2. CASE ConfirmPaid(b)
    BY <1>1, <1>2, EndCapturePaid DEF ConfirmPaid
  <1>3. CASE ReclaimExpired(b)
    BY <1>1, <1>3, EndCapturePaid DEF ReclaimExpired
  <1>4. CASE ParkExpired(b)
    BY <1>1, <1>4, EndCapturePaid DEF ParkExpired
  <1>5. CASE RefundUnwanted(b)
    <2>1. status[b] \in Statuses \ {"NONE", "HELD", "PENDING", "EXPIRED"}
      BY <1>5 DEF RefundUnwanted, PaidInv, CaptureInv, TypeOK
    <2> QED BY <1>5, <2>1, EndCapturePaid DEF RefundUnwanted
  <1>6. CASE AbortCapture(b)
    BY <1>6 DEF AbortCapture, PaidInv, CaptureInv, ExpiredIsUnpaid,
                ConfirmedIsPaid, Captured, TypeOK
  <1> QED BY <1>2, <1>3, <1>4, <1>5, <1>6 DEF FinishCapture

LEMMA NextPaid == TypeOK /\ PaidInv /\ [Next]_vars => PaidInv'
  <1> SUFFICES ASSUME TypeOK, PaidInv, [Next]_vars PROVE PaidInv'
    OBVIOUS
  <1> USE DEF PaidInv
  <1>1. ASSUME NEW skipped \in SUBSET Booking, VendorLocked(skipped)
        PROVE  PaidInv'
    <2>1. ASSUME NEW b \in Booking, NEW s \in Span, NEW due \in BOOLEAN,
                 CreateHold(b, s, due, skipped)
          PROVE  PaidInv'
      BY <2>1, InsertPaid DEF CreateHold
    <2>2. ASSUME NEW b \in Booking, NEW s \in Span,
                 ManualBooking(b, s, skipped)
          PROVE  PaidInv'
      BY <2>2, InsertPaid DEF ManualBooking
    <2>3. ASSUME NEW b \in Booking, NEW s \in Span, Reschedule(b, s, skipped)
          PROVE  PaidInv'
      BY <2>3, SweepPaid DEF Reschedule
    <2>4. ASSUME NEW o \in Off, BlockTime(o, skipped) PROVE PaidInv'
      BY <2>4, SweepPaid DEF BlockTime
    <2>5. ASSUME ExpireHolds(skipped) PROVE PaidInv'
      BY <2>5, SweepPaid DEF ExpireHolds
    <2> QED BY <1>1, <2>1, <2>2, <2>3, <2>4, <2>5 DEF VendorLocked
  <1>2. ASSUME NEW o \in Off, UnblockTime(o) PROVE PaidInv'
    BY <1>2 DEF UnblockTime, CaptureInv, ExpiredIsUnpaid, ConfirmedIsPaid,
                Captured
  <1>3. ASSUME NEW b \in Booking, RowLocked(b) PROVE PaidInv'
    <2> USE DEF CaptureInv, ExpiredIsUnpaid, ConfirmedIsPaid, Captured,
                TypeOK, SetStatus, Statuses
    <2>1. CASE AcceptTerms(b)
      BY <2>1 DEF AcceptTerms
    <2>2. CASE CreateOrder(b)
      BY <2>2 DEF CreateOrder
    <2>3. ASSUME NEW covers \in BOOLEAN, OfflinePayment(b, covers)
          PROVE  PaidInv'
      BY <2>3 DEF OfflinePayment
    <2>4. CASE Cancel(b)
      BY <2>4 DEF Cancel
    <2>5. CASE VendorComplete(b)
      BY <2>5 DEF VendorComplete
    <2>6. CASE BeginCapture(b)
      BY <2>6 DEF BeginCapture
    <2>7. CASE FinishCapture(b)
      BY <2>7, FinishPaid
    <2> QED BY <1>3, <2>1, <2>2, <2>3, <2>4, <2>5, <2>6, <2>7 DEF RowLocked
  <1>4. CASE Tick
    BY <1>4 DEF Tick, CaptureInv, ExpiredIsUnpaid, ConfirmedIsPaid, Captured
  <1>5. CASE UNCHANGED vars
    BY <1>5 DEF vars, CaptureInv, ExpiredIsUnpaid, ConfirmedIsPaid, Captured
  <1> QED BY <1>1, <1>2, <1>3, <1>4, <1>5 DEF Next

\* A booking with an advance is confirmed only with a payment on record
\* (PY-05), and a booking somebody paid for is never left EXPIRED, whatever
\* the capture saw before it decided.
THEOREM Paid == Spec => [](ConfirmedIsPaid /\ ExpiredIsUnpaid)
  <1>1. PaidInv => ConfirmedIsPaid /\ ExpiredIsUnpaid
    BY DEF PaidInv
  <1> QED BY <1>1, InitPaid, NextPaid, Typing, PTL DEF Spec

-----------------------------------------------------------------------------
(* Holds.  What the slot engine no longer counts as busy has run out, and  *)
(* the expiry passes over it only because somebody paid a part of it.      *)

HoldInv ==
  \A b \in Booking :
    /\ status[b] \in {"HELD", "PENDING"} => expires[b] # Null
    /\ status[b] \in {"NONE", "HELD", "PENDING"} => online[b] # "paid"
    /\ status[b] \in {"NONE", "HELD"} => b \notin offline

\* A capture ends with a status that is not waiting for money any more.
LEMMA EndCaptureHolds ==
  ASSUME TypeOK, HoldInv, NEW b \in Booking, NEW new,
         new \notin {"NONE", "HELD", "PENDING"}, EndCapture(b, new)
  PROVE  HoldInv'
  BY DEF EndCapture, SetStatus, HoldInv, TypeOK

LEMMA FinishHolds ==
  ASSUME TypeOK, PaidInv, HoldInv, NEW b \in Booking, FinishCapture(b)
  PROVE  HoldInv'
  <1>1. CASE ConfirmPaid(b)
    BY <1>1, EndCaptureHolds DEF ConfirmPaid
  <1>2. CASE ReclaimExpired(b)
    BY <1>2, EndCaptureHolds DEF ReclaimExpired
  <1>3. CASE ParkExpired(b)
    BY <1>3, EndCaptureHolds DEF ParkExpired
  <1>4. CASE RefundUnwanted(b)
    <2>1. status[b] \notin {"NONE", "HELD", "PENDING"}
      BY <1>4 DEF RefundUnwanted, PaidInv, CaptureInv
    <2> QED BY <1>4, <2>1, EndCaptureHolds DEF RefundUnwanted
  <1>5. CASE AbortCapture(b)
    BY <1>5 DEF AbortCapture, HoldInv
  <1> QED BY <1>1, <1>2, <1>3, <1>4, <1>5 DEF FinishCapture

LEMMA SweepHolds ==
  ASSUME TypeOK, HoldInv, NEW skipped, status' = Swept(skipped),
         UNCHANGED <<expires, online, offline>>
  PROVE  HoldInv'
  BY SweptStatus DEF HoldInv, TypeOK

LEMMA InsertHolds ==
  ASSUME TypeOK, HoldInv, NEW skipped, NEW b \in Booking, NEW s \in Span,
         NEW new \in {"HELD", "CONFIRMED"}, NEW until, NEW due,
         new = "HELD" => until # Null,
         Insert(b, s, Swept(skipped), new, until, due)
  PROVE  HoldInv'
  <1>1. /\ Swept(skipped) \in [Booking -> Statuses]
        /\ \A c \in Booking :
             \/ Swept(skipped)[c] = status[c]
             \/ Swept(skipped)[c] = "EXPIRED"
    BY SweptStatus
  <1> QED BY <1>1 DEF Insert, HoldInv, TypeOK

LEMMA NextHolds == TypeOK /\ PaidInv /\ HoldInv /\ [Next]_vars => HoldInv'
  <1> SUFFICES ASSUME TypeOK, PaidInv, HoldInv, [Next]_vars PROVE HoldInv'
    OBVIOUS
  <1>0. \A n \in Int : n # Null
    BY NullAssumption
  <1>1. ASSUME NEW skipped \in SUBSET Booking, VendorLocked(skipped)
        PROVE  HoldInv'
    <2>1. ASSUME NEW b \in Booking, NEW s \in Span, NEW due \in BOOLEAN,
                 CreateHold(b, s, due, skipped)
          PROVE  HoldInv'
      <3>1. clock + HoldTime # Null
        BY <1>0, TimeAssumption DEF TypeOK
      <3> QED BY <2>1, <3>1, InsertHolds DEF CreateHold
    <2>2. ASSUME NEW b \in Booking, NEW s \in Span,
                 ManualBooking(b, s, skipped)
          PROVE  HoldInv'
      BY <2>2, InsertHolds DEF ManualBooking
    <2>3. ASSUME NEW b \in Booking, NEW s \in Span, Reschedule(b, s, skipped)
          PROVE  HoldInv'
      BY <2>3, SweepHolds DEF Reschedule
    <2>4. ASSUME NEW o \in Off, BlockTime(o, skipped) PROVE HoldInv'
      BY <2>4, SweepHolds DEF BlockTime
    <2>5. ASSUME ExpireHolds(skipped) PROVE HoldInv'
      BY <2>5, SweepHolds DEF ExpireHolds
    <2> QED BY <1>1, <2>1, <2>2, <2>3, <2>4, <2>5 DEF VendorLocked
  <1>2. ASSUME NEW o \in Off, UnblockTime(o) PROVE HoldInv'
    BY <1>2 DEF UnblockTime, HoldInv
  <1>3. ASSUME NEW b \in Booking, RowLocked(b) PROVE HoldInv'
    <2>1. CASE AcceptTerms(b)
      <3>1. clock + RequestHoldTime # Null
        BY <1>0, TimeAssumption DEF TypeOK
      <3> QED BY <2>1, <3>1 DEF AcceptTerms, SetStatus, HoldInv, TypeOK
    <2>2. CASE CreateOrder(b)
      BY <2>2 DEF CreateOrder, HoldInv, TypeOK
    <2>3. ASSUME NEW covers \in BOOLEAN, OfflinePayment(b, covers)
          PROVE  HoldInv'
      BY <2>3 DEF OfflinePayment, SetStatus, HoldInv, TypeOK
    <2>4. CASE Cancel(b)
      BY <2>4 DEF Cancel, SetStatus, HoldInv, TypeOK
    <2>5. CASE VendorComplete(b)
      BY <2>5 DEF VendorComplete, SetStatus, HoldInv, TypeOK
    <2>6. CASE BeginCapture(b)
      BY <2>6 DEF BeginCapture, HoldInv
    <2>7. CASE FinishCapture(b)
      BY <2>7, FinishHolds
    <2> QED BY <1>3, <2>1, <2>2, <2>3, <2>4, <2>5, <2>6, <2>7 DEF RowLocked
  <1>4. CASE Tick
    BY <1>4 DEF Tick, HoldInv
  <1>5. CASE UNCHANGED vars
    BY <1>5 DEF vars, HoldInv
  <1> QED BY <1>1, <1>2, <1>3, <1>4, <1>5 DEF Next

\* A time the engine offers after lazy expiry is free, but for a request whose
\* recorded payment falls short of its advance (AV-04), or a hold that ends at
\* this very moment: neither expired nor busy.
THEOREM OfferedIsFree == Spec => []OnlyPartPaidIsOffered
  <1>1. Init => HoldInv
    BY DEF Init, HoldInv
  <1>2. TypeOK /\ HoldInv => OnlyPartPaidIsOffered
    <2> SUFFICES ASSUME TypeOK, HoldInv, NEW s \in Span, NEW c \in Booking,
                        Offered(s, Swept({})), Swept({})[c] \in Active,
                        Overlaps(s, span[c]), span[c].to > clock,
                        expires[c] # clock
                 PROVE  status[c] = "PENDING" /\ c \in offline /\ HoldOver(c)
      BY DEF OnlyPartPaidIsOffered
    <2>1. Swept({})[c] = status[c] /\ status[c] \in Active
      BY SweptStatus DEF Active
    <2>2. ~ Busy(c, Swept({}))
      BY DEF Offered
    <2>3. status[c] \in {"HELD", "PENDING"} /\ ~ HoldLive(c)
      BY <2>1, <2>2 DEF Busy, Active
    <2>4. HoldOver(c)
      <3>1. expires[c] \in Int /\ clock \in Int
        BY <2>3 DEF HoldInv, TypeOK
      <3> QED BY <2>3, <3>1 DEF HoldLive, HoldOver, HoldInv
    <2>5. Captured(c)
      BY <2>1, <2>3, <2>4 DEF Swept
    <2> QED BY <2>3, <2>4, <2>5 DEF Captured, HoldInv
  <1> QED BY <1>1, <1>2, NextHolds, InitPaid, NextPaid, Typing, PTL DEF Spec

\* In particular a booking somebody paid for is never left EXPIRED.
THEOREM PaidIsNotExpired == Spec => []ExpiredIsUnpaid
  BY Paid, PTL

-----------------------------------------------------------------------------
(* The calendar. *)

LEMMA OverlapsSymmetric ==
  ASSUME NEW x, NEW y PROVE Overlaps(x, y) <=> Overlaps(y, x)
  BY DEF Overlaps

\* What a step does to the bookings that hold time: lazy expiry may let any
\* of them go, and at most one booking b gets time it did not have, which the
\* exclusion constraint has compared with every other.
Granted(b) ==
  /\ \A c \in Booking \ {b} :
       /\ status'[c] \in Active => status[c] \in Active
       /\ span'[c] = span[c]
  /\ status'[b] \in Active =>
       \/ status[b] \in Active /\ span'[b] = span[b]
       \/ \A c \in Booking \ {b} :
            status'[c] \in Active => ~ Overlaps(span'[b], span[c])

LEMMA GrantedNoDoubleBooking ==
  ASSUME NoDoubleBooking, NEW b \in Booking, Granted(b)
  PROVE  NoDoubleBooking'
  BY OverlapsSymmetric DEF NoDoubleBooking, Granted

LEMMA InsertGrants ==
  ASSUME TypeOK, NEW skipped, NEW b \in Booking, NEW s \in Span, NEW new,
         NEW until, NEW due, Insert(b, s, Swept(skipped), new, until, due)
  PROVE  Granted(b)
  <1>1. /\ Swept(skipped) \in [Booking -> Statuses]
        /\ \A c \in Booking :
             Swept(skipped)[c] \in Active => status[c] \in Active
    BY SweptStatus DEF Active
  <1> QED BY <1>1 DEF Insert, NoOverlap, Granted, TypeOK

\* A step that changes statuses only, and makes none active.
LEMMA ReleaseGrants ==
  ASSUME NEW b \in Booking, UNCHANGED span,
         \A c \in Booking : status'[c] \in Active => status[c] \in Active
  PROVE  Granted(b)
  BY DEF Granted

LEMMA SweepReleases ==
  ASSUME TypeOK, NEW skipped, status' = Swept(skipped)
  PROVE  \A c \in Booking : status'[c] \in Active => status[c] \in Active
  BY SweptStatus DEF Active

\* Every step grants time to one booking at most.
LEMMA NextGrants ==
  ASSUME TypeOK, [Next]_vars, Booking # {}
  PROVE  \E b \in Booking : Granted(b)
  <1>1. ASSUME NEW skipped \in SUBSET Booking, VendorLocked(skipped)
        PROVE  \E b \in Booking : Granted(b)
    <2>1. ASSUME NEW b \in Booking, NEW s \in Span, NEW due \in BOOLEAN,
                 CreateHold(b, s, due, skipped)
          PROVE  Granted(b)
      BY <2>1, InsertGrants DEF CreateHold
    <2>2. ASSUME NEW b \in Booking, NEW s \in Span,
                 ManualBooking(b, s, skipped)
          PROVE  Granted(b)
      BY <2>2, InsertGrants DEF ManualBooking
    <2>3. ASSUME NEW b \in Booking, NEW s \in Span, Reschedule(b, s, skipped)
          PROVE  Granted(b)
      <3>1. \A c \in Booking : status'[c] \in Active => status[c] \in Active
        BY <2>3, SweepReleases DEF Reschedule
      <3> QED BY <2>3, <3>1 DEF Reschedule, NoOverlap, Granted, TypeOK
    <2>4. ASSUME NEW o \in Off, BlockTime(o, skipped), NEW b \in Booking
          PROVE  Granted(b)
      BY <2>4, SweepReleases, ReleaseGrants DEF BlockTime
    <2>5. ASSUME ExpireHolds(skipped), NEW b \in Booking PROVE Granted(b)
      BY <2>5, SweepReleases, ReleaseGrants DEF ExpireHolds
    <2> QED BY <1>1, <2>1, <2>2, <2>3, <2>4, <2>5 DEF VendorLocked
  <1>2. ASSUME NEW b \in Booking, RowLocked(b) PROVE Granted(b)
    <2> USE DEF SetStatus, Active, TypeOK
    <2>1. CASE AcceptTerms(b) BY <2>1 DEF AcceptTerms, Granted
    <2>2. CASE CreateOrder(b) BY <2>2 DEF CreateOrder, Granted
    <2>3. ASSUME NEW covers \in BOOLEAN, OfflinePayment(b, covers)
          PROVE  Granted(b)
      BY <2>3 DEF OfflinePayment, Granted
    <2>4. CASE Cancel(b) BY <2>4 DEF Cancel, Granted
    <2>5. CASE VendorComplete(b) BY <2>5 DEF VendorComplete, Granted
    <2>6. CASE BeginCapture(b) BY <2>6 DEF BeginCapture, Granted
    <2>7. CASE ConfirmPaid(b) \/ ReclaimExpired(b)
      BY <2>7 DEF ConfirmPaid, ReclaimExpired, EndCapture, MayConfirm,
                  NoOverlap, Granted
    <2>8. CASE ParkExpired(b) \/ RefundUnwanted(b)
      BY <2>8 DEF ParkExpired, RefundUnwanted, EndCapture, Granted
    <2>9. CASE AbortCapture(b) BY <2>9 DEF AbortCapture, Granted
    <2> QED BY <1>2, <2>1, <2>2, <2>3, <2>4, <2>5, <2>6, <2>7, <2>8, <2>9
            DEF RowLocked, FinishCapture
  <1>3. ASSUME UNCHANGED <<status, span>>, NEW b \in Booking
        PROVE  Granted(b)
    BY <1>3, ReleaseGrants
  <1> QED BY <1>1, <1>2, <1>3 DEF Next, UnblockTime, Tick, vars

\* No two active bookings of a vendor ever overlap (SPEC 8.3), whatever the
\* order of holds, moves, expiries and captures.
THEOREM NoOverlapEver == Spec => []NoDoubleBooking
  <1>1. Init => NoDoubleBooking
    BY DEF Init, NoDoubleBooking, Active
  <1>2. TypeOK /\ NoDoubleBooking /\ [Next]_vars => NoDoubleBooking'
    <2> SUFFICES ASSUME TypeOK, NoDoubleBooking, [Next]_vars
                 PROVE  NoDoubleBooking'
      OBVIOUS
    <2>1. CASE Booking = {}
      BY <2>1 DEF NoDoubleBooking
    <2>2. CASE Booking # {}
      BY <2>2, NextGrants, GrantedNoDoubleBooking
    <2> QED BY <2>1, <2>2
  <1> QED BY <1>1, <1>2, Typing, PTL DEF Spec

-----------------------------------------------------------------------------
(* Time off. *)

\* Steps that leave timeOff alone keep the invariant for a booking that has
\* the time it had, or new time outside all time off.
Keeps(c) ==
  status'[c] \in Active =>
    \/ status[c] \in Active /\ span'[c] = span[c]
    \/ \A o \in timeOff : ~ Overlaps(ServiceRange(span'[c]), o)
    \/ c \in unlocked'

LEMMA KeepsTimeOff ==
  ASSUME OnlyUnlockedOverTimeOff, UNCHANGED timeOff,
         unlocked \subseteq unlocked', \A c \in Booking : Keeps(c)
  PROVE  OnlyUnlockedOverTimeOff'
  BY DEF OnlyUnlockedOverTimeOff, Keeps, Overlaps, ServiceRange

LEMMA InsertKeeps ==
  ASSUME TypeOK, NEW skipped, NEW b \in Booking, NEW s \in Span, NEW new,
         NEW until, NEW due, Insert(b, s, Swept(skipped), new, until, due),
         \A o \in timeOff : ~ Overlaps(ServiceRange(s), o),
         OnlyUnlockedOverTimeOff
  PROVE  OnlyUnlockedOverTimeOff'
  <1>1. /\ Swept(skipped) \in [Booking -> Statuses]
        /\ \A c \in Booking :
             Swept(skipped)[c] \in Active => status[c] \in Active
    BY SweptStatus DEF Active
  <1>2. \A c \in Booking : Keeps(c)
    BY <1>1 DEF Insert, Keeps, TypeOK
  <1> QED BY <1>2, KeepsTimeOff DEF Insert

LEMMA NextTimeOff ==
  TypeOK /\ OnlyUnlockedOverTimeOff /\ [Next]_vars => OnlyUnlockedOverTimeOff'
  <1> SUFFICES ASSUME TypeOK, OnlyUnlockedOverTimeOff, [Next]_vars
               PROVE  OnlyUnlockedOverTimeOff'
    OBVIOUS
  <1>0. \A s \in Span : OutsideTimeOff(s) =>
          \A o \in timeOff : ~ Overlaps(ServiceRange(s), o)
    BY ServiceWithinBlock DEF OutsideTimeOff, TypeOK
  <1>1. ASSUME NEW skipped \in SUBSET Booking, VendorLocked(skipped)
        PROVE  OnlyUnlockedOverTimeOff'
    <2>1. ASSUME NEW b \in Booking, NEW s \in Span, NEW due \in BOOLEAN,
                 CreateHold(b, s, due, skipped)
          PROVE  OnlyUnlockedOverTimeOff'
      <3>1. ASSUME NEW o \in timeOff PROVE ~ Overlaps(ServiceRange(s), o)
        <4> SUFFICES ASSUME Overlaps(ServiceRange(s), o) PROVE FALSE
          OBVIOUS
        <4>1. s.start >= clock /\ ~ Closed(s)
          BY <2>1 DEF CreateHold, Offered
        <4>2. o.to > clock
          BY <4>1, SpanAssumption, OffAssumption
             DEF SpanOK, TypeOK, Overlaps, ServiceRange
        <4>3. Overlaps(s, o)
          BY SpanAssumption, OffAssumption
             DEF SpanOK, TypeOK, Overlaps, ServiceRange
        <4> QED BY <4>1, <4>2, <4>3 DEF Closed
      <3> QED BY <2>1, <3>1, InsertKeeps DEF CreateHold
    <2>2. ASSUME NEW b \in Booking, NEW s \in Span,
                 ManualBooking(b, s, skipped)
          PROVE  OnlyUnlockedOverTimeOff'
      BY <1>0, <2>2, InsertKeeps DEF ManualBooking
    <2>3. ASSUME NEW b \in Booking, NEW s \in Span, Reschedule(b, s, skipped)
          PROVE  OnlyUnlockedOverTimeOff'
      <3>1. \A c \in Booking : status'[c] \in Active => status[c] \in Active
        BY <2>3, SweepReleases DEF Reschedule
      <3>2. \A c \in Booking : Keeps(c)
        BY <1>0, <2>3, <3>1 DEF Reschedule, Keeps, TypeOK
      <3> QED BY <2>3, <3>2, KeepsTimeOff DEF Reschedule
    <2>4. ASSUME NEW o \in Off, BlockTime(o, skipped)
          PROVE  OnlyUnlockedOverTimeOff'
      <3>1. /\ \A c \in Booking : status'[c] \in Active => status[c] \in Active
            /\ span' = span /\ unlocked' = unlocked
            /\ timeOff' = timeOff \cup {o}
        BY <2>4, SweepReleases DEF BlockTime
      <3>2. \A c \in Booking :
              status'[c] \in Active => ~ Overlaps(ServiceRange(span[c]), o)
        BY <2>4, ServiceWithinBlock DEF BlockTime, TypeOK
      <3> QED BY <3>1, <3>2 DEF OnlyUnlockedOverTimeOff, Overlaps, ServiceRange
    <2>5. ASSUME ExpireHolds(skipped) PROVE OnlyUnlockedOverTimeOff'
      <3>1. \A c \in Booking : Keeps(c)
        BY <2>5, SweepReleases DEF ExpireHolds, Keeps
      <3> QED BY <2>5, <3>1, KeepsTimeOff DEF ExpireHolds
    <2> QED BY <1>1, <2>1, <2>2, <2>3, <2>4, <2>5 DEF VendorLocked
  <1>2. ASSUME NEW o \in Off, UnblockTime(o) PROVE OnlyUnlockedOverTimeOff'
    BY <1>2 DEF UnblockTime, OnlyUnlockedOverTimeOff, Overlaps, ServiceRange
  <1>3. ASSUME NEW b \in Booking, RowLocked(b)
        PROVE  OnlyUnlockedOverTimeOff'
    <2>1. ASSUME UNCHANGED <<span, timeOff, unlocked>>,
                 \A c \in Booking :
                   status'[c] \in Active => status[c] \in Active
          PROVE  OnlyUnlockedOverTimeOff'
      BY <2>1 DEF OnlyUnlockedOverTimeOff, Overlaps, ServiceRange
    <2>2. CASE \/ AcceptTerms(b) \/ CreateOrder(b) \/ Cancel(b)
               \/ VendorComplete(b) \/ BeginCapture(b)
      BY <2>1, <2>2 DEF AcceptTerms, CreateOrder, Cancel, VendorComplete,
                        BeginCapture, SetStatus, Active, TypeOK
    <2>3. ASSUME NEW covers \in BOOLEAN, OfflinePayment(b, covers)
          PROVE  OnlyUnlockedOverTimeOff'
      BY <2>1, <2>3 DEF OfflinePayment, SetStatus, Active, TypeOK
    <2>4. CASE ParkExpired(b) \/ RefundUnwanted(b) \/ AbortCapture(b)
      BY <2>1, <2>4 DEF ParkExpired, RefundUnwanted, AbortCapture, EndCapture,
                        SetStatus, Active, TypeOK
    <2>5. CASE ConfirmPaid(b)
      <3>1. \A c \in Booking : Keeps(c)
        BY <2>5 DEF ConfirmPaid, EndCapture, SetStatus, MayConfirm, Keeps,
                    Active, TypeOK
      <3> QED BY <2>5, <3>1, KeepsTimeOff DEF ConfirmPaid, EndCapture,
                                              SetStatus
    <2>6. CASE ReclaimExpired(b)
      <3>1. \A c \in Booking : Keeps(c)
        BY <1>0, <2>6 DEF ReclaimExpired, EndCapture, SetStatus, Keeps, TypeOK
      <3> QED BY <2>6, <3>1, KeepsTimeOff DEF ReclaimExpired, EndCapture,
                                              SetStatus
    <2> QED BY <1>3, <2>2, <2>3, <2>4, <2>5, <2>6 DEF RowLocked, FinishCapture
  <1>4. CASE UNCHANGED <<status, span, unlocked, timeOff>>
    BY <1>4 DEF OnlyUnlockedOverTimeOff, Overlaps, ServiceRange
  <1> QED BY <1>1, <1>2, <1>3, <1>4 DEF Next, Tick, vars

\* Nobody is served during time off, save a booking that a capture confirmed
\* after it expired without knowing so (SPEC 9.3).
THEOREM TimeOffIsKept == Spec => []OnlyUnlockedOverTimeOff
  <1>1. Init => OnlyUnlockedOverTimeOff
    BY DEF Init, OnlyUnlockedOverTimeOff
  <1> QED BY <1>1, NextTimeOff, Typing, PTL DEF Spec

-----------------------------------------------------------------------------
(* Refinement of Claims. *)

\* A step that leaves time off alone is one transaction of the calendar.
LEMMA GrantedServes ==
  ASSUME TypeOK, TypeOK', NEW b \in Booking, Granted(b), UNCHANGED timeOff
  PROVE  Calendar!Serve(b)
  BY NullAssumption DEF Calendar!Serve, Calendar!Overlaps, Overlaps, Granted,
                        TypeOK

LEMMA BlockTimeTakesOff ==
  ASSUME TypeOK, NEW skipped, NEW o \in Off, BlockTime(o, skipped)
  PROVE  Calendar!TakeOff(o)
  <1>1. /\ \A c \in Booking : status'[c] \in Active => status[c] \in Active
        /\ span' = span /\ timeOff' = timeOff \cup {o}
        /\ \A c \in Booking : status'[c] \in Active => ~ Overlaps(span[c], o)
    BY SweepReleases DEF BlockTime
  <1> QED BY <1>1 DEF Calendar!TakeOff, Calendar!Overlaps, Overlaps

\* Which steps write blocked_periods.
LEMMA TimeOffSteps ==
  ASSUME [Next]_vars
  PROVE  \/ UNCHANGED timeOff
         \/ \E o \in Off, skipped \in SUBSET Booking : BlockTime(o, skipped)
         \/ \E o \in Off : UnblockTime(o)
  BY DEF Next, VendorLocked, RowLocked, FinishCapture, CreateHold,
         ManualBooking, Insert, Reschedule, ExpireHolds, AcceptTerms,
         CreateOrder, OfflinePayment, Cancel, VendorComplete, BeginCapture,
         ConfirmPaid, ReclaimExpired, ParkExpired, RefundUnwanted, AbortCapture,
         EndCapture, SetStatus, Tick, vars

LEMMA NextRefines ==
  ASSUME TypeOK, TypeOK', [Next]_vars
  PROVE  [Calendar!Next]_(Calendar!claimVars)
  <1>1. ASSUME NEW o \in Off, NEW skipped \in SUBSET Booking,
               BlockTime(o, skipped)
        PROVE  Calendar!Next
    BY <1>1, BlockTimeTakesOff DEF Calendar!Next
  <1>2. ASSUME NEW o \in Off, UnblockTime(o) PROVE Calendar!Next
    BY <1>2 DEF UnblockTime, Calendar!Next, Calendar!GiveBack
  <1>3. CASE UNCHANGED timeOff /\ Booking # {}
    BY <1>3, NextGrants, GrantedServes DEF Calendar!Next
  <1>4. CASE UNCHANGED timeOff /\ Booking = {}
    BY <1>4 DEF Calendar!claimVars
  <1> QED BY <1>1, <1>2, <1>3, <1>4, TimeOffSteps

\* The transactions implement the calendar: each grants at most one free range
\* and takes time off only where nobody is booked.
THEOREM Refinement == Spec => KeepsCalendar
  <1>1. Init => Calendar!Init
    BY DEF Init, Calendar!Init, Active
  <1> QED BY <1>1, NextRefines, Typing, PTL
          DEF Spec, KeepsCalendar, Calendar!Spec
=============================================================================
