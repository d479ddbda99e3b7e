------------------------------ MODULE Bookings ------------------------------
(***************************************************************************)
(* One vendor's calendar: the bookings and blocked_periods tables and the  *)
(* transactions that write them.  A transaction is one action, because     *)
(* those that hand out time run under the vendor's advisory lock and the   *)
(* others lock the booking row they change.  A capture alone reads the      *)
(* status it decides on before it takes either lock, so that read is a     *)
(* step of its own (BeginCapture).                                         *)
(*                                                                         *)
(* A booking is named by its idempotency key, which the database keeps     *)
(* unique per vendor, so a repeated request is a step that changes nothing.*)
(***************************************************************************)
EXTENDS Integers, FiniteSets

CONSTANTS Booking,          \* idempotency keys that may be sent
          Span,             \* times a booking may have, see SpanOK
          Off,              \* periods the vendor may block off
          HoldTime,         \* HOLD_MINUTES
          RequestHoldTime,  \* REQUEST_HOLD_HOURS, for payments made offline
          OnlinePayments,   \* paymentsEnabled()
          MaxTime,          \* bound on the clock
          Null              \* SQL NULL; also "no capture in progress"

\* sql/013: block_start <= starts_at < ends_at <= block_end.
SpanOK(s) ==
  /\ s.from \in Nat /\ s.start \in Nat /\ s.end \in Nat /\ s.to \in Nat
  /\ s.from <= s.start /\ s.start < s.end /\ s.end <= s.to
  /\ s.daily \in BOOLEAN

ASSUME SpanAssumption == Span # {} /\ \A s \in Span : SpanOK(s)
ASSUME OffAssumption ==
  \A o \in Off : o.from \in Nat /\ o.to \in Nat /\ o.from < o.to
ASSUME TimeAssumption ==
  /\ HoldTime \in Nat \ {0} /\ RequestHoldTime \in Nat \ {0}
  /\ MaxTime \in Nat /\ OnlinePayments \in BOOLEAN

Statuses == {"NONE", "HELD", "PENDING", "CONFIRMED", "COMPLETED",
             "CANCELLED", "EXPIRED", "EXPIRED_PAID"}
ASSUME NullAssumption ==
  Null \notin Int /\ Null \notin Span /\ Null \notin Statuses

VARIABLES
  clock,      \* the database's now()
  status,     \* bookings.status, "NONE" before the row exists
  span,       \* block_start, starts_at, ends_at, block_end of the row
  expires,    \* hold_expires_at
  advance,    \* advance_paise > 0
  online,     \* the Razorpay payments row: "none", "open" order, "paid"
  offline,    \* bookings with a payment the vendor recorded
  seen,       \* booking_status read by a capture still in its transaction
  unlocked,   \* bookings with an EXPIRED -> CONFIRMED event without meta.late
  timeOff     \* blocked_periods

vars == <<clock, status, span, expires, advance, online, offline, seen,
          unlocked, timeOff>>

\* The statuses under the exclusion constraint bookings_no_overlap.
Active == {"HELD", "PENDING", "CONFIRMED"}

TypeOK ==
  /\ clock \in 0..MaxTime
  /\ status \in [Booking -> Statuses]
  /\ span \in [Booking -> Span]
  /\ expires \in [Booking -> Int \cup {Null}]
  /\ advance \in [Booking -> BOOLEAN]
  /\ online \in [Booking -> {"none", "open", "paid"}]
  /\ offline \subseteq Booking
  /\ seen \in [Booking -> Statuses \cup {Null}]
  /\ unlocked \subseteq Booking
  /\ timeOff \subseteq Off

Init ==
  /\ clock = 0
  /\ status = [b \in Booking |-> "NONE"]
  /\ span = [b \in Booking |-> CHOOSE s \in Span : TRUE]
  /\ expires = [b \in Booking |-> Null]
  /\ advance = [b \in Booking |-> FALSE]
  /\ online = [b \in Booking |-> "none"]
  /\ offline = {}
  /\ seen = [b \in Booking |-> Null]
  /\ unlocked = {}
  /\ timeOff = {}

-----------------------------------------------------------------------------
(* What the transactions read. *)

\* tstzrange(x) && tstzrange(y), half-open.
Overlaps(x, y) == x.from < y.to /\ y.from < x.to

\* A payments row of this booking has status 'captured'.
Captured(b) == online[b] = "paid" \/ b \in offline

HoldLive(b) == expires[b] # Null /\ expires[b] > clock
HoldOver(b) == expires[b] # Null /\ expires[b] < clock

\* Variant: the sweep forgets to look for a payment.
SweptUnpaidOrNot(skipped) ==
  [b \in Booking |->
     IF status[b] \in {"HELD", "PENDING"} /\ HoldOver(b) /\ b \notin skipped
     THEN "EXPIRED" ELSE status[b]]

\* Variant: the sweep looks for holds only.
SweptHeldOnly(skipped) ==
  [b \in Booking |->
     IF status[b] = "HELD" /\ HoldOver(b) /\ b \notin skipped
     THEN "EXPIRED" ELSE status[b]]

\* expireOverdueHolds: the statuses it leaves, not waiting for skipped rows.
Swept(skipped) ==
  [b \in Booking |->
     IF /\ status[b] \in {"HELD", "PENDING"} /\ HoldOver(b)
        /\ ~ Captured(b) /\ b \notin skipped
     THEN "EXPIRED" ELSE status[b]]

\* Variant: the constraint does not cover HELD.
NoOverlapButHeld(b, s, st) ==
  \A c \in Booking \ {b} :
    st[c] \in {"PENDING", "CONFIRMED"} => ~ Overlaps(s, span[c])

\* The exclusion constraint lets b be active over s beside the others.
NoOverlap(b, s, st) ==
  \A c \in Booking \ {b} : st[c] \in Active => ~ Overlaps(s, span[c])

OutsideTimeOff(s) == \A o \in timeOff : ~ Overlaps(s, o)

\* Time off that is not over yet closes a time that it overlaps with its
\* buffers, or a day that it touches: a buffer day is not a day sold.
ServiceRange(s) == [from |-> s.start, to |-> s.end]
Closed(s) ==
  \E o \in timeOff : o.to > clock /\ Overlaps(IF s.daily THEN ServiceRange(s) ELSE s, o)

\* Variant: a request that waits for its payment is not busy.
BusyButPending(c, st) ==
  /\ \/ st[c] = "CONFIRMED"
     \/ st[c] = "HELD" /\ HoldLive(c)
  /\ span[c].to > clock

\* The engine's busy bookings: confirmed, or held and not yet run out.
Busy(c, st) ==
  /\ \/ st[c] = "CONFIRMED"
     \/ st[c] \in {"HELD", "PENDING"} /\ HoldLive(c)
  /\ span[c].to > clock

\* hourlyRange and dailyRange offer s (opening hours are the choice of s).
Offered(s, st) ==
  /\ s.start >= clock
  /\ ~ Closed(s)
  /\ \A c \in Booking : Busy(c, st) => ~ Overlaps(s, span[c])

-----------------------------------------------------------------------------
(* Transactions under the vendor lock. *)

LongestHold == HoldTime + (IF OnlinePayments THEN 0 ELSE RequestHoldTime)

\* A booking's first row; sold by the engine or placed by the vendor.
Insert(b, s, st, new, until, due) ==
  /\ status[b] = "NONE"
  /\ NoOverlap(b, s, st)
  /\ status' = [st EXCEPT ![b] = new]
  /\ span' = [span EXCEPT ![b] = s]
  /\ expires' = [expires EXCEPT ![b] = until]
  /\ advance' = [advance EXCEPT ![b] = due]
  /\ UNCHANGED <<clock, online, offline, seen, unlocked, timeOff>>

\* POST /bookings. A refusal rolls its lazy expiry back, so changes nothing.
CreateHold(b, s, due, skipped) ==
  /\ clock + LongestHold < MaxTime  \* bound: the clock passes the expiry
  /\ Offered(s, Swept(skipped))
  /\ Insert(b, s, Swept(skipped), "HELD", clock + HoldTime, due)

\* A walk-in: PENDING and CONFIRMED in one transaction, nothing due online.
ManualBooking(b, s, skipped) ==
  /\ s.start > clock
  /\ OutsideTimeOff(s)
  /\ Insert(b, s, Swept(skipped), "CONFIRMED", Null, FALSE)

\* A moved booking keeps its mode, duration and buffers.
SameShape(s, t) ==
  /\ s.daily = t.daily /\ s.end - s.start = t.end - t.start
  /\ s.start - s.from = t.start - t.from /\ s.to - s.end = t.to - t.end

Reschedule(b, s, skipped) ==
  LET st == Swept(skipped) IN
  /\ st[b] \in {"PENDING", "CONFIRMED"}
  /\ span[b].start > clock /\ s.start > clock
  /\ SameShape(s, span[b])
  /\ OutsideTimeOff(s)
  /\ NoOverlap(b, s, st)
  /\ status' = st
  /\ span' = [span EXCEPT ![b] = s]
  /\ UNCHANGED <<clock, expires, advance, online, offline, seen, unlocked, timeOff>>

\* Variant: time off is refused for confirmed bookings only.
BlockTimeOverHolds(o, skipped) ==
  LET st == Swept(skipped) IN
  /\ \A b \in Booking : st[b] = "CONFIRMED" => ~ Overlaps(span[b], o)
  /\ status' = st
  /\ timeOff' = timeOff \cup {o}
  /\ UNCHANGED <<clock, span, expires, advance, online, offline, seen,
                 unlocked>>

BlockTime(o, skipped) ==
  LET st == Swept(skipped) IN
  /\ \A b \in Booking : st[b] \in Active => ~ Overlaps(span[b], o)
  /\ status' = st
  /\ timeOff' = timeOff \cup {o}
  /\ UNCHANGED <<clock, span, expires, advance, online, offline, seen,
                 unlocked>>

\* A single DELETE, without the lock.
UnblockTime(o) ==
  /\ o \in timeOff
  /\ timeOff' = timeOff \ {o}
  /\ UNCHANGED <<clock, status, span, expires, advance, online, offline, seen,
                 unlocked>>

\* The tick's job expire_holds, for bookings whose rows nobody locks.
ExpireHolds(skipped) ==
  /\ Swept(skipped) # status
  /\ status' = Swept(skipped)
  /\ UNCHANGED <<clock, span, expires, advance, online, offline, seen,
                 unlocked, timeOff>>

-----------------------------------------------------------------------------
(* Transactions that lock one booking row. *)

SetStatus(b, new) ==
  /\ status' = [status EXCEPT ![b] = new]
  /\ UNCHANGED <<clock, span, advance, timeOff>>

\* Variant: the customer's agreement confirms although an advance is due.
AcceptTermsConfirming(b) ==
  /\ status[b] = "HELD" /\ HoldLive(b)
  /\ SetStatus(b, "CONFIRMED")
  /\ UNCHANGED <<expires, online, offline, seen, unlocked>>

\* The customer agrees; with nothing to pay the booking is confirmed at once.
AcceptTerms(b) ==
  /\ status[b] = "HELD" /\ HoldLive(b)
  /\ SetStatus(b, IF advance[b] THEN "PENDING" ELSE "CONFIRMED")
  /\ expires' = IF advance[b] /\ ~ OnlinePayments
                THEN [expires EXCEPT ![b] = clock + RequestHoldTime]
                ELSE expires
  /\ UNCHANGED <<online, offline, seen, unlocked>>

\* The first order of a booking; asking again returns the open one.
CreateOrder(b) ==
  /\ OnlinePayments
  /\ status[b] = "PENDING" /\ HoldLive(b) /\ advance[b] /\ online[b] = "none"
  /\ online' = [online EXCEPT ![b] = "open"]
  /\ UNCHANGED <<clock, status, span, expires, advance, offline, seen,
                 unlocked, timeOff>>

\* The vendor records money received; covers: it was recorded as an advance
\* and the advance is now paid in full.
OfflinePayment(b, covers) ==
  /\ status[b] \in {"PENDING", "CONFIRMED", "COMPLETED"}
  /\ offline' = offline \cup {b}
  /\ SetStatus(b, IF status[b] = "PENDING" /\ covers THEN "CONFIRMED"
                  ELSE status[b])
  /\ UNCHANGED <<expires, online, seen, unlocked>>

\* By the vendor, or by the customer whose page may be out of date: either
\* way the transaction decides on the status it now finds.
Cancel(b) ==
  /\ status[b] \in {"PENDING", "CONFIRMED", "EXPIRED_PAID"}
  /\ SetStatus(b, "CANCELLED")
  /\ UNCHANGED <<expires, online, offline, seen, unlocked>>

VendorComplete(b) ==
  /\ status[b] = "CONFIRMED" /\ span[b].end < clock
  /\ SetStatus(b, "COMPLETED")
  /\ UNCHANGED <<expires, online, offline, seen, unlocked>>

-----------------------------------------------------------------------------
(* A captured payment: the payments row is locked and the booking's status *)
(* read with it, but the booking row is locked only when it is changed.    *)

BeginCapture(b) ==
  /\ online[b] = "open" /\ seen[b] = Null
  /\ seen' = [seen EXCEPT ![b] = status[b]]
  /\ UNCHANGED <<clock, status, span, expires, advance, online, offline,
                 unlocked, timeOff>>

EndCapture(b, new) ==
  /\ online' = [online EXCEPT ![b] = "paid"]
  /\ seen' = [seen EXCEPT ![b] = Null]
  /\ SetStatus(b, new)
  /\ UNCHANGED <<expires, offline>>

\* The states from which transitionBooking accepts CONFIRMED with a payment.
MayConfirm(b) == /\ status[b] \in {"PENDING", "EXPIRED"}
                 /\ NoOverlap(b, span[b], status)

\* Paid in time, as far as the status read first tells.
ConfirmPaid(b) ==
  /\ seen[b] = "PENDING" /\ MayConfirm(b)
  /\ EndCapture(b, "CONFIRMED")
  /\ unlocked' = IF status[b] = "EXPIRED" THEN unlocked \cup {b} ELSE unlocked

\* Variant: the time off made since the hold is not looked at.
ReclaimOverTimeOff(b) ==
  /\ seen[b] = "EXPIRED" /\ status[b] = "EXPIRED"
  /\ MayConfirm(b)
  /\ EndCapture(b, "CONFIRMED")
  /\ UNCHANGED unlocked

\* Paid late: under the vendor lock, the time is taken back if it is free.
ReclaimExpired(b) ==
  /\ seen[b] = "EXPIRED" /\ status[b] = "EXPIRED"
  /\ OutsideTimeOff(span[b]) /\ MayConfirm(b)
  /\ EndCapture(b, "CONFIRMED")
  /\ UNCHANGED unlocked

\* Variant: a status the table does not know.
ParkAsUnknown(b) ==
  /\ seen[b] = "EXPIRED" /\ status[b] = "EXPIRED"
  /\ ~ (OutsideTimeOff(span[b]) /\ MayConfirm(b))
  /\ EndCapture(b, "REFUND_DUE")
  /\ UNCHANGED unlocked

\* Paid late and the time is gone: the money will be refunded.
ParkExpired(b) ==
  /\ seen[b] = "EXPIRED" /\ status[b] = "EXPIRED"
  /\ ~ (OutsideTimeOff(span[b]) /\ MayConfirm(b))
  /\ EndCapture(b, "EXPIRED_PAID")
  /\ UNCHANGED unlocked

\* Money for a booking that was not waiting for it: recorded and refunded.
RefundUnwanted(b) ==
  /\ seen[b] \notin {Null, "PENDING", "EXPIRED"}
  /\ EndCapture(b, status[b])
  /\ UNCHANGED unlocked

\* transitionBooking refuses, or the exclusion constraint does outside the
\* savepoint: the whole transaction is rolled back.
AbortCapture(b) ==
  /\ \/ seen[b] = "PENDING" /\ ~ MayConfirm(b)
     \/ seen[b] = "EXPIRED" /\ status[b] # "EXPIRED"
  /\ seen' = [seen EXCEPT ![b] = Null]
  /\ UNCHANGED <<clock, status, span, expires, advance, online, offline,
                 unlocked, timeOff>>

FinishCapture(b) == ConfirmPaid(b) \/ ReclaimExpired(b) \/ ParkExpired(b)
                    \/ RefundUnwanted(b) \/ AbortCapture(b)

-----------------------------------------------------------------------------
\* Time passes, up to the bound MaxTime.
Tick ==
  /\ clock < MaxTime
  /\ clock' = clock + 1
  /\ UNCHANGED <<status, span, expires, advance, online, offline, seen,
                 unlocked, timeOff>>

VendorLocked(skipped) ==
  \/ \E b \in Booking, s \in Span :
       \/ \E due \in BOOLEAN : CreateHold(b, s, due, skipped)
       \/ ManualBooking(b, s, skipped)
       \/ Reschedule(b, s, skipped)
  \/ \E o \in Off : BlockTime(o, skipped)
  \/ ExpireHolds(skipped)

RowLocked(b) ==
  \/ AcceptTerms(b) \/ CreateOrder(b)
  \/ \E covers \in BOOLEAN : OfflinePayment(b, covers)
  \/ Cancel(b) \/ VendorComplete(b)
  \/ BeginCapture(b) \/ FinishCapture(b)

Next ==
  \/ \E skipped \in SUBSET Booking : VendorLocked(skipped)
  \/ \E o \in Off : UnblockTime(o)
  \/ \E b \in Booking : RowLocked(b)
  \/ Tick

Spec == Init /\ [][Next]_vars

\* Time passes, and the scheduler keeps calling the tick, which sooner or
\* later finds every row unlocked.
FairSpec == Spec /\ WF_vars(Tick) /\ WF_vars(ExpireHolds({}))

-----------------------------------------------------------------------------
(* Properties. *)

\* No two active bookings of a vendor overlap, buffers included (SPEC 8.3):
\* not even when a late payment takes an expired booking's time back, or a
\* move and a hold run beside an expiry that skips locked rows.
NoDoubleBooking ==
  \A b, c \in Booking :
    b # c /\ status[b] \in Active /\ status[c] \in Active
      => ~ Overlaps(span[b], span[c])

\* Nobody is served during time off (SPEC 9.3: a block and a booking cannot
\* interleave).
ServedOutsideTimeOff ==
  \A b \in Booking, o \in timeOff :
    status[b] \in Active => ~ Overlaps(ServiceRange(span[b]), o)

\* The one way to be booked over time off is a capture that read PENDING
\* before the booking expired, and so confirmed it without the vendor lock.
OnlyUnlockedOverTimeOff ==
  \A b \in Booking, o \in timeOff :
    status[b] \in Active /\ Overlaps(ServiceRange(span[b]), o)
      => b \in unlocked

\* A booking with an advance is confirmed or completed only with a verified
\* payment (PY-05, the nightly query confirmed_without_payment).
ConfirmedIsPaid ==
  \A b \in Booking :
    status[b] \in {"CONFIRMED", "COMPLETED"} /\ advance[b] => Captured(b)

\* A booking somebody paid for is never left EXPIRED: the expiry skips it, or
\* the capture that comes too late confirms it or parks it for a refund.
ExpiredIsUnpaid ==
  \A b \in Booking : status[b] = "EXPIRED" => ~ Captured(b)

\* A time the engine offers after lazy expiry is free of active bookings
\* (SPEC AV-04), with one exception: a request whose recorded payment falls
\* short of its advance is neither expired nor, once overdue, seen as busy.
OnlyPartPaidIsOffered ==
  \A s \in Span, c \in Booking :
    /\ Offered(s, Swept({}))
    /\ Swept({})[c] \in Active /\ Overlaps(s, span[c]) /\ span[c].to > clock
    => expires[c] = clock \/ (status[c] = "PENDING" /\ c \in offline /\ HoldOver(c))

\* Every hold ends: an unpaid booking does not keep its time for ever
\* (BK-03), although nothing but the tick and other transactions expires it.
HoldsEnd ==
  \A b \in Booking :
    status[b] = "HELD" \/ (status[b] = "PENDING" /\ ~ Captured(b))
      ~> (status[b] \notin {"HELD", "PENDING"} \/ Captured(b))

\* What the vendor's calendar promises (module Claims): one new claim at a
\* time, free of all others; time off only where nobody is booked.
Calendar == INSTANCE Claims WITH
  claim <- [b \in Booking |-> IF status[b] \in Active THEN span[b] ELSE Null],
  blocked <- timeOff, Nobody <- Null
KeepsCalendar == Calendar!Spec
=============================================================================
