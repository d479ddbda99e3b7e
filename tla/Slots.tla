------------------------------- MODULE Slots --------------------------------
(***************************************************************************)
(* What a vendor's page offers, and what a hold, a move and the vendor's   *)
(* own settings make of it.  The slot engine is pure; its input is what    *)
(* loadSlotEngineInput reads, the variables of this module.  A hold reads  *)
(* them under the vendor's schedule lock, so it is one step.               *)
(*                                                                         *)
(* A booking is overdue when it is not confirmed and its hold has run out, *)
(* which it may at any time.  An expiry takes overdue bookings away, but   *)
(* not those that are paid in part, nor rows that are locked: here it takes *)
(* any of them.  How they expire, and the money, is in Bookings.           *)
(*                                                                         *)
(* The vendor has two services, one booked by the hour in sessions and one *)
(* by the day.                                                             *)
(***************************************************************************)
EXTENDS LocalTime, FiniteSets, FiniteSetsExt

CONSTANTS Zones, Week,
          Windows,     \* weekly schedules the vendor may set: [0..(Week-1) -> SUBSET spans]
          Overrides,   \* [date, kind, from, to]; from = NoTime for a whole day
          Periods,     \* time off, <<from, to>>
          Hourly,      \* [session, minBlocks, maxBlocks, before, after]
          Daily,       \* [minDays, maxDays, buffer]
          Notice, Ahead,
          Dates,       \* the dates modelled
          MaxBookings  \* bound

VARIABLES now, zone, weekly, overrides, off, bookings
vars == <<now, zone, weekly, overrides, off, bookings>>

Minutes == 0..(Day - 1)
Overlap(a, b, c, d) == a < d /\ b > c

Today == DateOf(zone, now)
Weekday(date) == date % Week

\* openSpansFor: a span [a, b) is the set of its minutes.
Span(a, b) == a..(b - 1)
OpenMinutes(date) ==
  LET here == {o \in overrides : o.date = date}
      wholeDay == \E o \in here : o.kind = "block" /\ o.from = NoTime
      timed(kind) == UNION {Span(o.from, o.to) : o \in {p \in here : p.kind = kind /\ p.from # NoTime}}
      usual == IF wholeDay THEN {} ELSE UNION {Span(w[1], w[2]) : w \in weekly[Weekday(date)]}
  IN (usual \cup timed("open")) \ timed("block")

\* The merged span a minute lies in: what merge and subtract leave.
SpanStart(m, open) == Min({a \in Minutes : Span(a, m + 1) \subseteq open})
SpanEnd(m, open) == Max({b \in 1..Day : m < b /\ Span(m, b) \subseteq open})

Busy(from, to, periods) == \E p \in periods : Overlap(from, to, p[1], p[2])

\* Variant: the time a booking is for, without its buffers.
BookedBare ==
  {<<b.start, b.end>> : b \in {c \in bookings : ~c.overdue /\ c.end > now}}

\* loadSlotEngineInput: what bookings occupy, buffers included, unless one is over
\* or its hold has run out; and time off that is not over.
Booked ==
  {<<b.from, b.to>> : b \in {c \in bookings : ~c.overdue /\ c.to > now}}
Off == {p \in off : p[2] > now}

InWindow(date) == Today <= date /\ date <= Today + Ahead

\* dayStarts: the grid inside the open spans.
Starts(date) ==
  LET open == OpenMinutes(date)
      starts == {[at |-> LocalToUtc(zone, date * Day + m), minute |-> m, spanEnd |-> SpanEnd(m, open)] : m \in open}
  IN IF InWindow(date)
     THEN {s \in starts : s.at # NoTime /\ s.minute + Hourly.session <= s.spanEnd}
     ELSE {}

\* localMinuteOn: the next midnight counts as the end of the day.
EndMinute(date, t) ==
  LET l == Local(zone, t) IN
  IF l \div Day = date THEN l % Day ELSE IF l = (date + 1) * Day THEN Day ELSE NoTime

\* The sessions end before the span does, by the clock and across its changes.
Fits(date, s, n) ==
  LET end == EndMinute(date, s.at + n * Hourly.session) IN
  s.minute + n * Hourly.session <= s.spanEnd /\ end # NoTime /\ end <= s.spanEnd

\* rangeFrom
RangeOf(date, s, n) ==
  [start |-> s.at, end |-> s.at + n * Hourly.session,
   from |-> s.at - Hourly.before, to |-> s.at + n * Hourly.session + Hourly.after]
Free(date, s, n) ==
  /\ Fits(date, s, n) /\ s.at >= now + Notice
  /\ LET r == RangeOf(date, s, n) IN ~Busy(r.from, r.to, Off \cup Booked)

\* maxBlocksAt: the search ends at the first length that fails.
MaxBlocksAt(date, s) ==
  Max({0} \cup {n \in 1..Hourly.maxBlocks : \A k \in 1..n : Free(date, s, k)})

\* slotsForDate
Slots(date) ==
  {[at |-> s.at, maxBlocks |-> MaxBlocksAt(date, s)] :
     s \in {t \in Starts(date) : MaxBlocksAt(date, t) >= Hourly.minBlocks}}

\* hourlyRange: the ranges a hold may get.
HourlyRanges(date, at, n) ==
  IF n \in Hourly.minBlocks..Hourly.maxBlocks
  THEN {RangeOf(date, s, n) : s \in {t \in Starts(date) : t.at = at /\ Free(date, t, n)}}
  ELSE {}

\* dayStatus
DayStatus(date) ==
  LET start == StartOfDay(zone, date)  end == StartOfDay(zone, date + 1) IN
  IF date < Today \/ start < now + Notice THEN "past"
  ELSE IF date > Today + Ahead \/ OpenMinutes(date) = {} \/ Busy(start, end, Off) THEN "closed"
  ELSE IF Busy(start, end, Booked) THEN "booked" ELSE "available"

Buffered(date, days, buffer) ==
  LET at == DayRange(zone, date, days)  around == DayRange(zone, date - buffer, days + 2 * buffer)
  IN [start |-> at.start, end |-> at.end, from |-> around.start, to |-> around.end]

\* No other booking in the buffer days, which may be closed.
BuffersFree(r) == ~Busy(r.from, r.start, Booked) /\ ~Busy(r.end, r.to, Booked)

\* dailyRange
DaysFree(date, days) ==
  /\ days \in Daily.minDays..Daily.maxDays
  /\ \A i \in 0..(days - 1) : DayStatus(date + i) = "available"
  /\ BuffersFree(Buffered(date, days, Daily.buffer))

\* maxDaysFrom
MaxDaysFrom(date) == Max({d \in 1..Daily.maxDays : DaysFree(date, d)} \cup {0})

\* What the CHECKs and the validated requests leave of the vendor's settings: times
\* lie within a day, lengths are positive, buffers are not negative.
SettingsAreValid ==
  /\ \A z \in Zones : z \in Zone /\ UsualChange(z)
  /\ Week \in Nat \ {0}
  /\ \A w \in Windows, d \in 0..(Week - 1) : w[d] \subseteq (0..Day) \X (0..Day)
  /\ \A o \in Overrides : o.from = NoTime \/ {o.from, o.to} \subseteq 0..Day
  /\ Periods \subseteq Int \X Int /\ Dates \subseteq Int
  /\ Hourly \in [session : Nat \ {0}, minBlocks : Nat \ {0}, maxBlocks : Nat,
                 before : Nat, after : Nat]
  /\ Daily \in [minDays : Nat \ {0}, maxDays : Nat, buffer : Nat]
  /\ Notice \in Nat /\ Ahead \in Nat

(***************************************************************************)
(* Steps.                                                                  *)
(***************************************************************************)
TypeOK ==
  /\ now \in Int /\ zone \in Zones /\ weekly \in Windows
  /\ overrides \subseteq Overrides /\ off \subseteq Periods
  /\ \A b \in bookings :
       /\ b.from \in Int /\ b.from <= b.start /\ b.start < b.end /\ b.end <= b.to
       /\ b.zone \in Zones /\ b.daily \in BOOLEAN /\ b.overdue \in BOOLEAN /\ b.length \in Nat \ {0}

Init ==
  /\ now = 0 /\ zone \in Zones /\ weekly \in Windows
  /\ overrides = {} /\ off = {} /\ bookings = {}

Row(r, daily, length) ==
  [start |-> r.start, end |-> r.end, from |-> r.from, to |-> r.to,
   daily |-> daily, length |-> length, zone |-> zone, overdue |-> FALSE]

\* bookings_no_overlap
Fit(r, others) == \A o \in others : ~Overlap(r.from, r.to, o.from, o.to)

\* expireOverdueHolds: what it may leave of the bookings.
Expired == {bookings \ gone : gone \in SUBSET {b \in bookings : b.overdue}}

\* createHold: the database refuses what overlaps.
HoldHours(date, at, n) ==
  /\ \E others \in Expired, r \in HourlyRanges(date, at, n) :
       /\ Cardinality(others) < MaxBookings /\ Fit(r, others)
       /\ bookings' = others \cup {Row(r, FALSE, n)}
  /\ UNCHANGED <<now, zone, weekly, overrides, off>>

HoldDays(date, days) ==
  /\ DaysFree(date, days)
  /\ \E others \in Expired :
       LET r == Buffered(date, days, Daily.buffer) IN
       /\ Cardinality(others) < MaxBookings /\ Fit(r, others)
       /\ bookings' = others \cup {Row(r, TRUE, days)}
  /\ UNCHANGED <<now, zone, weekly, overrides, off>>

Marked(b) ==
  /\ bookings' = (bookings \ {b}) \cup {[b EXCEPT !.overdue = ~b.overdue]}
  /\ UNCHANGED <<now, zone, weekly, overrides, off>>

\* hold_expires_at passes, of a booking that is not confirmed.
RunOut(b) == ~b.overdue /\ Marked(b)

\* A late payment confirms a booking that is overdue and has not expired.
Settle(b) == b.overdue /\ Marked(b)

\* The tick's expiry.
Expire ==
  /\ bookings' \in Expired \ {bookings}
  /\ UNCHANGED <<now, zone, weekly, overrides, off>>

\* vendorReschedule: in the future, outside time off, not over another booking.
Movable(b, r, others) ==
  now < b.start /\ now < r.start /\ ~Busy(r.from, r.to, off) /\ Fit(r, others)
Replace(b, r) ==
  /\ \E left \in Expired :
       /\ Movable(b, r, left \ {b})
       /\ bookings' = (left \ {b})
            \cup {[b EXCEPT !.start = r.start, !.end = r.end, !.from = r.from, !.to = r.to]}
  /\ UNCHANGED <<now, zone, weekly, overrides, off>>

\* The minutes between its four times stay; several sessions stay on one day.
MoveHours(b, date, minute) ==
  LET start == LocalToUtc(zone, date * Day + minute)  end == start + (b.end - b.start) IN
  /\ ~b.daily /\ start # NoTime
  /\ b.length > 1 => WithinOneDay(zone, start, end)
  /\ Replace(b, [start |-> start, end |-> end, from |-> start - (b.start - b.from), to |-> end + (b.to - b.end)])

\* The days are counted in the zone of today, the row keeps the zone it was made in.
MoveDays(b, date) ==
  /\ b.daily
  /\ Replace(b, Buffered(date, b.length, DateOf(zone, b.start) - DateOf(zone, b.from)))

SetHours(w) ==
  /\ weekly' = w
  /\ UNCHANGED <<now, zone, overrides, off, bookings>>

AddOverride(o) ==
  /\ overrides' = overrides \cup {o}
  /\ UNCHANGED <<now, zone, weekly, off, bookings>>

RemoveOverride(o) ==
  /\ o \in overrides /\ overrides' = overrides \ {o}
  /\ UNCHANGED <<now, zone, weekly, off, bookings>>

\* POST and DELETE /availability/blocked-periods: no booking there, not even one
\* that is over.
TakeTimeOff(p) ==
  /\ \E left \in Expired :
       /\ \A b \in left : ~Overlap(b.from, b.to, p[1], p[2])
       /\ bookings' = left
  /\ off' = off \cup {p}
  /\ UNCHANGED <<now, zone, weekly, overrides>>

EndTimeOff(p) ==
  /\ p \in off /\ off' = off \ {p}
  /\ UNCHANGED <<now, zone, weekly, overrides, bookings>>

SetZone(z) ==
  /\ zone' = z
  /\ UNCHANGED <<now, weekly, overrides, off, bookings>>

Tick ==
  /\ DateOf(zone, now + 1) \in Dates
  /\ now' = now + 1
  /\ UNCHANGED <<zone, weekly, overrides, off, bookings>>

Next ==
  \/ \E date \in Dates :
       \/ \E s \in Slots(date), n \in 1..Hourly.maxBlocks : HoldHours(date, s.at, n)
       \/ \E days \in 1..Daily.maxDays : HoldDays(date, days)
       \/ \E b \in bookings : MoveDays(b, date) \/ \E m \in Minutes : MoveHours(b, date, m)
  \/ \E b \in bookings : RunOut(b) \/ Settle(b)
  \/ Expire
  \/ \E w \in Windows : SetHours(w)
  \/ \E o \in Overrides : AddOverride(o) \/ RemoveOverride(o)
  \/ \E p \in Periods : TakeTimeOff(p) \/ EndTimeOff(p)
  \/ \E z \in Zones : SetZone(z)
  \/ Tick

Spec == Init /\ [][Next]_vars

(***************************************************************************)
(* Properties.                                                             *)
(***************************************************************************)
\* Every instant is on the date it belongs to by the starts of the days, whatever
\* the clock does at midnight: days neither overlap nor leave a gap, so bookings of
\* days that touch do not (days.ts: "Back-to-back bookings therefore touch").
DaysTile ==
  \A date \in Dates :
    LET r == DayRange(zone, date, 1) IN
    /\ r.start < r.end
    /\ \A t \in (r.start - Hour)..(r.end + Hour) : DateOf(zone, t) = date <=> r.start <= t /\ t < r.end

\* A local time that the clock shows twice is the earlier one, when it goes back by
\* an hour (time.ts:15), wherever it is looked up from.
EarlierWins ==
  \A date \in Dates, m \in Minutes :
    LET t == LocalToUtc(zone, date * Day + m) IN
    t # NoTime => \A k \in 1..Day : Local(zone, t - k) # Local(zone, t)

\* A page offers each start with the most sessions free from it, so that every
\* length up to there is held and none beyond, though the search stops at the
\* first length that fails (maxBlocksAt, availability.ts:86).
SlotsSayHowLong ==
  \A date \in Dates : \A s \in Slots(date), n \in Hourly.minBlocks..Hourly.maxBlocks :
    n <= s.maxBlocks <=> HourlyRanges(date, s.at, n) # {}

\* The calendar offers each date with the longest booking from it, and every
\* shorter one is held too (maxDaysFrom, availability.ts:155).
DaysSayHowLong ==
  \A date \in Dates : \A d \in Daily.minDays..Daily.maxDays : d <= MaxDaysFrom(date) <=> DaysFree(date, d)

\* What a hold by the hour gets is open for all of its time, clock changes
\* included, except the hour that the clock goes through twice.
Passed(r) == \E t \in r.start..(r.end - 1) : Local(zone, t + 1) < Local(zone, t)
HoldsOpenTime ==
  \A date \in Dates : \A s \in Slots(date), n \in 1..Hourly.maxBlocks :
    \A r \in HourlyRanges(date, s.at, n) :
      \/ Passed(r)
      \/ \A t \in r.start..(r.end - 1) : MinuteOf(zone, t) \in OpenMinutes(DateOf(zone, t))

\* The database refuses nothing the page offers but for a booking the engine does
\* not see: one that is over, or whose hold has run out and that no expiry has
\* taken, as it is paid in part or its row was locked (slot-data.ts:14,
\* booking-transition.ts:75-79).  Of all others the engine sees every overlap,
\* though it looks at days and buffers in other ways (createHold,
\* booking-service.ts:67-69).
RefusedByTheUnseenOnly ==
  \A date \in Dates :
    LET seen == {b \in bookings : ~b.overdue /\ b.to > now} IN
    /\ \A s \in Slots(date) : \A n \in Hourly.minBlocks..s.maxBlocks :
         \A r \in HourlyRanges(date, s.at, n) : Fit(r, seen)
    /\ \A d \in Daily.minDays..MaxDaysFrom(date) : Fit(Buffered(date, d, Daily.buffer), seen)
=============================================================================
