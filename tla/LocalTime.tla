----------------------------- MODULE LocalTime ------------------------------
(***************************************************************************)
(* Local time (packages/shared/src/time.ts, days.ts, blocks.ts).  Time is  *)
(* counted in steps of the grid of starts, 30 minutes in the code.  An     *)
(* instant is an integer, and so is a local time: date * Day + minute.  A  *)
(* zone is its offset from UTC and one clock change, at instant `from`.    *)
(***************************************************************************)
EXTENDS Integers

CONSTANTS Day,    \* the length of a local day on the clock face
          Hour,   \* 3_600_000 ms
          NoTime  \* null
ClockAssumption == Day \in Nat \ {0} /\ Hour \in Nat \ {0} /\ NoTime \notin Int

Zone == [base : Int, from : Int, shift : Int]

\* Intl.DateTimeFormat, as zonedParts uses it.
Offset(z, t) == IF t < z.from THEN z.base ELSE z.base + z.shift
Local(z, t) == t + Offset(z, t)

DateOf(z, t) == Local(z, t) \div Day
MinuteOf(z, t) == Local(z, t) % Day

\* A change localDateTimeToUtc allows for: forward by less than a day, or back by an
\* hour and not into the day before.
UsualChange(z) ==
  \/ z.shift \in 0..(Day - 1)
  \/ z.shift = -Hour /\ DateOf(z, z.from - 1) <= DateOf(z, z.from)

\* One round of the search: move the candidate by what it is off.
Nudge(z, l, t) == t + (l - Local(z, t))

Candidate(z, l) == Nudge(z, l, Nudge(z, l, Nudge(z, l, l)))

\* localDateTimeToUtc: of two instants an hour apart the earlier wins.
LocalToUtc(z, l) ==
  LET t == Candidate(z, l) IN
  IF Local(z, t) # l THEN NoTime
  ELSE IF Local(z, t - Hour) = l THEN t - Hour ELSE t

\* startOfLocalDay: the first local minute that exists.
StartOfDay(z, date) ==
  LET exists == {m \in 0..(Day - 1) : LocalToUtc(z, date * Day + m) # NoTime}
  IN LocalToUtc(z, date * Day + (CHOOSE m \in exists : \A n \in exists : m <= n))

\* localDayRange: what whole days occupy.
DayRange(z, date, days) == [start |-> StartOfDay(z, date), end |-> StartOfDay(z, date + days)]

\* withinOneLocalDay
WithinOneDay(z, start, end) == DateOf(z, start) = DateOf(z, end - 1)
=============================================================================
