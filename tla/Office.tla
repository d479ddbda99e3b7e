-------------------------------- MODULE Office -------------------------------
(***************************************************************************)
(* The parts of the API that share no state their properties are about,    *)
(* side by side: a behaviour picks one part and runs it.  The outbox is    *)
(* that of Outbox itself; the other parts are instances, under names that   *)
(* tell their constants and variables apart.  Bookings, Payments, Codes and *)
(* SignIn have modules and runs of their own.                              *)
(***************************************************************************)
EXTENDS Outbox

CONSTANTS
  Handler,                                      \* handlers that may run at once
  Vendor, Slug,                                 \* Pages
  Service, Patch, Count, DayMinutes, MaxBlocks, MaxDays, Percent, Gone,
  Booking,                                      \* Accounts
  Job, Last, Moments, Before,                   \* Notices: its Starts and Day
  Day, Hour, NoTime, Zones, Week, Windows, Overrides, Periods,
  Sessions, WholeDays, Notice, Horizon, Dates, MaxBookings,   \* Slots
  Call, Finding, Shown, Listed,                 \* Jobs
  Deploy, Files, Content, Absent, Unknown       \* Migrations

VARIABLES
  part,                                         \* the part that was picked
  slug, former, renaming, used, raced,
  row, order, locked, change, asked, mended,
  published, feed, service, profile, closed, erased, booking, anonymous, begun,
  spoilt, unseen,
  now, visit, mailed, told, reminded, wants, reminding, twice,
  instant, zone, weekly, overrides, off, bookings,
  ops, runs, call, mails, reported,
  file, applied, holder, migrating

pageVars == <<slug, former, renaming, used, raced>>
serviceVars == <<row, order, locked, change, asked, mended>>
accountVars == <<published, feed, service, profile, closed, erased, booking,
                 anonymous, begun, spoilt, unseen>>
noticeVars == <<now, visit, mailed, told, reminded, wants, reminding, twice>>
slotVars == <<instant, zone, weekly, overrides, off, bookings>>
jobVars == <<ops, runs, call, mails, reported>>
migrationVars == <<file, applied, holder, migrating>>

all == <<part, vars, pageVars, serviceVars, accountVars, noticeVars, slotVars,
         jobVars, migrationVars>>

Naming == INSTANCE Pages WITH Request <- Handler, request <- renaming
Offering == INSTANCE Services WITH Request <- Handler, request <- change
Closing == INSTANCE Accounts
Telling == INSTANCE Notices WITH
  Starts <- Moments, Day <- Before, booking <- visit, outbox <- mailed,
  run <- reminding
Scheduling == INSTANCE Slots WITH
  Hourly <- Sessions, Daily <- WholeDays, Ahead <- Horizon, now <- instant
Ticking == INSTANCE Jobs
Deploying == INSTANCE Migrations WITH row <- applied, run <- migrating

\* What a request of Services remembers.
Changes == [kind : {"patch"}, of : Service, read : Offering!Row, patch : Patch]
Orders == [kind : {"order"}, ids : UNION {Offering!Places(S) : S \in SUBSET Service},
           done : SUBSET Service]

(***************************************************************************)
(* What NULL stands for is told from values, and numbers are numbers.      *)
(***************************************************************************)
ASSUME PagesAssumption == Null \notin Slug \cup Vendor \cup Naming!Progress
ASSUME ServicesAssumption ==
  /\ Offering!CountsAreNumbers /\ Offering!LimitsAreNumbers
  /\ IsFiniteSet(Service)
  /\ Null # Gone /\ Null \notin Count \cup Handler \cup Changes \cup Orders
  /\ {Null, Gone} \cap Offering!Row = {}
  /\ Offering!PatchesAreTyped
ASSUME NoticesAssumption ==
  Telling!TimesAreNumbers /\ Null \notin [of : Moments, at : Telling!Times]
ASSUME SlotsAssumption == Scheduling!ClockAssumption /\ Scheduling!SettingsAreValid
ASSUME JobsAssumption ==
  /\ Null \notin Ticking!Triggers /\ Shown \in Nat /\ Listed \in Nat
  /\ \A k \in Ticking!Checks : IsFiniteSet(Finding[k])
ASSUME MigrationsAssumption ==
  /\ Files \in Nat /\ Null \notin Deploy
  /\ {Null, Unknown, Absent} \cap Content = {} /\ Null # Unknown /\ Absent # Unknown
  /\ Null \notin [read : [1..Files -> Content \cup {Null, Unknown}], next : 1..(Files + 1)]

(***************************************************************************)
(* A behaviour.  Where a part may begin in several ways it begins in one of *)
(* them when another part was picked.                                      *)
(***************************************************************************)
\* The part about orders has all services and no changes of them; that about
\* changes has one service.
OneStart ==
  /\ row = [s \in Service |->
       IF part = "services" /\ s # CHOOSE t \in Service : TRUE THEN Gone ELSE Null]
  /\ part # "notices" => visit.start = CHOOSE s \in Moments \ {0} : TRUE
  /\ part # "jobs" => ops
  /\ part # "slots" => /\ zone = CHOOSE z \in Zones : TRUE
                       /\ weekly = CHOOSE w \in Windows : TRUE
  /\ part # "migrations" => /\ file = [d \in Deploy |-> [n \in 1..Files |-> Absent]]
                            /\ applied = [n \in 1..Files |-> Null]

Start ==
  /\ part \in {"outbox", "pages", "services", "order", "accounts", "notices",
               "slots", "jobs", "migrations"}
  /\ Init /\ Naming!Init /\ Offering!Init /\ Closing!Init /\ Telling!Init
  /\ Scheduling!Init /\ Ticking!Init /\ Deploying!Init
  /\ OneStart

\* Only the variables vs of the part change.
Outboxing == part = "outbox" /\ Next
Paging == part = "pages" /\ Naming!Next
Selling == part = "services" /\ Offering!Next
Ordering ==
  /\ part = "order"
  /\ \/ \E s \in Service : Offering!Create(s) \/ Offering!Delete(s)
     \/ \E r \in Handler : Offering!Arrange(r)
Leaving == part = "accounts" /\ Closing!Next
Reminding == part = "notices" /\ Telling!Next
Offers == part = "slots" /\ Scheduling!Next
Runs == part = "jobs" /\ Ticking!Next
Migrates == part = "migrations" /\ Deploying!Next

Step ==
  \/ Outboxing /\ UNCHANGED <<part, pageVars, serviceVars, accountVars,
                              noticeVars, slotVars, jobVars, migrationVars>>
  \/ Paging /\ UNCHANGED <<part, vars, serviceVars, accountVars, noticeVars,
                           slotVars, jobVars, migrationVars>>
  \/ (Selling \/ Ordering) /\ UNCHANGED <<part, vars, pageVars, accountVars,
                           noticeVars, slotVars, jobVars, migrationVars>>
  \/ Leaving /\ UNCHANGED <<part, vars, pageVars, serviceVars, noticeVars,
                            slotVars, jobVars, migrationVars>>
  \/ Reminding /\ UNCHANGED <<part, vars, pageVars, serviceVars, accountVars,
                              slotVars, jobVars, migrationVars>>
  \/ Offers /\ UNCHANGED <<part, vars, pageVars, serviceVars, accountVars,
                           noticeVars, jobVars, migrationVars>>
  \/ Runs /\ UNCHANGED <<part, vars, pageVars, serviceVars, accountVars,
                         noticeVars, slotVars, migrationVars>>
  \/ Migrates /\ UNCHANGED <<part, vars, pageVars, serviceVars, accountVars,
                             noticeVars, slotVars, jobVars>>

OfficeSpec == Start /\ [][Step]_all
(***************************************************************************)
(* Properties.  Each is asked of its part; the module of the part says     *)
(* what the conjuncts are about.                                           *)
(***************************************************************************)
\* The states of each part are well typed.
TypesOK ==
  /\ part = "outbox" => TypeOK
  /\ part = "pages" => Naming!TypeOK
  /\ part \in {"services", "order"} => Offering!TypeOK
  /\ part = "accounts" => Closing!TypeOK
  /\ part = "notices" => Telling!TypeOK
  /\ part = "slots" => Scheduling!TypeOK
  /\ part = "jobs" => Ticking!TypeOK
  /\ part = "migrations" => Deploying!TypeOK

\* An address leads to one vendor, and a former one still to whoever left it,
\* unless two handlers raced for it or a save that had read an older one left it
\* (vendor-routes.ts:58-95).
AddressesLead == part = "pages" => Naming!OneOwner /\ Naming!OldLinksLead

\* What is stored of a service fits together after overlapping changes, and
\* overlapping reorders leave an order somebody asked for (vendor-routes.ts:119-154).
ServicesFit ==
  part \in {"services", "order"} => Offering!StoredIsValid /\ Offering!OrderWasAsked

\* A page goes online complete; an account closes when what it had was over, and
\* then stays off and keeps no contact, but for what a request had begun before
\* (POST /publish, POST /account/delete, POST /delete).
ClosedIsOver ==
  part = "accounts" =>
    /\ Closing!OnlineIsComplete /\ Closing!ClosedStaysOff
    /\ Closing!ClosedHasServed /\ Closing!ErasedIsOver /\ Closing!NothingLeft

\* The last email a customer has names the time of the booking, and a reminder
\* goes out on the last day before, about the time the booking then has
\* (jobs.ts:58-79, notifications/booking-mail.ts:28-61).
CustomersAreTold ==
  /\ [](part = "notices" => Telling!CustomerKnowsTheTime)
  /\ [][part = "notices" => Telling!RemindsThen /\ Telling!RemindsInTime]_all

\* Local days follow one upon another and the earlier of two equal times wins;
\* the times and days a page offers can be held for as long as it says and no
\* longer, lie in the opening hours, whatever the clock does, and are refused for
\* a booking that is over or whose hold has run out at most (time.ts, days.ts,
\* availability.ts, slot-data.ts).
CalendarIsTrue ==
  part = "slots" =>
    /\ Scheduling!DaysTile /\ Scheduling!EarlierWins
    /\ Scheduling!SlotsSayHowLong /\ Scheduling!DaysSayHowLong
    /\ Scheduling!HoldsOpenTime /\ Scheduling!RefusedByTheUnseenOnly

\* A call of the scheduler that is answered has run all of its jobs, and what a
\* nightly check found is in an email of that day if there is somebody to have it
\* and room in it (jobs.ts:25-42, 95-134, booking-mail.ts:64-67); a migration is
\* applied after those before it, and not over changed files
\* (migration-runner.ts:39-57).
RunsAreComplete ==
  /\ part = "jobs" => Ticking!AnswersForAll /\ Ticking!FindingsAreMailed
  /\ part = "migrations" => Deploying!AppliesRightly
=============================================================================
