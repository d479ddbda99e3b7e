# Bayana in TLA+

Bayana takes bookings for small businesses: a customer holds a time, agrees to
the terms, pays an advance, and both sides hear of it by email. The vendor keeps
services, hours and bookings in a dashboard, and an admin looks after what gets
stuck. This directory holds models of the API and of the pages that call it,
the properties they are meant to have, runs of TLC that check them on small
instances, and proofs that many of them hold for every instance.

Paths below are relative to `src/`; `api/` stands for `src/apps/api/src/`, `web/`
for `src/apps/web/`, `sql/` for `src/apps/api/sql/`, `shared/` for
`src/packages/shared/src/`.

## The system

One Node process (`api/server.ts`) serves an HTTP API over a PostgreSQL
database; a scheduler calls its tick every few minutes and a nightly job; the
payment gateway (Razorpay) calls its webhook; Google signs people in. A Next.js
application shows the customer's booking pages, the vendor's dashboard and the
admin console, and calls the API from the browser. Requests run at once and meet
in the database only: in transactions, row locks, one advisory lock per vendor,
and constraints. Several instances of the process behave like one.

| part | state | operations | what makes it correct |
|---|---|---|---|
| Booking lifecycle (`api/booking-transition.ts`, `sql/013`) | `bookings.status`, times, `hold_expires_at`; `booking_events` | the guarded transitions, lazy and swept expiry | no two active bookings overlap; confirmed means paid; unpaid holds end |
| Holds, terms (`api/booking-service.ts`) | the same rows | `createHold`, `acceptTerms` | a held time was free; an advance is asked before confirming |
| Vendor's bookings (`api/vendor-bookings.ts`) | the same rows | manual booking, move, complete, cancel | a move takes free time only; a cancellation pays everything back |
| Availability (`api/vendor-routes.ts`, `slot-data.ts`, `availability.ts`, `shared/time.ts`, `days.ts`) | weekly hours, overrides, `blocked_periods` | edit, block, unblock; the slot engine reads | nobody is served in time off; what is offered can be held, and no more |
| Services (`api/vendor-routes.ts`) | `services` | create, change, delete, reorder | a stored service fits together; the order is one that was asked for |
| Page addresses (`api/vendor-routes.ts`, `sql/006`) | `vendors.slug`, `vendor_slug_history` | claim, rename, look up | an address leads to one vendor, an old one still to whoever left it |
| Accounts, privacy (`api/dashboard-routes.ts`, `privacy.ts`) | `vendors`, `users` | publish, go offline, calendar feed, close, erase | an online page is complete; a closed account has served what it sold |
| Payments (`api/payments/service.ts`, `sql/015`) | `payments`, `refunds`, `ledger_entries` | order, capture, offline payment, refund rows, refund calls, gateway refunds | ledger, rows and gateway agree; a late payment confirms or goes back |
| Webhooks (`api/payments/webhooks.ts`) | `webhook_events` | receive, process, retry, flag | no capture is lost or applied twice |
| Reconcile, diagnosis (`api/payments/reconcile.ts`, `api/admin-routes.ts`) | none | compare the last 48 hours and report | what was compared and found the same is the same |
| The vendor's money pages (`api/dashboard-routes.ts`) | none | summary, balance, to-do list, actions | every paisa that is owed is asked for somewhere |
| Outbox (`api/notifications/outbox.ts`, `sql/016`) | `email_outbox` | enqueue, claim, send, record; cleanup, erase, retry | sent once, or given up; nothing empty is sent |
| Booking emails, reminders (`api/notifications/booking-mail.ts`, `api/jobs.ts`) | `reminder_sent_at`, dedupe keys | one email per happening | the customer's last email has the right time |
| Jobs (`api/jobs.ts`, `api/app.ts`) | `job_runs` | tick, nightly run, cleanup, checks | an answer means all jobs ran; findings are mailed where there is an address and room |
| Migrations (`api/migration-runner.ts`) | `schema_migrations` | check, apply under a lock | in order, never over a changed file |
| Codes (`api/auth.ts`) | `otp_codes` | ask, supersede, try, consume | a code works once, few tries |
| Sign-in (`api/auth.ts`, `auth-routes.ts`, `google/`) | `users`, `auth_identities`, `sessions`, `oauth_login_states` | sign up, log in, Google, change the ways to sign in, revoke | revoked sessions end; nobody is locked out, overwritten or signed in as another |
| Second factor (`api/admin-routes.ts`, `totp.ts`) | `users.totp_*`, `sessions.admin_verified_at` | set up, prove | a code enters once, after few guesses |
| Admin console (`web/components/admin`, `api/admin-routes.ts`) | audit rows; lists in the browser | search, retry, reprocess, run jobs | what is seen is audited; a repair is made once |
| Booking form (`web/app/(public)/[slug]/book`) | the steps and choices in the browser | slots, code, hold, terms, timer | what is agreed to is what the page shows |
| Booking page (`web/app/(public)/b/[id]`, `web/components/booking/payment-panel.tsx`) | view, panel, Razorpay's window | refresh, pay, poll, cancel | success is shown for captured money only |
| Dashboard (`web/app/dashboard`) | what each screen loaded, forms, switches | load, change, load again | a screen at rest shows what is stored |
| Onboarding (`web/components/vendor/onboarding-wizard.tsx`) | the step, the profile it loaded | save, publish, go on | it leads on, and says live of a live page |
| Sleeping API (`web/lib/api.ts`, `web/app/(public)/waking/waking-status.tsx`) | whether the API was awake | the first call, `/waking` | a visitor comes back to the page |

How they interact: a capture (webhook, checkout or admin) updates its payment
and confirms the booking in one transaction; cancellations and late captures
insert refund rows in their transaction and call the gateway after it; every
transaction that changes a booking queues its emails in the outbox, and the
process sends urgent ones right after its reply; the pages know of all this only
what the last answered call told them. What is hard is what happens between two
transactions or two answers: a status read before a lock is taken, ids kept in
memory over a commit, an answer that does not come or comes after another, a
crash, two processors of one event, a lease that runs out, a form that is sent
again. `PROJECT.json` lists these hazards at their lines with the properties that
watch them.

## The modules

| module | models | run |
|---|---|---|
| `Claims` | what a vendor's calendar promises; `Bookings` implements it | `bookings` |
| `Bookings`, `BookingsProofs` | bookings and time off of one vendor | `bookings`, `progress` |
| `Payments`, `PaymentsProofs` | the money of one booking, the webhooks and the gateway | `payments`, `progress` |
| `Diagnosis`, `Overview`, `OverviewProofs` | what an admin and a vendor are told of that money | `payments` |
| `Codes`, `CodesProofs` | one-time codes and the requests about them | `codes` |
| `SignIn`, `SignInProofs` | accounts, their ways to sign in, sessions | `sign_in` |
| `Outbox`, `OutboxProofs` | the email outbox and its senders | `office`, `progress` |
| `Office`, `OfficeProofs` | the outbox and the seven modules below, each by itself | `office` |
| `LocalTime`, `Slots` | local time, hours and the slot engine | `office` |
| `Services` | a vendor's services and their order | `office` |
| `Pages` | addresses of booking pages, old and new | `office` |
| `Accounts` | publishing, going offline, closing, erasing | `office` |
| `Notices` | emails about a booking and the reminder job | `office` |
| `Jobs` | calls of the scheduler, their jobs and reports | `office` |
| `Migrations` | overlapping deployments that migrate | `office` |
| `Screens`, `ScreensProofs` | the eight modules below, each by itself | `screens` |
| `BookingFlow` | the booking form | `screens` |
| `Checkout` | the booking page and the payment panel | `screens` |
| `Desk` | the screens of the dashboard | `screens` |
| `Walkins` | two dashboard forms that are sent again | `screens` |
| `Onboarding` | the wizard of a new vendor | `screens` |
| `Console` | the admin console | `screens` |
| `SecondFactor` | an admin's authenticator | `screens` |
| `Handshake` | signing in with Google | `screens` |
| `Waking` | a visitor of a sleeping API | `progress` |
| `MC*` | values of constants, symmetry and composition for TLC | |

`Office`, `Screens` and `MCProgress` hold several parts that share no state any
property is about. A behaviour picks one part at the start (`part`) and runs it
alone; a property of such a run says of each part what its module states. So each
part is explored as if it were alone, with its own bounds, and the state spaces add
up instead of multiplying. `Office` and `Screens` declare every constant and variable of
their parts under a name of its own, so that their theorems are about any values;
`MCOffice` and `MCScreens` only give them some. `Services` is two parts of `Office`:
`services`, where two requests change one service, and `order`, where services come, go
and are reordered. In `MCProgress` the variables of a part stand for numbered ones.

**Bookings.** A transaction is one action: those that hand out or close time run
under the vendor's advisory lock (`VendorLocked`), the others lock the booking
they change (`RowLocked`). The rows an expiry skips because somebody has them
locked are the parameter `skipped`, chosen freely, and appear both in the tick's
job and in the lazy expiry inside holds, moves, manual bookings and time off.
The capture is the exception to one action a transaction: it locks the payment
but reads the booking's status without a lock, so `BeginCapture` remembers that
reading in `seen` and anything may happen before `FinishCapture` decides on it.
The exclusion constraint is the guard `NoOverlap`; the slot engine is the guard
`Offered`, over times (`Span`) whose service and block ranges differ by buffers,
of minutes or, for daily bookings, days. Opening hours and notice only reduce
the times that are asked for (they are in `Slots`), so they are the choice of
`s \in Span`. A booking is its idempotency key, so a repeated request is a step that
changes nothing. `unlocked` remembers what `booking_events` shows: an EXPIRED to
CONFIRMED event that is not marked late.

**Payments** follows one booking from PENDING. Memory between transactions is
state: `capture` (the open transaction and what it read), `preview` (the refund
a customer was shown), `toIssue` (refund rows a request goes on to send),
`finishing` (an outcome that is still to be written on its event). `Crash`
empties all of them. Whether the booking's time is still free is a free choice
here, since `Bookings` decides it. Gateway refunds are numbered in the order
they are made; the gateway settles them, reports them in any order, accepts no
more than was captured, and may make a refund although our call failed. Dedupe
keys, audit rows and emails are left out: no property is about them. An order
whose attempts failed or are only authorized is still `"created"`, for no guard
tells these apart. A payment that does not match its order is refused before
anything is changed, and is left out. So are later installments: the vendor
records one offline payment.

**Diagnosis** and **Overview** compute what the code shows from the rows of
`Payments`: the differences of the nightly reconcile and the findings of `diagnose`;
the summary of `/payments`, `balance_due` and the to-do list of `/overview`, and the
buttons of a booking's page. They add no state: their property `NothingIsHidden`
is about every reachable state of `Payments`: a quiet diagnosis is right, a clean
reconcile vouches for what it listed, and money received, returned and still owed adds
up on the pages. There is no clock in `Payments`, so a reconcile is asked of every look
it may have (`Looks`): which payment and which of the youngest refunds the gateway lists
for the last 48 hours (`api/payments/reconcile.ts:10-12`, `razorpay-provider.ts:29-30`),
which rows were written since then (`:17`, `:48`), whether an event has waited for ten
minutes (`:51`), and what the gateway did between its lists and the queries. Of a payment
that is older a clean reconcile says nothing, and the property asks nothing of it.

**Outbox** counts due times, leases and the life of a sign-in code down to zero.
`Claim` is the one UPDATE of `sendOutbox`; `Deliver` and `RecordSent` or
`RecordFailure` are apart, and an answer `"unknown"` stands for a call that timed
out, or whose UPDATE failed, after the mail service accepted. `excused` holds the
emails a sender lost its hold on.

**Codes.** Asking is one transaction of `createOtp`, in three actions: the limits
(`AskForCode`), the UPDATE that ends older codes (`Supersede`) and the commit that
shows the new row (`IssueCode`); no row they share makes one such transaction wait
for another, so two may overlap. `TryCode` is the subquery of `checkOtp`, which
finds the newest live row; `CountAttempt` is its UPDATE, committed on its own, and
its two outcomes are what the comparison may say; `ConsumeOtp` runs later inside
the transaction the code pays for. A request may stop between any two
(`GiveUp`), which also stands for a rollback. Four fields of a row are history:
`committed`, `rival`, `compared`, `wins`.

**SignIn** takes up where a code has matched: each transaction that consumes one, or that
a Google callback runs, is an action. Three handlers read outside their transaction and
are requests in steps: signing up (the account is looked for before the password is
hashed), logging in by password (compare, then begin a session), and the settings (the
current password is checked, then changed or removed). `Enter` is `startSession` with the
sessions it revokes. Where a transaction updates the account's row it waits for others
that do, so it is one action. A login by password and one with a Google account that is
connected only insert a session (`api/auth-routes.ts:110`,
`api/google/routes.ts:116-119,136`): the foreign key's lock does not make a reset wait,
and under READ COMMITTED (`api/database.ts:18`) the reset does not see the row. So they
are two actions, the insert (`LoginByPassword`, `InsertByGoogle`) and `CommitLogin`.
`SELECT ... FOR UPDATE` does wait for the insert (`Lockable`). `changes` counts the
changes of a password, and a session notes the count at its commit, which is what
`SessionsFollowPassword` speaks of: a reset by code "revokes every session"
(`api/auth-routes.ts:127`) that was committed when it did so, and a login that was under
way just then outlives it, until the next change.

**Handshake** is the part of Google sign-in before that: the attempt's row, the one
cookie of the browser, Google's page, which can be gone back to, and the callback
with Google's answer between its statements, so that two callbacks overlap.

**Slots** computes the page's days and starts from weekly hours, overrides, time off
and bookings in a zone whose clock changes, over the grid of starts, and holds and
moves on them under the vendor's lock; **LocalTime** has the conversions. Its
properties compare the engine's searches, which stop early, with what can really be
held. A booking that waits for money may be `overdue`: the engine does not count it any
more (`api/slot-data.ts:14`), the expiry takes it or leaves it (it is paid in part, or its
row is locked), and a late payment may settle it. `RefusedByTheUnseenOnly` says that the
database refuses what is offered only for such a booking or one that is over.

**Services**, **Pages**, **Accounts** and **Migrations** take a handler apart where it
reads in one statement and writes in another, or keeps rows locked while others wait.
Where the code does not prevent a race, a history variable marks what was raced for
(`raced`, `mended`, `spoilt`, `unseen`), so that the property says exactly which race is
needed. In `Pages` a save that sends the address it read (`Keep`) writes it without a
check and keeps none, also over a rename made since. In `Services` a null that is sent
hides the stored value and asks for the default (`Merged`). In `Accounts` a request whose
time to pay has run out, but that no sweep has expired, is `LAPSED`: both checks for
bookings ahead overlook it, and a late payment confirms it. **Notices** puts moves,
cancellations and any number of reminder jobs, whose lists may be old, over an outbox that
drops an email whose key it has. **Jobs** has calls that overlap, jobs that fail,
statements the database refuses and a process that stops. Whether `OPS_EMAIL` is set is
chosen at the start (`ops`); without it findings are only logged
(`api/notifications/booking-mail.ts:65`). An email lists the first lines only (`Listed`;
of a query of the consistency check, `Shown` rows make lines), and a key of the reconcile
leaves the details out (`api/jobs.ts:98`), so a difference whose amount changed is not
mailed again that day.

**BookingFlow**, **Checkout**, **Desk**, **Walkins**, **Onboarding** and **Console** are a
browser and the API with calls in `net`: each is answered late, in any order, or lost
before or after the API acted on it. What the browser does on an answer is an action of
its own, with the guard the component has (an aborted effect, a request that is no longer
the current one). In `Checkout` a refresh that fails replaces the page by an error
(`panel` is `"gone"`): the panel is unmounted, its calls are not, and when the page comes
back the panel is a new one that their answers do not reach. `Desk` has all dashboard
screens at once, for each follows a change in one of four ways only, and its actions
differ by which items they ask for and change. The cards of the settings and the editors
of the weekly hours and the booking window (`availability-manager.tsx:54,153`) keep a copy
that is made when their tab is opened, and are unmounted with their button when it is left
(`OpenTab`, `LeaveTab`, `Orphaned`). **SecondFactor** has two sessions of one admin whose
statements interleave. **Waking** is the browser's guard against a host that sleeps.

## Runs

| run | module | states | what it shows |
|---|---|---|---|
| `bookings` | `MCBookings` | 322 000 | `NoDoubleBooking`, `ConfirmedIsPaid`, `ExpiredIsUnpaid`, `OnlyUnlockedOverTimeOff`, `OnlyPartPaidIsOffered`, and that `Bookings` implements `Claims` |
| `payments` | `MCPayments` | 1 444 000 | ledger, rows and gateway agree; a late capture confirms or is refunded; a vendor's cancellation refunds everything; confirmed is covered; `NothingIsHidden` from an admin or the vendor |
| `codes` | `MCCodes` | 3 690 000 | `CodeWorksOnce`, `GuessesAreBounded`, and what races may and may not do to the cooldown |
| `sign_in` | `MCSignIn` | 1 666 000 | ended sessions stay ended, sessions follow the password as of their commit, no password is overwritten unseen, a way to sign in remains |
| `office` | `MCOffice` | 1 264 000, 9 parts | emails go out twice only if excused and the outbox tells the truth; addresses, services, accounts, notices, the calendar, jobs and migrations as their modules state it |
| `screens` | `MCScreens` | 2 372 000, 8 parts | customers agree to what they see and pay once; dashboards at rest are true; entries are proven |
| `progress` | `MCProgress` | 88 000, 4 parts | liveness: unpaid holds end, a visitor of a sleeping API comes back, a capture is recorded, a queued email is sent or given up |
| `time_off`, `refund_policy`, `refunds_sent`, `account_closed`, `fresh_reminder` | | | each finds a statement of the documents or comments violated, see below |

Each property of `office` and `screens` joins the properties of one part or a few: the
module of the part states them one by one, with the lines they are about.

*Bounds.* Two bookings suffice for every conflict the code decides on, since the
constraint, the engine and time off compare pairs; the three times are two that
touch only in their buffers and a daily one with buffer days that overlaps both,
so a move, a hold and a late capture can each take another's time. The clock
(`MaxTime` 5) passes every expiry and the end of a booking; a hold is only made
when its expiry comes before that bound. Money is counted in units: an advance of
two of a price of three lets an offline payment cover part or all of it and a
tier of 50% lie between nothing and everything. Three refund rows and two gateway
refunds let a failed, a foreign and a matched refund of one payment meet. In the
outbox a limit of two, one wait and a lease of one step let a lease run out under
a batch; the liveness run has three waits, so that a stale count can lower a newer
one. One crash and one retry may come at any step. A look of the reconcile may leave out
the payment, and of the refunds the oldest and the youngest ones, in every combination.

Two requests suffice for the races of codes and sign-in, for each property is about
one row and at most two writers; three codes let one be superseded by two askers,
and a limit of two attempts lets both be in hand at once. Addresses are
independent, so one is enough; two purposes are not mixed by any guard but share
the caps. Time runs to 3 for codes, past a cooldown and to the end of a code's life
and of an hour, and to 2 for sign-in, past the end of a session that is not used;
the absolute end caps the sliding one but lies beyond the run. Google sign-in has two
attempts, callbacks and accounts, so that each of two may be taken for the other.

Of the parts of `office`: two vendors want three addresses; two requests change one
service with nine patches, most of which fit only with one another and one of which sends
nulls, or reorder two; one booking lies ahead of an account that closes; two reminder jobs
meet two starts; two zones change their clocks in the middle of two dates of six grid
steps, once forward and once back, with one booking that may become overdue; two calls,
with checks that find up to two things, one of them with either of two details, and emails
with room for one line; two deployments of three files. Of `screens`: two dates and keys
in the booking form, two orders and calls at a time in the panel, three to five calls of a
visit to each dashboard screen, which is the change that loses its answer, the load it
starts and one more of each; two admins with four calls; two sessions that prove
themselves to two secrets in three time steps; six calls of a wizard that starts anywhere.
A sleeping host sleeps three times in a visit. The two items, handlers or sessions of a
part (`Pair`) are symmetric; so are customers and requests in the safety runs. The
liveness run uses no symmetry. All runs allow the system to stop, since the clocks and
counters are bounded and a booking's life is finite.

*Fairness.* `Bookings`: time passes, and `expire_holds` sooner or later finds every
row unlocked (`WF(ExpireHolds({}))`): the scheduler calls the tick again and
again and transactions are short. `Payments`: the gateway repeats an event until it
is accepted (24 hours, `api/payments/webhooks.ts:15`), `process_webhooks` takes up
every waiting event on each tick, and a begun transaction or statement ends; a
crash is not excluded. Nothing is assumed of customers, vendors, admins, or of the
gateway's decisions. Sending a refund (`IssueRefund`) is fair only while a request
still has it in hand. `Outbox`: time passes, some sender claims what is due, and a
sender that has claimed works on, since the mail call has a time limit. `Waking`: the
host wakes when it is asked and answers, and `/waking` polls.

*What the violations show.*
- `time_off`: a capture that read PENDING before the hold expired confirms the
  booking over time off made since (`api/payments/service.ts:94,106`).
  `OnlyUnlockedOverTimeOff` of `bookings`, also proved, says this is the only way.
- `refund_policy`: the customer's refund is computed before the transaction
  (`api/booking-routes.ts:71`), and a payment recorded meanwhile is not refunded.
- `refunds_sent`: a refund row whose request died after the commit stays pending.
- `account_closed`: the check of a closing account (`api/dashboard-routes.ts:212`)
  overlooks a HELD booking. Its customer accepts the terms of a booking without an advance
  and is confirmed. In TLC's trace that is just before the closing commits; nothing in
  `acceptTerms` (`api/booking-service.ts:85-110`) looks at the vendor, so it may as well
  be after. The property leaves out the bookings that were just being made.
- `fresh_reminder`: a moved booking is claimed for a fresh reminder, which has the key
  of the first one and is dropped (`api/vendor-bookings.ts:96`, `api/jobs.ts:73`).

*Exceptions stated as invariants.* `OnlyPartPaidIsOffered` says a time the engine
offers is taken by an active booking only if that booking is PENDING, overdue and part
paid, for such a booking is never expired although `api/slot-data.ts:14` no longer
counts it as busy. The constraint still protects it: the next customer is refused, which
is what `RefusedByTheUnseenOnly` of `Slots` allows.
`SettledScreenIsTrue` excepts a screen whose last load was overtaken, and an editor of the
hours that was left and opened again while they were saved: it was mounted from the old
data, and shows it after the save is answered and loaded, with nothing under way.
Likewise `TwiceOnlyIfExcused`, `TwiceOnlyIfLost`, `OneOwner`, `OldLinksLead`, `OrderWasAsked`,
`OnlineIsComplete`, `ClosedHasServed`, `FindingsAreMailed`, `HoldsOneTime` and `EntryIsProven`
name the race, lost answer, expired lease, stale save or missing room after which the code
does not give what it otherwise promises.

Every property of a passing run has a mutant: a variant of a definition with a
plausible slip, kept beside it under `Variant`, with which TLC finds the property
violated.

## What the code does that no run shows

Met while the modules were written, and left out of them or allowed by them:

- *Money.* The gateway's order is created inside the transaction
  (`api/payments/service.ts:46`), so a failed commit leaves an order nobody knows. An
  open order and an offline payment may together exceed the price (`:150`), and
  `balance_due` then sums a negative amount (`api/dashboard-routes.ts:47`; `:139` does
  not). A manual refund stays "owed by you" for ever (`:145`), and the to-do
  `record_advance` names the whole advance though part of it is paid (`:49`). A late
  capture locks its payment, then the vendor, then the booking (`service.ts:113`); a move
  locks the vendor and the booking first, and the two may wait for each other until
  the database ends one. A captured order on an EXPIRED booking whose event was never
  stored is diagnosed as fine.
- *Emails.* A booking moved from A to B, back and to B again has one email about B
  (`api/notifications/booking-mail.ts:60`), and a daily booking is written about in the
  timezone the vendor has by then (`:20`). When a lease runs out under a batch the email
  goes out twice (`api/notifications/outbox.ts:34-39`).
- *Time.* A day the page offers may be refused because a booking there is already over
  (`api/availability.ts:140-148`), and so may time off; sessions laid out over the hour
  that the clock repeats leave the opening hours (`:67-69`), and half-hour changes are not
  met exactly (`shared/time.ts:15`). Two overlapping PUTs of the weekly hours may leave a
  mixture (`api/vendor-routes.ts:168-177`, "atomically", but without a lock).
- *Sign-in.* A login compares the password before its transaction
  (`api/auth-routes.ts:109`), so one whose comparison is older than a change of the
  password may begin after it. A new authenticator does not end the second factor of a
  session that had it (`RUN_LOCAL.md:73-75`), and two setups at once race
  (`api/admin-routes.ts:63-78`). Of two Google attempts in two tabs the first to come
  back is refused and clears the other's cookie (`api/google/routes.ts:57-58`).
- *Admin.* A crash between an action and its audit row leaves the action unaudited
  (`api/admin-routes.ts:17`); `diagnose` offers to retry an email whose content is gone
  (`:213`, refused at `:293`). Which of two equal findings of a day is mailed depends on
  the order of rows (`api/jobs.ts:25`), and a reconcile whose difference has another
  amount or status by the evening is not mailed again (`:98`). What is older than 48 hours
  is never reconciled: a refund made at Razorpay while its webhook and two nightly runs
  failed stays unknown. `migrate.ts` prints a list of pending files that it
  read before it had the lock.
- *Pages.* An answer about a hold the customer has left, the refusal of its agreement or
  its view (`booking-flow.tsx:265`, `:250-252`), is taken for the hold that is reviewed
  now, says that it ran out, and lets the customer choose another time while it is kept.
  The proof of `HoldsOneTime` failed on it where TLC had found nothing, for with one call
  under way an agreement is answered before the next hold is sent. With three keys TLC
  finds it too, in 2.7 million states, too many for a run that also has to be quick to
  repeat; within the run's two keys the exception that the property names (`misled`) is
  not met, and the theorem covers any number of keys.
  The booking form draws a new idempotency key in an effect, late
  (`booking-flow.tsx:62-63`), keeps its details locked after an expired hold is resumed
  (`:55`, `:207`), and says "Nothing was charged" of what it cannot know
  (`booking-page.tsx:106`). The settings cards are mounted again from stale data
  (`settings-view.tsx:30-31,70,88,103`), as are the editors of the hours
  (`availability-manager.tsx:39-42,54,153`), a search of the console may show an older answer
  (`components/admin/admin-data.ts:13-18`), and a failed refresh takes the wizard back to
  its first step (`onboarding-wizard.tsx:30`). A first call that ran into the time limit
  may have been served before the visitor returns from `/waking` (`lib/api.ts:61`).

## Proofs

Eight modules hold theorems, each about every value of the constants of its module,
from that module's assumptions only. TLC evaluates those in the runs. Every
property of the passing runs is stated by a theorem, but for the liveness of `progress`;
`PROJECT.json` lists which.

`BookingsProofs`, for any set of bookings, any times and periods off, any
hold lengths, with and without online payments:

- `Typing`: `Spec => []TypeOK`.
- `Paid` and `PaidIsNotExpired`: `ConfirmedIsPaid` and `ExpiredIsUnpaid`. Neither is
  inductive: a capture decides on a reading of the past, so the invariant adds
  `CaptureInv`, which says what remains true of a booking since a capture read its status
  (`BookingsProofs` states it beside the theorem), and both properties together carry the
  step.
- `OfferedIsFree`: `OnlyPartPaidIsOffered`. `HoldInv` says of every row what the
  engine and the expiry read of it: one that waits for money has an end and no captured
  payment, and one that is only held has no payment at all. So a hold that the engine no
  longer counts has run out, and the expiry it runs first passes over it for one reason.
- `NoOverlapEver`: `NoDoubleBooking`. The step lemma `NextGrants` says that every
  step gives time to at most one booking (`Granted`), and that the constraint has
  compared it with every other active one; the invariant follows from that alone.
- `TimeOffIsKept`: `OnlyUnlockedOverTimeOff`, by the same split into steps that keep
  each booking's time, give new time outside time off, or are marked unlocked.
- `Refinement`: `KeepsCalendar`, `Spec => Calendar!Spec`: each step of `Bookings`
  is a `Serve`, `TakeOff`, `GiveBack` or a stutter of `Claims`.

The assumptions are well-formed times (`SpanAssumption`, the database's CHECK),
non-empty periods off, positive hold lengths, and that NULL is no time, number or
status.

`PaymentsProofs`, for any advance and price, offline amounts, tiers and bounds, and for
one kind of capture event or both:

- `Typing`: `TypeOK`, which includes that an event a processor has in hand is stored.
- `LedgerAgrees`, `RefundsAgree`, `ConfirmedIsPaid`: `LedgerMatchesRows`,
  `RefundsMirrorGateway` and `ConfirmedIsCovered`. The invariant `Inv` adds two things.
  `RowsOK`: manual rows are those of the offline payment, have no gateway id, and
  there are rows of the online payment only once it is verified; without it a refund
  that is marked processed could turn a payment from unpaid to paid. `Books`: each side
  of the ledger follows from the rows, a capture has in hand a payment that still waits
  for it, and a payment is called refunded when processed rows cover it.
- `CaptureSettles`: `CaptureConfirmsOrRefunds`. While a payment is not verified it has no
  rows, so the whole amount can be queued.
- `VendorRepaysAll`: `VendorCancelRefundsAll`. From `AreShares`, which says how
  `createRefundRows` splits an amount over what both payments still allow, and case
  by case over the status of the online payment.

Sums are over rows of a table, and an induction over a table is out of the provers'
reach. So `SumOf` counts: an amount n is the n pairs of its row, and that a new row
adds its amount is a fact about the cardinality of disjoint sets (`SumAdds`). The
lemmas `AddedRows`, `RowFound` and `Marked` say what the three ways to change the table
do to it; `Stepping` sorts every step into eight kinds, and the invariant is kept kind
by kind (`KeptStill` to `KeptProvider`).

`OverviewProofs`, for the same values and any number of rows:

- `PagesHideNothing`: `NothingIsHidden`. `Inv` says that ledger and rows agree, but not
  that the queries do. `Whole` adds three things. `Vouched`: the gateway never returns
  more than it holds, nor is more owed by hand than was received by hand. `Fates`: who
  was paid too late, or cancelled on, has refund rows over all that the booking held, so
  an amount that is not on the to-do list is nobody's. `Reports`: an event that is done
  with has its payment recorded or waits for a person, so a diagnosis that finds no
  waiting event has not missed a capture. Of a reconcile the proof takes any look
  that found nothing (`CleanBalances`): each refund it listed has one row, of its amount
  and as far on, so the refunds listed as processed and their rows are the same pairs
  (`ListedAreRows`). The sums of the eight queries are compared by
  matching rows of one table with different rows of the other (`SumMatched`).

`CodesProofs`, for any addresses, purposes, requests, attempts and cooldown:

- `CodesTyping`: `TypeOK`, and that a request with a code has found a row (`Found`).
- `WorksOnce` and `Guesses`: `CodeWorksOnce` and `GuessesAreBounded`, from `Counted`:
  a row's comparisons equal its counted attempts, and a row that is not consumed has
  served nothing. The number of guesses is bounded only because each is counted in
  the statement that permits it.
- `OneLiveCode` and `Cooldown`: `LiveCodesOverlap` and `SupersededAfterCooldown`.
  The invariant `AskInv` adds `Knowing`, what an asking request still knows of the
  codes there are: each live one had cooled down when it began or was committed
  since, and each it has not marked when it looked was committed since.

`SignInProofs`, for any addresses, passwords, Google accounts, sessions and requests:

- `SignInTyping`, `NeverLockedOut`, `OldSessionsEnd`, `DeadSessionsStayDead` and
  `SignupsOverwriteKnowingly`: `TypeOK`, `AlwaysAWayIn`, `SessionsFollowPassword`,
  `DeadStaysDead` and `NoBlindOverwrite`.
- Every action is summed up once (`Step`): what it does to the accounts (it leaves
  them, makes one, touches one without its password, or renews the password), to the
  sessions and to the requests. The invariant adds `Belongs`, that sessions belong to
  accounts, and `Knows`, what a request that has read an account may still rely on. What
  `OldSessionsEnd` says begins with a session's commit: one that was inserted before a
  change of the password and committed after it counts as begun after it.

`OutboxProofs`, for any emails, senders, limits, waits and leases:

- `OutboxTyping`, `OnceUnlessExcused`, `Honest` and `RemovedStaysOut`: `TypeOK`,
  `TwiceOnlyIfExcused`, `OutboxIsHonest` and `RemovedIsNotQueued`. The invariant says of
  an email nobody lost (`Kept`) that one sender has it at most, that the lease is running
  while it does, and that a copy is out if and only if the row says so or that sender
  is about to; of every email (`Row`) what its row implies; of a sender (`Hand`) what its
  answer does.

`OfficeProofs`, for any number of handlers, vendors, addresses, services, patches,
bookings, jobs, times, calls, findings, deployments and files. Each property speaks of
the part that was picked; `Alone` leaves only that part's step, and each part has an
invariant of its own:

- `SentOnce`, `OutboxTellsTruth`: those of `OutboxProofs`, beside the other parts.
- `LinksLead`: `AddressesLead`. An address is free when a handler looks and taken when it
  writes; `PagesInv` says that a handler which found it free, and was not overtaken
  (`stale`), still finds it so. What is left is the race the property names, and the save
  that writes an older address over a newer one and leaves that to nobody.
- `ServicesStayValid`: `ServicesFit`. A patch was validated against the row it read, which
  need not be the row it changes; `ServicesInv` keeps for every request what it checked
  (`Checked`) and for every reorder the rows it has come to and locked (`Stands`,
  `LocksHeld`), from which the last order is one that was asked for. That a service can be
  put at the end of the list, whatever that is, needs the greatest of a finite set.
- `ClosingIsOver`: `ClosedIsOver`. The invariant says of an account that closes, or is
  past the check for it, that every booking which may still last (`Lasting`, a lapsed
  request among them) was begun before or overlooked (`unseen`), and the same of an
  erasure and of what a page needs to go online.
- `CustomersKnow`: `CustomersAreTold`. A job whose list is old found the booking due
  when it read it, and the claim reads the time again.
- `RunsEndComplete`: `RunsAreComplete`. `JobsInv` says of a call which of its jobs are
  behind it and what became of each (`Known`), and of an email of the day that a run has
  found what it lists and that it lists what its key is made of where there is room
  (`Right`); `MigrationsInv` that the one deployment with the lock has read rows only it
  has changed since, over files that match.
- `CalendarHolds`: `CalendarIsTrue`, the one proof that is about arithmetic and not about
  an order of steps. The search for the instant of a local time jumps between the
  two it may have (`Nudged`) and ends at the earlier one or with none (`Looked`); so
  days begin in order and tile time (`DatesInOrder`, `DayStarts`, `DaysInOrder`,
  `Tile`). The engine looks at starts on a grid and counts blocks until one does not fit:
  what a shorter length needs is part of what a longer one needs (`FreeShorter`,
  `FreeFewerDays`), so the count is the most there is. A booking that the engine counts
  between two days whose buffers are free would have to meet one of the days between
  (`NoneAmong`). `SlotsInv` says that a stored booking is a range inside its buffers.
- `OfficeTyping`: `TypesOK`, from all of these invariants.

The assumptions of `Office` are that NULL, and what marks a deleted row or a missing
file, is told from values; that limits, lengths and times are numbers, and sets a
handler counts are finite; that a patch has the types its schema lets through; and of the
settings (`SettingsAreValid`) what the CHECKs of `sql/` leave: hours within a day,
lengths of at least one, buffers that are not negative. Of a zone, `UsualChange` says
that its clock goes forward by less than a day or back by an hour within a date, which is
what `shared/time.ts:15` looks for; a clock set back by another amount is not covered.

`ScreensProofs`, for any dates, items, visits, keys, orders, sessions, attempts,
callbacks and calls under way. As in `OfficeProofs`, each part has its own invariant:

- `CustomersSeeTheTruth`: `CustomerSeesTheTruth`, from two invariants.
  - *Booking form* (`FlowInv`). Every new choice draws a new key. Unless a call that was
    given up ran after its retry (`strayed`), the page waits for one call about a hold at
    most, and that call, the row it makes and the hold that is reviewed are of the
    request as it stands (`Waits`, `SameRequest`). Any other call about a hold was
    refused or has its row already, and no other row is held, so the page reviews the
    only one (`OneHold`), unless a late answer misled it (`misled`).
  - *Payment panel* (`PayInv`). There is one order at most, and the bank is paid for
    nothing else, whichever panel is mounted (`PanelStates`); wherever the page, an answer
    under way or the API says confirmed, the bank has captured (`Confirmed`).
- `ScreensAreTrue`: `DashboardsAreTrue`, from four.
  - *Screens* (`DeskInv`). A load is fresh when it was sent after the last thing that
    soils the screen (`DeskFresh`). What a fresh load brings is compared with what is
    stored by how the screen follows a change: it loads again after each (`DeskReloads`),
    it shows an order of services at once and loads again when one is refused
    (`DeskOrders`), or its cards and editors keep a copy that each answer moves on
    (`DeskSettings`, `DeskFeed`) or that is what was saved. A switch that is refused puts
    back what it replaced, so the invariant says that each switch still to be answered
    replaced what the one before it set, and the first what is stored. What an item may be
    depends on the screen (`DeskValues`), for a button that turns an item over knows two
    states.
  - *Forms* (`WalkInv`). One payment is under way at most while the button is disabled,
    and what is recorded with what is still intended is no more than was meant
    (`PaidAsMeant`), unless an answer was lost.
  - *Wizard* (`WizardInv`). While no load has failed, every step before the one that is
    shown, or that a load leads to, is done or was skipped (`Reached`), and once the page
    is published the newest load says so or another will follow (`LiveInTheEnd`).
  - *Console* (`ConsoleInv`). An answer under way is audited; the retries that took the
    email, and the one it can still be taken by, are no more than the times it was stuck
    (`TakenOnce`).
- `EntriesProven`: `EntriesAreProven`. Of the second factor, `FactorInv` says that an
  accepted code is behind the last step of its secret (`CodesAreBehind`), that recent
  failures and requests that still try are together below the limit and one for each
  session (`TriesAreFew`), and that who has proven a factor has proven the one that is
  stored, or is excused. Of Google, `GoogleInv` says that a callback which has claimed an
  attempt is the only one, and that nobody entered by that attempt before.
- `ScreensTyping`: `TypesOK`, from all of these.

The assumptions of `Screens` are that NULL is told from the values beside it, that limits
are numbers, and that the sessions and items a handler counts are finite.

Induction over numbers is replaced by least counterexamples (`Smallest`, `Greatest`,
`Highest`), from the fact that < on Nat is well-founded.

*Only model-checked:* liveness (the run `progress`), since TLAPS does not reason about
fairness. The five statements that a run finds violated are no theorems, of course.

## Not modelled

Contracts, consents, receipts and exports write rows once and read or format them; site
pages, sign-in forms and the layout of every screen are views of answers that other
modules have; configuration is read at the start; scripts, the restore drill and the
end-to-end tests are tools around the program. The start and stop of the server are I/O,
and a stop in the middle is the crash of `Payments` and `Outbox` and the lost answer of
the pages. Left out of parts that are modelled: rate limits that each process keeps in
memory, hashing, texts of emails, prices and the terms' text, audit rows where no property
is about them; and of a service the fields that have a default in the schema of a change
(description, refund tiers, terms, prompt, active), for which a change that omits them
leaves what zod makes of an optional field with a default. The `status` of every component
is in `PROJECT.json`.

## Plan

What is left, in the order of its worth:

1. *Locks.* The order in which transactions take the vendor's lock, payments, bookings and
   services, checked for waiting in a circle: a late capture beside a move, two
   reorders (now a note and a part of `Services`).
2. *One vendor, whole.* `Bookings`, `Payments` and `Notices` composed over one booking, so
   that what a customer is told is compared with what was paid, not with what each of
   the three assumes of the others.
3. *Contracts and consents*, once rows of theirs are read again by a decision.
