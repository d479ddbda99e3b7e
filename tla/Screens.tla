-------------------------------- MODULE Screens ------------------------------
(***************************************************************************)
(* The pages of the web application against the API, and two ways in that  *)
(* have several pages or callbacks under way, side by side: a behaviour     *)
(* picks one part and runs it.  Each part is an instance, under names that  *)
(* tell its constants and variables from those of the others.              *)
(***************************************************************************)
EXTENDS Integers, FiniteSets

CONSTANTS
  Null,
  Date, MaxBlocks, MaxKey, MaxAsked,                     \* BookingFlow
  MaxOrders, MaxPaying,                                  \* Checkout
  Item, MaxVisit,                                        \* Desk
  Time, Name, Total, MaxDialogs, MaxSends,               \* Walkins
  Admin, List, MaxQueries,                               \* Console
  MaxSteps,                                              \* Onboarding
  Session, Limit, Window, Access, MaxTime, MaxSecrets,   \* SecondFactor
  Attempt, Callback, Account, Home, Life, MaxClock, MaxSessions  \* Handshake

VARIABLES
  part,                                         \* the part that was picked
  free, row, due, step, date, start, blocks, slots, email, verified, key, hold,
  expired, accepted, checking, awaits, agreeing, refused, strayed, misled,
  reviewed, asking,
  status, lapsed, advance, orders, bank, seen, panel, polling, window, paying,
  screen, stored, path, data, copy, busy, net, sent, asked, taken, edited, soiled,
  open, opening, sending, adding, sends, bookings, paid, balance, meant,
  retrying, added, lost,
  rows, view, calls, queries, audited, crashed, retried, stuck,
  finished, shown, profile, saving, missing, saves, steps, newest, loaded,
  skipped, failed,
  user, proven, wrong, request, page, secrets, app, time, codes, proof, excused,
  clock, attempt, cookie, sessions, browser, linked, callback, entries

flowVars == <<free, row, due, step, date, start, blocks, slots, email, verified,
  key, hold, expired, accepted, checking, awaits, agreeing, refused, strayed,
  misled, reviewed, asking>>
payVars == <<status, lapsed, advance, orders, bank, seen, panel, polling, window, paying>>
deskVars == <<screen, stored, path, data, copy, busy, net, sent, asked, taken,
  edited, soiled>>
walkVars == <<open, opening, sending, adding, sends, bookings, paid, balance,
  meant, retrying, added, lost>>
consoleVars == <<rows, view, calls, queries, audited, crashed, retried, stuck>>
wizardVars == <<finished, shown, profile, saving, missing, saves, steps, newest,
  loaded, skipped, failed>>
factorVars == <<user, proven, wrong, request, page, secrets, app, time, codes,
  proof, excused>>
googleVars == <<clock, attempt, cookie, sessions, browser, linked, callback, entries>>

vars == <<part, flowVars, payVars, deskVars, walkVars, consoleVars, wizardVars,
          factorVars, googleVars>>

Choosing == INSTANCE BookingFlow WITH MaxCalls <- MaxAsked, None <- Null, net <- asking
Paying == INSTANCE Checkout WITH
  MaxCalls <- MaxPaying, row <- advance, view <- seen, net <- paying
Managing == INSTANCE Desk WITH MaxCalls <- MaxVisit
Adding == INSTANCE Walkins WITH
  MaxKeys <- MaxDialogs, key <- opening, busy <- sending, net <- adding
Watching == INSTANCE Console WITH
  Screen <- List, MaxCalls <- MaxQueries, sent <- queries, taken <- retried
Starting == INSTANCE Onboarding WITH
  MaxCalls <- MaxSteps, stored <- finished, step <- shown, busy <- saving,
  net <- saves, sent <- steps, asked <- newest, taken <- loaded
Proving == INSTANCE SecondFactor WITH failed <- wrong, accepted <- codes
Returning == INSTANCE Handshake WITH
  Request <- Callback, MaxTime <- MaxClock, request <- callback

\* What the booking form asks for and is told.
DayTimes == [of : Date, free : 0..MaxBlocks]
Bookable == [date : Date, start : Date, blocks : 0..MaxBlocks]
\* What an attempt, a callback and a request of the second factor remember.
Attempts == [user : Returning!User \cup {Null}, at : 0..MaxClock, used : BOOLEAN]
Callbacks == [of : Attempt, as : Account, session : Nat, at : {"came", "claimed", "proven"}]
Matching == [at : {"match"}, code : Proving!Code]
Claiming == [at : {"claim"}, code : Proving!Code, secret : Proving!Secret,
             step : 0..(MaxTime + 1)]
Requests == [at : {"store"}] \cup Matching \cup Claiming
              \cup [at : {"prove"}, secret : Proving!Secret]

(***************************************************************************)
(* What NULL stands for is told from values, and numbers are numbers.      *)
(***************************************************************************)
ASSUME FlowAssumption ==
  /\ Null \notin Date /\ Null \notin 0..MaxKey /\ Null \notin DayTimes /\ Null \notin Bookable
  /\ MaxBlocks \in Nat /\ MaxKey \in Nat /\ MaxAsked \in Nat
ASSUME GoogleAssumption ==
  /\ Null \notin Returning!User /\ Null \notin Attempts /\ Null \notin Callbacks
  /\ MaxClock \in Nat
ASSUME FactorAssumption ==
  /\ Null \notin Proving!Secret /\ Null \notin Requests /\ IsFiniteSet(Session)
  /\ Limit \in Nat \ {0} /\ Window \in Nat /\ MaxTime \in Nat \ {0} /\ MaxSecrets \in Nat
ASSUME WalkinsAssumption == Total \in Nat /\ MaxDialogs \in Nat /\ MaxSends \in Nat
ASSUME ConsoleAssumption ==
  /\ MaxQueries \in Nat /\ List \subseteq DOMAIN Watching!Lists
  /\ Null \notin DOMAIN Watching!Lists
ASSUME WizardAssumption ==
  /\ MaxSteps \in Nat \ {0} /\ Null \notin 0..3 /\ Null \notin {"draft", "live"}
  /\ \A filled \in SUBSET (1..2) : Null # filled
ASSUME CheckoutAssumption == MaxOrders \in Nat /\ MaxPaying \in Nat
ASSUME DeskAssumption ==
  /\ IsFiniteSet(Item) /\ \A some \in SUBSET Item : Null \notin [some -> Nat]
  /\ \A visit \in DOMAIN MaxVisit : MaxVisit[visit] \in Nat \ {0}

(***************************************************************************)
(* A behaviour: one part begins, and nothing is known of the others.       *)
(***************************************************************************)
NoFlow == /\ free = Null /\ row = Null /\ due = Null /\ step = Null /\ date = Null
          /\ start = Null /\ blocks = Null /\ slots = Null /\ email = Null
          /\ verified = Null /\ key = Null /\ hold = Null /\ expired = Null
          /\ accepted = Null /\ checking = Null /\ awaits = Null /\ agreeing = Null
          /\ refused = Null /\ strayed = Null /\ misled = Null
          /\ reviewed = Null /\ asking = Null
NoPay == /\ status = Null /\ lapsed = Null /\ advance = Null /\ orders = Null
         /\ bank = Null /\ seen = Null /\ panel = Null /\ polling = Null
         /\ window = Null /\ paying = Null
NoDesk == /\ screen = Null /\ stored = Null /\ path = Null /\ data = Null
          /\ copy = Null /\ busy = Null /\ net = Null /\ sent = Null /\ asked = Null
          /\ taken = Null /\ edited = Null /\ soiled = Null
NoWalk == /\ open = Null /\ opening = Null /\ sending = Null /\ adding = Null
          /\ sends = Null /\ bookings = Null /\ paid = Null /\ balance = Null
          /\ meant = Null /\ retrying = Null /\ added = Null /\ lost = Null
NoConsole == /\ rows = Null /\ view = Null /\ calls = Null /\ queries = Null
             /\ audited = Null /\ crashed = Null /\ retried = Null /\ stuck = Null
NoWizard == /\ finished = Null /\ shown = Null /\ profile = Null /\ saving = Null
            /\ missing = Null /\ saves = Null /\ steps = Null /\ newest = Null
            /\ loaded = Null /\ skipped = Null /\ failed = Null
NoFactor == /\ user = Null /\ proven = Null /\ wrong = Null /\ request = Null
            /\ page = Null /\ secrets = Null /\ app = Null /\ time = Null
            /\ codes = Null /\ proof = Null /\ excused = Null
NoGoogle == /\ clock = Null /\ attempt = Null /\ cookie = Null /\ sessions = Null
            /\ browser = Null /\ linked = Null /\ callback = Null /\ entries = Null

Init ==
  /\ part \in {"flow", "checkout", "desk", "walk-ins", "console", "onboarding",
               "second factor", "google"}
  /\ IF part = "flow" THEN Choosing!Init ELSE NoFlow
  /\ IF part = "checkout" THEN Paying!Init ELSE NoPay
  /\ IF part = "desk" THEN Managing!Init ELSE NoDesk
  /\ IF part = "walk-ins" THEN Adding!Init ELSE NoWalk
  /\ IF part = "console" THEN Watching!Init ELSE NoConsole
  /\ IF part = "onboarding" THEN Starting!Init ELSE NoWizard
  /\ IF part = "second factor" THEN Proving!Init ELSE NoFactor
  /\ IF part = "google" THEN Returning!Init ELSE NoGoogle

\* Only the variables of the part change.
Flowing == part = "flow" /\ UNCHANGED
  <<part, payVars, deskVars, walkVars, consoleVars, wizardVars, factorVars, googleVars>>
CheckingOut == part = "checkout" /\ UNCHANGED
  <<part, flowVars, deskVars, walkVars, consoleVars, wizardVars, factorVars, googleVars>>
AtDesk == part = "desk" /\ UNCHANGED
  <<part, flowVars, payVars, walkVars, consoleVars, wizardVars, factorVars, googleVars>>
WalkingIn == part = "walk-ins" /\ UNCHANGED
  <<part, flowVars, payVars, deskVars, consoleVars, wizardVars, factorVars, googleVars>>
AtConsole == part = "console" /\ UNCHANGED
  <<part, flowVars, payVars, deskVars, walkVars, wizardVars, factorVars, googleVars>>
Onboards == part = "onboarding" /\ UNCHANGED
  <<part, flowVars, payVars, deskVars, walkVars, consoleVars, factorVars, googleVars>>
Proves == part = "second factor" /\ UNCHANGED
  <<part, flowVars, payVars, deskVars, walkVars, consoleVars, wizardVars, googleVars>>
Returns == part = "google" /\ UNCHANGED
  <<part, flowVars, payVars, deskVars, walkVars, consoleVars, wizardVars, factorVars>>

Next ==
  \/ Flowing /\ Choosing!Next
  \/ CheckingOut /\ Paying!Next
  \/ AtDesk /\ Managing!Next
  \/ WalkingIn /\ Adding!Next
  \/ AtConsole /\ Watching!Next
  \/ Onboards /\ Starting!Next
  \/ Proves /\ Proving!Next
  \/ Returns /\ Returning!Next

Spec == Init /\ [][Next]_vars

(***************************************************************************)
(* Properties.  Each is asked of its part; the module of the part says     *)
(* what the conjuncts are about.                                           *)
(***************************************************************************)
\* The states of each part are well typed.
TypesOK ==
  /\ part = "flow" => Choosing!TypeOK
  /\ part = "checkout" => Paying!TypeOK
  /\ part = "desk" => Managing!TypeOK
  /\ part = "walk-ins" => Adding!TypeOK
  /\ part = "console" => Watching!TypeOK
  /\ part = "onboarding" => Starting!TypeOK
  /\ part = "second factor" => Proving!TypeOK
  /\ part = "google" => Returning!TypeOK

\* A customer reviews and agrees to the booking the page shows and holds one time
\* at most; the page says paid of what is paid, and the advance is paid once
\* (booking-flow.tsx, payment-panel.tsx, booking-page.tsx).
CustomerSeesTheTruth ==
  /\ part = "flow" => Choosing!ReviewsWhatItShows /\ Choosing!HoldsOneTime
  /\ part = "checkout" => Paying!SuccessIsTrue /\ Paying!PaidOnce

\* A dashboard screen that has come to rest shows what is stored, unless its last
\* load or its editor was overtaken by a change; a walk-in or an offline payment is
\* recorded once, as it was meant; the wizard leads a new vendor on and says live of
\* a page that is; what an admin sees is in the audit log, and two admins repair a
\* thing once (app/dashboard/*.tsx, onboarding-wizard.tsx, components/admin/*.tsx,
\* admin-routes.ts:264-298).
DashboardsAreTrue ==
  /\ part = "desk" => Managing!SettledScreenIsTrue
  /\ part = "walk-ins" => Adding!AddedIsWhatWasAsked /\ Adding!TwiceOnlyIfLost
  /\ part = "onboarding" => Starting!LeadsOn
  /\ part = "console" => Watching!SeenIsAudited /\ Watching!RetriedOnce

\* An admin enters with a code of the authenticator that is set up, which worked
\* once and was one of few guesses; an attempt to sign in with Google lets its
\* browser in once, as the account's user (admin-routes.ts:42-83,
\* google/routes.ts:67-110).
EntriesAreProven ==
  /\ part = "second factor" =>
       Proving!NoReplay /\ Proving!GuessesAreLimited /\ Proving!EntryIsProven
  /\ part = "google" => Returning!EntersOnce /\ Returning!EntersAsItself
==============================================================================
