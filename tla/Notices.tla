------------------------------ MODULE Notices -------------------------------
(***************************************************************************)
(* What the two parties of a booking are told by email, and the job that   *)
(* reminds them a day before.                                              *)
(*                                                                         *)
(* An email is queued in the transaction of what it tells, under a key; one *)
(* whose key is in the outbox already is not queued.  The reminder job reads *)
(* the list of bookings that are due and then claims each in a transaction *)
(* of its own, and it may run several times at once.                       *)
(***************************************************************************)
EXTENDS Integers

CONSTANTS Job, Null,
          Last,     \* the last time modelled
          Starts,   \* the times a booking may be moved to
          Day       \* how long before its start a booking is reminded of

TimesAreNumbers == Last \in Nat /\ Starts \subseteq 0..Last /\ Day \in Nat \ {0}

VARIABLES
  now,
  booking,  \* status, start, when it was made, whether it has been reminded of
  outbox,   \* the keys of the emails queued so far
  told,     \* the start in the last email to the customer about when it is
  reminded, \* the start, and the time of queueing, of the last reminder
  wants,    \* vendors.notify_prefs: the vendor wants copies
  run,      \* per job: the start it read when the booking was due, and when
  twice     \* history: moved to a time it had been moved to before

vars == <<now, booking, outbox, told, reminded, wants, run, twice>>

Times == 0..Last

Keys == {"confirmed", "request", "reminder", "cancelled"} \X {"customer", "vendor"}
          \cup {"moved"} \X Starts

TypeOK ==
  /\ now \in Times /\ wants \in BOOLEAN /\ twice \in BOOLEAN
  /\ booking \in [status : {"NEW", "PENDING", "CONFIRMED", "CANCELLED"}, start : Starts,
                  made : Times, reminded : BOOLEAN]
  /\ outbox \subseteq Keys /\ told \in Starts \cup {Null}
  /\ reminded \in [of : Starts, at : Times] \cup {Null}
  /\ run \in [Job -> [of : Starts, at : Times] \cup {Null}]

Init ==
  /\ now = 0 /\ wants = TRUE /\ twice = FALSE
  /\ \E s \in Starts \ {0} :
       booking = [status |-> "NEW", start |-> s, made |-> 0, reminded |-> FALSE]
  /\ outbox = {} /\ told = Null /\ reminded = Null
  /\ run = [j \in Job |-> Null]

\* The emails queued for what happened; a vendor that wants no copies gets none.
Queue(what) ==
  outbox' = outbox \cup {<<what, "customer">>} \cup (IF wants THEN {<<what, "vendor">>} ELSE {})

\* An email says when the booking is, unless it is dropped for its key.
Told(key) == told' = IF key \in outbox THEN told ELSE booking'.start

(***************************************************************************)
(* The booking.                                                            *)
(***************************************************************************)
\* acceptTerms with an advance to be arranged: only the vendor is written to.
Request ==
  /\ booking.status = "NEW"
  /\ booking' = [booking EXCEPT !.status = "PENDING", !.made = now]
  /\ outbox' = outbox \cup {<<"request", "vendor">>}
  /\ UNCHANGED <<now, told, reminded, wants, run, twice>>

\* notifyConfirmed: the booking is made and confirmed at once, or confirmed later.
Confirm ==
  /\ booking.status \in {"NEW", "PENDING"}
  /\ booking' = [booking EXCEPT !.status = "CONFIRMED", !.made = IF booking.status = "NEW" THEN now ELSE @]
  /\ Queue("confirmed")
  /\ Told(<<"confirmed", "customer">>)
  /\ UNCHANGED <<now, reminded, wants, run, twice>>

Movable(s) == booking.status \in {"PENDING", "CONFIRMED"} /\ booking.start > now /\ s > now /\ s # booking.start

\* vendorReschedule: the customer is told the new time, and is to be reminded of it.
Move(s) ==
  /\ Movable(s)
  /\ booking' = [booking EXCEPT !.start = s, !.reminded = FALSE]
  /\ outbox' = outbox \cup {<<"moved", s>>}
  /\ Told(<<"moved", s>>)
  /\ twice' = (twice \/ <<"moved", s>> \in outbox)
  /\ UNCHANGED <<now, reminded, wants, run>>

Cancel ==
  /\ booking.status \in {"PENDING", "CONFIRMED"}
  /\ booking' = [booking EXCEPT !.status = "CANCELLED"]
  /\ Queue("cancelled")
  /\ UNCHANGED <<now, told, reminded, wants, run, twice>>

SetPreferences ==
  /\ wants' = ~wants
  /\ UNCHANGED <<now, booking, outbox, told, reminded, run, twice>>

(***************************************************************************)
(* Reminders.                                                              *)
(***************************************************************************)
\* Confirmed, not reminded of, within a day, and made before that.
Due ==
  /\ booking.status = "CONFIRMED" /\ ~booking.reminded
  /\ now < booking.start /\ booking.start <= now + Day
  /\ booking.made < booking.start - Day

ReadDue(j) ==
  /\ run[j] = Null /\ Due
  /\ run' = [run EXCEPT ![j] = [of |-> booking.start, at |-> now]]
  /\ UNCHANGED <<now, booking, outbox, told, reminded, wants, twice>>

\* Variant: whoever has read the list sends, and the key decides.
ClaimUnchecked == TRUE

Claimable == booking.status = "CONFIRMED" /\ ~booking.reminded

\* Whether the booking is still due is not looked at again.
Claim(j) ==
  /\ run[j] # Null
  /\ run' = [run EXCEPT ![j] = Null]
  /\ IF Claimable
       THEN /\ booking' = [booking EXCEPT !.reminded = TRUE]
            /\ Queue("reminder")
            /\ reminded' = IF <<"reminder", "customer">> \in outbox THEN reminded
                           ELSE [of |-> booking.start, at |-> now]
            /\ Told(<<"reminder", "customer">>)
       ELSE UNCHANGED <<booking, outbox, reminded, told>>
  /\ UNCHANGED <<now, wants, twice>>

\* The job stops: the tick times out or the process does.
Stop(j) ==
  /\ run[j] # Null
  /\ run' = [run EXCEPT ![j] = Null]
  /\ UNCHANGED <<now, booking, outbox, told, reminded, wants, twice>>

Tick ==
  /\ now < Last
  /\ now' = now + 1
  /\ UNCHANGED <<booking, outbox, told, reminded, wants, run, twice>>

Next ==
  \/ Request \/ Confirm \/ Cancel \/ SetPreferences \/ Tick
  \/ \E s \in Starts : Move(s)
  \/ \E j \in Job : ReadDue(j) \/ Claim(j) \/ Stop(j)

Spec == Init /\ [][Next]_vars

(***************************************************************************)
(* Properties.                                                             *)
(***************************************************************************)
\* The last email a customer has about a booking says when it is, however often
\* it was moved, confirmed and reminded of, unless it came back to a time it had
\* been moved to before (notifyRescheduled, api/notifications/booking-mail.ts:60).
CustomerKnowsTheTime == booking.status = "CONFIRMED" => told = booking.start \/ twice

\* No email reminds of a booking that is cancelled or has been moved away, also
\* when several jobs have it on their lists: what is queued names the start of
\* the moment, of a booking that is on (sendReminders, api/jobs.ts:68).
RemindsThen == reminded' # reminded => booking.status = "CONFIRMED" /\ reminded'.of = booking.start

\* A reminder is sent in the last day before the start, unless the booking was
\* moved or its time came between the list and the claim (jobs.ts:64).
RemindsInTime ==
  \A j \in Job :
    Claim(j) /\ run[j] = [of |-> booking.start, at |-> now] /\ reminded' # reminded
      => now < reminded'.of /\ reminded'.of <= now + Day

\* "A moved booking gets a fresh 24-hour reminder for its new time."
MovedIsRemindedAgain == booking.reminded => reminded # Null /\ reminded.of = booking.start
=============================================================================
