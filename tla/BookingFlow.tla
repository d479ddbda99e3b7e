---------------------------- MODULE BookingFlow -----------------------------
(***************************************************************************)
(* A customer's browser on the booking page, from the choice of a time to  *)
(* the terms (booking-flow.tsx), against the API.  Calls and replies cross *)
(* the network one by one and in any order; a call that the page gives up  *)
(* may run later.  Each date has one start, named by its date, from which  *)
(* some sessions are free.                                                 *)
(*                                                                         *)
(* The idempotency key is drawn anew whenever the request changes; only a  *)
(* key that was sent matters, so a key gets its name when it is sent.      *)
(***************************************************************************)
EXTENDS Integers, FiniteSets

CONSTANTS Date, MaxBlocks,
          MaxKey,   \* bound on the holds asked for
          MaxCalls, \* bound on calls under way
          None

Keys == 0..MaxKey  \* 0 is the hold that a link resumes

VARIABLES
  free,     \* the server: sessions free from the start of each date
  row,      \* bookings by idempotency key
  due,      \* bookings past the expiry that their hold began with
  step, date, start, blocks, slots,  \* the page
  email, verified, key, hold, expired, accepted,
  checking, \* the request that is held once the code is checked, or None
  awaits,   \* keys of the holds it waits for
  agreeing, \* bookings whose agreement it waits for, this and earlier ones
  refused, strayed, \* for the properties: keys refused; whether it went back while a code was checked
  misled,   \* and whether what it heard late of an earlier hold ended the one it reviews
  reviewed, \* holds it reviews or has reviewed
  net       \* calls and replies under way

server == <<free, row, due>>
choice == <<date, start, blocks, key>>
details == <<email, verified>>
held == <<hold, expired, accepted>>
waits == <<checking, awaits, agreeing>>
history == <<refused, strayed, misled, reviewed>>
vars == <<server, step, slots, choice, details, held, waits, history, net>>

Steps == {"Service", "Time", "Details", "Verify", "Review", "Pay"}
Request == [date |-> date, start |-> start, blocks |-> blocks]
NoRow == [status |-> "NONE", of |-> None]

Ask(k, r) == [what |-> "hold", key |-> k, of |-> r]
Agree(k) == [what |-> "accept", key |-> k]
AskSlots(d) == [what |-> "slots", of |-> d]
Reply(what, k, value) == [what |-> what, key |-> k, value |-> value]
LeftAlone(m) == [what |-> "left", call |-> m]  \* runs, but nobody hears of it
Sent(m) == IF m.what = "left" THEN m.call ELSE m

TypeOK ==
  LET Requests == [date : Date \cup {None}, start : Date \cup {None}, blocks : 0..MaxBlocks]
  IN /\ free \in [Date -> 0..MaxBlocks] /\ due \subseteq Keys
     /\ row \in [Keys -> [status : {"NONE", "HELD", "EXPIRED", "AGREED"}, of : Requests \cup {None}]]
     /\ step \in Steps /\ Request \in Requests /\ checking \in Requests \cup {None}
     /\ slots \in [of : Date, free : 0..MaxBlocks] \cup {None}
     /\ email \in BOOLEAN /\ verified \in BOOLEAN /\ expired \in BOOLEAN
     /\ strayed \in BOOLEAN /\ misled \in BOOLEAN
     /\ {key, hold, accepted} \subseteq Keys \cup {None}
     /\ awaits \subseteq Keys /\ agreeing \subseteq Keys /\ refused \subseteq Keys
     /\ reviewed \subseteq Keys
     /\ Cardinality(net) <= MaxCalls

\* The page is opened afresh, or by the link of a booking that is held.
Init ==
  /\ free = [d \in Date |-> MaxBlocks] /\ due = {} /\ net = {}
  /\ awaits = {} /\ agreeing = {} /\ checking = None /\ refused = {} /\ strayed = FALSE /\ misled = FALSE
  /\ date = None /\ start = None /\ blocks = 0 /\ slots = None
  /\ email = FALSE /\ key = None /\ expired = FALSE /\ accepted = None
  /\ \E resumed \in BOOLEAN :
       /\ row = [k \in Keys |-> IF resumed /\ k = 0 THEN [NoRow EXCEPT !.status = "HELD"] ELSE NoRow]
       /\ hold = (IF resumed THEN 0 ELSE None) /\ verified = resumed
       /\ reviewed = IF resumed THEN {0} ELSE {}
       /\ step = IF resumed THEN "Review" ELSE "Service"

Send(m) == Cardinality(net) < MaxCalls /\ net' = net \cup {m}

(***************************************************************************)
(* Choosing.                                                               *)
(***************************************************************************)
\* A choice changes the request, so the next hold has a key of its own.
Choose(d, s, b) == date' = d /\ start' = s /\ blocks' = b /\ key' = None

\* TimeStep is mounted: the times of the date are asked for, if there is one.
EnterTime ==
  /\ step' = "Time" /\ slots' = None
  /\ IF date = None THEN UNCHANGED net ELSE Send(AskSlots(date))

ChooseService ==
  /\ step = "Service" /\ EnterTime /\ Choose(date, None, 0)
  /\ UNCHANGED <<server, details, held, waits, history>>

PickDate(d) ==
  /\ step = "Time" /\ Choose(d, None, blocks)
  /\ IF d = date THEN UNCHANGED <<slots, net>> ELSE slots' = None /\ Send(AskSlots(d))
  /\ UNCHANGED <<server, step, details, held, waits, history>>

\* The strip of open days comes in without the date's: the date moves, the start stays.
MoveDate(d) ==
  /\ step = "Time" /\ date # None /\ free[date] = 0 /\ free[d] > 0
  /\ Choose(d, start, blocks) /\ slots' = None /\ Send(AskSlots(d))
  /\ UNCHANGED <<server, step, details, held, waits, history>>

\* blockChoices of the start that is chosen.
Choices == IF slots # None /\ slots.of = start THEN 1..slots.free ELSE {}

PickStart ==
  /\ step = "Time" /\ slots # None /\ slots.free > 0
  /\ Choose(date, slots.of, 1)
  /\ UNCHANGED <<server, step, slots, details, held, waits, history, net>>

PickBlocks(n) ==
  /\ step = "Time" /\ n \in Choices
  /\ Choose(date, start, n)
  /\ UNCHANGED <<server, step, slots, details, held, waits, history, net>>

Ready == start # None /\ (MaxBlocks = 1 \/ blocks \in Choices)

Continue ==
  /\ \/ step = "Time" /\ Ready /\ step' = "Details" /\ UNCHANGED email
     \/ step = "Details" /\ step' = "Verify" /\ (email \/ ~verified) /\ email' = TRUE
  /\ UNCHANGED <<server, slots, choice, verified, held, waits, history, net>>

\* New details are a new request; the address is fixed once it is verified.
EditDetails ==
  /\ step = "Details" /\ Choose(date, start, blocks)
  /\ UNCHANGED <<server, step, slots, details, held, waits, history, net>>

Back ==
  /\ \/ step = "Time" /\ step' = "Service" /\ UNCHANGED <<slots, net>>
     \/ step = "Details" /\ EnterTime
     \/ step = "Verify" /\ ~verified /\ step' = "Details" /\ UNCHANGED <<slots, net>>
  /\ strayed' = (strayed \/ checking # None)
  /\ UNCHANGED <<server, choice, details, held, waits, refused, misled, reviewed>>

\* Times that come late are shown for the date of now; a choice too long is cut.
SlotsArrive(m) ==
  /\ m.what = "times" /\ net' = net \ {m}
  /\ IF step # "Time" THEN UNCHANGED <<slots, choice>>
     ELSE /\ slots' = m.value
          /\ IF start = m.value.of /\ m.value.free > 0 /\ blocks \notin 1..m.value.free
             THEN Choose(date, start, 1) ELSE UNCHANGED choice
  /\ UNCHANGED <<server, step, details, held, waits, history>>

\* The times do not come: an error is shown in their place.
SlotsFail(m) ==
  /\ m.what \in {"slots", "times"} /\ net' = net \ {m}
  /\ UNCHANGED <<server, step, slots, choice, details, held, waits, history>>

(***************************************************************************)
(* Holding and agreeing.                                                   *)
(***************************************************************************)
Unused == {k \in Keys \ {0} : row[k] = NoRow /\ k \notin refused
                              /\ \A m \in net : Sent(m).what # "hold" \/ Sent(m).key # k}

\* The key of the request as it stands.
KeyOf == IF key # None THEN key ELSE CHOOSE k \in Unused : TRUE

SendHold(r) == key' = KeyOf /\ awaits' = awaits \cup {KeyOf} /\ Send(Ask(KeyOf, r))

\* The code is sent; once it is right, the time that is chosen by now is held.
CheckCode ==
  /\ step = "Verify" /\ ~verified /\ checking = None
  /\ checking' = Request
  /\ UNCHANGED <<server, step, slots, choice, details, held, awaits, agreeing, history, net>>

CodeIsRight ==
  /\ checking # None /\ Unused # {}
  /\ verified' = TRUE /\ checking' = None /\ SendHold(checking)
  /\ UNCHANGED <<server, step, date, start, blocks, slots, email, held, agreeing, history>>

CodeIsWrong ==
  /\ checking # None /\ checking' = None
  /\ UNCHANGED <<server, step, slots, choice, details, held, awaits, agreeing, history, net>>

\* "Hold this time" waits for its reply, unless the step was left and entered again.
HoldNow ==
  /\ step = "Verify" /\ verified /\ Unused # {} /\ (awaits = {} \/ strayed)
  /\ SendHold(Request)
  /\ UNCHANGED <<server, step, date, start, blocks, slots, details, held, checking, agreeing, history>>

\* restartFromTime
Restart ==
  /\ hold' = None /\ expired' = FALSE /\ Choose(date, None, 0) /\ step' = "Time" /\ slots' = None

Taken(m) ==
  /\ m.what = "held" /\ m.value = "SLOT_TAKEN"
  /\ Restart /\ net' = (net \ {m}) \cup {AskSlots(date)}
  /\ awaits' = awaits \ {m.key} /\ refused' = refused \cup {m.key}
  /\ UNCHANGED <<server, details, accepted, checking, agreeing, strayed, misled, reviewed>>

Held(m) ==
  /\ m.what = "held" /\ m.value = "ok"
  /\ hold' = m.key /\ expired' = FALSE /\ step' = "Review"
  /\ net' = net \ {m} /\ awaits' = awaits \ {m.key} /\ reviewed' = reviewed \cup {m.key}
  /\ UNCHANGED <<server, slots, choice, details, accepted, checking, agreeing, refused, strayed, misled>>

NotHeld(m) ==
  /\ m.what = "held" /\ m.value = "IDEMPOTENCY_KEY_REUSED"
  /\ net' = net \ {m} /\ awaits' = awaits \ {m.key}
  /\ UNCHANGED <<server, step, slots, choice, details, held, checking, agreeing, history>>

ChooseAgain ==
  /\ step = "Review" /\ expired /\ Restart
  /\ IF date = None THEN UNCHANGED net ELSE Send(AskSlots(date))
  /\ UNCHANGED <<server, details, accepted, waits, history>>

Accept ==
  /\ step = "Review" /\ ~expired /\ hold \notin agreeing
  /\ agreeing' = agreeing \cup {hold} /\ Send(Agree(hold))
  /\ UNCHANGED <<server, step, slots, choice, details, held, checking, awaits, history>>

Misleads(k) == misled' = (misled \/ (step = "Review" /\ ~expired /\ k # hold))

\* The reply is taken wherever the page is by now, and for the hold of now.
AcceptArrives(m) ==
  /\ m.what = "accepted"
  /\ net' = net \ {m} /\ agreeing' = agreeing \ {m.key}
  /\ IF m.value = "ok" THEN accepted' = m.key /\ step' = "Pay" /\ UNCHANGED <<expired, misled>>
     ELSE expired' = TRUE /\ Misleads(m.key) /\ UNCHANGED <<accepted, step>>
  /\ UNCHANGED <<server, slots, choice, details, hold, checking, awaits, refused, strayed, reviewed>>

\* The countdown ends, or the view of the booking says that it has expired.
TimerFires ==
  /\ step = "Review" /\ ~expired /\ hold \in due /\ expired' = TRUE
  /\ UNCHANGED <<server, step, slots, choice, details, hold, accepted, waits, history, net>>

\* The view of an earlier hold, asked for when it was reviewed, comes late and says that
\* it has expired.
OldView(k) ==
  /\ step = "Review" /\ k \in reviewed \ {hold} /\ row[k].status = "EXPIRED"
  /\ expired' = TRUE /\ Misleads(k)
  /\ UNCHANGED <<server, step, slots, choice, details, hold, accepted, waits, refused, strayed,
                 reviewed, net>>

\* The network fails the page: what it asked for is lost, has happened or happens later.
GiveUp(m) ==
  /\ m.what \in {"hold", "held", "accept", "accepted"}
  /\ \/ net' = net \ {m}
     \/ m.what \in {"hold", "accept"} /\ net' = (net \ {m}) \cup {LeftAlone(m)}
  /\ IF m.what \in {"hold", "held"} THEN awaits' = awaits \ {m.key} /\ UNCHANGED agreeing
     ELSE agreeing' = agreeing \ {m.key} /\ UNCHANGED awaits
  /\ UNCHANGED <<server, step, slots, choice, details, held, checking, history>>

(***************************************************************************)
(* The API.                                                                *)
(***************************************************************************)
Answer(m, r) == net' = IF m.what = "left" THEN net \ {m} ELSE (net \ {m}) \cup {r}
Untouched == UNCHANGED <<step, slots, choice, details, held, waits, history>>

ServeSlots(m) ==
  /\ m.what = "slots"
  /\ Answer(m, [what |-> "times", value |-> [of |-> m.of, free |-> free[m.of]]])
  /\ UNCHANGED server /\ Untouched

\* Variant: a key that was used is not looked for.
NeverSeen(k) == FALSE

Seen(k) == row[k] # NoRow

\* createHold: a known key is answered with its row, another takes the time.
ServeHold(m) ==
  /\ Sent(m).what = "hold"
  /\ LET k == Sent(m).key
         r == Sent(m).of
         open == r.start = r.date /\ r.blocks <= free[r.date]
     IN /\ Answer(m, Reply("held", k, IF Seen(k) THEN IF row[k].of = r THEN "ok" ELSE "IDEMPOTENCY_KEY_REUSED"
                                      ELSE IF open THEN "ok" ELSE "SLOT_TAKEN"))
        /\ IF Seen(k) \/ ~open THEN UNCHANGED <<free, row>>
           ELSE free' = [free EXCEPT ![r.date] = 0] /\ row' = [row EXCEPT ![k] = [status |-> "HELD", of |-> r]]
  /\ UNCHANGED due /\ Untouched

\* acceptTerms: a repeated click is answered as the first.
ServeAccept(m) ==
  /\ Sent(m).what = "accept"
  /\ LET k == Sent(m).key
         agreed == row[k].status \in {"HELD", "AGREED"}
     IN /\ row' = IF agreed THEN [row EXCEPT ![k].status = "AGREED"] ELSE row
        /\ Answer(m, Reply("accepted", k, IF agreed THEN "ok" ELSE "HOLD_EXPIRED"))
  /\ UNCHANGED <<free, due>> /\ Untouched

\* The time that a hold begins with ends; once the terms are agreed it has more.
RunOut(k) ==
  /\ row[k] # NoRow /\ k \notin due /\ due' = due \cup {k}
  /\ row' = IF row[k].status = "HELD" THEN [row EXCEPT ![k].status = "EXPIRED"] ELSE row
  /\ free' = IF row[k].status = "HELD" /\ row[k].of # None THEN [free EXCEPT ![row[k].of.date] = MaxBlocks] ELSE free
  /\ UNCHANGED net /\ Untouched

\* Somebody else books or frees time.
Others(d, n) ==
  /\ \A k \in Keys : row[k].of # None /\ row[k].of.date = d => row[k].status = "EXPIRED"
  /\ free' = [free EXCEPT ![d] = n]
  /\ UNCHANGED <<row, due, net>> /\ Untouched

Next ==
  \/ ChooseService \/ PickStart \/ Continue \/ EditDetails \/ Back
  \/ CheckCode \/ CodeIsRight \/ CodeIsWrong \/ HoldNow \/ ChooseAgain \/ Accept \/ TimerFires
  \/ \E d \in Date : PickDate(d) \/ MoveDate(d) \/ \E n \in 0..MaxBlocks : Others(d, n)
  \/ \E n \in 1..MaxBlocks : PickBlocks(n)
  \/ \E k \in Keys : RunOut(k) \/ OldView(k)
  \/ \E m \in net : \/ SlotsArrive(m) \/ SlotsFail(m) \/ Taken(m) \/ Held(m) \/ NotHeld(m)
                    \/ AcceptArrives(m) \/ GiveUp(m)
                    \/ ServeSlots(m) \/ ServeHold(m) \/ ServeAccept(m)

Spec == Init /\ [][Next]_vars

(***************************************************************************)
(* Properties.                                                             *)
(***************************************************************************)
\* What a customer is asked to agree to is the time and the length the page shows,
\* whatever was picked, refused and tried again before, for a customer who does not go
\* back while a code is checked (Summary, booking-flow.tsx:92).
ReviewsWhatItShows ==
  step = "Review" /\ hold # 0 /\ ~expired /\ ~strayed => row[hold].of = Request

\* However often a hold is tried again, and whatever reply is lost, such a customer has one
\* time held at most, but for a call given up that runs after its retry was refused, and
\* while nothing that comes late of an earlier hold ends a later one on the page.
HoldsOneTime ==
  strayed \/ misled \/ Cardinality({k \in Keys \ refused : row[k].status = "HELD"}) <= 1
=============================================================================
