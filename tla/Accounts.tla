------------------------------ MODULE Accounts ------------------------------
(***************************************************************************)
(* A vendor's account and a customer's, from publishing the page to closing *)
(* either, beside the bookings between the two.                            *)
(*                                                                         *)
(* Every request checks its session first and acts later, in a statement or *)
(* a transaction of its own, by which time either account may be closed.   *)
(***************************************************************************)
CONSTANTS Booking

VARIABLES
  published,  \* vendors.published, and bookings_enabled with it
  feed,       \* there is a secret address of the calendar feed
  service,    \* the vendor has an active service and hours
  profile,    \* the other facts of the checklist hold
  closed,     \* the vendor's login is closed
  erased,     \* the customer's login is closed
  booking,    \* the status of each booking; "OVER" when it is done or cancelled
  anonymous,  \* the bookings whose contact was removed
  begun,      \* requests that have passed their first check
  spoilt,     \* history: the page lost something after its checklist was read
  unseen      \* history: bookings and requests that may become a booking
              \* although the check of a closing did not count them

vars == <<published, feed, service, profile, closed, erased, booking, anonymous, begun, spoilt, unseen>>

\* A request: what it does, and with which booking if with any.
Requests == {"publish", "feed", "close", "erase"} \X {"page"} \cup {"hold", "manual"} \X Booking

\* "LAPSED" is the PENDING whose time to pay has run out, before the sweep: every check
\* treats it as expired, as it does a HELD that has run out.
Statuses == {"NONE", "HELD", "PENDING", "LAPSED", "CONFIRMED", "EXPIRED", "OVER"}

TypeOK ==
  /\ {published, feed, service, profile, closed, erased, spoilt} \subseteq BOOLEAN
  /\ booking \in [Booking -> Statuses]
  /\ anonymous \subseteq Booking /\ begun \subseteq Requests
  /\ unseen \in [{"close", "erase"} -> SUBSET (Requests \cup Booking)]

Init ==
  /\ published = FALSE /\ feed = FALSE /\ service = FALSE /\ profile = FALSE
  /\ closed = FALSE /\ erased = FALSE
  /\ booking = [b \in Booking |-> "NONE"] /\ anonymous = {}
  /\ begun = {} /\ spoilt = FALSE
  /\ unseen = [c \in {"close", "erase"} |-> {}]

Checked(closing) == <<closing, "page">> \in begun

\* What matters to a closing of what has begun.
Matters(c) == {"hold", "manual"} \X Booking \cup (IF c = "close" THEN {"publish", "feed"} \X {"page"} ELSE {})

Begin(kind, about) ==
  /\ begun' = begun \cup {<<kind, about>>}
  /\ unseen' = [c \in {"close", "erase"} |->
       IF Checked(c) THEN unseen[c] \cup ({<<kind, about>>} \cap Matters(c)) ELSE unseen[c]]
End(kind, about) == <<kind, about>> \in begun /\ begun' = begun \ {<<kind, about>>}
Becomes(b, status) == booking' = [booking EXCEPT ![b] = status]

bookings == <<booking, anonymous, erased>>
page == <<published, feed, service, profile, closed, spoilt>>

(***************************************************************************)
(* The page.                                                               *)
(***************************************************************************)
\* The vendor adds what the checklist asks for, or takes it away again.
Edit(has, fits) ==
  /\ ~closed
  /\ service' = has /\ profile' = fits
  /\ spoilt' = (spoilt \/ (~(has /\ fits) /\ (published \/ <<"publish", "page">> \in begun)))
  /\ UNCHANGED <<published, feed, closed, begun, unseen, bookings>>

\* missingPublishRequirements finds none.
ReadChecklist ==
  /\ ~closed /\ service /\ profile
  /\ Begin("publish", "page")
  /\ UNCHANGED <<page, bookings>>

Publish ==
  /\ End("publish", "page")
  /\ published' = TRUE
  /\ UNCHANGED <<feed, service, profile, closed, spoilt, unseen, bookings>>

Unpublish ==
  /\ ~closed
  /\ published' = FALSE /\ spoilt' = (<<"publish", "page">> \in begun)
  /\ UNCHANGED <<feed, service, profile, closed, begun, unseen, bookings>>

AskForFeed == ~closed /\ Begin("feed", "page") /\ UNCHANGED <<page, bookings>>

SetFeed ==
  /\ End("feed", "page")
  /\ feed' = TRUE
  /\ UNCHANGED <<published, service, profile, closed, spoilt, unseen, bookings>>

(***************************************************************************)
(* Bookings.                                                               *)
(***************************************************************************)
\* createHold finds the page published before it waits for the vendor lock.
FindPage(b) ==
  /\ published /\ ~erased /\ booking[b] = "NONE"
  /\ Begin("hold", b)
  /\ UNCHANGED <<page, bookings>>

\* The row refers to the user, whom an erasure has locked until it commits.
Hold(b) ==
  /\ booking[b] = "NONE" /\ service /\ ~Checked("erase")
  /\ End("hold", b)
  /\ Becomes(b, "HELD")
  /\ UNCHANGED <<page, unseen, anonymous, erased>>

AskForManual(b) == ~closed /\ booking[b] = "NONE" /\ Begin("manual", b) /\ UNCHANGED <<page, bookings>>

\* A booking the vendor makes for the customer needs neither page nor login.
Manual(b) ==
  /\ booking[b] = "NONE"
  /\ End("manual", b)
  /\ Becomes(b, "CONFIRMED")
  /\ UNCHANGED <<page, unseen, anonymous, erased>>

\* acceptTerms asks for neither: the private link is enough.
Accept(b) ==
  /\ booking[b] = "HELD"
  /\ Becomes(b, "PENDING") \/ Becomes(b, "CONFIRMED")
  /\ UNCHANGED <<page, begun, unseen, anonymous, erased>>

\* A payment confirms, also one that arrives after the hold has expired.
Pay(b) ==
  /\ booking[b] \in {"PENDING", "LAPSED", "EXPIRED"}
  /\ Becomes(b, "CONFIRMED")
  /\ UNCHANGED <<page, begun, unseen, anonymous, erased>>

\* Time passes, or somebody cancels.
Lapse(b) ==
  /\ \/ booking[b] = "PENDING" /\ Becomes(b, "LAPSED")
     \/ booking[b] \in {"HELD", "LAPSED"} /\ Becomes(b, "EXPIRED")
     \/ booking[b] \in {"PENDING", "LAPSED", "CONFIRMED"} /\ Becomes(b, "OVER")
  /\ UNCHANGED <<page, begun, unseen, anonymous, erased>>

(***************************************************************************)
(* Closing the vendor's account, and erasing the customer.                 *)
(***************************************************************************)
Ahead(statuses) == {b \in Booking : booking[b] \in statuses}

\* The check that no booking is ahead, which counts those of some statuses and
\* may overlook others.
CheckClosing(c, statuses, others) ==
  /\ Ahead(statuses) = {} /\ ~Checked(c)
  /\ begun' = begun \cup {<<c, "page">>}
  /\ unseen' = [unseen EXCEPT ![c] = (begun \cap Matters(c)) \cup Ahead(others)]
  /\ UNCHANGED <<page, bookings>>

\* Variant: confirmed bookings only.
VendorCountsConfirmed == ~closed /\ CheckClosing("close", {"CONFIRMED"}, {"HELD", "LAPSED", "EXPIRED"})

\* A hold is not yet a booking ahead, and a request that has lapsed is none any more.
CheckVendor == ~closed /\ CheckClosing("close", {"PENDING", "CONFIRMED"}, {"HELD", "LAPSED", "EXPIRED"})

CloseVendor ==
  /\ End("close", "page")
  /\ closed' = TRUE /\ published' = FALSE /\ feed' = FALSE
  /\ UNCHANGED <<service, profile, spoilt, unseen, bookings>>

\* Holds count, and the user stays locked.
CheckCustomer == ~erased /\ CheckClosing("erase", {"HELD", "PENDING", "CONFIRMED"}, {"LAPSED", "EXPIRED"})

\* Every booking there is by now is erased, those made since the check included.
EraseCustomer ==
  /\ End("erase", "page")
  /\ erased' = TRUE
  /\ anonymous' = anonymous \cup {b \in Booking : booking[b] # "NONE"}
  /\ UNCHANGED <<page, unseen, booking>>

GiveUp(q) ==
  /\ q \in begun
  /\ begun' = begun \ {q}
  /\ unseen' = [c \in {"close", "erase"} |-> IF q = <<c, "page">> THEN {} ELSE unseen[c]]
  /\ UNCHANGED <<page, bookings>>

Next ==
  \/ \E has, fits \in BOOLEAN : Edit(has, fits)
  \/ ReadChecklist \/ Publish \/ Unpublish \/ AskForFeed \/ SetFeed
  \/ \E b \in Booking :
       \/ FindPage(b) \/ Hold(b) \/ AskForManual(b) \/ Manual(b)
       \/ Accept(b) \/ Pay(b) \/ Lapse(b)
  \/ CheckVendor \/ CloseVendor \/ CheckCustomer \/ EraseCustomer
  \/ \E q \in Requests : GiveUp(q)

Spec == Init /\ [][Next]_vars

(***************************************************************************)
(* Properties.                                                             *)
(***************************************************************************)
\* A page that is online has what the checklist asks for, unless something was
\* taken away after the checklist had been read (POST /publish,
\* api/vendor-routes.ts:234: the read and the update are apart).
OnlineIsComplete == published => (service /\ profile) \/ spoilt

\* A closed account's page and calendar feed stay off, unless a request to turn
\* them on had passed its session check before (POST /account/delete,
\* api/dashboard-routes.ts:214).
ClosedStaysOff ==
  closed => /\ published => <<"publish", "page">> \in unseen["close"]
            /\ feed => <<"feed", "page">> \in unseen["close"]

\* The vendor of a booking that is ahead can still sign in, unless the booking
\* was, when the account was being closed, a hold, or a request that had lapsed and
\* was paid late, or was just being made, or came through a page that a request put
\* online again (the check for bookings ahead, api/dashboard-routes.ts:212, takes no
\* lock and overlooks HELD).
ClosedHasServed ==
  closed => \A b \in Ahead({"PENDING", "CONFIRMED"}) :
              unseen["close"] \cap {b, <<"hold", b>>, <<"manual", b>>, <<"publish", "page">>} # {}

\* The customer behind a booking that is ahead can be written to, unless the
\* vendor was making it while the erasure was between its check and its update,
\* or a lapsed request was paid late (POST /delete, api/privacy.ts:58).
ErasedIsOver ==
  \A b \in Ahead({"HELD", "PENDING", "CONFIRMED"}) \cap anonymous :
    unseen["erase"] \cap {b, <<"manual", b>>} # {}

\* An erasure leaves the contact only in holds that were being made when it
\* committed, not in earlier ones (POST /delete, api/privacy.ts:60).
NothingLeft ==
  erased => \A b \in Booking \ anonymous :
              booking[b] \in {"HELD", "PENDING", "LAPSED", "EXPIRED"} => <<"hold", b>> \in unseen["erase"]

\* A booking ahead of a closed account was just being made when the account was being
\* closed: "Refused while any booking is still ahead" (POST /account/delete,
\* api/dashboard-routes.ts:204).
NothingAhead ==
  closed => \A b \in Ahead({"CONFIRMED"}) :
              unseen["close"] \cap {<<"hold", b>>, <<"manual", b>>} # {}
=============================================================================
