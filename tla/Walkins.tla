------------------------------- MODULE Walkins -------------------------------
(***************************************************************************)
(* Two forms a vendor sends again when no answer came: the dialog that     *)
(* adds a walk-in booking, and the form that records money received        *)
(* offline.  The dialog draws an idempotency key when it opens and the API *)
(* keeps the key with the booking; the payment form has no key.            *)
(* Any call can be lost before or after the API acts on it; the page       *)
(* cannot tell which, and shows an error.                                  *)
(***************************************************************************)
EXTENDS Naturals, FiniteSets

CONSTANTS Time,      \* times a walk-in can have; one booking each
          Name,      \* who walked in
          Total,     \* what the booking that is paid offline costs
          MaxKeys,   \* bound: openings of the dialog
          MaxSends   \* bound: calls

VARIABLES open,      \* the dialog is open
          key,       \* the key of this opening; 0 before the first
          busy,      \* {"add", "pay"}: the forms whose button is disabled
          net,       \* calls and answers under way
          sends,     \* calls sent
          bookings,  \* the walk-ins the API holds: key, time, name
          paid,      \* the payments recorded, by number of the call
          balance,   \* the balance the payment form was rendered with
          meant,     \* history: payments the vendor meant to record
          retrying,  \* the payment form shows an error
          added,     \* history: what the page said was added
          lost       \* history: an answer to a recorded payment was lost

vars == <<open, key, busy, net, sends, bookings, paid, balance, meant, retrying, added, lost>>

Detail == [time : Time, name : Name]

Due == Total - Cardinality(paid)

Init ==
    /\ open = FALSE /\ key = 0 /\ busy = {} /\ net = {} /\ sends = 0
    /\ bookings = {} /\ paid = {} /\ balance = Total /\ meant = 0
    /\ retrying = FALSE /\ added = {} /\ lost = FALSE

Send(call, form) ==
    /\ sends < MaxSends
    /\ net' = net \union {call}
    /\ sends' = sends + 1
    /\ busy' = busy \union {form}

-----------------------------------------------------------------------------
(* The dialog.  Closing it does not stop a call that is under way.         *)

Open ==
    /\ ~open /\ key < MaxKeys
    /\ open' = TRUE
    /\ key' = key + 1
    /\ UNCHANGED <<busy, net, sends, bookings, paid, balance, meant, retrying, added, lost>>

Close ==
    /\ open
    /\ open' = FALSE
    /\ UNCHANGED <<key, busy, net, sends, bookings, paid, balance, meant, retrying, added, lost>>

Submit(d) ==
    /\ open /\ "add" \notin busy
    /\ Send([kind |-> "add", key |-> key, detail |-> d], "add")
    /\ UNCHANGED <<open, key, bookings, paid, balance, meant, retrying, added, lost>>

(* The API: the same key with the same details is the same booking, with   *)
(* other details it is refused, and a time holds one booking.              *)
Booked(k) == {b \in bookings : b.key = k}

Answers(c) == IF Booked(c.key) # {} THEN Booked(c.key) = {[key |-> c.key, detail |-> c.detail]}
              ELSE \A b \in bookings : b.detail.time # c.detail.time

ServeAdd(c) ==
    /\ c \in net /\ c.kind = "add"
    /\ IF Answers(c)
       THEN /\ bookings' = IF Booked(c.key) = {}
                           THEN bookings \union {[key |-> c.key, detail |-> c.detail]} ELSE bookings
            /\ net' = (net \ {c}) \union {[c EXCEPT !.kind = "added"]}
       ELSE /\ net' = (net \ {c}) \union {[c EXCEPT !.kind = "not added"]}
            /\ UNCHANGED bookings
    /\ UNCHANGED <<open, key, busy, sends, paid, balance, meant, retrying, added, lost>>

Added(c) ==
    /\ c \in net /\ c.kind \in {"added", "not added"}
    /\ net' = net \ {c}
    /\ busy' = busy \ {"add"}
    /\ IF c.kind = "added" THEN added' = added \union {c.detail} /\ open' = FALSE
                           ELSE UNCHANGED <<added, open>>
    /\ UNCHANGED <<key, sends, bookings, paid, balance, meant, retrying, lost>>

-----------------------------------------------------------------------------
(* The payment form: an amount up to the balance it was rendered with.     *)
(* One unit stands for the amount.                                         *)

MayPay == "pay" \notin busy /\ balance > 0

Pay ==
    /\ MayPay
    /\ Send([kind |-> "pay", number |-> sends + 1], "pay")
    /\ meant' = IF retrying \/ "pay" \in busy THEN meant ELSE meant + 1
    /\ retrying' = FALSE
    /\ UNCHANGED <<open, key, bookings, paid, balance, added, lost>>

(* A variant: the amount is not compared with what is still due.           *)
AnyAmount == TRUE

Fits == Due > 0

ServePay(c) ==
    /\ c \in net /\ c.kind = "pay"
    /\ IF Fits THEN paid' = paid \union {c.number} ELSE UNCHANGED paid
    /\ net' = (net \ {c}) \union {[c EXCEPT !.kind = IF Fits THEN "paid" ELSE "not paid"]}
    /\ UNCHANGED <<open, key, busy, sends, bookings, balance, meant, retrying, added, lost>>

(* Recorded: the page loads the booking again and renders its balance.     *)
Paid(c) ==
    /\ c \in net /\ c.kind \in {"paid", "not paid"}
    /\ net' = net \ {c}
    /\ busy' = busy \ {"pay"}
    /\ balance' = IF c.kind = "paid" THEN Due ELSE balance
    /\ retrying' = (c.kind = "not paid")
    /\ UNCHANGED <<open, key, sends, bookings, paid, meant, added, lost>>

(* A call that never arrives, or whose answer never does.                  *)
Lose(c) ==
    /\ c \in net
    /\ net' = (net \ {c}) \union {[c EXCEPT !.kind = IF "key" \in DOMAIN c THEN "not added" ELSE "not paid"]}
    /\ lost' = (lost \/ c.kind = "paid")
    /\ UNCHANGED <<open, key, busy, sends, bookings, paid, balance, meant, retrying, added>>

Next ==
    \/ Open \/ Close \/ Pay
    \/ \E d \in Detail : Submit(d)
    \/ \E c \in net : ServeAdd(c) \/ Added(c) \/ ServePay(c) \/ Paid(c) \/ Lose(c)

Spec == Init /\ [][Next]_vars

(* Types.                                                                  *)
TypeOK ==
    /\ key \in 0..MaxKeys /\ sends \in 0..MaxSends
    /\ busy \subseteq {"add", "pay"}
    /\ bookings \subseteq [key : 1..MaxKeys, detail : Detail]
    /\ added \subseteq Detail /\ paid \subseteq 1..MaxSends
    /\ balance \in 0..Total /\ meant \in 0..MaxSends

(* What the page said was added is a booking with just those details       *)
(* (booking-actions.tsx:42-44, vendor-bookings.ts:118-121), however often  *)
(* the dialog was sent, changed, closed and opened again.                  *)
AddedIsWhatWasAsked == added \subseteq {b.detail : b \in bookings}

(* A payment is recorded for each the vendor meant, and twice only when    *)
(* the vendor sent the form again because an answer was lost               *)
(* (offline-payment-form.tsx:23, payments-view.tsx:21).                    *)
TwiceOnlyIfLost == Cardinality(paid) > meant => lost
=============================================================================
