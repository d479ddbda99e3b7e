------------------------------ MODULE Checkout ------------------------------
(***************************************************************************)
(* The booking page of a request that waits for its advance: the page that *)
(* refreshes itself (booking-page.tsx), the panel that opens Razorpay and  *)
(* waits for the server (payment-panel.tsx), the API, and the bank, which  *)
(* may take the money long after the window is gone.  Calls and replies    *)
(* cross the network in any order and may be lost.  A refresh that fails   *)
(* puts an error in the place of the whole page, panel and all, until one  *)
(* succeeds; what the old panel had under way goes on.                     *)
(***************************************************************************)
EXTENDS Naturals, FiniteSets

CONSTANTS MaxOrders, \* bound on the gateway's orders
          MaxCalls   \* bound on calls under way

VARIABLES
  status, lapsed, row,  \* the server: the booking, its hold, the advance's row
  orders, bank,         \* the gateway: orders made, and what the bank did with each
  view, panel, polling, \* the page: the booking it shows, the panel, its timer
  window,               \* the order that Razorpay's window is open for, or 0
  net                   \* calls and replies under way

server == <<status, lapsed, row, orders, bank>>
page == <<view, panel, polling, window>>
vars == <<status, lapsed, row, orders, bank, view, panel, polling, window, net>>

Status == {"PENDING", "CONFIRMED", "EXPIRED", "EXPIRED_PAID", "CANCELLED"}
Orders == 1..MaxOrders

TypeOK ==
  /\ status \in Status /\ lapsed \in BOOLEAN
  /\ row \in {"none", "created", "authorized", "captured"}
  /\ orders \in 0..MaxOrders /\ bank \in [Orders -> {"unpaid", "authorized", "captured"}]
  /\ view \in Status /\ panel \in {"idle", "opening", "verifying", "waiting", "gone"}
  /\ polling \in BOOLEAN /\ window \in 0..MaxOrders /\ Cardinality(net) <= MaxCalls

\* The terms are agreed and the page has loaded.
Init ==
  /\ status = "PENDING" /\ lapsed = FALSE /\ row = "none"
  /\ orders = 0 /\ bank = [o \in Orders |-> "unpaid"]
  /\ view = "PENDING" /\ panel = "idle" /\ polling = FALSE /\ window = 0 /\ net = {}

Call(what) == [of |-> what]
Reply(what, value) == [of |-> what, value |-> value]
Made(order) == [of |-> "order", order |-> order]  \* 0: none was
IsReply(r, what) == r \in net /\ r.of = what /\ r # Call(what)
Send(c) == Cardinality(net) < MaxCalls /\ c \notin net /\ net' = net \cup {c}
Answer(c, r) == c \in net /\ net' = (net \ {c}) \cup {r}

(***************************************************************************)
(* The page.                                                               *)
(***************************************************************************)
\* The panel was pressed, or heard of: one that was shown anew since keeps its own state.
Tell(p) == panel' \in IF panel = "gone" THEN {"gone"} ELSE {panel, p}

\* A panel that is no longer shown loses its state and its timer, not its calls, nor
\* the timer of a panel that was there before it.
Leaves(v) == panel # "gone" /\ view = "PENDING" /\ v # "PENDING"
Show(v, p, timer) ==
  /\ view' = v
  /\ IF panel # "gone" /\ v # "PENDING" THEN panel' = "idle" ELSE Tell(p)
  /\ polling' \in IF Leaves(v) THEN {FALSE, timer} ELSE {timer}

\* By itself while the advance is awaited, or by "Try again".
Refresh ==
  /\ view = "PENDING" \/ panel = "gone"
  /\ Send(Call("load")) /\ UNCHANGED <<server, page>>

Loaded(r) ==
  /\ IsReply(r, "load")
  /\ net' = net \ {r}
  /\ IF panel = "gone" THEN view' = r.value /\ panel' = "idle" /\ UNCHANGED polling
     ELSE Show(r.value, panel, polling)
  /\ UNCHANGED <<server, window>>

\* The refresh failed: the error is shown and the panel is unmounted.
LoadFails ==
  /\ panel' = "gone" /\ UNCHANGED view
  /\ polling' \in IF panel # "gone" /\ view = "PENDING" THEN {FALSE, polling} ELSE {polling}

\* The countdown ends on the customer's clock.
Countdown ==
  /\ lapsed /\ view = "PENDING" /\ panel # "gone" /\ Show("EXPIRED", panel, polling)
  /\ UNCHANGED <<server, window, net>>

Cancel ==
  /\ view \in {"PENDING", "CONFIRMED"} /\ panel # "gone"
  /\ Send(Call("cancel")) /\ UNCHANGED <<server, page>>

Cancelled(r) ==
  /\ IsReply(r, "cancel")
  /\ net' = net \ {r} /\ Show(IF r.value = "refused" THEN view ELSE r.value, panel, polling)
  /\ UNCHANGED <<server, window>>

(***************************************************************************)
(* The panel.                                                              *)
(***************************************************************************)
Pay ==
  /\ view = "PENDING" /\ panel = "idle" /\ window = 0
  /\ panel' = "opening" /\ Send(Call("order"))
  /\ UNCHANGED <<server, view, polling, window>>

OrderArrives(r) ==
  /\ IsReply(r, "order")
  /\ net' = net \ {r}
  /\ IF r.order = 0 THEN Tell("idle") /\ UNCHANGED window
     ELSE window' = r.order /\ UNCHANGED panel
  /\ UNCHANGED <<server, view, polling>>

Dismiss ==
  /\ window # 0 /\ window' = 0
  /\ Tell(IF panel = "opening" THEN "idle" ELSE panel)
  /\ UNCHANGED <<server, view, polling, net>>

\* Razorpay's own success only starts the server's check.
Handler ==
  /\ window # 0 /\ bank[window] # "unpaid"
  /\ window' = 0 /\ Send(Call("verify"))
  /\ Tell(IF view = "PENDING" THEN "verifying" ELSE "idle")
  /\ UNCHANGED <<server, view, polling>>

\* Not captured yet, or no answer: the panel asks the server until it is settled.
Verified(r) ==
  /\ IsReply(r, "verify")
  /\ net' = net \ {r}
  /\ IF r.value = "authorized" THEN Show(view, "waiting", TRUE) ELSE Show(r.value, "idle", polling)
  /\ UNCHANGED <<server, window>>

Poll == polling /\ Send(Call("poll")) /\ UNCHANGED <<server, page>>

Polled(r) ==
  /\ IsReply(r, "poll")
  /\ net' = net \ {r}
  /\ IF r.value = "PENDING" THEN UNCHANGED <<view, panel, polling>> ELSE Show(r.value, "idle", FALSE)
  /\ UNCHANGED <<server, window>>

\* After 90 seconds the panel stops asking.
PollEnds ==
  /\ polling /\ polling' = FALSE /\ Tell("idle")
  /\ UNCHANGED <<server, view, window, net>>

\* No answer: a failed refresh takes the page away, a failed order closes the panel, a
\* failed check waits for the webhook.
Fail(c) ==
  /\ c \in net /\ net' = net \ {c}
  /\ CASE c.of = "load" -> LoadFails
       [] c.of = "verify" -> Show(view, "waiting", TRUE)
       [] c.of = "order" -> Show(view, "idle", polling)
       [] OTHER -> UNCHANGED <<view, panel, polling>>
  /\ UNCHANGED <<server, window>>

(***************************************************************************)
(* The API and the bank.                                                   *)
(***************************************************************************)
\* bookingView: a hold that has run out is shown as expired at once.
Displayed == IF status = "PENDING" /\ lapsed THEN "EXPIRED" ELSE status

ServeView(what) == Answer(Call(what), Reply(what, Displayed)) /\ UNCHANGED <<server, page>>

Payable == status = "PENDING" /\ ~lapsed

\* createPaymentOrder: the open order is used again.
ServeOrder ==
  LET open == row \in {"created", "authorized"}
  IN /\ (Payable /\ ~open => orders < MaxOrders)
     /\ orders' = (IF Payable /\ ~open THEN orders + 1 ELSE orders)
     /\ row' = (IF Payable /\ ~open THEN "created" ELSE row)
     /\ Answer(Call("order"), Made(IF Payable THEN orders' ELSE 0))
     /\ UNCHANGED <<status, lapsed, bank, page>>

\* applyCapturedPayment: an expired booking is reclaimed when its time is still free.
Capture ==
  /\ row' = "captured"
  /\ status' \in CASE status = "PENDING" /\ row # "captured" -> {"CONFIRMED"}
                   [] status = "EXPIRED" /\ row # "captured" -> {"CONFIRMED", "EXPIRED_PAID"}
                   [] OTHER -> {status}

ServeVerify ==
  /\ LET o == CHOOSE p \in Orders : p <= orders /\ bank[p] # "unpaid"
     IN /\ Call("verify") \in net
        /\ IF bank[o] = "captured"
           THEN Capture /\ Answer(Call("verify"), Reply("verify", Displayed'))
           ELSE /\ row' = (IF row = "created" THEN "authorized" ELSE row) /\ UNCHANGED status
                /\ Answer(Call("verify"), Reply("verify", "authorized"))
  /\ UNCHANGED <<lapsed, orders, bank, page>>

Webhook ==
  /\ \E o \in Orders : bank[o] = "captured"
  /\ Capture /\ UNCHANGED <<lapsed, orders, bank, page, net>>

ServeCancel ==
  /\ Answer(Call("cancel"), Reply("cancel", IF Displayed \in {"PENDING", "CONFIRMED"} THEN "CANCELLED" ELSE "refused"))
  /\ status' = IF Displayed \in {"PENDING", "CONFIRMED"} THEN "CANCELLED" ELSE status
  /\ UNCHANGED <<lapsed, row, orders, bank, page>>

Lapse == ~lapsed /\ lapsed' = TRUE /\ UNCHANGED <<status, row, orders, bank, page, net>>

Expire ==
  /\ status = "PENDING" /\ lapsed /\ status' = "EXPIRED"
  /\ UNCHANGED <<lapsed, row, orders, bank, page, net>>

\* The customer pays in the window; the bank captures when it likes.  An order is paid once.
BankAuthorizes ==
  /\ window # 0 /\ bank[window] = "unpaid"
  /\ bank' = [bank EXCEPT ![window] = "authorized"]
  /\ UNCHANGED <<status, lapsed, row, orders, page, net>>

BankCaptures(o) ==
  /\ bank[o] = "authorized" /\ bank' = [bank EXCEPT ![o] = "captured"]
  /\ UNCHANGED <<status, lapsed, row, orders, page, net>>

Next ==
  \/ Refresh \/ Countdown \/ Cancel \/ Pay \/ Dismiss \/ Handler \/ Poll \/ PollEnds
  \/ ServeView("load") \/ ServeView("poll") \/ ServeOrder \/ ServeVerify \/ ServeCancel
  \/ Webhook \/ Lapse \/ Expire \/ BankAuthorizes
  \/ \E o \in Orders : BankCaptures(o)
  \/ \E m \in net : \/ Fail(m) \/ Loaded(m) \/ Polled(m) \/ Cancelled(m) \/ OrderArrives(m) \/ Verified(m)

Spec == Init /\ [][Next]_vars

(***************************************************************************)
(* Properties.                                                             *)
(***************************************************************************)
\* Success is shown only for money that the bank has captured, whatever the window
\* reported, whichever replies were lost or late (payment-panel.tsx:27).
SuccessIsTrue == view = "CONFIRMED" => \E o \in Orders : bank[o] = "captured"

\* However often the customer presses Pay, dismisses and presses again, at most one
\* payment is made (service.ts:31, "a repeated request reuses the open order").
PaidOnce == Cardinality({o \in Orders : bank[o] # "unpaid"}) <= 1
=============================================================================
