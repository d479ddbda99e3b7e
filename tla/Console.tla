------------------------------- MODULE Console -------------------------------
(***************************************************************************)
(* The admin console: lists that are searched, the actions they offer, and *)
(* the audit log.  A request is served in steps (its statement, its audit  *)
(* row, its answer), so that those of two admins interleave; the process   *)
(* can stop in between.  One row stands for what is stuck of each kind.    *)
(***************************************************************************)
EXTENDS Naturals, FiniteSets

CONSTANTS Admin,      \* each with one page open
          Screen,     \* the lists they visit
          MaxCalls,   \* bound on the calls
          Null

VARIABLES
  rows,      \* state of the row of each kind
  view,      \* per admin: the screen, its filter, what is shown and from which
             \* call, the action under way and its result
  calls,     \* requests and answers under way
  sent,      \* number of calls sent
  audited,   \* audit_logs: the calls that have their row
  crashed,   \* the process stopped once
  taken,     \* history: the retries of the email that were answered "Done"
  stuck      \* history: how often the email was stuck

vars == <<rows, view, calls, sent, audited, crashed, taken, stuck>>

\* The lists, the filter each opens with, and whether it offers an action.
Lists == [bookings |-> [filter |-> "all", acts |-> FALSE],
          payments |-> [filter |-> "all", acts |-> TRUE],
          webhooks |-> [filter |-> "stuck", acts |-> TRUE],
          outbox   |-> [filter |-> "stuck", acts |-> TRUE],
          jobs     |-> [filter |-> "all", acts |-> FALSE],
          users    |-> [filter |-> "all", acts |-> FALSE],
          vendors  |-> [filter |-> "all", acts |-> FALSE],
          audit    |-> [filter |-> "all", acts |-> FALSE]]

States == {"stuck", "queued", "done"}
Acting == {s \in DOMAIN Lists : Lists[s].acts}
Nowhere == [screen |-> Null, filter |-> "all", shown |-> Null, from |-> 0,
            busy |-> FALSE, result |-> Null]

Init ==
  /\ rows = [s \in Acting |-> "stuck"]
  /\ view = [a \in Admin |-> Nowhere]
  /\ calls = {} /\ sent = 0 /\ audited = {} /\ crashed = FALSE
  /\ taken = 0 /\ stuck = 1

Read(a, screen, filter) ==
  [n |-> sent + 1, by |-> a, kind |-> "read", screen |-> screen,
   filter |-> filter, at |-> "serve", data |-> Null]

Send(call) ==
  /\ sent < MaxCalls
  /\ sent' = sent + 1
  /\ calls' = calls \cup {call}

-----------------------------------------------------------------------------
(* The pages. *)

\* A list opens with its own filter.  Another screen is another component.
Open(a, screen) ==
  /\ view[a].screen # screen
  /\ Send(Read(a, screen, Lists[screen].filter))
  /\ view' = [view EXCEPT ![a] =
       [Nowhere EXCEPT !.screen = screen, !.filter = Lists[screen].filter]]
  /\ UNCHANGED <<rows, audited, crashed, taken, stuck>>

\* useQuery: a new search is a new path, and what was shown stays meanwhile.
Search(a, filter) ==
  /\ view[a].screen # Null /\ view[a].filter # filter
  /\ Send(Read(a, view[a].screen, filter))
  /\ view' = [view EXCEPT ![a].filter = filter]
  /\ UNCHANGED <<rows, audited, crashed, taken, stuck>>

\* The rows an action is offered for, as the list shows them.
Offered(a) ==
  /\ view[a].screen \in Acting /\ view[a].shown # Null /\ ~ view[a].busy
  /\ CASE view[a].screen = "payments" -> TRUE
       [] view[a].screen = "webhooks" -> view[a].shown # "done"
       [] OTHER -> view[a].shown = "stuck"

\* useAction, and act of a booking's page.
Act(a) ==
  /\ Offered(a)
  /\ Send([n |-> sent + 1, by |-> a, kind |-> "act", screen |-> view[a].screen,
           filter |-> view[a].filter, at |-> "serve", data |-> Null])
  /\ view' = [view EXCEPT ![a].busy = TRUE, ![a].result = Null]
  /\ UNCHANGED <<rows, audited, crashed, taken, stuck>>

\* Any load that ends sets the list, also that of an earlier search.
Loaded(c) ==
  /\ c.kind = "read" /\ c.at \in {"answer", "lost"}
  /\ calls' = calls \ {c}
  /\ view' = IF view[c.by].screen # c.screen THEN view
             ELSE [view EXCEPT ![c.by].shown = c.data,
                               ![c.by].from = IF c.at = "answer" THEN c.n ELSE 0]
  /\ UNCHANGED <<rows, sent, audited, crashed, taken, stuck>>

\* An action that went through loads the list again, of the search at the time
\* the button was pressed.
Acted(c) ==
  /\ c.kind = "act" /\ c.at \in {"answer", "refused", "lost"}
  /\ view' = IF view[c.by].screen # c.screen THEN view
             ELSE [view EXCEPT ![c.by].busy = FALSE,
                               ![c.by].result = IF c.at = "answer" THEN c.n ELSE 0]
  /\ IF c.at = "answer" /\ sent < MaxCalls
     THEN /\ sent' = sent + 1
          /\ calls' = (calls \ {c}) \cup {Read(c.by, c.screen, c.filter)}
     ELSE calls' = calls \ {c} /\ UNCHANGED sent
  /\ taken' = IF c.at = "answer" /\ c.screen = "outbox" THEN taken + 1 ELSE taken
  /\ UNCHANGED <<rows, audited, crashed, stuck>>

-----------------------------------------------------------------------------
(* The API. *)

Step(c, at, data) == calls' = (calls \ {c}) \cup {[c EXCEPT !.at = at, !.data = data]}

\* The row as the list's condition lets it through, or none.
Found(c) ==
  IF c.screen \notin Acting THEN "done"
  ELSE IF c.filter = "stuck" /\ rows[c.screen] # "stuck" THEN "none"
  ELSE rows[c.screen]

ServeRead(c) ==
  /\ c.kind = "read" /\ c.at = "serve"
  /\ Step(c, "audit", Found(c))
  /\ UNCHANGED <<rows, view, sent, audited, crashed, taken, stuck>>

\* The condition of the statement that takes the row.
MayAct(screen) ==
  CASE screen = "outbox" -> rows[screen] = "stuck"
    [] screen = "webhooks" -> rows[screen] # "done"
    [] OTHER -> TRUE

\* An email waits for the sender; an event or a payment is applied at once,
\* unless it still cannot be.
ServeAct(c) ==
  /\ c.kind = "act" /\ c.at = "serve"
  /\ IF MayAct(c.screen)
     THEN /\ \E new \in IF c.screen = "outbox" THEN {"queued"} ELSE {"done", rows[c.screen]} :
               rows' = [rows EXCEPT ![c.screen] = new]
          /\ Step(c, "audit", Null)
     ELSE Step(c, "refused", Null) /\ UNCHANGED rows
  /\ UNCHANGED <<view, sent, audited, crashed, taken, stuck>>

Audit(c) ==
  /\ c.at = "audit"
  /\ audited' = audited \cup {c.n}
  /\ Step(c, "answer", c.data)
  /\ UNCHANGED <<rows, view, sent, crashed, taken, stuck>>

\* The sender takes up a queued email.
Sender ==
  /\ rows["outbox"] = "queued"
  /\ \E new \in {"done", "stuck"} :
       /\ stuck < 2 \/ new = "done"
       /\ rows' = [rows EXCEPT !["outbox"] = new]
       /\ stuck' = IF new = "stuck" THEN stuck + 1 ELSE stuck
  /\ UNCHANGED <<view, calls, sent, audited, crashed, taken>>

\* The process stops: every page gets an error for the call it waits for.
Crash ==
  /\ ~ crashed /\ calls # {}
  /\ crashed' = TRUE
  /\ calls' = {[c EXCEPT !.at = "lost", !.data = Null] : c \in calls}
  /\ UNCHANGED <<rows, view, sent, audited, taken, stuck>>

Next ==
  \/ \E a \in Admin : \/ \E screen \in Screen : Open(a, screen)
                      \/ \E filter \in {"all", "stuck"} : Search(a, filter)
                      \/ Act(a)
  \/ \E c \in calls : Loaded(c) \/ Acted(c) \/ ServeRead(c) \/ ServeAct(c) \/ Audit(c)
  \/ Sender \/ Crash

Spec == Init /\ [][Next]_vars

-----------------------------------------------------------------------------
(* Types. *)
TypeOK ==
  /\ rows \in [Acting -> States] /\ sent \in 0..MaxCalls
  /\ audited \subseteq 1..sent /\ crashed \in BOOLEAN
  /\ \A a \in Admin :
       /\ view[a].screen \in Screen \cup {Null} /\ view[a].from \in 0..sent
       /\ view[a].shown \in States \cup {Null, "none"}
  /\ \A c \in calls : c.n \in 1..sent

\* Whatever an admin has been shown, and every action that was reported as
\* done, is in the audit log, also when the process stops in between
\* (admin-routes.ts:17).
SeenIsAudited ==
  \A a \in Admin : /\ view[a].from # 0 => view[a].from \in audited
                   /\ view[a].result \notin {Null, 0} => view[a].result \in audited

\* An email that is stuck is queued again by one admin, however many press the
\* button their stale list offers (admin-routes.ts:293).
RetriedOnce == taken <= stuck
=============================================================================
