------------------------------ MODULE Handshake ------------------------------
(***************************************************************************)
(* Signing in with Google, or connecting a Google account, from one        *)
(* browser: the redirect to Google, what comes back, and the callback,      *)
(* whose statements run one by one with a call to Google in between.       *)
(*                                                                         *)
(* The browser keeps one cookie, of the attempt it began last; Google's     *)
(* page can be gone back to and a callback loaded again, so that callbacks  *)
(* of one attempt, or of two, overlap.  Google's code, its token's nonce    *)
(* and the PKCE challenge belong to the attempt that Google was asked in.   *)
(***************************************************************************)
EXTENDS Naturals, Sequences

CONSTANTS Attempt, Request, Null,
          Account,      \* Google accounts
          Home,         \* the user with the address of each
          Life,         \* GOOGLE_COOKIE_MINUTES
          MaxTime,      \* bound on the clock
          MaxSessions   \* bound on the sessions begun

VARIABLES
  clock,
  attempt,   \* what the cookie says (who connects, Null to sign in; since when)
             \* and its row of oauth_login_states says (whether it was used)
  cookie,    \* the attempt in the browser's cookie
  sessions,  \* sessions, in the order they began: whose, and whether still good
  browser,   \* the session the browser has, 0 for none
  linked,    \* auth_identities: the user each account is connected to
  request,   \* callbacks under way
  entries    \* history: what callbacks led to

vars == <<clock, attempt, cookie, sessions, browser, linked, request,
          entries>>
signedIn == <<sessions, browser, linked, entries>>

User == {Home[g] : g \in Account}

Init ==
  /\ clock = 0 /\ cookie = Null /\ sessions = <<>> /\ browser = 0
  /\ attempt = [a \in Attempt |-> Null] /\ linked = [g \in Account |-> Null]
  /\ request = [r \in Request |-> Null] /\ entries = {}

InTime(a) == clock < attempt[a].at + Life
Good(s) == s # 0 /\ sessions[s].good

(***************************************************************************)
(* The browser, Google's pages and the clock.                              *)
(***************************************************************************)
\* /google/start; connecting needs a session.
Start(a, connects) ==
  /\ attempt[a] = Null
  /\ connects => Good(browser)
  /\ attempt' = [attempt EXCEPT ![a] =
       [user |-> IF connects THEN sessions[browser].user ELSE Null,
        at |-> clock, used |-> FALSE]]
  /\ cookie' = a
  /\ UNCHANGED <<clock, signedIn, request>>

\* rotateInto: the session that the request came with ends, another begins.
Enter(u, old) ==
  /\ Len(sessions) < MaxSessions
  /\ sessions' = Append([s \in DOMAIN sessions |->
                           [sessions[s] EXCEPT !.good = @ /\ s # old]],
                        [user |-> u, good |-> TRUE])
  /\ browser' = Len(sessions) + 1

\* The same browser signs in by a code or a password, or signs out.
OtherSignIn(u) ==
  /\ Enter(u, browser)
  /\ UNCHANGED <<clock, attempt, cookie, linked, request, entries>>

SignOut ==
  /\ Good(browser)
  /\ sessions' = [sessions EXCEPT ![browser].good = FALSE] /\ browser' = 0
  /\ UNCHANGED <<clock, attempt, cookie, linked, request, entries>>

Tick ==
  /\ clock < MaxTime
  /\ clock' = clock + 1
  /\ UNCHANGED <<attempt, cookie, signedIn, request>>

(***************************************************************************)
(* The callback.                                                           *)
(***************************************************************************)
\* Every answer clears the cookie, whichever attempt it is of by then.
Answer(r) == request' = [request EXCEPT ![r] = Null] /\ cookie' = Null

\* The cookie is there, in time, and of the attempt that comes back.
Expected(a) == cookie = a /\ InTime(a)

\* Google's page sends the browser back with a code, for the account that the
\* person chose there, early or late, once or again.
Come(r, a, g) ==
  /\ request[r] = Null /\ attempt[a] # Null
  /\ IF Expected(a)
       THEN /\ request' = [request EXCEPT ![r] =
                 [of |-> a, as |-> g, session |-> browser, at |-> "came"]]
            /\ UNCHANGED cookie
       ELSE Answer(r)
  /\ UNCHANGED <<clock, attempt, signedIn>>

\* It sends the browser back without a code: the person cancelled.
Cancel ==
  /\ cookie # Null /\ cookie' = Null
  /\ UNCHANGED <<clock, attempt, signedIn, request>>

At(r, where) == request[r] # Null /\ request[r].at = where
Onward(r, where) == request' = [request EXCEPT ![r].at = where]

\* Variant: the row is only looked for.
ClaimableAgain(a) == InTime(a)

Claimable(a) == ~attempt[a].used /\ InTime(a)

\* The update of oauth_login_states that claims the attempt.
Claim(r) ==
  LET a == request[r].of IN
  /\ At(r, "came")
  /\ IF Claimable(a)
       THEN /\ attempt' = [attempt EXCEPT ![a].used = TRUE]
            /\ Onward(r, "claimed") /\ UNCHANGED cookie
       ELSE Answer(r) /\ UNCHANGED attempt
  /\ UNCHANGED <<clock, signedIn>>

\* Google exchanges the code, and its token is the attempt's ...
Exchange(r) ==
  /\ At(r, "claimed")
  /\ Onward(r, "proven")
  /\ UNCHANGED <<clock, attempt, cookie, signedIn>>

\* ... or it refuses, does not answer in time, or its token is not accepted.
ExchangeFails(r) ==
  /\ At(r, "claimed")
  /\ Answer(r)
  /\ UNCHANGED <<clock, attempt, signedIn>>

\* Variant: the session decides, whoever began.
ConnectableBySession(r) ==
  LET s == request[r].session
  IN Good(s) /\ linked[request[r].as] \in {Null, sessions[s].user}

\* applyGoogle: connecting is for the user who began, still signed in, and not
\* with an account of somebody else.
Connectable(r) ==
  LET asker == attempt[request[r].of].user
      s == request[r].session
  IN /\ Good(s) /\ sessions[s].user = asker
     /\ linked[request[r].as] \in {Null, asker}

\* Who comes in: the session's user, the account's, or the one with its address.
Comer(r) ==
  LET q == request[r]
  IN IF attempt[q.of].user # Null THEN sessions[q.session].user
     ELSE IF linked[q.as] # Null THEN linked[q.as] ELSE Home[q.as]

\* A user has one Google account at most (unique (user_id, provider)).
Spare(u, g) == \A h \in Account \ {g} : linked[h] # u

Apply(r) ==
  LET q == request[r]
      connects == attempt[q.of].user # Null
  IN /\ At(r, "proven")
     /\ connects => Connectable(r)
     /\ Spare(Comer(r), q.as)
     /\ linked' = [linked EXCEPT ![q.as] = Comer(r)]
     /\ entries' = entries \cup {[of |-> q.of, as |-> q.as, user |-> Comer(r)]}
     /\ IF connects THEN UNCHANGED <<sessions, browser>> ELSE Enter(Comer(r), q.session)
     /\ Answer(r)
     /\ UNCHANGED <<clock, attempt>>

\* It is refused, or its transaction fails: another may do the same meanwhile.
ApplyFails(r) ==
  /\ At(r, "proven")
  /\ Answer(r)
  /\ UNCHANGED <<clock, attempt, signedIn>>

\* The process stops, or the browser turns away: there is no answer.
Die(r) ==
  /\ request[r] # Null
  /\ request' = [request EXCEPT ![r] = Null]
  /\ UNCHANGED <<clock, attempt, cookie, signedIn>>

Next ==
  \/ \E a \in Attempt, connects \in BOOLEAN : Start(a, connects)
  \/ \E u \in User : OtherSignIn(u)
  \/ SignOut \/ Tick \/ Cancel
  \/ \E r \in Request :
       \/ \E a \in Attempt, g \in Account : Come(r, a, g)
       \/ Claim(r) \/ Exchange(r) \/ ExchangeFails(r) \/ Apply(r) \/ ApplyFails(r) \/ Die(r)

Spec == Init /\ [][Next]_vars

(***************************************************************************)
(* Properties.                                                             *)
(***************************************************************************)
TypeOK ==
  /\ clock \in 0..MaxTime /\ cookie \in Attempt \cup {Null}
  /\ sessions \in Seq([user : User, good : BOOLEAN]) /\ browser \in 0..Len(sessions)
  /\ linked \in [Account -> User \cup {Null}]
  /\ \A r \in Request : request[r] # Null => attempt[request[r].of] # Null

\* However often Google's page and the callback are gone back to, an attempt lets
\* its browser in once, as one account (the UPDATE, api/google/routes.ts:67).
EntersOnce == \A e, f \in entries : e.of = f.of => e = f

\* A Google account is connected to the user who began to connect it, whoever
\* signed in to the browser meanwhile, and every entry leads to the user its
\* account is connected to, who has no other (api/google/routes.ts:107-110).
EntersAsItself ==
  \A e \in entries :
    /\ attempt[e.of].user \in {Null, e.user} /\ linked[e.as] = e.user
    /\ Spare(e.user, e.as)
==============================================================================
