------------------------------- MODULE SignIn -------------------------------
(***************************************************************************)
(* Accounts, their ways to sign in, and sessions: the tables users,        *)
(* auth_identities and sessions.                                           *)
(*                                                                         *)
(* A transaction that writes the row of its user is one action: the lock   *)
(* on that row and the unique indexes order it with the others, and it     *)
(* stands where its statement is that ends sessions, if it has one, since  *)
(* nothing else can change the row between that and its commit.  A login   *)
(* that only inserts its session waits for nobody: its INSERT and its      *)
(* commit are two actions, and a statement between them does not see the   *)
(* row (READ COMMITTED).  What a handler reads before its transaction      *)
(* may be stale in it, since a slow hash lies between: such a handler is a *)
(* request, in steps.  A code or Google's answer proves an address when    *)
(* its transaction commits (a code is consumed there, module Codes), so a  *)
(* handler that has read nothing else is a step of its own.  What a        *)
(* request carries is chosen where it is first looked at: a password when  *)
(* it is compared or stored, its cookie when that session is revoked,      *)
(* which is as good as a logout before.                                    *)
(***************************************************************************)
EXTENDS Integers, Sequences, FiniteSetsExt

CONSTANTS Email,
          Password,
          Subject,      \* Google accounts
          Request,      \* handlers that may run at once
          Sliding,      \* SESSION_SLIDING_DAYS
          Absolute,     \* SESSION_ABSOLUTE_DAYS
          MaxTime,      \* bound on the clock
          MaxSessions,  \* bound on sessions begun
          MaxChanges,   \* bound on changes of an account's password
          Null

ASSUME NullAssumption == Null \notin Password \cup Subject
ASSUME NumberAssumption ==
  /\ Sliding \in Nat \ {0} /\ Absolute \in Nat \ {0}
  /\ {MaxTime, MaxSessions, MaxChanges} \subseteq Nat

VARIABLES
  accounts,  \* users, with their row of auth_identities
  sessions,  \* sessions, in the order they began
  request,   \* how far each handler is, and what it has read
  clock

vars == <<accounts, sessions, request, clock>>

\* changes counts the changes of a password; a session notes how many there
\* had been when its row was committed, or when it made the last one itself.
Account == [role : {"CLIENT", "VENDOR"}, verified : BOOLEAN,
            password : Password \cup {Null}, google : Subject \cup {Null},
            changes : 0..MaxChanges]
Session == [email : Email, expires : Nat, absolute : Nat, revoked : BOOLEAN,
            changes : 0..MaxChanges]

\* cookie is the session a request in the settings came with, 0 for another;
\* read is the account it has read.
Progress == [at : {"entered", "read", "inserted"}, kind : {"signup", "login", "settings", "connect"},
             email : Email, cookie : 0..MaxSessions, read : Account \cup {Null}]

\* NULL is no row.
ASSUME RowAssumption == Null \notin Account \cup Progress

TypeOK ==
  /\ accounts \in [Email -> Account \cup {Null}]
  /\ sessions \in Seq(Session) /\ Len(sessions) <= MaxSessions
  /\ request \in [Request -> Progress \cup {Null}]
  /\ clock \in 0..MaxTime

New(role, pw, g) ==
  [role |-> role, verified |-> TRUE, password |-> pw, google |-> g, changes |-> 0]

\* An address may be unknown, a booking customer's, or a vendor's; a vendor from
\* before the verification of addresses has a password only.
Init ==
  /\ accounts \in [Email -> {Null, New("CLIENT", Null, Null), New("VENDOR", Null, Null)}
       \cup {[New("VENDOR", pw, Null) EXCEPT !.verified = v] : pw \in Password, v \in BOOLEAN}]
  /\ sessions = <<>>
  /\ request = [r \in Request |-> Null]
  /\ clock = 0

(***************************************************************************)
(* Sessions.                                                               *)
(***************************************************************************)
Live(s) ==
  /\ ~sessions[s].revoked
  /\ sessions[s].expires > clock /\ sessions[s].absolute > clock

\* Variant: a session is good until its absolute end.
AcceptedUntilAbsolute(s) == ~sessions[s].revoked /\ sessions[s].absolute > clock

\* currentUser lets a session in and slides its end, up to the absolute one.
Accepted(s) == Live(s)
Slid(s) ==
  [sessions EXCEPT ![s].expires = Min({clock + Sliding, sessions[s].absolute})]

RevokedIn(S) ==
  [s \in DOMAIN sessions |-> [sessions[s] EXCEPT !.revoked = @ \/ s \in S]]
SessionsOf(e) == {s \in DOMAIN sessions : sessions[s].email = e}
Cookies == {0} \cup {s \in DOMAIN sessions : ~sessions[s].revoked}

\* startSession, and rotateInto or revokeAllSessions before it.
Enter(e, revoked) ==
  /\ Len(sessions) < MaxSessions
  /\ sessions' = Append(RevokedIn(revoked),
       [email |-> e, expires |-> clock + Sliding, absolute |-> clock + Absolute,
        revoked |-> FALSE, changes |-> accounts'[e].changes])

UseSession(s) ==
  /\ Accepted(s)
  /\ sessions' = Slid(s)
  /\ UNCHANGED <<accounts, request, clock>>

Logout(s) ==
  /\ ~sessions[s].revoked
  /\ sessions' = RevokedIn({s})
  /\ UNCHANGED <<accounts, request, clock>>

RevokeDevice(s, t) ==
  /\ Accepted(s) /\ sessions[t].email = sessions[s].email /\ ~sessions[t].revoked
  /\ sessions' = [Slid(s) EXCEPT ![t].revoked = TRUE]
  /\ UNCHANGED <<accounts, request, clock>>

(***************************************************************************)
(* Handlers that read nothing before the transaction of their proof.       *)
(***************************************************************************)
\* Variant: the role is written as the earlier schema had it.
PromotedAsBefore(role) == IF role = "CLIENT" THEN "PHOTOGRAPHER" ELSE role

Promoted(role) == IF role = "CLIENT" THEN "VENDOR" ELSE role

\* Proving an address verifies its account; doing so as a vendor makes it one.
Proven(account) == [account EXCEPT !.verified = TRUE]
AsVendor(account) == [account EXCEPT !.verified = TRUE, !.role = Promoted(@)]

WithPassword(account, pw) == [account EXCEPT !.password = pw, !.changes = @ + 1]
MayChange(e) == accounts[e] # Null /\ accounts[e].changes < MaxChanges

LoginByCode(e, cookie) ==
  /\ accounts[e] # Null
  /\ accounts' = [accounts EXCEPT ![e] = Proven(@)]
  /\ Enter(e, {cookie})
  /\ UNCHANGED <<request, clock>>

\* A reset does not look at the cookie: it revokes every session of the user.
ResetPassword(e, pw) ==
  /\ MayChange(e)
  /\ accounts' = [accounts EXCEPT ![e] = WithPassword(Proven(@), pw)]
  /\ Enter(e, SessionsOf(e))
  /\ UNCHANGED <<request, clock>>

\* A customer who has verified an address gets an account, unless it has one.
VerifyBooking(e, cookie) ==
  /\ accounts' = [accounts EXCEPT ![e] =
       IF @ = Null THEN New("CLIENT", Null, Null) ELSE Proven(@)]
  /\ Enter(e, {cookie})
  /\ UNCHANGED <<request, clock>>

\* applyGoogle: the account g is connected to (InsertByGoogle), else the account
\* of its address, unless another Google account is connected to that, else a
\* new one.
Connected(g) == {e \in Email : accounts[e] # Null /\ accounts[e].google = g}

LoginByGoogle(g, e, cookie) ==
  \/ /\ Connected(g) = {} /\ accounts[e] # Null /\ accounts[e].google = Null
     /\ accounts' = [accounts EXCEPT ![e] = [AsVendor(@) EXCEPT !.google = g]]
     /\ Enter(e, {cookie}) /\ UNCHANGED <<request, clock>>
  \/ /\ Connected(g) = {} /\ accounts[e] = Null
     /\ accounts' = [accounts EXCEPT ![e] = New("VENDOR", Null, g)]
     /\ Enter(e, {cookie}) /\ UNCHANGED <<request, clock>>

(***************************************************************************)
(* Signing up, and signing in with a password.                             *)
(***************************************************************************)
Reading(r, kind, e, account) ==
  /\ request[r] = Null
  /\ request' = [request EXCEPT ![r] =
       [at |-> "read", kind |-> kind, email |-> e, cookie |-> 0, read |-> account]]
  /\ UNCHANGED <<accounts, sessions, clock>>
HasRead(r, kind) == request[r] # Null /\ request[r].at = "read" /\ request[r].kind = kind
Ends(r) == request' = [request EXCEPT ![r] = Null]

\* Variant: the account is read without its password.
StartSignUpWithoutPassword(r, e) ==
  Reading(r, "signup", e,
    IF accounts[e] = Null THEN Null ELSE [accounts[e] EXCEPT !.password = Null])

\* With the code checked, the account is looked for outside the transaction; a
\* password sent for an account that has one must be that one.
StartSignUp(r, e) == Reading(r, "signup", e, accounts[e])

\* The address is new: a unique index refuses the second of two such signups.
SignUpNew(r, pw, cookie) ==
  LET e == request[r].email
  IN /\ HasRead(r, "signup") /\ request[r].read = Null /\ accounts[e] = Null
     /\ accounts' = [accounts EXCEPT ![e] = New("VENDOR", pw, Null)]
     /\ Enter(e, {cookie})
     /\ Ends(r) /\ UNCHANGED clock

\* Variant: claiming an account ends no other session.
SignUpClaimOnly(r, pw, cookie) ==
  LET e == request[r].email
  IN /\ HasRead(r, "signup") /\ request[r].read # Null /\ request[r].read.password = Null
     /\ MayChange(e)
     /\ accounts' = [accounts EXCEPT ![e] =
          WithPassword(AsVendor(@), pw)]
     /\ Enter(e, {cookie})
     /\ Ends(r) /\ UNCHANGED clock

\* An account that was read without a password takes the one sent now.
SignUpClaim(r, pw, cookie) ==
  LET e == request[r].email
  IN /\ HasRead(r, "signup") /\ request[r].read # Null /\ request[r].read.password = Null
     /\ MayChange(e)
     /\ accounts' = [accounts EXCEPT ![e] =
          WithPassword(AsVendor(@), pw)]
     /\ Enter(e, SessionsOf(e) \cup {cookie})
     /\ Ends(r) /\ UNCHANGED clock

\* No password was sent, or it is the one the account was read with.
SignUpAgain(r, cookie) ==
  LET e == request[r].email
  IN /\ HasRead(r, "signup") /\ request[r].read # Null
     /\ accounts' = [accounts EXCEPT ![e] = AsVendor(@)]
     /\ Enter(e, {cookie})
     /\ Ends(r) /\ UNCHANGED clock

\* The hash is read and compared; the session begins in a later transaction.
CheckPassword(r, e) ==
  /\ accounts[e] # Null /\ accounts[e].password # Null
  /\ Reading(r, "login", e, accounts[e])

(***************************************************************************)
(* The logins that only insert a session, and its commit.                  *)
(***************************************************************************)
Inserted(e) ==
  [at |-> "inserted", kind |-> "login", email |-> e, cookie |-> 0, read |-> Null]

LoginByPassword(r) ==
  /\ HasRead(r, "login")
  /\ request' = [request EXCEPT ![r] = Inserted(request[r].email)]
  /\ UNCHANGED <<accounts, sessions, clock>>

\* The account that g is connected to.
InsertByGoogle(r, g, e) ==
  /\ request[r] = Null /\ e \in Connected(g)
  /\ request' = [request EXCEPT ![r] = Inserted(e)]
  /\ UNCHANGED <<accounts, sessions, clock>>

HasInserted(r) == request[r] # Null /\ request[r].at = "inserted"

CommitLogin(r, cookie) ==
  LET e == request[r].email
  IN /\ HasInserted(r)
     /\ UNCHANGED accounts
     /\ Enter(e, {cookie})
     /\ Ends(r) /\ UNCHANGED clock

(***************************************************************************)
(* Settings: the ways to sign in.                                          *)
(***************************************************************************)
\* requireSession, for a change of the password or of the Google account, or
\* for connecting one, which ends in a callback.
EnterSettings(r, s, kind) ==
  /\ request[r] = Null /\ Accepted(s)
  /\ sessions' = Slid(s)
  /\ request' = [request EXCEPT ![r] =
       [at |-> "entered", kind |-> kind, email |-> sessions[s].email,
        cookie |-> s, read |-> Null]]
  /\ UNCHANGED <<accounts, clock>>
Entered(r, kind) == request[r] # Null /\ request[r].at = "entered" /\ request[r].kind = kind

\* The stored password, if there is one, must be the one sent along.
CheckCurrent(r) ==
  /\ Entered(r, "settings")
  /\ request' = [request EXCEPT ![r] =
       [@ EXCEPT !.at = "read", !.read = accounts[request[r].email]]]
  /\ UNCHANGED <<accounts, sessions, clock>>

\* Any change of the password ends every session but the one that made it.
RevokeOthers(e, s) ==
  sessions' = [RevokedIn(SessionsOf(e) \ {s}) EXCEPT
                 ![s] = [@ EXCEPT !.changes = accounts'[e].changes]]

ChangePassword(r, pw) ==
  LET e == request[r].email
  IN /\ HasRead(r, "settings") /\ MayChange(e)
     /\ accounts' = [accounts EXCEPT ![e] = WithPassword(@, pw)]
     /\ RevokeOthers(e, request[r].cookie)
     /\ Ends(r) /\ UNCHANGED clock

Methods(account) ==
  {m \in {"code", "password", "google"} :
     \/ m = "code" /\ account.verified
     \/ m = "password" /\ account.password # Null
     \/ m = "google" /\ account.google # Null}

\* SELECT ... FOR UPDATE of a user waits for the sessions that are being inserted
\* for it (their foreign key); an UPDATE does not.
Lockable(e) == \A r \in Request : HasInserted(r) => request[r].email # e

\* Variant: the methods are counted when the password is read.
RemovePasswordUnlocked(r) ==
  LET e == request[r].email
  IN /\ HasRead(r, "settings") /\ request[r].read.password # Null
     /\ MayChange(e) /\ Cardinality(Methods(request[r].read)) > 1
     /\ accounts' = [accounts EXCEPT ![e] = WithPassword(@, Null)]
     /\ RevokeOthers(e, request[r].cookie)
     /\ Ends(r) /\ UNCHANGED clock

\* The methods are counted with the account's row locked.
RemovePassword(r) ==
  LET e == request[r].email
  IN /\ HasRead(r, "settings") /\ request[r].read.password # Null
     /\ MayChange(e) /\ Lockable(e) /\ Cardinality(Methods(accounts[e])) > 1
     /\ accounts' = [accounts EXCEPT ![e] = WithPassword(@, Null)]
     /\ RevokeOthers(e, request[r].cookie)
     /\ Ends(r) /\ UNCHANGED clock

DisconnectGoogle(r) ==
  LET e == request[r].email
  IN /\ Entered(r, "settings") /\ Lockable(e) /\ accounts[e].google # Null
     /\ Cardinality(Methods(accounts[e])) > 1
     /\ accounts' = [accounts EXCEPT ![e].google = Null]
     /\ Ends(r) /\ UNCHANGED <<sessions, clock>>

\* The callback needs a session of the user who began to connect.
ConnectGoogle(r, s, g) ==
  LET e == request[r].email
  IN /\ Entered(r, "connect") /\ Accepted(s) /\ sessions[s].email = e
     /\ Connected(g) \subseteq {e} /\ accounts[e].google \in {Null, g}
     /\ accounts' = [accounts EXCEPT ![e].google = g]
     /\ sessions' = Slid(s)
     /\ Ends(r) /\ UNCHANGED clock

\* A handler ends without effect: it is refused, its transaction is rolled
\* back, or the process stops.
GiveUp(r) ==
  /\ request[r] # Null
  /\ Ends(r)
  /\ UNCHANGED <<accounts, sessions, clock>>

Tick ==
  /\ clock < MaxTime
  /\ clock' = clock + 1
  /\ UNCHANGED <<accounts, sessions, request>>

Proof(e, cookie) ==
  \/ LoginByCode(e, cookie) \/ VerifyBooking(e, cookie)
  \/ \E g \in Subject : LoginByGoogle(g, e, cookie)

Start(r) ==
  \/ \E e \in Email : StartSignUp(r, e) \/ CheckPassword(r, e)
  \/ \E s \in DOMAIN sessions, kind \in {"settings", "connect"} : EnterSettings(r, s, kind)
  \/ \E g \in Subject, e \in Email : InsertByGoogle(r, g, e)

Finish(r) ==
  \/ \E pw \in Password \cup {Null}, cookie \in Cookies : SignUpNew(r, pw, cookie)
  \/ \E pw \in Password, cookie \in Cookies : SignUpClaim(r, pw, cookie)
  \/ \E cookie \in Cookies : SignUpAgain(r, cookie) \/ CommitLogin(r, cookie)
  \/ LoginByPassword(r) \/ CheckCurrent(r) \/ RemovePassword(r) \/ DisconnectGoogle(r) \/ GiveUp(r)
  \/ \E pw \in Password : ChangePassword(r, pw)
  \/ \E s \in DOMAIN sessions, g \in Subject : ConnectGoogle(r, s, g)

Next ==
  \/ \E r \in Request : Start(r) \/ Finish(r)
  \/ \E e \in Email, cookie \in Cookies : Proof(e, cookie)
  \/ \E e \in Email, pw \in Password : ResetPassword(e, pw)
  \/ \E s \in DOMAIN sessions : UseSession(s) \/ Logout(s)
  \/ \E s, t \in DOMAIN sessions : RevokeDevice(s, t)
  \/ Tick

Spec == Init /\ [][Next]_vars

(***************************************************************************)
(* Properties.                                                             *)
(***************************************************************************)
\* A session that has been revoked or has run out never works again, whoever
\* uses or slides it afterwards (currentUser, api/auth.ts:111).
DeadStaysDead ==
  [][\A s \in DOMAIN sessions : Live(s)' => Live(s)]_vars

\* Every session that still works was committed after its account's password was
\* last changed, or made that change itself (revokeAllSessions, api/auth.ts:120,
\* revokeOthers, api/google/routes.ts:174): nobody who was in before is in still.
\* Its row may be older than that change, since a login by password or by a
\* connected Google account may be under way when the others are ended.
SessionsFollowPassword ==
  \A s \in DOMAIN sessions :
    Live(s) => sessions[s].changes = accounts[sessions[s].email].changes

\* A signup replaces a password only if it read the account before that was
\* set (api/auth-routes.ts:84): a password it has seen it leaves alone.
NoBlindOverwrite ==
  [][\A r \in Request :
       (/\ HasRead(r, "signup") /\ request'[r] = Null
        /\ accounts[request[r].email] # Null
        /\ accounts[request[r].email].password
             \notin {Null, accounts'[request[r].email].password})
         => request[r].read.changes < accounts[request[r].email].changes]_vars

\* Whatever is removed at the same time from several devices, an account keeps
\* a way to sign in (LAST_SIGN_IN_METHOD, api/google/routes.ts:166,196).
AlwaysAWayIn == \A e \in Email : accounts[e] # Null => Methods(accounts[e]) # {}
=============================================================================
