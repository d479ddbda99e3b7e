---------------------------- MODULE SecondFactor ----------------------------
(***************************************************************************)
(* The second factor of one admin: setting up an authenticator, and        *)
(* proving it on each session.  Two pages of the console, one per session, *)
(* send their requests; a request is a sequence of statements of its own   *)
(* transaction each, so the two interleave between any two statements.     *)
(*                                                                         *)
(* A code is the secret and the time step it was computed from (that two   *)
(* secrets give the same six digits is left out).  Time counts in steps.   *)
(***************************************************************************)
EXTENDS Naturals, Sequences, Functions, FiniteSetsExt

CONSTANTS Session, Null,
          Limit,       \* TOTP_FAILURES_PER_15_MIN
          Window,      \* 15 minutes, in time steps
          Access,      \* SECOND_FACTOR_HOURS, in time steps
          MaxTime,     \* bound on the clock
          MaxSecrets   \* bound on the secrets drawn

VARIABLES
  user,     \* totp_secret_enc, totp_enabled_at (set or not), totp_last_step
  proven,   \* sessions.second_factor_at, or Null
  failed,   \* auth_events: the times of admin_2fa_failed
  request,  \* what the request of a session goes on to do, or Null
  page,     \* what AdminGate of a session shows
  secrets,  \* secrets drawn so far
  app,      \* secrets the admin's authenticator app holds
  time,
  accepted, \* history: the codes accepted, in order
  proof,    \* history: the secret each session has proven last
  excused   \* history: sessions proven before a reset, or while another
            \* request replaced the secret

vars == <<user, proven, failed, request, page, secrets, app, time, accepted,
          proof, excused>>

Secret == 1..MaxSecrets
Code == [secret : Secret \cup {Null}, step : 0..(MaxTime + 1)]
NoAuthenticator == [secret |-> Null, enabled |-> FALSE, last |-> 0]

Init ==
  /\ user = NoAuthenticator /\ failed = <<>>
  /\ proven = [s \in Session |-> Null] /\ proof = proven
  /\ request = [s \in Session |-> Null]
  /\ page = [s \in Session |-> "checking"]
  /\ secrets = 0 /\ app = {} /\ time = 1 /\ accepted = <<>> /\ excused = {}

Fresh(s) == proven[s] # Null /\ time < proven[s] + Access

\* requireSecondFactor.
MayEnter(s) == user.enabled /\ Fresh(s)

-----------------------------------------------------------------------------
(* The gate. *)

\* AdminGate asks once, when the console opens.
Visit(s) ==
  /\ request[s] = Null
  /\ page' = [page EXCEPT ![s] =
       IF Fresh(s) THEN "ok" ELSE IF user.enabled THEN "verify" ELSE "enrol"]
  /\ UNCHANGED <<user, proven, failed, request, secrets, app, time, accepted,
                 proof, excused>>

\* Start setup: the account's state is read first ...
EnrolRead(s) ==
  /\ page[s] = "enrol" /\ request[s] = Null /\ secrets < MaxSecrets
  /\ ~ user.enabled
  /\ request' = [request EXCEPT ![s] = [at |-> "store"]]
  /\ UNCHANGED <<user, proven, failed, page, secrets, app, time, accepted,
                 proof, excused>>

\* ... and the secret is stored unless one is enabled by then.  The answer is
\* the new secret all the same, and the page shows it: it is added to the app.
Store(s) ==
  /\ request[s] # Null /\ request[s].at = "store" /\ secrets < MaxSecrets
  /\ secrets' = secrets + 1
  /\ user' = IF user.enabled THEN user ELSE [user EXCEPT !.secret = secrets + 1]
  /\ app' = app \cup {secrets + 1}
  /\ page' = [page EXCEPT ![s] = "setup"]
  /\ request' = [request EXCEPT ![s] = Null]
  /\ UNCHANGED <<proven, failed, time, accepted, proof, excused>>

-----------------------------------------------------------------------------
(* Verifying a code. *)
Recent == Cardinality({i \in DOMAIN failed : failed[i] + Window > time})

Barred == Recent >= Limit

\* The app's code of now or of a step just past or ahead of the server's clock,
\* or a wrong code.
Typed == {c \in Code : IF c.secret = Null THEN c.step = 0
                       ELSE /\ c.secret \in app
                            /\ c.step \in (time - 1)..(time + 1)}

\* The wrong codes of the last 15 minutes are counted.
Submit(s, code) ==
  /\ page[s] \in {"verify", "setup"}
  /\ request[s] = Null /\ ~ Barred /\ code \in Typed
  /\ request' = [request EXCEPT ![s] = [at |-> "match", code |-> code]]
  /\ UNCHANGED <<user, proven, failed, page, secrets, app, time, accepted,
                 proof, excused>>

\* matchTotp: the step the code is of, at most one away from now, or 0.
StepOf(secret, code) ==
  IF code.secret = secret /\ code.step \in (time - 1)..(time + 1)
  THEN code.step ELSE 0

\* The secret is read and the code compared with it.
Match(s) ==
  /\ request[s] # Null /\ request[s].at = "match"
  /\ request' = [request EXCEPT ![s] =
       IF user.secret = Null THEN Null
       ELSE [at |-> "claim", code |-> @.code, secret |-> user.secret,
             step |-> StepOf(user.secret, @.code)]]
  /\ UNCHANGED <<user, proven, failed, page, secrets, app, time, accepted,
                 proof, excused>>

\* Variant: a step counts as new unless it is older than the last one.
ClaimableAgain(r) == r.step # 0 /\ user.last <= r.step

Claimable(r) == r.step # 0 /\ user.last < r.step

\* One statement claims the step, and enables the authenticator.
Claim(s) ==
  LET r == request[s] IN
  /\ r # Null /\ r.at = "claim"
  /\ IF Claimable(r)
     THEN /\ user' = [user EXCEPT !.last = r.step, !.enabled = TRUE]
          /\ accepted' = Append(accepted, r.code)
          /\ request' = [request EXCEPT ![s] = [at |-> "prove", secret |-> r.secret]]
          /\ excused' = IF r.secret = user.secret THEN excused ELSE Session
          /\ UNCHANGED failed
     ELSE /\ failed' = Append(failed, time)
          /\ request' = [request EXCEPT ![s] = Null]
          /\ UNCHANGED <<user, accepted, excused>>
  /\ UNCHANGED <<proven, page, secrets, app, time, proof>>

\* The session is marked, and the page shows the console.
Prove(s) ==
  /\ request[s] # Null /\ request[s].at = "prove"
  /\ proven' = [proven EXCEPT ![s] = time]
  /\ proof' = [proof EXCEPT ![s] = request[s].secret]
  /\ page' = [page EXCEPT ![s] = "ok"]
  /\ request' = [request EXCEPT ![s] = Null]
  /\ UNCHANGED <<user, failed, secrets, app, time, accepted, excused>>

-----------------------------------------------------------------------------
(* A lost authenticator is reset by hand, with the SQL of RUN_LOCAL.md, which
   leaves the sessions alone; no request is under way then. *)
Reset ==
  /\ user.secret # Null /\ \A s \in Session : request[s] = Null
  /\ user' = NoAuthenticator
  /\ app' = {}
  /\ excused' = excused \cup {s \in Session : proven[s] # Null}
  /\ UNCHANGED <<proven, failed, request, page, secrets, time, accepted, proof>>

Tick ==
  /\ time < MaxTime
  /\ time' = time + 1
  /\ UNCHANGED <<user, proven, failed, request, page, secrets, app, accepted,
                 proof, excused>>

Next ==
  \/ \E s \in Session : \/ Visit(s) \/ EnrolRead(s) \/ Store(s)
                        \/ Match(s) \/ Claim(s) \/ Prove(s)
                        \/ \E code \in Code : Submit(s, code)
  \/ Reset \/ Tick

Spec == Init /\ [][Next]_vars

-----------------------------------------------------------------------------
(* Types. *)
TypeOK ==
  /\ user \in [secret : Secret \cup {Null}, enabled : BOOLEAN, last : 0..(MaxTime + 1)]
  /\ proven \in [Session -> 1..MaxTime \cup {Null}]
  /\ proof \in [Session -> Secret \cup {Null}]
  /\ failed \in Seq(1..MaxTime) /\ accepted \in Seq(Code)
  /\ page \in [Session -> {"checking", "enrol", "setup", "verify", "ok"}]
  /\ secrets \in 0..MaxSecrets /\ app \subseteq Secret /\ excused \subseteq Session

\* The same code is not accepted twice, even by two requests at once
\* (admin-routes.ts:77).
NoReplay == IsInjective(accepted)

\* Wrong codes are counted before one is compared and written down after, so
\* there are as many too many as there are other requests, and no more
\* (admin-routes.ts:72-73).
GuessesAreLimited == Recent <= Limit + Cardinality(Session) - 1

\* A session that gets in has shown that it holds the very authenticator that
\* is set up, unless that was reset since or replaced meanwhile
\* (admin-routes.ts:41, 60).
EntryIsProven ==
  \A s \in Session : MayEnter(s) => proof[s] = user.secret \/ s \in excused
=============================================================================
