------------------------------- MODULE Codes -------------------------------
(***************************************************************************)
(* One-time codes: the table otp_codes, and the requests that ask for a    *)
(* code, try one, and consume it.                                          *)
(*                                                                         *)
(* A code is tried in a statement committed on its own, and consumed later *)
(* in the transaction it pays for, after a slow hash: other requests come  *)
(* between.  Asking is a transaction of three steps, since none of its     *)
(* statements makes another asking request wait for its new row.  Whether  *)
(* a guess matches is a free choice, as a code is six unknown digits.  The *)
(* email with the code goes to the Outbox; what the transactions do beside *)
(* consuming is SignIn's.                                                  *)
(***************************************************************************)
EXTENDS Integers, Sequences, FiniteSets

CONSTANTS Email, Purpose,
          Ip,           \* client addresses
          Request,      \* requests that may run at once
          Resend,       \* OTP_RESEND_SECONDS
          CodeLife,     \* OTP_TTL_MINUTES
          MaxAttempts,  \* OTP_MAX_ATTEMPTS
          EmailCap,     \* OTP_EMAIL_HOURLY_CAP
          IpCap,        \* OTP_IP_HOURLY_CAP
          Hour,
          MaxTime,      \* bound on the clock
          MaxCodes,     \* bound on codes issued
          Null

ASSUME LimitAssumption ==
  {Resend, CodeLife, MaxAttempts, EmailCap, IpCap, Hour} \subseteq Nat \ {0}
ASSUME BoundAssumption == {MaxTime, MaxCodes} \subseteq Nat

VARIABLES
  codes,    \* otp_codes, in the order they were committed
  asking,   \* requests for a code, and what they have read
  trying,   \* requests with a code, and the row they have found
  clock

vars == <<codes, asking, trying, clock>>

\* The last four fields record what happened, for the properties: when the row
\* became visible, which later code took its place, how many guesses were
\* compared with it and how many transactions it served.
Code == [email : Email, purpose : Purpose, ip : Ip, created : 0..MaxTime,
         attempts : 0..MaxAttempts, consumed : BOOLEAN,
         committed : 0..MaxTime, rival : 0..MaxCodes, compared : Nat, wins : Nat]

\* An asking request holds the codes it is about to supersede, once it has
\* looked for them; one with a code has matched it or not yet tried.
Asking == [email : Email, purpose : Purpose, ip : Ip, since : 0..MaxTime,
           looked : BOOLEAN, older : SUBSET (1..MaxCodes)]
Trying == [code : 1..MaxCodes, matched : BOOLEAN]

TypeOK ==
  /\ codes \in Seq(Code) /\ Len(codes) <= MaxCodes
  /\ asking \in [Request -> Asking \cup {Null}]
  /\ trying \in [Request -> Trying \cup {Null}]
  /\ clock \in 0..MaxTime

Init ==
  /\ codes = <<>> /\ clock = 0
  /\ asking = [r \in Request |-> Null] /\ trying = [r \in Request |-> Null]

Idle(r) == asking[r] = Null /\ trying[r] = Null

(***************************************************************************)
(* Asking for a code.                                                      *)
(***************************************************************************)
Unconsumed(e, p) ==
  {c \in DOMAIN codes : codes[c].email = e /\ codes[c].purpose = p /\ ~codes[c].consumed}
LastHour == {c \in DOMAIN codes : codes[c].created + Hour > clock}

UnderCaps(e, ip) ==
  /\ Cardinality({c \in LastHour : codes[c].email = e}) < EmailCap
  /\ Cardinality({c \in LastHour : codes[c].ip = ip}) < IpCap

\* Variant: a code may be asked for when one has just been sent.
CooledDownAlways(e, p) == TRUE

CooledDown(e, p) == \A c \in Unconsumed(e, p) : codes[c].created + Resend <= clock

\* createOtp reads the limits; its transaction's now() is fixed from here on.
AskForCode(r, e, p, ip) ==
  /\ Idle(r) /\ CooledDown(e, p) /\ UnderCaps(e, ip)
  /\ asking' = [asking EXCEPT ![r] =
       [email |-> e, purpose |-> p, ip |-> ip, since |-> clock,
        looked |-> FALSE, older |-> {}]]
  /\ UNCHANGED <<codes, trying, clock>>

\* Variant: a new code leaves the older ones alone.
SupersedeNothing(r) ==
  /\ asking[r] # Null /\ ~asking[r].looked
  /\ asking' = [asking EXCEPT ![r].looked = TRUE]
  /\ UNCHANGED <<codes, trying, clock>>

\* The UPDATE finds the committed rows.  It locks them, which is not modelled:
\* trying or consuming one of them commutes with waiting for the lock.
Supersede(r) ==
  /\ asking[r] # Null /\ ~asking[r].looked
  /\ asking' = [asking EXCEPT ![r].looked = TRUE,
                  ![r].older = Unconsumed(asking[r].email, asking[r].purpose)]
  /\ UNCHANGED <<codes, trying, clock>>

\* The new code and the end of those it supersedes become visible together.
IssueCode(r) ==
  LET q == asking[r]
      new == [email |-> q.email, purpose |-> q.purpose, ip |-> q.ip,
              created |-> q.since, attempts |-> 0, consumed |-> FALSE,
              committed |-> clock, rival |-> 0, compared |-> 0, wins |-> 0]
      older == [c \in DOMAIN codes |->
                  IF c \in q.older /\ ~codes[c].consumed
                  THEN [codes[c] EXCEPT !.consumed = TRUE, !.rival = Len(codes) + 1]
                  ELSE codes[c]]
  IN /\ q # Null /\ q.looked /\ Len(codes) < MaxCodes
     /\ codes' = Append(older, new)
     /\ asking' = [asking EXCEPT ![r] = Null]
     /\ UNCHANGED <<trying, clock>>

(***************************************************************************)
(* Trying a code, and consuming it.                                        *)
(***************************************************************************)
Expired(c) == codes[c].created + CodeLife <= clock

\* The newest live code; codes asked for at the same time are in any order.
Newest(e, p) ==
  LET live == {c \in Unconsumed(e, p) : ~Expired(c)}
  IN {c \in live : \A d \in live : codes[d].created <= codes[c].created}

\* The subquery of checkOtp finds the row that the UPDATE will then lock.
TryCode(r, e, p) ==
  /\ Idle(r)
  /\ \E c \in Newest(e, p) :
       trying' = [trying EXCEPT ![r] = [code |-> c, matched |-> FALSE]]
  /\ UNCHANGED <<codes, asking, clock>>

\* Variant: one attempt too many.
CountOneMore(r) ==
  LET c == trying[r].code
  IN /\ trying[r] # Null /\ ~trying[r].matched /\ codes[c].attempts <= MaxAttempts
     /\ codes' = [codes EXCEPT ![c].attempts = @ + 1, ![c].compared = @ + 1]
     /\ \/ trying' = [trying EXCEPT ![r].matched = TRUE]
        \/ trying' = [trying EXCEPT ![r] = Null]
     /\ UNCHANGED <<asking, clock>>
\* Variant: only a wrong guess counts.
CountFailure(r) ==
  LET c == trying[r].code
  IN /\ trying[r] # Null /\ ~trying[r].matched /\ codes[c].attempts < MaxAttempts
     /\ \/ /\ codes' = [codes EXCEPT ![c].compared = @ + 1]
           /\ trying' = [trying EXCEPT ![r].matched = TRUE]
        \/ /\ codes' = [codes EXCEPT ![c].attempts = @ + 1, ![c].compared = @ + 1]
           /\ trying' = [trying EXCEPT ![r] = Null]
     /\ UNCHANGED <<asking, clock>>

\* The attempt counts whatever the guess, and is refused once there are enough.
CountAttempt(r) ==
  LET c == trying[r].code
  IN /\ trying[r] # Null /\ ~trying[r].matched /\ codes[c].attempts < MaxAttempts
     /\ codes' = [codes EXCEPT ![c].attempts = @ + 1, ![c].compared = @ + 1]
     /\ \/ trying' = [trying EXCEPT ![r].matched = TRUE]
        \/ trying' = [trying EXCEPT ![r] = Null]
     /\ UNCHANGED <<asking, clock>>

\* Variant: consuming relies on the check before it.
ConsumableTwice(c) == ~Expired(c)

Consumable(c) == ~codes[c].consumed /\ ~Expired(c)

\* The transaction behind the code commits, the code consumed in it.
ConsumeOtp(r) ==
  LET c == trying[r].code
  IN /\ trying[r] # Null /\ trying[r].matched /\ Consumable(c)
     /\ codes' = [codes EXCEPT ![c].consumed = TRUE, ![c].wins = @ + 1]
     /\ trying' = [trying EXCEPT ![r] = Null]
     /\ UNCHANGED <<asking, clock>>

\* A request ends without further effect: it is refused, its transaction is
\* rolled back, or the process stops.
GiveUp(r) ==
  /\ ~Idle(r)
  /\ asking' = [asking EXCEPT ![r] = Null] /\ trying' = [trying EXCEPT ![r] = Null]
  /\ UNCHANGED <<codes, clock>>

Tick ==
  /\ clock < MaxTime
  /\ clock' = clock + 1
  /\ UNCHANGED <<codes, asking, trying>>

Step(r) ==
  \/ \E e \in Email, p \in Purpose, ip \in Ip : AskForCode(r, e, p, ip)
  \/ Supersede(r) \/ IssueCode(r)
  \/ \E e \in Email, p \in Purpose : TryCode(r, e, p)
  \/ CountAttempt(r) \/ ConsumeOtp(r) \/ GiveUp(r)

Next == (\E r \in Request : Step(r)) \/ Tick

Spec == Init /\ [][Next]_vars

(***************************************************************************)
(* Properties.                                                             *)
(***************************************************************************)
\* A code serves one transaction, although several requests may have matched
\* it before the first of them consumed it (consumeOtp, api/auth.ts:94).
CodeWorksOnce == \A c \in DOMAIN codes : codes[c].wins <= 1

\* However requests race, fail or are rolled back, no more than MaxAttempts
\* guesses are ever compared with a code (checkOtp, api/auth.ts:78).
GuessesAreBounded == \A c \in DOMAIN codes : codes[c].compared <= MaxAttempts

\* Two codes for one address and purpose can both be live only if the second
\* was asked for before the first was committed (createOtp, api/auth.ts:58).
LiveCodesOverlap ==
  \A c, d \in DOMAIN codes :
    (c < d /\ codes[c].email = codes[d].email /\ codes[c].purpose = codes[d].purpose
       /\ ~codes[c].consumed /\ ~codes[d].consumed)
      => codes[c].committed >= codes[d].created

\* A code just sent is not superseded by the next before the cooldown is over,
\* but for a request that was already asking (createOtp, api/auth.ts:51).
SupersededAfterCooldown ==
  \A c \in DOMAIN codes :
    LET d == codes[c].rival
    IN d # 0 => \/ codes[d].created >= codes[c].created + Resend
                \/ codes[c].committed >= codes[d].created
=============================================================================
