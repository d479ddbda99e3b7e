---------------------------- MODULE SignInProofs ----------------------------
(***************************************************************************)
(* Theorems of SignIn.  Every step is summed up once (Step, below): what   *)
(* it does to an account, to the sessions and to the requests.  The        *)
(* invariants and action properties follow from the sum.                   *)
(***************************************************************************)
EXTENDS SignIn, FiniteSetTheorems, TLAPS

(* What a request that is under way still knows.                           *)
Knows(r) ==
  LET q == request[r] IN
  q # Null =>
    /\ q.kind = "settings" =>
         q.cookie \in DOMAIN sessions /\ sessions[q.cookie].email = q.email
    /\ q.at # "read" \/ q.read # Null => accounts[q.email] # Null
    /\ q.at = "read" /\ q.kind # "signup" => q.read # Null
    /\ q.read # Null =>
         /\ q.read.changes <= accounts[q.email].changes
         /\ q.read.changes = accounts[q.email].changes =>
              q.read.password = accounts[q.email].password

Belongs == \A s \in DOMAIN sessions : accounts[sessions[s].email] # Null

Inv ==
  /\ TypeOK /\ Belongs /\ AlwaysAWayIn /\ SessionsFollowPassword
  /\ \A r \in Request : Knows(r)

-----------------------------------------------------------------------------
(* The sum of a step.                                                      *)

\* An account stays, is made, keeps its password, or gets another.
Stays(e) == accounts'[e] = accounts[e]
Made(e) ==
  /\ accounts[e] = Null /\ accounts'[e] \in Account
  /\ Methods(accounts'[e]) # {}
Touched(e) ==
  /\ accounts[e] \in Account /\ accounts'[e] \in Account
  /\ accounts'[e].password = accounts[e].password
  /\ accounts'[e].changes = accounts[e].changes
  /\ Methods(accounts'[e]) # {}
Renewed(e) ==
  /\ accounts[e] \in Account /\ accounts'[e] \in Account
  /\ accounts'[e].changes = accounts[e].changes + 1
  /\ Methods(accounts'[e]) # {}

AccountsGoOn ==
  /\ accounts' \in [Email -> Account \cup {Null}]
  /\ \A e \in Email : Stays(e) \/ Made(e) \/ Touched(e) \/ Renewed(e)

\* A session keeps its owner and does not come back to life; those that begin
\* have the password of the moment.
SessionsGoOn ==
  /\ sessions' \in Seq(Session) /\ Len(sessions') <= MaxSessions
  /\ Len(sessions) <= Len(sessions')
  /\ \A s \in DOMAIN sessions :
       sessions'[s].email = sessions[s].email /\ (Live(s)' => Live(s))
  /\ \A s \in DOMAIN sessions' \ DOMAIN sessions :
       /\ accounts'[sessions'[s].email] # Null
       /\ sessions'[s].changes = accounts'[sessions'[s].email].changes

\* A session whose account gets another password ends, or made the change.
SessionsFollow ==
  \A s \in DOMAIN sessions :
    LET e == sessions[s].email IN
    \/ sessions'[s].revoked
    \/ sessions'[s].changes = accounts'[e].changes
    \/ /\ sessions'[s].changes = sessions[s].changes
       /\ Stays(e) \/ Touched(e)

\* A request goes on knowing what it knew, ends, or looks at what is there.
Looked(r) ==
  LET q == request'[r] IN
  /\ q \in Progress /\ UNCHANGED accounts
  /\ q.kind = "settings" =>
       q.cookie \in DOMAIN sessions /\ sessions[q.cookie].email = q.email
  /\ q.at # "read" \/ q.read # Null => accounts[q.email] # Null
  /\ q.at = "read" /\ q.kind # "signup" => q.read # Null
  /\ q.read # Null => q.read = accounts[q.email]

RequestsGoOn ==
  /\ request' \in [Request -> Progress \cup {Null}]
  /\ \A r \in Request : request'[r] = request[r] \/ request'[r] = Null \/ Looked(r)

\* A signup that replaces a password had read that there is none.
SignupsLook ==
  \A r \in Request :
    HasRead(r, "signup") /\ request'[r] = Null /\ accounts[request[r].email] # Null =>
      \/ accounts'[request[r].email].password = accounts[request[r].email].password
      \/ request[r].read # Null /\ request[r].read.password = Null

Step ==
  /\ AccountsGoOn /\ SessionsGoOn /\ SessionsFollow /\ RequestsGoOn /\ SignupsLook
  /\ clock' \in 0..MaxTime

-----------------------------------------------------------------------------
(* An account.                                                             *)

LEMMA ManyMethods ==
  ASSUME NEW a, Cardinality(Methods(a)) > 1, NEW m
  PROVE  Methods(a) \ {m} # {}
<1>1. IsFiniteSet({"code", "password", "google"})
  <2>1. IsFiniteSet({"code"})
    BY FS_Singleton
  <2>2. IsFiniteSet({"code"} \cup {"password"})
    BY <2>1, FS_AddElement
  <2>3. IsFiniteSet(({"code"} \cup {"password"}) \cup {"google"})
    BY <2>2, FS_AddElement
  <2>4. ({"code"} \cup {"password"}) \cup {"google"} = {"code", "password", "google"}
    OBVIOUS
  <2> QED BY <2>3, <2>4
<1>2. Methods(a) \subseteq {"code", "password", "google"}
  BY DEF Methods
<1>3. IsFiniteSet(Methods(a))
  BY <1>1, <1>2, FS_Subset
<1> SUFFICES ASSUME Methods(a) \ {m} = {} PROVE FALSE
  OBVIOUS
<1>4. Methods(a) \subseteq {m}
  OBVIOUS
<1>5. IsFiniteSet({m}) /\ Cardinality({m}) = 1
  BY FS_Singleton
<1>6. Cardinality(Methods(a)) <= 1 /\ Cardinality(Methods(a)) \in Nat
  BY <1>3, <1>4, <1>5, FS_Subset, FS_CardinalityType
<1> QED BY <1>6

LEMMA AccountType ==
  ASSUME NEW a \in Account
  PROVE  /\ a.role \in {"CLIENT", "VENDOR"} /\ a.verified \in BOOLEAN
         /\ a.password \in Password \cup {Null} /\ a.google \in Subject \cup {Null}
         /\ a.changes \in 0..MaxChanges
BY DEF Account

LEMMA NewAccount ==
  ASSUME NEW pw \in Password \cup {Null}, NEW g \in Subject \cup {Null}
  PROVE  /\ New("VENDOR", pw, g) \in Account /\ New("CLIENT", pw, g) \in Account
         /\ New("VENDOR", pw, g).changes = 0 /\ New("CLIENT", pw, g).changes = 0
         /\ Methods(New("VENDOR", pw, g)) # {} /\ Methods(New("CLIENT", pw, g)) # {}
<1>1. 0 \in 0..MaxChanges
  BY NumberAssumption
<1>2. New("VENDOR", pw, g) \in Account /\ New("CLIENT", pw, g) \in Account
  BY <1>1 DEF New, Account
<1>3. "code" \in Methods(New("VENDOR", pw, g)) /\ "code" \in Methods(New("CLIENT", pw, g))
  BY DEF New, Methods
<1> QED BY <1>2, <1>3 DEF New

LEMMA ProvenAccount ==
  ASSUME NEW a \in Account
  PROVE  /\ Proven(a) \in Account /\ Proven(a).password = a.password
         /\ Proven(a).changes = a.changes /\ Proven(a).verified
         /\ Methods(Proven(a)) # {}
<1>1. /\ Proven(a) \in Account /\ Proven(a).password = a.password
      /\ Proven(a).changes = a.changes /\ Proven(a).verified
  BY DEF Proven, Account
<1>2. "code" \in Methods(Proven(a))
  BY <1>1 DEF Methods
<1> QED BY <1>1, <1>2

LEMMA VendorAccount ==
  ASSUME NEW a \in Account
  PROVE  /\ AsVendor(a) \in Account /\ AsVendor(a).password = a.password
         /\ AsVendor(a).changes = a.changes /\ AsVendor(a).verified
         /\ Methods(AsVendor(a)) # {}
<1>1. /\ AsVendor(a) \in Account /\ AsVendor(a).password = a.password
      /\ AsVendor(a).changes = a.changes /\ AsVendor(a).verified
  BY DEF AsVendor, Account, Promoted
<1>2. "code" \in Methods(AsVendor(a))
  BY <1>1 DEF Methods
<1> QED BY <1>1, <1>2

LEMMA GoogleAccount ==
  ASSUME NEW a \in Account, NEW g \in Subject \cup {Null}
  PROVE  LET b == [a EXCEPT !.google = g] IN
         /\ b \in Account /\ b.password = a.password /\ b.changes = a.changes
         /\ b.verified = a.verified /\ b.google = g
BY DEF Account

LEMMA Repassworded ==
  ASSUME NEW a \in Account, NEW pw \in Password \cup {Null}, a.changes < MaxChanges
  PROVE  LET b == WithPassword(a, pw)
         IN /\ b \in Account /\ b.changes = a.changes + 1 /\ b.password = pw
            /\ b.verified = a.verified /\ b.google = a.google
<1>1. a.changes + 1 \in 0..MaxChanges
  BY NumberAssumption, AccountType
<1> QED BY <1>1 DEF WithPassword, Account

-----------------------------------------------------------------------------
(* The sessions.                                                           *)

LEMMA SessionType ==
  ASSUME TypeOK, NEW s \in DOMAIN sessions
  PROVE  /\ sessions[s] \in Session /\ s \in 1..Len(sessions)
         /\ sessions[s].email \in Email /\ sessions[s].expires \in Nat
         /\ sessions[s].absolute \in Nat /\ sessions[s].revoked \in BOOLEAN
         /\ sessions[s].changes \in 0..MaxChanges
<1>1. sessions \in Seq(Session)
  BY DEF TypeOK
<1>2. sessions[s] \in Session /\ s \in 1..Len(sessions)
  BY <1>1
<1> QED BY <1>2 DEF Session

LEMMA SessionsRevoked ==
  ASSUME TypeOK, NEW S
  PROVE  /\ RevokedIn(S) \in Seq(Session) /\ Len(RevokedIn(S)) = Len(sessions)
         /\ DOMAIN RevokedIn(S) = DOMAIN sessions
         /\ \A s \in DOMAIN sessions :
              /\ RevokedIn(S)[s].email = sessions[s].email
              /\ RevokedIn(S)[s].expires = sessions[s].expires
              /\ RevokedIn(S)[s].absolute = sessions[s].absolute
              /\ RevokedIn(S)[s].changes = sessions[s].changes
              /\ sessions[s].revoked \/ s \in S => RevokedIn(S)[s].revoked
              /\ s \notin S => RevokedIn(S)[s].revoked = sessions[s].revoked
<1>1. sessions \in Seq(Session)
  BY DEF TypeOK
<1>2. ASSUME NEW s \in DOMAIN sessions
      PROVE  LET t == [sessions[s] EXCEPT !.revoked = @ \/ s \in S] IN
             /\ t \in Session
             /\ t.email = sessions[s].email /\ t.expires = sessions[s].expires
             /\ t.absolute = sessions[s].absolute /\ t.changes = sessions[s].changes
             /\ t.revoked = (sessions[s].revoked \/ s \in S)
  <2>1. sessions[s] \in Session
    BY <1>1
  <2> QED BY <2>1 DEF Session
<1>3. RevokedIn(S) = [s \in 1..Len(sessions) |-> [sessions[s] EXCEPT !.revoked = @ \/ s \in S]]
  BY <1>1 DEF RevokedIn
<1>4. Len(sessions) \in Nat /\ DOMAIN sessions = 1..Len(sessions)
  BY <1>1
<1>5. \A s \in 1..Len(sessions) : RevokedIn(S)[s] \in Session
  BY <1>2, <1>3, <1>4
<1>6. RevokedIn(S) \in Seq(Session) /\ Len(RevokedIn(S)) = Len(sessions)
  <2> DEFINE R == RevokedIn(S)
  <2>1. DOMAIN R = 1..Len(sessions)
    BY <1>3
  <2>2. R \in [1..Len(sessions) -> Session]
    BY <1>3, <1>5
  <2> HIDE DEF R
  <2>3. R \in Seq(Session) /\ Len(R) = Len(sessions)
    BY <2>1, <2>2, <1>4
  <2> QED BY <2>3 DEF R
<1>7. DOMAIN RevokedIn(S) = DOMAIN sessions
  BY <1>3, <1>4
<1>8. ASSUME NEW s \in DOMAIN sessions
      PROVE  /\ RevokedIn(S)[s].email = sessions[s].email
             /\ RevokedIn(S)[s].expires = sessions[s].expires
             /\ RevokedIn(S)[s].absolute = sessions[s].absolute
             /\ RevokedIn(S)[s].changes = sessions[s].changes
             /\ RevokedIn(S)[s].revoked = (sessions[s].revoked \/ s \in S)
  <2>1. RevokedIn(S)[s] = [sessions[s] EXCEPT !.revoked = @ \/ s \in S]
    BY <1>3, <1>4
  <2> QED BY <2>1, <1>2
<1>9. ASSUME NEW s \in DOMAIN sessions, s \notin S
      PROVE  RevokedIn(S)[s].revoked = sessions[s].revoked
  <2>1. sessions[s].revoked \in BOOLEAN
    BY SessionType
  <2>2. RevokedIn(S)[s].revoked = (sessions[s].revoked \/ FALSE)
    BY <1>8, <1>9
  <2> QED BY <2>1, <2>2
<1>10. ASSUME NEW s \in DOMAIN sessions, sessions[s].revoked \/ s \in S
       PROVE  RevokedIn(S)[s].revoked
  BY <1>8, <1>10
<1> QED BY <1>6, <1>7, <1>8, <1>9, <1>10

LEMMA SessionSlid ==
  ASSUME TypeOK, NEW s \in DOMAIN sessions
  PROVE  /\ Slid(s) \in Seq(Session) /\ Len(Slid(s)) = Len(sessions)
         /\ DOMAIN Slid(s) = DOMAIN sessions
         /\ \A t \in DOMAIN sessions :
              /\ Slid(s)[t].email = sessions[t].email
              /\ Slid(s)[t].absolute = sessions[t].absolute
              /\ Slid(s)[t].changes = sessions[t].changes
              /\ Slid(s)[t].revoked = sessions[t].revoked
              /\ t # s => Slid(s)[t] = sessions[t]
<1> DEFINE end == Min({clock + Sliding, sessions[s].absolute})
<1>1. sessions \in Seq(Session) /\ clock \in Nat
  BY DEF TypeOK
<1>2. sessions[s] \in Session /\ sessions[s].absolute \in Nat
  BY SessionType
<1>3. end \in Nat
  <2>1. clock + Sliding \in Nat
    BY <1>1, NumberAssumption
  <2>2. end \in {clock + Sliding, sessions[s].absolute}
    <3>1. \E x \in {clock + Sliding, sessions[s].absolute} :
            \A y \in {clock + Sliding, sessions[s].absolute} : x <= y
      BY <2>1, <1>2
    <3> QED BY <3>1 DEF Min
  <2> QED BY <2>1, <2>2, <1>2
<1> HIDE DEF end
<1>4. LET t == [sessions[s] EXCEPT !.expires = end] IN
      /\ t \in Session /\ t.email = sessions[s].email /\ t.absolute = sessions[s].absolute
      /\ t.changes = sessions[s].changes /\ t.revoked = sessions[s].revoked
  BY <1>2, <1>3 DEF Session
<1>5. Slid(s) = [sessions EXCEPT ![s] = [sessions[s] EXCEPT !.expires = end]]
  BY DEF Slid, end
<1> DEFINE u == [sessions[s] EXCEPT !.expires = end]
<1>6. u \in Session
  BY <1>4
<1> HIDE DEF u
<1>7. Slid(s) = [sessions EXCEPT ![s] = u]
  BY <1>5 DEF u
<1>8. Slid(s) \in Seq(Session) /\ Len(Slid(s)) = Len(sessions)
  BY <1>1, <1>6, <1>7
<1>9. Slid(s)[s] = u /\ \A t \in DOMAIN sessions : t # s => Slid(s)[t] = sessions[t]
  BY <1>1, <1>7
<1>10. u.email = sessions[s].email /\ u.absolute = sessions[s].absolute
       /\ u.changes = sessions[s].changes /\ u.revoked = sessions[s].revoked
  BY <1>4 DEF u
<1> QED BY <1>1, <1>8, <1>9, <1>10

\* A step that only ends sessions, and may begin one.
LEMMA SessionsEnd ==
  ASSUME TypeOK, NEW S, sessions' = RevokedIn(S), clock' = clock
  PROVE  SessionsGoOn
<1>1. /\ DOMAIN sessions' = DOMAIN sessions /\ sessions' \in Seq(Session)
      /\ Len(sessions') = Len(sessions)
  BY SessionsRevoked
<1>2. Len(sessions) \in Nat /\ Len(sessions) <= MaxSessions
  BY DEF TypeOK
<1>3. ASSUME NEW s \in DOMAIN sessions
      PROVE  sessions'[s].email = sessions[s].email /\ (Live(s)' => Live(s))
  BY SessionsRevoked, SessionType DEF Live
<1> QED BY <1>1, <1>2, <1>3 DEF SessionsGoOn

LEMMA SessionsBegin ==
  ASSUME TypeOK, NEW e \in Email, NEW S, Enter(e, S),
         clock' = clock,
         accounts'[e] \in Account
  PROVE  /\ SessionsGoOn
         /\ \A s \in DOMAIN sessions :
              /\ sessions'[s].changes = sessions[s].changes
              /\ s \in S => sessions'[s].revoked
<1> DEFINE new == [email |-> e, expires |-> clock + Sliding, absolute |-> clock + Absolute,
                   revoked |-> FALSE, changes |-> accounts'[e].changes]
           R == RevokedIn(S)
<1>1. new \in Session
  <2>1. accounts'[e].changes \in 0..MaxChanges
    BY AccountType
  <2>2. clock + Sliding \in Nat /\ clock + Absolute \in Nat
    BY NumberAssumption DEF TypeOK
  <2> QED BY <2>1, <2>2 DEF Session
<1>2. new.email = e /\ new.changes = accounts'[e].changes
  OBVIOUS
<1>3. /\ R \in Seq(Session) /\ Len(R) = Len(sessions) /\ DOMAIN R = DOMAIN sessions
  BY SessionsRevoked
<1>4. sessions' = Append(R, new) /\ Len(sessions) < MaxSessions
  BY DEF Enter
<1>a. sessions \in Seq(Session)
  BY DEF TypeOK
<1> HIDE DEF new
<1>5. /\ sessions' \in Seq(Session) /\ Len(sessions') = Len(sessions) + 1
      /\ Len(sessions') <= MaxSessions /\ Len(sessions) <= Len(sessions')
  <2> HIDE DEF R
  <2>1. Len(sessions) \in Nat
    BY <1>a
  <2> QED BY <1>1, <1>3, <1>4, <2>1, NumberAssumption
<1>6. \A s \in DOMAIN sessions : sessions'[s] = R[s]
  <2> HIDE DEF R
  <2> QED BY <1>a, <1>3, <1>4, <1>1
<1>7. \A s \in DOMAIN sessions' \ DOMAIN sessions : sessions'[s] = new
  <2> HIDE DEF R
  <2> QED BY <1>a, <1>3, <1>4, <1>1
<1>8. ASSUME NEW s \in DOMAIN sessions
      PROVE  /\ sessions'[s].email = sessions[s].email /\ (Live(s)' => Live(s))
             /\ sessions'[s].changes = sessions[s].changes
             /\ s \in S => sessions'[s].revoked
  BY <1>6, SessionsRevoked, SessionType DEF Live
<1>9. accounts'[e] # Null
  BY RowAssumption
<1> QED BY <1>5, <1>7, <1>8, <1>9, <1>2 DEF SessionsGoOn

\* currentUser: the end of a session slides.
LEMMA SessionsSlide ==
  ASSUME TypeOK, NEW s \in DOMAIN sessions, Accepted(s), clock' = clock,
         sessions' = Slid(s)
  PROVE  /\ SessionsGoOn
         /\ \A t \in DOMAIN sessions : sessions'[t].changes = sessions[t].changes
<1>1. /\ DOMAIN sessions' = DOMAIN sessions /\ sessions' \in Seq(Session)
      /\ Len(sessions') = Len(sessions)
  BY SessionSlid
<1>2. Len(sessions) \in Nat /\ Len(sessions) <= MaxSessions
  BY DEF TypeOK
<1>3. ASSUME NEW t \in DOMAIN sessions
      PROVE  /\ sessions'[t].email = sessions[t].email /\ (Live(t)' => Live(t))
             /\ sessions'[t].changes = sessions[t].changes
  <2>1. CASE t = s
    BY <2>1, SessionSlid DEF Accepted
  <2>2. CASE t # s
    BY <2>2, SessionSlid DEF Live
  <2> QED BY <2>1, <2>2
<1> QED BY <1>1, <1>2, <1>3 DEF SessionsGoOn

\* A session is revoked from the list of another one.
LEMMA SessionsDevice ==
  ASSUME TypeOK, NEW s \in DOMAIN sessions, NEW d \in DOMAIN sessions, RevokeDevice(s, d)
  PROVE  /\ SessionsGoOn
         /\ \A t \in DOMAIN sessions : sessions'[t].changes = sessions[t].changes
<1> DEFINE R == Slid(s)
           u == [R[d] EXCEPT !.revoked = TRUE]
<1>1. /\ R \in Seq(Session) /\ Len(R) = Len(sessions) /\ DOMAIN R = DOMAIN sessions
  BY SessionSlid
<1>2. R[d] \in Session
  <2> HIDE DEF R
  <2> QED BY <1>1
<1>3. sessions' = [R EXCEPT ![d].revoked = TRUE] /\ clock' = clock /\ Accepted(s)
  BY DEF RevokeDevice
<1>4. sessions' = [R EXCEPT ![d] = u]
  BY <1>3
<1>5. u \in Session /\ u.revoked /\ u.email = R[d].email /\ u.changes = R[d].changes
  <2> HIDE DEF R
  <2> QED BY <1>2 DEF Session
<1> HIDE DEF u
<1>6. /\ sessions' \in Seq(Session) /\ Len(sessions') = Len(sessions)
      /\ sessions'[d] = u /\ \A t \in DOMAIN sessions : t # d => sessions'[t] = R[t]
  <2> HIDE DEF R
  <2> QED BY <1>1, <1>4, <1>5
<1>7. DOMAIN sessions' = DOMAIN sessions /\ Len(sessions) \in Nat /\ Len(sessions) <= MaxSessions
  BY <1>6 DEF TypeOK
<1>8. ASSUME NEW t \in DOMAIN sessions
      PROVE  /\ sessions'[t].email = sessions[t].email /\ (Live(t)' => Live(t))
             /\ sessions'[t].changes = sessions[t].changes
  <2>1. CASE t = d
    BY <2>1, <1>5, <1>6, SessionSlid DEF Live
  <2>2. CASE t # d /\ t = s
    BY <2>2, <1>3, <1>6, SessionSlid DEF Accepted
  <2>3. CASE t # d /\ t # s
    BY <2>3, <1>3, <1>6, SessionSlid DEF Live
  <2> QED BY <2>1, <2>2, <2>3
<1> QED BY <1>6, <1>7, <1>8 DEF SessionsGoOn

\* The others of an account end when its password is changed in the settings.
LEMMA SessionsOthers ==
  ASSUME TypeOK, NEW e \in Email, NEW s \in DOMAIN sessions, clock' = clock,
         accounts'[e] \in Account, RevokeOthers(e, s)
  PROVE  /\ SessionsGoOn
         /\ \A t \in DOMAIN sessions :
              /\ t # s /\ sessions[t].email = e => sessions'[t].revoked
              /\ t # s => sessions'[t].changes = sessions[t].changes
         /\ sessions'[s].changes = accounts'[e].changes
<1> DEFINE S == SessionsOf(e) \ {s}
           R == RevokedIn(S)
           u == [R[s] EXCEPT !.changes = accounts'[e].changes]
<1>1. /\ R \in Seq(Session) /\ Len(R) = Len(sessions) /\ DOMAIN R = DOMAIN sessions
  BY SessionsRevoked
<1>2. R[s] \in Session
  <2> HIDE DEF R
  <2> QED BY <1>1
<1>3. accounts'[e].changes \in 0..MaxChanges
  BY AccountType
<1>4. sessions' = [R EXCEPT ![s] = u]
  BY DEF RevokeOthers
<1>5. /\ u \in Session /\ u.revoked = R[s].revoked /\ u.email = R[s].email
      /\ u.expires = R[s].expires /\ u.absolute = R[s].absolute
      /\ u.changes = accounts'[e].changes
  <2> HIDE DEF R
  <2> QED BY <1>2, <1>3 DEF Session
<1> HIDE DEF u
<1>6. /\ sessions' \in Seq(Session) /\ Len(sessions') = Len(sessions)
      /\ sessions'[s] = u /\ \A t \in DOMAIN sessions : t # s => sessions'[t] = R[t]
  <2> HIDE DEF R
  <2> QED BY <1>1, <1>4, <1>5
<1>7. DOMAIN sessions' = DOMAIN sessions /\ Len(sessions) \in Nat /\ Len(sessions) <= MaxSessions
  BY <1>6 DEF TypeOK
<1>8. ASSUME NEW t \in DOMAIN sessions
      PROVE  sessions'[t].email = sessions[t].email /\ (Live(t)' => Live(t))
  <2>1. CASE t = s
    BY <2>1, <1>5, <1>6, SessionsRevoked, SessionType DEF Live
  <2>2. CASE t # s
    BY <2>2, <1>6, SessionsRevoked, SessionType DEF Live
  <2> QED BY <2>1, <2>2
<1>9. ASSUME NEW t \in DOMAIN sessions, t # s
      PROVE  /\ sessions[t].email = e => sessions'[t].revoked
             /\ sessions'[t].changes = sessions[t].changes
  <2>1. sessions[t].email = e => t \in S
    BY <1>9 DEF SessionsOf
  <2> QED BY <1>9, <2>1, <1>6, SessionsRevoked
<1> QED BY <1>5, <1>6, <1>7, <1>8, <1>9 DEF SessionsGoOn

LEMMA SessionsStay ==
  ASSUME TypeOK, UNCHANGED sessions, clock' \in Nat, clock <= clock'
  PROVE  SessionsGoOn /\ \A t \in DOMAIN sessions : sessions'[t].changes = sessions[t].changes
<1>1. sessions \in Seq(Session) /\ Len(sessions) <= MaxSessions /\ Len(sessions) \in Nat
      /\ clock \in Nat
  BY DEF TypeOK
<1>2. ASSUME NEW s \in DOMAIN sessions PROVE Live(s)' => Live(s)
  BY <1>1, SessionType DEF Live
<1> QED BY <1>1, <1>2 DEF SessionsGoOn

LEMMA SessionsFollowThat ==
  ASSUME TypeOK, Belongs,
         \A s \in DOMAIN sessions : sessions'[s].changes = sessions[s].changes,
         \A e \in Email : Stays(e) \/ Made(e) \/ Touched(e)
  PROVE  SessionsFollow
<1> SUFFICES ASSUME NEW s \in DOMAIN sessions
             PROVE  Stays(sessions[s].email) \/ Touched(sessions[s].email)
  BY DEF SessionsFollow
<1>1. sessions[s].email \in Email
  BY SessionType
<1>2. ~Made(sessions[s].email)
  BY DEF Belongs, Made
<1> QED BY <1>1, <1>2

-----------------------------------------------------------------------------
(* The requests, and the table of accounts.                                *)

LEMMA RequestsStay ==
  ASSUME TypeOK, UNCHANGED request
  PROVE  RequestsGoOn /\ SignupsLook
BY DEF TypeOK, RequestsGoOn, SignupsLook, HasRead

LEMMA RequestEnds ==
  ASSUME TypeOK, NEW r \in Request, Ends(r)
  PROVE  /\ RequestsGoOn /\ \A o \in Request \ {r} : request'[o] = request[o]
         /\ ~HasRead(r, "signup") => SignupsLook
         /\ (LET e == request[r].email IN
             \/ accounts[e] = Null \/ accounts'[e].password = accounts[e].password
             \/ request[r].read # Null /\ request[r].read.password = Null)
            => SignupsLook
<1>1. /\ request' \in [Request -> Progress \cup {Null}] /\ request'[r] = Null
      /\ \A o \in Request \ {r} : request'[o] = request[o]
  BY DEF TypeOK, Ends
<1>2. RequestsGoOn
  BY <1>1 DEF RequestsGoOn
<1>3. ~HasRead(r, "signup") => SignupsLook
  BY <1>1 DEF SignupsLook, HasRead
<1>4. (LET e == request[r].email IN
       \/ accounts[e] = Null \/ accounts'[e].password = accounts[e].password
       \/ request[r].read # Null /\ request[r].read.password = Null)
      => SignupsLook
  BY <1>1 DEF SignupsLook, HasRead
<1> QED BY <1>1, <1>2, <1>3, <1>4

LEMMA RequestLooks ==
  ASSUME TypeOK, NEW r \in Request, NEW q \in Progress,
         request' = [request EXCEPT ![r] = q], Looked(r)
  PROVE  RequestsGoOn /\ SignupsLook
<1>1. /\ request' \in [Request -> Progress \cup {Null}] /\ request'[r] = q
      /\ \A o \in Request \ {r} : request'[o] = request[o]
  BY DEF TypeOK
<1>2. RequestsGoOn
  BY <1>1 DEF RequestsGoOn
<1>3. q # Null
  BY RowAssumption
<1>4. SignupsLook
  BY <1>1, <1>3 DEF SignupsLook, HasRead
<1> QED BY <1>2, <1>4

LEMMA AccountsStay ==
  ASSUME TypeOK, UNCHANGED accounts
  PROVE  AccountsGoOn /\ \A e \in Email : Stays(e)
BY DEF TypeOK, AccountsGoOn, Stays

LEMMA AccountPut ==
  ASSUME TypeOK, NEW e \in Email, NEW x \in Account,
         accounts' = [accounts EXCEPT ![e] = x]
  PROVE  /\ accounts' \in [Email -> Account \cup {Null}] /\ accounts'[e] = x
         /\ \A o \in Email \ {e} : Stays(o)
BY DEF TypeOK, Stays

LEMMA AccountThere ==
  ASSUME TypeOK, NEW e \in Email, accounts[e] # Null
  PROVE  accounts[e] \in Account
BY DEF TypeOK

LEMMA RequestType ==
  ASSUME TypeOK, NEW r \in Request, request[r] # Null
  PROVE  /\ request[r] \in Progress /\ request[r].email \in Email
         /\ request[r].cookie \in 0..MaxSessions /\ request[r].read \in Account \cup {Null}
         /\ request[r].at \in {"entered", "read", "inserted"}
         /\ request[r].kind \in {"signup", "login", "settings", "connect"}
<1>1. request[r] \in Progress
  BY DEF TypeOK
<1> QED BY <1>1 DEF Progress

-----------------------------------------------------------------------------
(* The steps: sign-ins that read nothing before.                           *)

\* What may be written to an account that is not renewed.
LEMMA PutStep ==
  ASSUME TypeOK, NEW e \in Email, NEW x \in Account,
         accounts' = [accounts EXCEPT ![e] = x],
         accounts[e] # Null => x.password = accounts[e].password /\ x.changes = accounts[e].changes,
         Methods(x) # {}
  PROVE  /\ AccountsGoOn /\ accounts'[e] \in Account
         /\ \A o \in Email : Stays(o) \/ Made(o) \/ Touched(o)
<1>1. /\ accounts' \in [Email -> Account \cup {Null}] /\ accounts'[e] = x
      /\ \A o \in Email \ {e} : Stays(o)
  BY AccountPut
<1>2. Made(e) \/ Touched(e)
  BY <1>1, AccountThere DEF Made, Touched
<1> QED BY <1>1, <1>2 DEF AccountsGoOn

\* An account is made or touched, or stays, and a session begins.
LEMMA EnterStep ==
  ASSUME TypeOK, Belongs, NEW e \in Email, NEW S, Enter(e, S),
         clock' = clock,
         accounts'[e] \in Account, \A o \in Email : Stays(o) \/ Made(o) \/ Touched(o)
  PROVE  SessionsGoOn /\ SessionsFollow /\ clock' \in 0..MaxTime
<1>1. SessionsGoOn /\ \A s \in DOMAIN sessions : sessions'[s].changes = sessions[s].changes
  BY SessionsBegin
<1>2. SessionsFollow
  BY <1>1, SessionsFollowThat
<1> QED BY <1>1, <1>2 DEF TypeOK

LEMMA LoginByCodeStep ==
  ASSUME Inv, NEW e \in Email, NEW cookie, LoginByCode(e, cookie)
  PROVE  Step
<1>1. TypeOK /\ Belongs
  BY DEF Inv
<1>2. accounts[e] \in Account
  BY <1>1, AccountThere DEF LoginByCode
<1> DEFINE x == Proven(accounts[e])
<1>3. /\ x \in Account /\ x.password = accounts[e].password
      /\ x.changes = accounts[e].changes /\ Methods(x) # {}
  BY <1>2, ProvenAccount
<1>4. accounts' = [accounts EXCEPT ![e] = x] /\ Enter(e, {cookie}) /\ UNCHANGED <<request, clock>>
  BY DEF LoginByCode
<1> HIDE DEF x
<1>5. /\ AccountsGoOn /\ accounts'[e] \in Account
      /\ \A o \in Email : Stays(o) \/ Made(o) \/ Touched(o)
  BY <1>1, <1>3, <1>4, PutStep
<1>6. SessionsGoOn /\ SessionsFollow /\ clock' \in 0..MaxTime
  BY <1>1, <1>4, <1>5, EnterStep
<1>7. RequestsGoOn /\ SignupsLook
  BY <1>1, <1>4, RequestsStay
<1> QED BY <1>5, <1>6, <1>7 DEF Step

LEMMA VerifyBookingStep ==
  ASSUME Inv, NEW e \in Email, NEW cookie, VerifyBooking(e, cookie)
  PROVE  Step
<1>1. TypeOK /\ Belongs
  BY DEF Inv
<1> DEFINE x == IF accounts[e] = Null THEN New("CLIENT", Null, Null)
                ELSE Proven(accounts[e])
<1>3. /\ x \in Account /\ Methods(x) # {}
      /\ accounts[e] # Null => x.password = accounts[e].password /\ x.changes = accounts[e].changes
  <2>1. CASE accounts[e] = Null
    BY <2>1, NewAccount
  <2>2. CASE accounts[e] # Null
    BY <1>1, <2>2, AccountThere, ProvenAccount
  <2> QED BY <2>1, <2>2
<1>4. accounts' = [accounts EXCEPT ![e] = x] /\ Enter(e, {cookie}) /\ UNCHANGED <<request, clock>>
  BY DEF VerifyBooking
<1> HIDE DEF x
<1>5. /\ AccountsGoOn /\ accounts'[e] \in Account
      /\ \A o \in Email : Stays(o) \/ Made(o) \/ Touched(o)
  BY <1>1, <1>3, <1>4, PutStep
<1>6. SessionsGoOn /\ SessionsFollow /\ clock' \in 0..MaxTime
  BY <1>1, <1>4, <1>5, EnterStep
<1>7. RequestsGoOn /\ SignupsLook
  BY <1>1, <1>4, RequestsStay
<1> QED BY <1>5, <1>6, <1>7 DEF Step

LEMMA LoginByGoogleStep ==
  ASSUME Inv, NEW g \in Subject, NEW e \in Email, NEW cookie, LoginByGoogle(g, e, cookie)
  PROVE  Step
<1>1. TypeOK /\ Belongs
  BY DEF Inv
<1>2. /\ AccountsGoOn /\ accounts'[e] \in Account
      /\ \A o \in Email : Stays(o) \/ Made(o) \/ Touched(o)
  <2>2. CASE accounts[e] # Null /\ accounts' = [accounts EXCEPT ![e] =
               [AsVendor(@) EXCEPT !.google = g]]
    <3> DEFINE a == AsVendor(accounts[e])
               x == [a EXCEPT !.google = g]
    <3>1. accounts[e] \in Account
      BY <1>1, <2>2, AccountThere
    <3>a. /\ a \in Account /\ a.password = accounts[e].password
          /\ a.changes = accounts[e].changes /\ a.verified
      BY <3>1, VendorAccount
    <3> HIDE DEF a
    <3>b. /\ x \in Account /\ x.password = a.password /\ x.changes = a.changes /\ x.verified
      BY <3>a, GoogleAccount
    <3>2. /\ x \in Account /\ x.password = accounts[e].password
          /\ x.changes = accounts[e].changes /\ Methods(x) # {}
      <4>1. "code" \in Methods(x)
        BY <3>b DEF Methods
      <4> QED BY <3>a, <3>b, <4>1
    <3>3. accounts' = [accounts EXCEPT ![e] = x]
      BY <2>2 DEF a
    <3> HIDE DEF x
    <3> QED BY <1>1, <3>2, <3>3, PutStep
  <2>3. CASE accounts[e] = Null /\ accounts' = [accounts EXCEPT ![e] = New("VENDOR", Null, g)]
    <3>1. New("VENDOR", Null, g) \in Account /\ Methods(New("VENDOR", Null, g)) # {}
      BY NewAccount
    <3> QED BY <1>1, <2>3, <3>1, PutStep
  <2> QED BY <2>2, <2>3 DEF LoginByGoogle
<1>3. Enter(e, {cookie}) /\ UNCHANGED <<request, clock>>
  BY DEF LoginByGoogle
<1>4. SessionsGoOn /\ SessionsFollow /\ clock' \in 0..MaxTime
  BY <1>1, <1>2, <1>3, EnterStep
<1>5. RequestsGoOn /\ SignupsLook
  BY <1>1, <1>3, RequestsStay
<1> QED BY <1>2, <1>4, <1>5 DEF Step

-----------------------------------------------------------------------------
(* The steps: another password.                                            *)

LEMMA RenewPut ==
  ASSUME TypeOK, NEW e \in Email, NEW x \in Account, accounts[e] # Null,
         accounts' = [accounts EXCEPT ![e] = x],
         x.changes = accounts[e].changes + 1, Methods(x) # {}
  PROVE  /\ AccountsGoOn /\ accounts'[e] \in Account
         /\ \A o \in Email \ {e} : Stays(o)
<1>1. /\ accounts' \in [Email -> Account \cup {Null}] /\ accounts'[e] = x
      /\ \A o \in Email \ {e} : Stays(o)
  BY AccountPut
<1>2. Renewed(e)
  BY <1>1, AccountThere DEF Renewed
<1> QED BY <1>1, <1>2 DEF AccountsGoOn

\* Every session of the account ends, and one begins.
LEMMA RenewEnter ==
  ASSUME TypeOK, NEW e \in Email, NEW S, Enter(e, S), clock' = clock,
         SessionsOf(e) \subseteq S, accounts'[e] \in Account,
         \A o \in Email \ {e} : Stays(o)
  PROVE  SessionsGoOn /\ SessionsFollow /\ clock' \in 0..MaxTime
<1>1. /\ SessionsGoOn
      /\ \A s \in DOMAIN sessions :
           /\ sessions'[s].changes = sessions[s].changes
           /\ s \in S => sessions'[s].revoked
  BY SessionsBegin
<1>2. ASSUME NEW s \in DOMAIN sessions
      PROVE  \/ sessions'[s].revoked
             \/ /\ sessions'[s].changes = sessions[s].changes
                /\ Stays(sessions[s].email)
  <2>1. CASE sessions[s].email = e
    BY <1>1, <2>1 DEF SessionsOf
  <2>2. CASE sessions[s].email # e
    BY <1>1, <2>2, SessionType
  <2> QED BY <2>1, <2>2
<1>3. SessionsFollow
  BY <1>2 DEF SessionsFollow
<1> QED BY <1>1, <1>3 DEF TypeOK

LEMMA ResetPasswordStep ==
  ASSUME Inv, NEW e \in Email, NEW pw \in Password, ResetPassword(e, pw)
  PROVE  Step
<1>1. TypeOK
  BY DEF Inv
<1>2. accounts[e] \in Account /\ accounts[e].changes < MaxChanges /\ accounts[e] # Null
  BY <1>1, AccountThere DEF ResetPassword, MayChange
<1> DEFINE a == Proven(accounts[e])
           x == WithPassword(a, pw)
<1>3. a \in Account /\ a.changes = accounts[e].changes /\ a.verified
  BY <1>2, ProvenAccount
<1> HIDE DEF a
<1>4. x \in Account /\ x.changes = a.changes + 1 /\ x.verified
  BY <1>2, <1>3, Repassworded
<1>5. Methods(x) # {}
  <2>1. "code" \in Methods(x)
    BY <1>4 DEF Methods
  <2> QED BY <2>1
<1>6. accounts' = [accounts EXCEPT ![e] = x] /\ Enter(e, SessionsOf(e)) /\ UNCHANGED <<request, clock>>
  BY DEF ResetPassword, a
<1> HIDE DEF x
<1>7. /\ AccountsGoOn /\ accounts'[e] \in Account
      /\ \A o \in Email \ {e} : Stays(o)
  BY <1>1, <1>2, <1>3, <1>4, <1>5, <1>6, RenewPut
<1>8. SessionsGoOn /\ SessionsFollow /\ clock' \in 0..MaxTime
  BY <1>1, <1>6, <1>7, RenewEnter
<1>9. RequestsGoOn /\ SignupsLook
  BY <1>1, <1>6, RequestsStay
<1> QED BY <1>7, <1>8, <1>9 DEF Step

LEMMA SignUpClaimStep ==
  ASSUME Inv, NEW r \in Request, NEW pw \in Password, NEW cookie, SignUpClaim(r, pw, cookie)
  PROVE  Step
<1> DEFINE e == request[r].email
<1>1. TypeOK /\ request[r] # Null /\ request[r].read # Null /\ request[r].read.password = Null
  BY DEF Inv, SignUpClaim, HasRead
<1>a. e \in Email
  BY <1>1, RequestType
<1>b. /\ accounts' = [accounts EXCEPT ![e] = WithPassword(AsVendor(@), pw)]
      /\ Enter(e, SessionsOf(e) \cup {cookie}) /\ MayChange(e) /\ Ends(r) /\ UNCHANGED clock
  BY DEF SignUpClaim
<1> HIDE DEF e
<1>2. accounts[e] \in Account /\ accounts[e].changes < MaxChanges /\ accounts[e] # Null
  BY <1>1, <1>a, <1>b, AccountThere DEF MayChange
<1> DEFINE a == AsVendor(accounts[e])
           x == WithPassword(a, pw)
<1>3. a \in Account /\ a.changes = accounts[e].changes /\ a.verified
  BY <1>2, VendorAccount
<1> HIDE DEF a
<1>4. x \in Account /\ x.changes = a.changes + 1 /\ x.verified
  BY <1>2, <1>3, Repassworded
<1>5. Methods(x) # {}
  <2>1. "code" \in Methods(x)
    BY <1>4 DEF Methods
  <2> QED BY <2>1
<1>6. accounts' = [accounts EXCEPT ![e] = x]
  BY <1>b DEF a
<1> HIDE DEF x
<1>7. /\ AccountsGoOn /\ accounts'[e] \in Account
      /\ \A o \in Email \ {e} : Stays(o)
  BY <1>1, <1>a, <1>2, <1>3, <1>4, <1>5, <1>6, RenewPut
<1>8. SessionsGoOn /\ SessionsFollow /\ clock' \in 0..MaxTime
  BY <1>1, <1>a, <1>b, <1>7, RenewEnter
<1>9. RequestsGoOn /\ SignupsLook
  BY <1>1, <1>b, RequestEnds
<1> QED BY <1>7, <1>8, <1>9 DEF Step

\* The others of an account end; the session that asked goes on.
LEMMA RenewOthers ==
  ASSUME TypeOK, NEW e \in Email, NEW s \in DOMAIN sessions, sessions[s].email = e,
         RevokeOthers(e, s), clock' = clock, accounts'[e] \in Account,
         \A o \in Email \ {e} : Stays(o)
  PROVE  SessionsGoOn /\ SessionsFollow /\ clock' \in 0..MaxTime
<1>1. /\ SessionsGoOn
      /\ \A t \in DOMAIN sessions :
           /\ t # s /\ sessions[t].email = e => sessions'[t].revoked
           /\ t # s => sessions'[t].changes = sessions[t].changes
      /\ sessions'[s].changes = accounts'[e].changes
  BY SessionsOthers
<1>2. ASSUME NEW t \in DOMAIN sessions
      PROVE  \/ sessions'[t].revoked
             \/ sessions'[t].changes = accounts'[sessions[t].email].changes
             \/ /\ sessions'[t].changes = sessions[t].changes
                /\ Stays(sessions[t].email)
  <2>1. CASE t = s
    BY <1>1, <2>1
  <2>2. CASE t # s /\ sessions[t].email = e
    BY <1>1, <2>2
  <2>3. CASE t # s /\ sessions[t].email # e
    BY <1>1, <2>3, SessionType
  <2> QED BY <2>1, <2>2, <2>3
<1>3. SessionsFollow
  BY <1>2 DEF SessionsFollow
<1> QED BY <1>1, <1>3 DEF TypeOK

LEMMA SettingsRequest ==
  ASSUME Inv, NEW r \in Request, HasRead(r, "settings")
  PROVE  LET e == request[r].email
             s == request[r].cookie
         IN /\ e \in Email /\ accounts[e] \in Account /\ accounts[e] # Null
            /\ s \in DOMAIN sessions /\ sessions[s].email = e
            /\ ~HasRead(r, "signup")
<1>1. TypeOK /\ Knows(r) /\ request[r] # Null
  BY DEF Inv, HasRead
<1>2. request[r].email \in Email /\ request[r].kind = "settings" /\ request[r].at = "read"
  BY <1>1, RequestType DEF HasRead
<1>3. /\ request[r].cookie \in DOMAIN sessions
      /\ sessions[request[r].cookie].email = request[r].email
      /\ request[r].read # Null
  BY <1>1, <1>2 DEF Knows
<1>4. accounts[request[r].email] # Null
  BY <1>1, <1>3 DEF Knows
<1>5. ~HasRead(r, "signup")
  BY <1>2 DEF HasRead
<1> QED BY <1>1, <1>2, <1>3, <1>4, <1>5, AccountThere

LEMMA ChangePasswordStep ==
  ASSUME Inv, NEW r \in Request, NEW pw \in Password, ChangePassword(r, pw)
  PROVE  Step
<1> DEFINE e == request[r].email
           s == request[r].cookie
           x == WithPassword(accounts[e], pw)
<1>1. TypeOK
  BY DEF Inv
<1>2. /\ e \in Email /\ accounts[e] \in Account /\ accounts[e] # Null
      /\ s \in DOMAIN sessions /\ sessions[s].email = e /\ ~HasRead(r, "signup")
  BY SettingsRequest DEF ChangePassword
<1>3. /\ accounts[e].changes < MaxChanges /\ accounts' = [accounts EXCEPT ![e] = x]
      /\ RevokeOthers(e, s) /\ Ends(r) /\ clock' = clock
  BY DEF ChangePassword, MayChange
<1> HIDE DEF e, s
<1>4. x \in Account /\ x.changes = accounts[e].changes + 1 /\ x.password = pw
  BY <1>2, <1>3, Repassworded
<1>5. Methods(x) # {}
  <2>1. "password" \in Methods(x)
    BY <1>4, NullAssumption DEF Methods
  <2> QED BY <2>1
<1> HIDE DEF x
<1>6. /\ AccountsGoOn /\ accounts'[e] \in Account
      /\ \A o \in Email \ {e} : Stays(o)
  BY <1>1, <1>2, <1>3, <1>4, <1>5, RenewPut
<1>7. SessionsGoOn /\ SessionsFollow /\ clock' \in 0..MaxTime
  BY <1>1, <1>2, <1>3, <1>6, RenewOthers
<1>8. RequestsGoOn /\ SignupsLook
  BY <1>1, <1>2, <1>3, RequestEnds
<1> QED BY <1>6, <1>7, <1>8 DEF Step

LEMMA RemovePasswordStep ==
  ASSUME Inv, NEW r \in Request, RemovePassword(r)
  PROVE  Step
<1> DEFINE e == request[r].email
           s == request[r].cookie
           x == WithPassword(accounts[e], Null)
<1>1. TypeOK
  BY DEF Inv
<1>2. /\ e \in Email /\ accounts[e] \in Account /\ accounts[e] # Null
      /\ s \in DOMAIN sessions /\ sessions[s].email = e /\ ~HasRead(r, "signup")
  BY SettingsRequest DEF RemovePassword
<1>3. /\ accounts[e].changes < MaxChanges /\ accounts' = [accounts EXCEPT ![e] = x]
      /\ RevokeOthers(e, s) /\ Ends(r) /\ clock' = clock
      /\ Cardinality(Methods(accounts[e])) > 1
  BY DEF RemovePassword, MayChange
<1> HIDE DEF e, s
<1>4. /\ x \in Account /\ x.changes = accounts[e].changes + 1
      /\ x.verified = accounts[e].verified /\ x.google = accounts[e].google
  BY <1>2, <1>3, Repassworded
<1>5. Methods(x) # {}
  <2>1. Methods(accounts[e]) \ {"password"} # {}
    BY <1>3, ManyMethods
  <2>2. Methods(accounts[e]) \ {"password"} \subseteq Methods(x)
    BY <1>4 DEF Methods
  <2> QED BY <2>1, <2>2
<1> HIDE DEF x
<1>6. /\ AccountsGoOn /\ accounts'[e] \in Account
      /\ \A o \in Email \ {e} : Stays(o)
  BY <1>1, <1>2, <1>3, <1>4, <1>5, RenewPut
<1>7. SessionsGoOn /\ SessionsFollow /\ clock' \in 0..MaxTime
  BY <1>1, <1>2, <1>3, <1>6, RenewOthers
<1>8. RequestsGoOn /\ SignupsLook
  BY <1>1, <1>2, <1>3, RequestEnds
<1> QED BY <1>6, <1>7, <1>8 DEF Step

-----------------------------------------------------------------------------
(* The steps: accounts stay, and no request ends with a change.            *)

\* The accounts stay, whatever becomes of a session.
LEMMA StayStep ==
  ASSUME Inv, UNCHANGED accounts, SessionsGoOn, RequestsGoOn, clock' \in 0..MaxTime,
         \A s \in DOMAIN sessions : sessions'[s].changes = sessions[s].changes
  PROVE  Step
<1>1. TypeOK /\ Belongs
  BY DEF Inv
<1>2. AccountsGoOn /\ \A e \in Email : Stays(e)
  BY <1>1, AccountsStay
<1>3. SessionsFollow
  BY <1>1, <1>2, SessionsFollowThat
<1>4. SignupsLook
  BY DEF SignupsLook
<1> QED BY <1>2, <1>3, <1>4 DEF Step

LEMMA UseSessionStep ==
  ASSUME Inv, NEW s \in DOMAIN sessions, UseSession(s)
  PROVE  Step
<1>1. TypeOK /\ clock' \in 0..MaxTime
  BY DEF Inv, UseSession, TypeOK
<1>2. SessionsGoOn /\ \A t \in DOMAIN sessions : sessions'[t].changes = sessions[t].changes
  BY <1>1, SessionsSlide DEF UseSession
<1>3. RequestsGoOn /\ UNCHANGED accounts
  BY <1>1, RequestsStay DEF UseSession
<1> QED BY <1>1, <1>2, <1>3, StayStep

LEMMA LogoutStep ==
  ASSUME Inv, NEW s \in DOMAIN sessions, Logout(s)
  PROVE  Step
<1>1. TypeOK /\ clock' \in 0..MaxTime
  BY DEF Inv, Logout, TypeOK
<1>2. SessionsGoOn /\ \A t \in DOMAIN sessions : sessions'[t].changes = sessions[t].changes
  BY <1>1, SessionsEnd, SessionsRevoked DEF Logout
<1>3. RequestsGoOn /\ UNCHANGED accounts
  BY <1>1, RequestsStay DEF Logout
<1> QED BY <1>1, <1>2, <1>3, StayStep

LEMMA RevokeDeviceStep ==
  ASSUME Inv, NEW s \in DOMAIN sessions, NEW t \in DOMAIN sessions, RevokeDevice(s, t)
  PROVE  Step
<1>1. TypeOK /\ clock' \in 0..MaxTime
  BY DEF Inv, RevokeDevice, TypeOK
<1>2. SessionsGoOn /\ \A u \in DOMAIN sessions : sessions'[u].changes = sessions[u].changes
  BY <1>1, SessionsDevice
<1>3. RequestsGoOn /\ UNCHANGED accounts
  BY <1>1, RequestsStay DEF RevokeDevice
<1> QED BY <1>1, <1>2, <1>3, StayStep

LEMMA TickStep ==
  ASSUME Inv, Tick
  PROVE  Step
<1>1. TypeOK /\ clock' \in 0..MaxTime /\ clock' \in Nat /\ clock <= clock'
  BY NumberAssumption DEF Inv, Tick, TypeOK
<1>2. SessionsGoOn /\ \A t \in DOMAIN sessions : sessions'[t].changes = sessions[t].changes
  BY <1>1, SessionsStay DEF Tick
<1>3. RequestsGoOn /\ UNCHANGED accounts
  BY <1>1, RequestsStay DEF Tick
<1> QED BY <1>1, <1>2, <1>3, StayStep

LEMMA StutterStep ==
  ASSUME Inv, UNCHANGED vars
  PROVE  Step
<1>1. TypeOK /\ UNCHANGED <<accounts, sessions, request, clock>>
  BY DEF Inv, vars
<1>2. clock' \in 0..MaxTime /\ clock' \in Nat /\ clock <= clock'
  BY <1>1 DEF TypeOK
<1>3. SessionsGoOn /\ \A t \in DOMAIN sessions : sessions'[t].changes = sessions[t].changes
  BY <1>1, <1>2, SessionsStay
<1>4. RequestsGoOn
  BY <1>1, RequestsStay
<1> QED BY <1>1, <1>2, <1>3, <1>4, StayStep

LEMMA GiveUpStep ==
  ASSUME Inv, NEW r \in Request, GiveUp(r)
  PROVE  Step
<1>1. TypeOK /\ UNCHANGED <<accounts, sessions, clock>> /\ Ends(r)
  BY DEF Inv, GiveUp
<1>2. clock' \in 0..MaxTime /\ clock' \in Nat /\ clock <= clock'
  BY <1>1 DEF TypeOK
<1>3. SessionsGoOn /\ \A t \in DOMAIN sessions : sessions'[t].changes = sessions[t].changes
  BY <1>1, <1>2, SessionsStay
<1>4. RequestsGoOn
  BY <1>1, RequestEnds
<1> QED BY <1>1, <1>2, <1>3, <1>4, StayStep

LEMMA CommitLoginStep ==
  ASSUME Inv, NEW r \in Request, NEW cookie, CommitLogin(r, cookie)
  PROVE  Step
<1> DEFINE e == request[r].email
<1>1. /\ TypeOK /\ Belongs /\ Knows(r) /\ HasInserted(r)
      /\ UNCHANGED <<accounts, clock>> /\ Enter(e, {cookie}) /\ Ends(r)
  BY DEF Inv, CommitLogin
<1>2. e \in Email /\ request[r] # Null
  BY <1>1, RequestType DEF HasInserted
<1>3. accounts[e] # Null
  BY <1>1, <1>2 DEF Knows, HasInserted
<1>4. accounts'[e] \in Account
  BY <1>1, <1>2, <1>3, AccountThere
<1> HIDE DEF e
<1>5. AccountsGoOn /\ \A o \in Email : Stays(o)
  BY <1>1, AccountsStay
<1>6. SessionsGoOn /\ SessionsFollow /\ clock' \in 0..MaxTime
  BY <1>1, <1>2, <1>4, <1>5, EnterStep
<1>7. RequestsGoOn /\ SignupsLook
  BY <1>1, RequestEnds DEF HasRead, HasInserted
<1> QED BY <1>5, <1>6, <1>7 DEF Step

-----------------------------------------------------------------------------
(* The steps: a request begins to look.                                    *)

LEMMA ReadingStep ==
  ASSUME Inv, NEW r \in Request, NEW e \in Email, NEW kind \in {"signup", "login"},
         Reading(r, kind, e, accounts[e]), kind = "login" => accounts[e] # Null
  PROVE  Step
<1> DEFINE q == [at |-> "read", kind |-> kind, email |-> e, cookie |-> 0, read |-> accounts[e]]
<1>1. TypeOK /\ UNCHANGED <<accounts, sessions, clock>> /\ request' = [request EXCEPT ![r] = q]
  BY DEF Inv, Reading
<1>2. q \in Progress
  <2>1. accounts[e] \in Account \cup {Null} /\ 0 \in 0..MaxSessions
    BY <1>1, NumberAssumption DEF TypeOK
  <2> QED BY <2>1 DEF Progress
<1>3. /\ q.at = "read" /\ q.kind = kind /\ q.email = e /\ q.read = accounts[e]
  OBVIOUS
<1> HIDE DEF q
<1>4. request'[r] = q
  BY <1>1 DEF TypeOK
<1>5. Looked(r)
  BY <1>1, <1>2, <1>3, <1>4 DEF Looked
<1>6. RequestsGoOn
  BY <1>1, <1>2, <1>5, RequestLooks
<1>7. clock' \in 0..MaxTime /\ clock' \in Nat /\ clock <= clock'
  BY <1>1 DEF TypeOK
<1>8. SessionsGoOn /\ \A t \in DOMAIN sessions : sessions'[t].changes = sessions[t].changes
  BY <1>1, <1>7, SessionsStay
<1> QED BY <1>1, <1>6, <1>7, <1>8, StayStep

LEMMA InsertingStep ==
  ASSUME Inv, NEW r \in Request, NEW e \in Email, accounts[e] # Null,
         request' = [request EXCEPT ![r] = Inserted(e)],
         UNCHANGED <<accounts, sessions, clock>>
  PROVE  Step
<1> DEFINE q == Inserted(e)
<1>1. TypeOK
  BY DEF Inv
<1>2. q \in Progress
  <2>1. accounts[e] \in Account /\ 0 \in 0..MaxSessions
    BY <1>1, AccountThere, NumberAssumption
  <2> QED BY <2>1 DEF Inserted, Progress
<1>3. /\ q.at = "inserted" /\ q.kind = "login" /\ q.email = e /\ q.read = Null
  BY DEF Inserted
<1> HIDE DEF q
<1>4. request'[r] = q /\ request' = [request EXCEPT ![r] = q]
  BY <1>1 DEF TypeOK, q
<1>5. Looked(r)
  BY <1>2, <1>3, <1>4 DEF Looked
<1>6. RequestsGoOn
  BY <1>1, <1>2, <1>4, <1>5, RequestLooks
<1>7. clock' \in 0..MaxTime /\ clock' \in Nat /\ clock <= clock'
  BY <1>1 DEF TypeOK
<1>8. SessionsGoOn /\ \A t \in DOMAIN sessions : sessions'[t].changes = sessions[t].changes
  BY <1>1, <1>7, SessionsStay
<1> QED BY <1>6, <1>7, <1>8, StayStep

LEMMA LoginByPasswordStep ==
  ASSUME Inv, NEW r \in Request, LoginByPassword(r)
  PROVE  Step
<1>1. TypeOK /\ Knows(r) /\ request[r] # Null /\ request[r].kind = "login" /\ request[r].at = "read"
  BY DEF Inv, LoginByPassword, HasRead
<1>2. request[r].email \in Email /\ accounts[request[r].email] # Null
  BY <1>1, RequestType DEF Knows
<1> QED BY <1>2, InsertingStep DEF LoginByPassword

LEMMA InsertByGoogleStep ==
  ASSUME Inv, NEW r \in Request, NEW g, NEW e \in Email, InsertByGoogle(r, g, e)
  PROVE  Step
BY InsertingStep DEF InsertByGoogle, Connected

LEMMA EnterSettingsStep ==
  ASSUME Inv, NEW r \in Request, NEW s \in DOMAIN sessions,
         NEW kind \in {"settings", "connect"}, EnterSettings(r, s, kind)
  PROVE  Step
<1> DEFINE e == sessions[s].email
           q == [at |-> "entered", kind |-> kind, email |-> e, cookie |-> s, read |-> Null]
<1>1. /\ TypeOK /\ Belongs /\ UNCHANGED <<accounts, clock>> /\ Accepted(s)
      /\ sessions' = Slid(s) /\ request' = [request EXCEPT ![r] = q]
  BY DEF Inv, EnterSettings
<1>2. e \in Email /\ accounts[e] # Null /\ s \in 0..MaxSessions
  <2>1. s \in 1..Len(sessions) /\ e \in Email
    BY <1>1, SessionType
  <2>2. Len(sessions) \in Nat /\ Len(sessions) <= MaxSessions
    BY <1>1 DEF TypeOK
  <2>3. accounts[e] # Null
    BY <1>1 DEF Belongs
  <2> QED BY <2>1, <2>2, <2>3, NumberAssumption
<1>3. q \in Progress
  BY <1>2 DEF Progress
<1>4. /\ q.at = "entered" /\ q.kind = kind /\ q.email = e /\ q.read = Null /\ q.cookie = s
  OBVIOUS
<1> HIDE DEF q
<1>5. request'[r] = q
  BY <1>1 DEF TypeOK
<1>6. Looked(r)
  BY <1>1, <1>2, <1>3, <1>4, <1>5 DEF Looked
<1>7. RequestsGoOn
  BY <1>1, <1>3, <1>6, RequestLooks
<1>8. SessionsGoOn /\ \A t \in DOMAIN sessions : sessions'[t].changes = sessions[t].changes
  BY <1>1, SessionsSlide
<1>9. clock' \in 0..MaxTime
  BY <1>1 DEF TypeOK
<1> QED BY <1>1, <1>7, <1>8, <1>9, StayStep

LEMMA CheckCurrentStep ==
  ASSUME Inv, NEW r \in Request, CheckCurrent(r)
  PROVE  Step
<1> DEFINE e == request[r].email
           q == [request[r] EXCEPT !.at = "read", !.read = accounts[e]]
<1>1. /\ TypeOK /\ Knows(r) /\ Entered(r, "settings")
      /\ UNCHANGED <<accounts, sessions, clock>> /\ request' = [request EXCEPT ![r] = q]
  BY DEF Inv, CheckCurrent
<1>2. request[r] \in Progress /\ request[r] # Null /\ e \in Email
  BY <1>1, RequestType DEF Entered
<1>3. /\ request[r].at = "entered" /\ request[r].kind = "settings"
      /\ request[r].cookie \in DOMAIN sessions
      /\ sessions[request[r].cookie].email = e /\ accounts[e] # Null
  BY <1>1, <1>2 DEF Entered, Knows
<1> HIDE DEF e
<1>4. accounts[e] \in Account
  BY <1>1, <1>2, <1>3, AccountThere
<1>5. /\ q \in Progress /\ q.at = "read" /\ q.read = accounts[e]
      /\ q.kind = request[r].kind /\ q.email = request[r].email /\ q.cookie = request[r].cookie
  BY <1>2, <1>4 DEF Progress
<1> HIDE DEF q
<1>6. request'[r] = q
  BY <1>1 DEF TypeOK
<1>7. Looked(r)
  BY <1>1, <1>3, <1>5, <1>6 DEF Looked, e
<1>8. RequestsGoOn
  BY <1>1, <1>5, <1>7, RequestLooks
<1>9. clock' \in 0..MaxTime /\ clock' \in Nat /\ clock <= clock'
  BY <1>1 DEF TypeOK
<1>10. SessionsGoOn /\ \A t \in DOMAIN sessions : sessions'[t].changes = sessions[t].changes
  BY <1>1, <1>9, SessionsStay
<1> QED BY <1>1, <1>8, <1>9, <1>10, StayStep

-----------------------------------------------------------------------------
(* The steps: a signup ends, and Google is connected or not.               *)

LEMMA SignUpNewStep ==
  ASSUME Inv, NEW r \in Request, NEW pw \in Password \cup {Null}, NEW cookie,
         SignUpNew(r, pw, cookie)
  PROVE  Step
<1> DEFINE e == request[r].email
           x == New("VENDOR", pw, Null)
<1>1. /\ TypeOK /\ Belongs /\ request[r] # Null /\ accounts[e] = Null
      /\ accounts' = [accounts EXCEPT ![e] = x] /\ Enter(e, {cookie}) /\ Ends(r)
      /\ clock' = clock
  BY DEF Inv, SignUpNew, HasRead
<1>2. e \in Email
  BY <1>1, RequestType
<1>3. x \in Account /\ Methods(x) # {}
  BY NewAccount
<1>4. RequestsGoOn /\ SignupsLook
  BY <1>1, RequestEnds
<1> HIDE DEF e, x
<1>5. /\ AccountsGoOn /\ accounts'[e] \in Account
      /\ \A o \in Email : Stays(o) \/ Made(o) \/ Touched(o)
  BY <1>1, <1>2, <1>3, PutStep
<1>6. SessionsGoOn /\ SessionsFollow /\ clock' \in 0..MaxTime
  BY <1>1, <1>2, <1>5, EnterStep
<1> QED BY <1>4, <1>5, <1>6 DEF Step

LEMMA SignUpAgainStep ==
  ASSUME Inv, NEW r \in Request, NEW cookie, SignUpAgain(r, cookie)
  PROVE  Step
<1> DEFINE e == request[r].email
           x == AsVendor(accounts[e])
<1>1. /\ TypeOK /\ Belongs /\ Knows(r) /\ request[r] # Null /\ request[r].read # Null
      /\ accounts' = [accounts EXCEPT ![e] = x] /\ Enter(e, {cookie}) /\ Ends(r)
      /\ clock' = clock
  BY DEF Inv, SignUpAgain, HasRead
<1>2. e \in Email /\ accounts[e] # Null
  BY <1>1, RequestType DEF Knows
<1>3. accounts[e] \in Account
  BY <1>1, <1>2, AccountThere
<1>4. /\ x \in Account /\ Methods(x) # {} /\ x.password = accounts[e].password
      /\ x.changes = accounts[e].changes
  <2> HIDE DEF e
  <2> QED BY <1>3, VendorAccount
<1>5. accounts'[e] = x
  <2> HIDE DEF e, x
  <2> QED BY <1>1, <1>2, <1>4, AccountPut
<1>6. accounts'[e].password = accounts[e].password
  BY <1>4, <1>5
<1>7. RequestsGoOn /\ SignupsLook
  BY <1>1, <1>6, RequestEnds
<1> HIDE DEF e, x
<1>8. /\ AccountsGoOn /\ accounts'[e] \in Account
      /\ \A o \in Email : Stays(o) \/ Made(o) \/ Touched(o)
  BY <1>1, <1>2, <1>4, PutStep
<1>9. SessionsGoOn /\ SessionsFollow /\ clock' \in 0..MaxTime
  BY <1>1, <1>2, <1>8, EnterStep
<1> QED BY <1>7, <1>8, <1>9 DEF Step

LEMMA DisconnectGoogleStep ==
  ASSUME Inv, NEW r \in Request, DisconnectGoogle(r)
  PROVE  Step
<1> DEFINE e == request[r].email
           x == [accounts[e] EXCEPT !.google = Null]
<1>1. /\ TypeOK /\ Belongs /\ Knows(r) /\ Entered(r, "settings")
      /\ Cardinality(Methods(accounts[e])) > 1
      /\ accounts' = [accounts EXCEPT ![e].google = Null] /\ Ends(r)
      /\ UNCHANGED <<sessions, clock>>
  BY DEF Inv, DisconnectGoogle
<1>2. e \in Email /\ accounts[e] # Null
  BY <1>1, RequestType DEF Entered, Knows
<1>3. RequestsGoOn /\ SignupsLook
  BY <1>1, RequestEnds DEF Entered, HasRead
<1>4. accounts' = [accounts EXCEPT ![e] = x]
  BY <1>1
<1> HIDE DEF e
<1>5. accounts[e] \in Account
  BY <1>1, <1>2, AccountThere
<1>6. /\ x \in Account /\ x.password = accounts[e].password
      /\ x.changes = accounts[e].changes /\ x.verified = accounts[e].verified
  BY <1>5, GoogleAccount
<1>7. Methods(x) # {}
  <2>1. Methods(accounts[e]) \ {"google"} # {}
    BY <1>1, ManyMethods
  <2>2. Methods(accounts[e]) \ {"google"} \subseteq Methods(x)
    BY <1>6 DEF Methods
  <2> QED BY <2>1, <2>2
<1> HIDE DEF x
<1>8. AccountsGoOn /\ \A o \in Email : Stays(o) \/ Made(o) \/ Touched(o)
  BY <1>1, <1>2, <1>4, <1>6, <1>7, PutStep
<1>9. clock' \in 0..MaxTime /\ clock' \in Nat /\ clock <= clock'
  BY <1>1 DEF TypeOK
<1>10. SessionsGoOn /\ \A t \in DOMAIN sessions : sessions'[t].changes = sessions[t].changes
  BY <1>1, <1>9, SessionsStay
<1>11. SessionsFollow
  BY <1>1, <1>8, <1>10, SessionsFollowThat
<1> QED BY <1>3, <1>8, <1>9, <1>10, <1>11 DEF Step

LEMMA ConnectGoogleStep ==
  ASSUME Inv, NEW r \in Request, NEW s \in DOMAIN sessions, NEW g \in Subject,
         ConnectGoogle(r, s, g)
  PROVE  Step
<1> DEFINE e == request[r].email
           x == [accounts[e] EXCEPT !.google = g]
<1>1. /\ TypeOK /\ Belongs /\ Entered(r, "connect") /\ Accepted(s)
      /\ sessions[s].email = e /\ sessions' = Slid(s)
      /\ accounts' = [accounts EXCEPT ![e].google = g] /\ Ends(r) /\ clock' = clock
  BY DEF Inv, ConnectGoogle
<1>2. e \in Email /\ accounts[e] # Null
  <2>1. sessions[s].email \in Email /\ accounts[sessions[s].email] # Null
    BY <1>1, SessionType DEF Belongs
  <2> QED BY <1>1, <2>1
<1>3. RequestsGoOn /\ SignupsLook
  BY <1>1, RequestEnds DEF Entered, HasRead
<1>4. accounts' = [accounts EXCEPT ![e] = x]
  BY <1>1
<1> HIDE DEF e
<1>5. accounts[e] \in Account
  BY <1>1, <1>2, AccountThere
<1>6. /\ x \in Account /\ x.password = accounts[e].password
      /\ x.changes = accounts[e].changes /\ x.google = g
  BY <1>5, GoogleAccount
<1>7. Methods(x) # {}
  <2>1. "google" \in Methods(x)
    BY <1>6, NullAssumption DEF Methods
  <2> QED BY <2>1
<1> HIDE DEF x
<1>8. AccountsGoOn /\ \A o \in Email : Stays(o) \/ Made(o) \/ Touched(o)
  BY <1>1, <1>2, <1>4, <1>6, <1>7, PutStep
<1>9. SessionsGoOn /\ \A t \in DOMAIN sessions : sessions'[t].changes = sessions[t].changes
  BY <1>1, SessionsSlide
<1>10. SessionsFollow
  BY <1>1, <1>8, <1>9, SessionsFollowThat
<1>11. clock' \in 0..MaxTime
  BY <1>1 DEF TypeOK
<1> QED BY <1>3, <1>8, <1>9, <1>10, <1>11 DEF Step

-----------------------------------------------------------------------------
(* Every step is one of these, and the sum of a step keeps Inv.            *)

LEMMA FinishStep ==
  ASSUME Inv, NEW r \in Request, Start(r) \/ Finish(r)
  PROVE  Step
<1>1. CASE \E e \in Email : StartSignUp(r, e)
  BY <1>1, ReadingStep DEF StartSignUp
<1>2. CASE \E e \in Email : CheckPassword(r, e)
  BY <1>2, ReadingStep DEF CheckPassword
<1>3. CASE \E s \in DOMAIN sessions, kind \in {"settings", "connect"} :
             EnterSettings(r, s, kind)
  BY <1>3, EnterSettingsStep
<1>4. CASE \E pw \in Password \cup {Null}, cookie \in Cookies : SignUpNew(r, pw, cookie)
  BY <1>4, SignUpNewStep
<1>5. CASE \E pw \in Password, cookie \in Cookies : SignUpClaim(r, pw, cookie)
  BY <1>5, SignUpClaimStep
<1>6. CASE \E cookie \in Cookies : SignUpAgain(r, cookie)
  BY <1>6, SignUpAgainStep
<1>7. CASE \E cookie \in Cookies : CommitLogin(r, cookie)
  BY <1>7, CommitLoginStep
<1>14. CASE LoginByPassword(r)
  BY <1>14, LoginByPasswordStep
<1>15. CASE \E g \in Subject, e \in Email : InsertByGoogle(r, g, e)
  BY <1>15, InsertByGoogleStep
<1>8. CASE CheckCurrent(r)
  BY <1>8, CheckCurrentStep
<1>9. CASE RemovePassword(r)
  BY <1>9, RemovePasswordStep
<1>10. CASE DisconnectGoogle(r)
  BY <1>10, DisconnectGoogleStep
<1>11. CASE GiveUp(r)
  BY <1>11, GiveUpStep
<1>12. CASE \E pw \in Password : ChangePassword(r, pw)
  BY <1>12, ChangePasswordStep
<1>13. CASE \E s \in DOMAIN sessions, g \in Subject : ConnectGoogle(r, s, g)
  BY <1>13, ConnectGoogleStep
<1> QED BY <1>1, <1>2, <1>3, <1>4, <1>5, <1>6, <1>7, <1>8, <1>9, <1>10, <1>11, <1>12, <1>13,
        <1>14, <1>15 DEF Start, Finish

LEMMA NextStep ==
  ASSUME Inv, [Next]_vars
  PROVE  Step
<1>1. CASE \E r \in Request : Start(r) \/ Finish(r)
  BY <1>1, FinishStep
<1>2. CASE \E e \in Email, cookie \in Cookies : Proof(e, cookie)
  BY <1>2, LoginByCodeStep, VerifyBookingStep, LoginByGoogleStep DEF Proof
<1>3. CASE \E e \in Email, pw \in Password : ResetPassword(e, pw)
  BY <1>3, ResetPasswordStep
<1>4. CASE \E s \in DOMAIN sessions : UseSession(s) \/ Logout(s)
  BY <1>4, UseSessionStep, LogoutStep
<1>5. CASE \E s, t \in DOMAIN sessions : RevokeDevice(s, t)
  BY <1>5, RevokeDeviceStep
<1>6. CASE Tick
  BY <1>6, TickStep
<1>7. CASE UNCHANGED vars
  BY <1>7, StutterStep
<1> QED BY <1>1, <1>2, <1>3, <1>4, <1>5, <1>6, <1>7 DEF Next

\* At first there are no sessions and no requests, and every account has a way in.
LEMMA InvInit ==
  ASSUME Init
  PROVE  Inv
<1>1. ASSUME NEW e \in Email
      PROVE  /\ accounts[e] \in Account \cup {Null}
             /\ accounts[e] # Null => Methods(accounts[e]) # {}
  <2>1. \/ accounts[e] = Null
        \/ accounts[e] = New("CLIENT", Null, Null)
        \/ accounts[e] = New("VENDOR", Null, Null)
        \/ \E pw \in Password, v \in BOOLEAN :
             accounts[e] = [New("VENDOR", pw, Null) EXCEPT !.verified = v]
    BY DEF Init
  <2>2. ASSUME NEW pw \in Password, NEW v \in BOOLEAN
        PROVE  LET a == [New("VENDOR", pw, Null) EXCEPT !.verified = v]
               IN a \in Account /\ Methods(a) # {}
    <3> DEFINE a == [New("VENDOR", pw, Null) EXCEPT !.verified = v]
    <3>1. 0 \in 0..MaxChanges
      BY NumberAssumption
    <3>2. a \in Account /\ a.password = pw
      BY <3>1 DEF New, Account
    <3>3. "password" \in Methods(a)
      BY <3>2, NullAssumption DEF Methods
    <3> QED BY <3>2, <3>3
  <2> QED BY <2>1, <2>2, NewAccount
<1>2. accounts \in [Email -> Account \cup {Null}]
  <2>1. accounts = [e \in Email |-> accounts[e]]
    BY DEF Init
  <2> QED BY <1>1, <2>1
<1>3. sessions \in Seq(Session) /\ Len(sessions) <= MaxSessions /\ DOMAIN sessions = {}
  BY NumberAssumption DEF Init
<1>4. request \in [Request -> Progress \cup {Null}] /\ \A r \in Request : Knows(r)
  BY DEF Init, Knows
<1>5. clock \in 0..MaxTime
  BY NumberAssumption DEF Init
<1> QED BY <1>1, <1>2, <1>3, <1>4, <1>5
        DEF Inv, TypeOK, Belongs, AlwaysAWayIn, SessionsFollowPassword

\* What a step does to the account of a request that knows something.
LEMMA KnowsOn ==
  ASSUME Inv, Step, NEW r \in Request
  PROVE  Knows(r)'
<1>1. /\ TypeOK /\ Knows(r) /\ request' \in [Request -> Progress \cup {Null}]
      /\ \A s \in DOMAIN sessions : s \in DOMAIN sessions' /\ sessions'[s].email = sessions[s].email
  <2>1. /\ sessions \in Seq(Session) /\ sessions' \in Seq(Session)
        /\ Len(sessions) <= Len(sessions')
    BY DEF Inv, TypeOK, Step, SessionsGoOn
  <2> QED BY <2>1 DEF Inv, Step, RequestsGoOn, SessionsGoOn
<1>2. CASE request'[r] = Null
  BY <1>2 DEF Knows
<1>3. CASE request'[r] = request[r] /\ request[r] # Null
  <2> DEFINE q == request[r]
             e == q.email
  <2>1. q \in Progress /\ e \in Email /\ q.read \in Account \cup {Null}
    BY <1>1, <1>3, RequestType
  <2>2. /\ q.kind = "settings" =>
             q.cookie \in DOMAIN sessions /\ sessions[q.cookie].email = e
        /\ q.at # "read" \/ q.read # Null => accounts[e] # Null
        /\ q.at = "read" /\ q.kind # "signup" => q.read # Null
        /\ q.read # Null =>
             /\ q.read.changes <= accounts[e].changes
             /\ q.read.changes = accounts[e].changes => q.read.password = accounts[e].password
    BY <1>1, <1>3 DEF Knows
  <2>3. request'[r] = q
    BY <1>3
  <2> HIDE DEF q, e
  <2>4. Stays(e) \/ Made(e) \/ Touched(e) \/ Renewed(e)
    BY <2>1 DEF Step, AccountsGoOn
  <2>5. accounts[e] # Null => accounts'[e] # Null
    BY <2>4, RowAssumption DEF Stays, Made, Touched, Renewed
  <2>6. ASSUME q.read # Null
        PROVE  /\ q.read.changes <= accounts'[e].changes
               /\ q.read.changes = accounts'[e].changes => q.read.password = accounts'[e].password
    <3>1. accounts[e] \in Account /\ q.read \in Account
      BY <1>1, <2>1, <2>2, <2>6, AccountThere
    <3>2. q.read.changes \in Nat /\ accounts[e].changes \in Nat
      BY <3>1, AccountType
    <3>3. CASE Stays(e) \/ Touched(e)
      BY <2>2, <2>6, <3>3 DEF Stays, Touched
    <3>4. CASE Renewed(e)
      BY <2>2, <2>6, <3>2, <3>4 DEF Renewed
    <3>5. CASE Made(e)
      BY <2>2, <2>6, <3>5 DEF Made
    <3> QED BY <2>4, <3>3, <3>4, <3>5
  <2>7. Knows(r)' <=>
          LET p == request'[r] IN
          p # Null =>
            /\ p.kind = "settings" =>
                 p.cookie \in DOMAIN sessions' /\ sessions'[p.cookie].email = p.email
            /\ p.at # "read" \/ p.read # Null => accounts'[p.email] # Null
            /\ p.at = "read" /\ p.kind # "signup" => p.read # Null
            /\ p.read # Null =>
                 /\ p.read.changes <= accounts'[p.email].changes
                 /\ p.read.changes = accounts'[p.email].changes =>
                      p.read.password = accounts'[p.email].password
    BY DEF Knows
  <2> QED BY <1>1, <2>2, <2>3, <2>5, <2>6, <2>7 DEF e
<1>4. CASE Looked(r)
  <2>1. request'[r] \in Progress /\ UNCHANGED accounts
    BY <1>4 DEF Looked
  <2>2. request'[r].email \in Email
    BY <2>1 DEF Progress
  <2>3. accounts'[request'[r].email] # Null => accounts'[request'[r].email].changes \in Nat
    <3>1. accounts[request'[r].email] # Null => accounts[request'[r].email] \in Account
      BY <1>1, <2>2, AccountThere
    <3> QED BY <2>1, <3>1, AccountType
  <2> QED BY <1>1, <1>4, <2>1, <2>3 DEF Looked, Knows
<1> QED BY <1>2, <1>3, <1>4 DEF Step, RequestsGoOn

\* The sum of a step is enough: Inv needs nothing else of the actions.
LEMMA InvStep ==
  ASSUME Inv, Step
  PROVE  Inv'
<1>1. TypeOK'
  BY DEF Inv, TypeOK, Step, AccountsGoOn, SessionsGoOn, RequestsGoOn
<1>2. TypeOK /\ sessions \in Seq(Session) /\ sessions' \in Seq(Session)
  BY DEF Inv, TypeOK, Step, SessionsGoOn
<1>3. ASSUME NEW e \in Email
      PROVE  /\ accounts[e] # Null => accounts'[e] # Null
             /\ accounts'[e] # Null => Methods(accounts'[e]) # {}
  <2>1. Stays(e) \/ Made(e) \/ Touched(e) \/ Renewed(e)
    BY DEF Step, AccountsGoOn
  <2> QED BY <2>1, RowAssumption DEF Inv, AlwaysAWayIn, Stays, Made, Touched, Renewed
<1>4. ASSUME NEW s \in DOMAIN sessions'
      PROVE  /\ accounts'[sessions'[s].email] # Null
             /\ Live(s)' => sessions'[s].changes = accounts'[sessions'[s].email].changes
  <2>1. CASE s \in DOMAIN sessions
    <3> DEFINE e == sessions[s].email
    <3>1. e \in Email /\ accounts[e] # Null
      BY <1>2, <2>1, SessionType DEF Inv, Belongs
    <3>2. sessions'[s].email = e /\ (Live(s)' => Live(s))
      BY <2>1 DEF Step, SessionsGoOn
    <3>3. Live(s) => sessions[s].changes = accounts[e].changes
      BY <2>1 DEF Inv, SessionsFollowPassword
    <3>4. \/ sessions'[s].revoked
          \/ sessions'[s].changes = accounts'[e].changes
          \/ /\ sessions'[s].changes = sessions[s].changes
             /\ Stays(e) \/ Touched(e)
      BY <2>1 DEF Step, SessionsFollow
    <3>5. Live(s)' => ~sessions'[s].revoked
      BY DEF Live
    <3> QED BY <1>3, <3>1, <3>2, <3>3, <3>4, <3>5 DEF Stays, Touched
  <2>2. CASE s \notin DOMAIN sessions
    BY <2>2 DEF Step, SessionsGoOn
  <2> QED BY <2>1, <2>2
<1>5. Belongs' /\ SessionsFollowPassword'
  BY <1>4 DEF Belongs, SessionsFollowPassword
<1>6. AlwaysAWayIn'
  BY <1>3 DEF AlwaysAWayIn
<1> QED BY <1>1, <1>5, <1>6, KnowsOn DEF Inv

-----------------------------------------------------------------------------
(* The theorems.                                                           *)

\* The invariant holds of every behaviour of the accounts and sessions.
THEOREM SignInInvariant == Spec => []Inv
<1>1. Init => Inv
  BY InvInit
<1>2. Inv /\ [Next]_vars => Inv'
  BY NextStep, InvStep
<1> QED BY <1>1, <1>2, PTL DEF Spec

\* Every row and every request keeps its type, for any number of addresses,
\* passwords, Google accounts and handlers.
THEOREM SignInTyping == Spec => []TypeOK
<1>1. Inv => TypeOK
  BY DEF Inv
<1> QED BY <1>1, SignInInvariant, PTL

\* However removals of passwords, disconnections of Google, resets and signups
\* interleave, no account is left without a way to sign in.
THEOREM NeverLockedOut == Spec => []AlwaysAWayIn
<1>1. Inv => AlwaysAWayIn
  BY DEF Inv
<1> QED BY <1>1, SignInInvariant, PTL

\* A session that works was committed after the last change of its account's
\* password, or made it: whoever changed it has ended every other one there was,
\* which those of logins still under way are not.
THEOREM OldSessionsEnd == Spec => []SessionsFollowPassword
<1>1. Inv => SessionsFollowPassword
  BY DEF Inv
<1> QED BY <1>1, SignInInvariant, PTL

\* No step brings a revoked or expired session back.
THEOREM DeadSessionsStayDead == Spec => DeadStaysDead
<1>1. Inv /\ [Next]_vars => [\A s \in DOMAIN sessions : Live(s)' => Live(s)]_vars
  <2> SUFFICES ASSUME Inv, [Next]_vars
               PROVE  \A s \in DOMAIN sessions : Live(s)' => Live(s)
    OBVIOUS
  <2>1. Step
    BY NextStep
  <2> QED BY <2>1 DEF Step, SessionsGoOn
<1> QED BY <1>1, SignInInvariant, PTL DEF Spec, DeadStaysDead

\* A signup that overwrites a password had read the account before there was one.
THEOREM SignupsOverwriteKnowingly == Spec => NoBlindOverwrite
<1> DEFINE Looks(r) ==
      (/\ HasRead(r, "signup") /\ request'[r] = Null
       /\ accounts[request[r].email] # Null
       /\ accounts[request[r].email].password
            \notin {Null, accounts'[request[r].email].password})
        => request[r].read.changes < accounts[request[r].email].changes
<1>1. Inv /\ [Next]_vars => [\A r \in Request : Looks(r)]_vars
  <2> SUFFICES ASSUME Inv, [Next]_vars, NEW r \in Request,
                      HasRead(r, "signup"), request'[r] = Null,
                      accounts[request[r].email] # Null,
                      accounts[request[r].email].password
                        \notin {Null, accounts'[request[r].email].password}
               PROVE  request[r].read.changes < accounts[request[r].email].changes
    OBVIOUS
  <2>1. Step
    BY NextStep
  <2>2. request[r].read # Null /\ request[r].read.password = Null
    BY <2>1 DEF Step, SignupsLook
  <2>3. TypeOK /\ Knows(r) /\ request[r] # Null
    BY DEF Inv, HasRead
  <2>4. /\ request[r].read.changes <= accounts[request[r].email].changes
        /\ request[r].read.changes = accounts[request[r].email].changes =>
             request[r].read.password = accounts[request[r].email].password
    BY <2>2, <2>3 DEF Knows
  <2>5. request[r].read \in Account /\ accounts[request[r].email] \in Account
    BY <2>2, <2>3, RequestType, AccountThere
  <2>6. request[r].read.changes \in Nat /\ accounts[request[r].email].changes \in Nat
    BY <2>5, AccountType
  <2> QED BY <2>2, <2>4, <2>6
<1> QED BY <1>1, SignInInvariant, PTL DEF Spec, NoBlindOverwrite

=============================================================================
