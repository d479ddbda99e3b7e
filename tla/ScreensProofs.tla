---------------------------- MODULE ScreensProofs ----------------------------
(***************************************************************************)
(* Theorems of Screens, each part by an invariant of its own: a step of one *)
(* part keeps the invariant of that part, and no step picks another part.  *)
(***************************************************************************)
EXTENDS Screens, Sequences, FiniteSetTheorems, WellFoundedInduction, TLAPS

-----------------------------------------------------------------------------
(* The parts.                                                              *)

\* A part runs alone.
LEMMA Alone ==
  ASSUME [Next]_vars
  PROVE  /\ part' = part
         /\ part = "flow" => [Choosing!Next]_flowVars
         /\ part = "checkout" => [Paying!Next]_payVars
         /\ part = "desk" => [Managing!Next]_deskVars
         /\ part = "walk-ins" => [Adding!Next]_walkVars
         /\ part = "console" => [Watching!Next]_consoleVars
         /\ part = "onboarding" => [Starting!Next]_wizardVars
         /\ part = "second factor" => [Proving!Next]_factorVars
         /\ part = "google" => [Returning!Next]_googleVars
<1>1. CASE UNCHANGED vars
  BY <1>1 DEF vars
<1>2. CASE Next
  BY <1>2 DEF Next, Flowing, CheckingOut, AtDesk, WalkingIn, AtConsole, Onboards,
    Proves, Returns
<1> QED BY <1>1, <1>2


-----------------------------------------------------------------------------
(* Sequences.                                                              *)

LEMMA Elements ==
  ASSUME NEW S, NEW q \in Seq(S)
  PROVE  /\ DOMAIN q = 1..Len(q) /\ Len(q) \in Nat
         /\ \A i \in 1..Len(q) : q[i] \in S
OBVIOUS

LEMMA Listed ==
  ASSUME NEW S, NEW n \in Nat, NEW f \in [1..n -> S]
  PROVE  f \in Seq(S) /\ Len(f) = n
OBVIOUS

LEMMA Appended ==
  ASSUME NEW S, NEW q \in Seq(S), NEW e \in S
  PROVE  /\ Append(q, e) \in Seq(S) /\ Len(Append(q, e)) = Len(q) + 1
         /\ \A i \in 1..Len(q) : Append(q, e)[i] = q[i]
         /\ Append(q, e)[Len(q) + 1] = e
OBVIOUS

LEMMA Replaced ==
  ASSUME NEW S, NEW q \in Seq(S), NEW i \in 1..Len(q), NEW e \in S
  PROVE  [q EXCEPT ![i] = e] \in Seq(S) /\ Len([q EXCEPT ![i] = e]) = Len(q)
<1>1. [q EXCEPT ![i] = e] \in [1..Len(q) -> S] /\ Len(q) \in Nat
  BY Elements
<1> QED BY <1>1, Listed

-----------------------------------------------------------------------------
(* The least and the greatest of numbers, by least counterexamples.        *)

LEMMA Smallest ==
  ASSUME NEW S, S \subseteq Nat, S # {}
  PROVE  \E n \in S : \A m \in S : n <= m
<1>1. PICK n \in S : \A m \in S : ~(<<m, n>> \in OpToRel(<, Nat))
  BY NatLessThanWellFounded, WFMin
<1>2. \A m \in S : ~(m < n)
  BY <1>1 DEF OpToRel
<1> QED BY <1>2

LEMMA Highest ==
  ASSUME NEW S, IsFiniteSet(S), S # {}, NEW f \in [S -> Nat]
  PROVE  \E x \in S : \A y \in S : f[y] <= f[x]
<1> DEFINE Bad(T) == T # {} /\ ~\E x \in T : \A y \in T : f[y] <= f[x]
           K == {n \in Nat : \E T \in SUBSET S : Cardinality(T) = n /\ Bad(T)}
<1>1. \A T \in SUBSET S : IsFiniteSet(T) /\ Cardinality(T) \in Nat
  BY FS_Subset, FS_CardinalityType
<1>2. ASSUME K # {} PROVE FALSE
  <2>1. PICK n \in K : \A m \in K : n <= m
    BY <1>2, Smallest
  <2>2. PICK T \in SUBSET S : Cardinality(T) = n /\ Bad(T)
    BY <2>1
  <2>3. PICK x \in T : TRUE
    BY <2>2
  <2>4. /\ T \ {x} \in SUBSET S /\ Cardinality(T \ {x}) = n - 1
    BY <1>1, <2>2, <2>3, FS_RemoveElement
  <2>5. n \in Nat /\ n - 1 \in Nat
    BY <1>1, <2>4
  <2>6. ~Bad(T \ {x})
    <3>1. n - 1 \notin K
      BY <2>1, <2>5
    <3> QED BY <2>4, <2>5, <3>1
  <2>7. \A y \in T : f[y] \in Nat
    OBVIOUS
  <2>8. CASE T = {x}
    <3>1. \A y \in T : f[y] <= f[x]
      BY <2>7, <2>8
    <3> QED BY <2>2, <3>1
  <2>9. CASE T # {x}
    <3>1. T \ {x} # {}
      BY <2>3, <2>9
    <3>2. PICK z \in T \ {x} : \A y \in T \ {x} : f[y] <= f[z]
      BY <2>6, <3>1
    <3>3. CASE f[x] <= f[z]
      <4>1. \A y \in T : f[y] <= f[z]
        BY <3>2, <3>3
      <4> QED BY <2>2, <4>1
    <3>4. CASE ~(f[x] <= f[z])
      <4>1. \A y \in T : f[y] <= f[x]
        BY <2>7, <3>2, <3>4
      <4> QED BY <2>2, <4>1
    <3> QED BY <3>3, <3>4
  <2> QED BY <2>8, <2>9
<1>3. ~Bad(S)
  <2>1. S \in SUBSET S
    OBVIOUS
  <2> QED BY <1>1, <1>2, <2>1
<1> QED BY <1>3
-----------------------------------------------------------------------------
(* Signing in with Google.                                                 *)

\* A callback that has claimed its attempt.
Claims(r) == callback[r] # Null /\ callback[r].at \in {"claimed", "proven"}

GoogleTypes ==
  /\ Returning!TypeOK
  /\ attempt \in [Attempt -> Attempts \cup {Null}]
  /\ callback \in [Callback -> Callbacks \cup {Null}]
  /\ entries \subseteq [of : Attempt, as : Account, user : Returning!User]
  /\ \A r \in Callback : callback[r] # Null => callback[r].session <= Len(sessions)

\* A callback that has claimed its attempt is the only one, and leads somewhere
\* for the first time.
OneClaim ==
  \A r \in Callback : Claims(r) =>
    /\ attempt[callback[r].of].used
    /\ \A e \in entries : e.of # callback[r].of
    /\ \A q \in Callback : Claims(q) /\ callback[q].of = callback[r].of => q = r

EntriesAreUsed == \A e \in entries : attempt[e.of] # Null /\ attempt[e.of].used

GoogleInv ==
  GoogleTypes /\ OneClaim /\ EntriesAreUsed /\ Returning!EntersOnce /\ Returning!EntersAsItself

LEMMA GoogleInit == Returning!Init => GoogleInv
  BY GoogleAssumption DEF Returning!Init, GoogleInv, GoogleTypes, Returning!TypeOK, OneClaim,
    Claims, EntriesAreUsed, Returning!EntersOnce, Returning!EntersAsItself

\* A callback that ends has nothing to say of what is there.
LEMMA CallbackEnds ==
  ASSUME GoogleInv, NEW r \in Callback, callback' = [callback EXCEPT ![r] = Null],
         cookie' \in {cookie, Null}, UNCHANGED <<clock, attempt, sessions, browser, linked, entries>>
  PROVE  GoogleInv'
<1>1. /\ callback' \in [Callback -> Callbacks \cup {Null}]
      /\ \A q \in Callback : callback'[q] # Null => q # r /\ callback'[q] = callback[q]
  BY DEF GoogleInv, GoogleTypes
<1>2. GoogleTypes'
  BY <1>1 DEF GoogleInv, GoogleTypes, Returning!TypeOK
<1>3. OneClaim'
  BY <1>1 DEF GoogleInv, OneClaim, Claims
<1> QED BY <1>2, <1>3 DEF GoogleInv, EntriesAreUsed, Returning!EntersOnce,
  Returning!EntersAsItself, Returning!Spare

\* A callback goes on without a claim being made.
LEMMA CallbackGoesOn ==
  ASSUME GoogleInv, NEW r \in Callback, NEW q \in Callbacks,
         callback' = [callback EXCEPT ![r] = q],
         attempt[q.of] # Null, q.session <= Len(sessions),
         q.at # "came" => Claims(r) /\ callback[r].of = q.of,
         UNCHANGED <<clock, attempt, cookie, sessions, browser, linked, entries>>
  PROVE  GoogleInv'
<1>1. /\ callback' \in [Callback -> Callbacks \cup {Null}] /\ callback'[r] = q
      /\ \A p \in Callback : p # r => callback'[p] = callback[p]
  BY DEF GoogleInv, GoogleTypes
<1>2. GoogleTypes'
  BY <1>1 DEF GoogleInv, GoogleTypes, Returning!TypeOK
<1>3. \A p \in Callback : Claims(p)' => Claims(p) /\ callback'[p].of = callback[p].of
  BY <1>1 DEF Claims, Callbacks
<1>4. OneClaim'
  BY <1>3 DEF GoogleInv, OneClaim
<1> QED BY <1>2, <1>4 DEF GoogleInv, EntriesAreUsed, Returning!EntersOnce,
  Returning!EntersAsItself, Returning!Spare

\* The sessions that there are.
LEMMA Sessions ==
  ASSUME GoogleTypes, NEW s \in 1..Len(sessions)
  PROVE  /\ sessions[s] \in [user : Returning!User, good : BOOLEAN]
         /\ DOMAIN sessions = 1..Len(sessions)
<1>1. sessions \in Seq([user : Returning!User, good : BOOLEAN])
  BY DEF GoogleTypes, Returning!TypeOK
<1> QED BY <1>1, Elements

LEMMA GoogleBegins ==
  ASSUME GoogleInv, NEW a \in Attempt, NEW connects \in BOOLEAN, Returning!Start(a, connects)
  PROVE  GoogleInv'
<1>1. attempt[a] = Null BY DEF Returning!Start
<1>2. PICK t \in Attempts : attempt' = [attempt EXCEPT ![a] = t]
  <2>1. clock \in 0..MaxClock BY DEF GoogleInv, GoogleTypes, Returning!TypeOK
  <2>2. connects => sessions[browser].user \in Returning!User
    <3>1. connects => browser \in 1..Len(sessions)
      BY DEF GoogleInv, GoogleTypes, Returning!TypeOK, Returning!Start, Returning!Good
    <3> QED BY <3>1, Sessions DEF GoogleInv
  <2> QED BY <2>1, <2>2 DEF Returning!Start, Attempts
<1>3. /\ attempt' \in [Attempt -> Attempts \cup {Null}]
      /\ \A b \in Attempt : attempt[b] # Null => attempt'[b] = attempt[b]
  BY <1>1, <1>2 DEF GoogleInv, GoogleTypes
<1>4. GoogleTypes'
  BY <1>3 DEF GoogleInv, GoogleTypes, Returning!TypeOK, Returning!Start, Returning!signedIn,
    Callbacks
<1>5. OneClaim'
  BY <1>3 DEF GoogleInv, GoogleTypes, OneClaim, Claims, Returning!TypeOK, Returning!Start,
    Returning!signedIn, Callbacks
<1>6. EntriesAreUsed' /\ Returning!EntersOnce' /\ Returning!EntersAsItself'
  BY <1>3 DEF GoogleInv, GoogleTypes, EntriesAreUsed, Returning!EntersOnce,
    Returning!EntersAsItself, Returning!Spare, Returning!Start, Returning!signedIn
<1> QED BY <1>4, <1>5, <1>6 DEF GoogleInv

\* A session begins after those there are.
LEMMA SessionBegins ==
  ASSUME GoogleTypes, NEW u \in Returning!User, NEW old, Returning!Enter(u, old)
  PROVE  /\ sessions' \in Seq([user : Returning!User, good : BOOLEAN])
         /\ Len(sessions') = Len(sessions) + 1 /\ browser' \in 0..Len(sessions')
<1> DEFINE ended == [s \in DOMAIN sessions |-> [sessions[s] EXCEPT !.good = @ /\ s # old]]
           begun == [user |-> u, good |-> TRUE]
<1>1. sessions \in Seq([user : Returning!User, good : BOOLEAN])
  BY DEF GoogleTypes, Returning!TypeOK
<1>2. ended \in Seq([user : Returning!User, good : BOOLEAN]) /\ Len(ended) = Len(sessions)
  <2>1. DOMAIN sessions = 1..Len(sessions) /\ Len(sessions) \in Nat
    BY <1>1, Elements
  <2>2. ASSUME NEW s \in 1..Len(sessions)
        PROVE  ended[s] \in [user : Returning!User, good : BOOLEAN]
    BY <2>1, Sessions
  <2>3. ended \in [1..Len(sessions) -> [user : Returning!User, good : BOOLEAN]]
    BY <2>1, <2>2
  <2> HIDE DEF ended
  <2> QED BY <2>1, <2>3, Listed
<1>3. begun \in [user : Returning!User, good : BOOLEAN] OBVIOUS
<1>4. sessions' = Append(ended, begun) /\ browser' = Len(sessions) + 1
  BY DEF Returning!Enter
<1> HIDE DEF ended, begun
<1>5. Len(sessions) \in Nat BY <1>1
<1> QED BY <1>2, <1>3, <1>4, <1>5, Appended

\* The sessions of the browser change alone.
LEMMA SessionsChange ==
  ASSUME GoogleInv, sessions' \in Seq([user : Returning!User, good : BOOLEAN]),
         Len(sessions') >= Len(sessions), browser' \in 0..Len(sessions'),
         UNCHANGED <<clock, attempt, cookie, linked, callback, entries>>
  PROVE  GoogleInv'
<1>1. GoogleTypes'
  <2>1. \A r \in Callback : callback[r] # Null => callback[r].session \in Nat
    BY DEF GoogleInv, GoogleTypes, Callbacks
  <2>2. sessions \in Seq([user : Returning!User, good : BOOLEAN])
    BY DEF GoogleInv, GoogleTypes, Returning!TypeOK
  <2>3. \A r \in Callback : callback[r] # Null => callback[r].session <= Len(sessions')
    BY <2>1, <2>2 DEF GoogleInv, GoogleTypes
  <2> QED BY <2>3 DEF GoogleInv, GoogleTypes, Returning!TypeOK
<1> QED BY <1>1 DEF GoogleInv, OneClaim, Claims, EntriesAreUsed, Returning!EntersOnce,
  Returning!EntersAsItself, Returning!Spare

LEMMA GoogleSessions ==
  ASSUME GoogleInv, \/ \E u \in Returning!User : Returning!OtherSignIn(u)
                    \/ Returning!SignOut
  PROVE  GoogleInv'
<1>1. CASE \E u \in Returning!User : Returning!OtherSignIn(u)
  <2>1. PICK u \in Returning!User : Returning!OtherSignIn(u) BY <1>1
  <2>2. /\ sessions' \in Seq([user : Returning!User, good : BOOLEAN])
        /\ Len(sessions') = Len(sessions) + 1 /\ browser' \in 0..Len(sessions')
    BY <2>1, SessionBegins DEF GoogleInv, Returning!OtherSignIn
  <2>3. Len(sessions) \in Nat BY DEF GoogleInv, GoogleTypes, Returning!TypeOK
  <2>4. Len(sessions') >= Len(sessions) BY <2>2, <2>3
  <2> QED BY <2>1, <2>2, <2>4, SessionsChange DEF Returning!OtherSignIn
<1>2. CASE Returning!SignOut
  <2>1. /\ sessions \in Seq([user : Returning!User, good : BOOLEAN])
        /\ browser \in 1..Len(sessions)
    BY <1>2 DEF GoogleInv, GoogleTypes, Returning!TypeOK, Returning!SignOut, Returning!Good
  <2>2. /\ sessions' \in Seq([user : Returning!User, good : BOOLEAN])
        /\ Len(sessions') = Len(sessions) /\ browser' = 0
    <3>1. sessions[browser] \in [user : Returning!User, good : BOOLEAN]
      BY <2>1, Sessions DEF GoogleInv
    <3> DEFINE ended == [sessions[browser] EXCEPT !.good = FALSE]
    <3>2. ended \in [user : Returning!User, good : BOOLEAN] BY <3>1
    <3>3. sessions' = [sessions EXCEPT ![browser] = ended] /\ browser' = 0
      BY <1>2 DEF Returning!SignOut
    <3> HIDE DEF ended
    <3> QED BY <2>1, <3>2, <3>3, Replaced
  <2>3. Len(sessions') >= Len(sessions) /\ browser' \in 0..Len(sessions')
    BY <2>1, <2>2
  <2> QED BY <1>2, <2>2, <2>3, SessionsChange DEF Returning!SignOut
<1> QED BY <1>1, <1>2

LEMMA GooglePages ==
  ASSUME GoogleInv, Returning!Tick \/ Returning!Cancel
  PROVE  GoogleInv'
<1>1. GoogleTypes'
  BY GoogleAssumption DEF GoogleInv, GoogleTypes, Returning!TypeOK, Returning!Tick,
    Returning!Cancel, Returning!signedIn
<1> QED BY <1>1 DEF GoogleInv, OneClaim, Claims, EntriesAreUsed, Returning!EntersOnce,
  Returning!EntersAsItself, Returning!Spare, Returning!Tick, Returning!Cancel,
  Returning!signedIn

\* The callbacks that end, or go on without a claim.
LEMMA GoogleCallbacks ==
  ASSUME GoogleInv, NEW r \in Callback,
         \/ \E a \in Attempt, g \in Account : Returning!Come(r, a, g)
         \/ Returning!Exchange(r) \/ Returning!ExchangeFails(r)
         \/ Returning!ApplyFails(r) \/ Returning!Die(r)
  PROVE  GoogleInv'
<1>1. CASE \E a \in Attempt, g \in Account : Returning!Come(r, a, g)
  <2>1. PICK a \in Attempt, g \in Account : Returning!Come(r, a, g) BY <1>1
  <2> DEFINE q == [of |-> a, as |-> g, session |-> browser, at |-> "came"]
  <2>2. CASE Returning!Expected(a)
    <3>1. /\ q \in Callbacks /\ q.session <= Len(sessions) /\ q.of = a /\ q.at = "came"
      BY DEF GoogleInv, GoogleTypes, Returning!TypeOK, Callbacks
    <3>2. /\ callback' = [callback EXCEPT ![r] = q] /\ attempt[a] # Null
          /\ UNCHANGED <<clock, attempt, cookie, sessions, browser, linked, entries>>
      BY <2>1, <2>2 DEF Returning!Come, Returning!signedIn
    <3> HIDE DEF q
    <3> QED BY <3>1, <3>2, CallbackGoesOn
  <2>3. CASE ~Returning!Expected(a)
    BY <2>1, <2>3, CallbackEnds DEF Returning!Come, Returning!signedIn, Returning!Answer
  <2> QED BY <2>2, <2>3
<1>2. CASE Returning!Exchange(r)
  <2> DEFINE q == [callback[r] EXCEPT !.at = "proven"]
  <2>1. callback[r] \in Callbacks /\ callback[r].at = "claimed"
    BY <1>2 DEF GoogleInv, GoogleTypes, Returning!Exchange, Returning!At
  <2>2. q \in Callbacks /\ q.of = callback[r].of /\ q.session = callback[r].session
    BY <2>1 DEF Callbacks
  <2>3. /\ attempt[q.of] # Null /\ q.session <= Len(sessions) /\ Claims(r)
    BY <1>2, <2>1, <2>2 DEF GoogleInv, GoogleTypes, Returning!TypeOK, Claims,
      Returning!Exchange, Returning!At
  <2>4. /\ callback' = [callback EXCEPT ![r] = q]
        /\ UNCHANGED <<clock, attempt, cookie, sessions, browser, linked, entries>>
    BY <1>2 DEF Returning!Exchange, Returning!Onward, Returning!signedIn
  <2> HIDE DEF q
  <2> QED BY <2>2, <2>3, <2>4, CallbackGoesOn
<1>3. CASE Returning!ExchangeFails(r) \/ Returning!ApplyFails(r) \/ Returning!Die(r)
  BY <1>3, CallbackEnds DEF Returning!ExchangeFails, Returning!ApplyFails, Returning!Die,
    Returning!Answer, Returning!signedIn
<1> QED BY <1>1, <1>2, <1>3

LEMMA GoogleClaims ==
  ASSUME GoogleInv, NEW r \in Callback, Returning!Claim(r)
  PROVE  GoogleInv'
<1> DEFINE a == callback[r].of
           q == [callback[r] EXCEPT !.at = "claimed"]
<1>1. callback[r] \in Callbacks /\ a \in Attempt /\ attempt[a] \in Attempts
  BY DEF GoogleInv, GoogleTypes, Returning!TypeOK, Returning!Claim, Returning!At, Callbacks
<1>2. CASE ~Returning!Claimable(a)
  BY <1>2, CallbackEnds DEF Returning!Claim, Returning!Answer, Returning!signedIn
<1>3. CASE Returning!Claimable(a)
  <2>1. /\ attempt' = [attempt EXCEPT ![a].used = TRUE] /\ ~attempt[a].used
        /\ callback' = [callback EXCEPT ![r] = q]
        /\ UNCHANGED <<clock, cookie, sessions, browser, linked, entries>>
    BY <1>3 DEF Returning!Claim, Returning!Onward, Returning!signedIn, Returning!Claimable
  <2>2. /\ attempt' \in [Attempt -> Attempts \cup {Null}]
        /\ attempt'[a] \in Attempts /\ attempt'[a].used /\ attempt'[a].user = attempt[a].user
        /\ \A b \in Attempt : b # a => attempt'[b] = attempt[b]
    BY <1>1, <2>1 DEF GoogleInv, GoogleTypes, Attempts
  <2>3. q \in Callbacks /\ q.of = a /\ q.session = callback[r].session
    BY <1>1 DEF Callbacks
  <2>4. /\ callback' \in [Callback -> Callbacks \cup {Null}] /\ callback'[r] = q
        /\ \A p \in Callback : p # r => callback'[p] = callback[p]
    BY <2>1, <2>3 DEF GoogleInv, GoogleTypes
  <2>5. attempt'[a] # Null /\ callback[r] # Null
    BY <1>1, <2>2, GoogleAssumption
  <2>6. GoogleTypes'
    <3> HIDE DEF q
    <3>1. \A p \in Callback : callback'[p] # Null =>
            callback'[p].session <= Len(sessions) /\ attempt'[callback'[p].of] # Null
      BY <2>2, <2>3, <2>4, <2>5 DEF GoogleInv, GoogleTypes, Returning!TypeOK, Callbacks
    <3> QED BY <2>1, <2>2, <2>4, <3>1 DEF GoogleInv, GoogleTypes, Returning!TypeOK
  <2>7. OneClaim'
    <3>1. \A p \in Callback : p # r /\ Claims(p)' =>
            /\ Claims(p) /\ callback'[p] = callback[p] /\ callback[p].of # a
            /\ attempt'[callback[p].of].used
      BY <2>1, <2>2, <2>4, <1>1 DEF GoogleInv, OneClaim, Claims, GoogleTypes, Callbacks
    <3>2. \A e \in entries : e.of # a
      BY <2>1 DEF GoogleInv, EntriesAreUsed
    <3> HIDE DEF q
    <3> QED BY <3>1, <3>2, <2>1, <2>2, <2>3, <2>4 DEF GoogleInv, OneClaim
  <2>8. EntriesAreUsed' /\ Returning!EntersAsItself' /\ Returning!EntersOnce'
    <3>1. \A e \in entries : e.of # a /\ attempt'[e.of] = attempt[e.of]
      BY <2>1, <2>2 DEF GoogleInv, GoogleTypes, EntriesAreUsed
    <3> QED BY <2>1, <3>1 DEF GoogleInv, EntriesAreUsed, Returning!EntersOnce,
      Returning!EntersAsItself, Returning!Spare
  <2> QED BY <2>6, <2>7, <2>8 DEF GoogleInv
<1> QED BY <1>2, <1>3

LEMMA GoogleApplies ==
  ASSUME GoogleInv, NEW r \in Callback, Returning!Apply(r)
  PROVE  GoogleInv'
<1> DEFINE q == callback[r]
           u == Returning!Comer(r)
           new == [of |-> q.of, as |-> q.as, user |-> u]
<1>1. /\ q \in Callbacks /\ Claims(r) /\ q.of \in Attempt /\ q.as \in Account
      /\ attempt[q.of] \in Attempts /\ q.session \in Nat
  BY DEF GoogleInv, GoogleTypes, Returning!TypeOK, Returning!Apply, Returning!At, Callbacks,
    Claims
<1>2. /\ attempt[q.of].user # Null =>
           /\ q.session \in 1..Len(sessions) /\ sessions[q.session].user = attempt[q.of].user
           /\ u = attempt[q.of].user /\ linked[q.as] \in {Null, u}
      /\ attempt[q.of].user = Null => u = IF linked[q.as] # Null THEN linked[q.as] ELSE Home[q.as]
  <2>1. attempt[q.of].user # Null => Returning!Connectable(r)
    BY DEF Returning!Apply
  <2>2. q.session <= Len(sessions) /\ Len(sessions) \in Nat
    BY <1>1 DEF Claims, GoogleInv, GoogleTypes, Returning!TypeOK
  <2> QED BY <1>1, <2>1, <2>2 DEF Returning!Connectable, Returning!Comer, Returning!Good
<1>3. u \in Returning!User
  BY <1>1, <1>2 DEF GoogleInv, GoogleTypes, Returning!TypeOK, Attempts, Returning!User
<1>4. /\ linked' = [linked EXCEPT ![q.as] = u] /\ entries' = entries \cup {new}
      /\ callback' = [callback EXCEPT ![r] = Null] /\ cookie' = Null
      /\ UNCHANGED <<clock, attempt>> /\ Returning!Spare(u, q.as)
      /\ \/ UNCHANGED <<sessions, browser>> \/ Returning!Enter(u, q.session)
  BY DEF Returning!Apply, Returning!Answer
<1> HIDE DEF u
<1>5. /\ linked' \in [Account -> Returning!User \cup {Null}] /\ linked'[q.as] = u
      /\ \A h \in Account : h # q.as => linked'[h] = linked[h]
  BY <1>1, <1>3, <1>4 DEF GoogleInv, GoogleTypes, Returning!TypeOK
<1>6. /\ callback' \in [Callback -> Callbacks \cup {Null}]
      /\ \A p \in Callback : callback'[p] # Null => p # r /\ callback'[p] = callback[p]
  BY <1>4 DEF GoogleInv, GoogleTypes
<1>7. /\ sessions' \in Seq([user : Returning!User, good : BOOLEAN])
      /\ Len(sessions') \in Nat /\ Len(sessions') >= Len(sessions)
      /\ browser' \in 0..Len(sessions')
  <2>1. CASE UNCHANGED <<sessions, browser>>
    BY <2>1 DEF GoogleInv, GoogleTypes, Returning!TypeOK
  <2>2. CASE Returning!Enter(u, q.session)
    <3>1. /\ sessions' \in Seq([user : Returning!User, good : BOOLEAN])
          /\ Len(sessions') = Len(sessions) + 1 /\ browser' \in 0..Len(sessions')
      BY <1>3, <2>2, SessionBegins DEF GoogleInv
    <3>2. Len(sessions) \in Nat BY DEF GoogleInv, GoogleTypes, Returning!TypeOK
    <3> QED BY <3>1, <3>2
  <2> QED BY <1>4, <2>1, <2>2
<1>8. GoogleTypes'
  <2>1. \A p \in Callback : callback'[p] # Null =>
          /\ callback'[p].session <= Len(sessions') /\ attempt[callback'[p].of] # Null
    <3>1. \A p \in Callback : callback[p] # Null => callback[p].session \in Nat
      BY DEF GoogleInv, GoogleTypes, Callbacks
    <3>2. Len(sessions) \in Nat BY DEF GoogleInv, GoogleTypes, Returning!TypeOK
    <3> QED BY <1>6, <1>7, <3>1, <3>2 DEF GoogleInv, GoogleTypes, Returning!TypeOK
  <2>2. new \in [of : Attempt, as : Account, user : Returning!User]
    BY <1>1, <1>3
  <2>3. entries' \subseteq [of : Attempt, as : Account, user : Returning!User]
    BY <1>4, <2>2 DEF GoogleInv, GoogleTypes
  <2> QED BY <1>4, <1>5, <1>6, <1>7, <2>1, <2>3 DEF GoogleInv, GoogleTypes, Returning!TypeOK
<1>9. attempt[q.of].used /\ \A e \in entries : e.of # q.of
  BY <1>1 DEF GoogleInv, OneClaim
<1>10. OneClaim'
  <2>1. \A p \in Callback : Claims(p)' =>
          Claims(p) /\ p # r /\ callback'[p] = callback[p] /\ callback[p].of # q.of
    BY <1>1, <1>6 DEF Claims, GoogleInv, OneClaim
  <2> QED BY <1>4, <2>1 DEF GoogleInv, OneClaim
<1>11. EntriesAreUsed'
  BY <1>1, <1>4, <1>9, GoogleAssumption DEF GoogleInv, EntriesAreUsed
<1>12. Returning!EntersOnce'
  BY <1>4, <1>9 DEF GoogleInv, Returning!EntersOnce
<1>13. Returning!EntersAsItself'
  <2>1. \A e \in entries : linked'[e.as] = e.user /\ Returning!Spare(e.user, e.as)'
    <3> SUFFICES ASSUME NEW e \in entries
                 PROVE  linked'[e.as] = e.user /\ Returning!Spare(e.user, e.as)'
      OBVIOUS
    <3>1. /\ e.as \in Account /\ e.user \in Returning!User /\ linked[e.as] = e.user
          /\ Returning!Spare(e.user, e.as)
      BY DEF GoogleInv, GoogleTypes, Returning!EntersAsItself
    <3>2. CASE e.as = q.as
      <4>1. u = e.user BY <1>2, <3>1, <3>2, GoogleAssumption
      <4> QED BY <1>5, <3>1, <3>2, <4>1 DEF Returning!Spare
    <3>3. CASE e.as # q.as
      <4>1. u # e.user BY <1>4, <3>1, <3>3 DEF Returning!Spare
      <4> QED BY <1>5, <3>1, <3>3, <4>1 DEF Returning!Spare
    <3> QED BY <3>2, <3>3
  <2>2. /\ attempt[new.of].user \in {Null, new.user} /\ linked'[new.as] = new.user
        /\ \A h \in Account \ {new.as} : linked'[h] # new.user
    BY <1>1, <1>2, <1>4, <1>5 DEF Returning!Spare, Attempts
  <2>3. \A e \in entries : attempt[e.of].user \in {Null, e.user}
    BY DEF GoogleInv, Returning!EntersAsItself
  <2> HIDE DEF new
  <2> QED BY <1>4, <2>1, <2>2, <2>3 DEF Returning!EntersAsItself, Returning!Spare
<1> QED BY <1>8, <1>10, <1>11, <1>12, <1>13 DEF GoogleInv

LEMMA GoogleNext ==
  ASSUME GoogleInv, [Returning!Next]_googleVars
  PROVE  GoogleInv'
<1>1. CASE UNCHANGED googleVars
  BY <1>1 DEF googleVars, GoogleInv, GoogleTypes, OneClaim, Claims, EntriesAreUsed,
    Returning!TypeOK, Returning!EntersOnce, Returning!EntersAsItself, Returning!Spare
<1>2. CASE Returning!Next
  BY <1>2, GoogleBegins, GoogleSessions, GooglePages, GoogleCallbacks, GoogleClaims,
    GoogleApplies DEF Returning!Next
<1> QED BY <1>1, <1>2

-----------------------------------------------------------------------------
(* The second factor.                                                      *)

FactorTypes ==
  /\ Proving!TypeOK /\ time \in 1..MaxTime
  /\ request \in [Session -> Requests \cup {Null}]
  /\ app \subseteq 1..secrets

\* Sessions whose request goes on to compare a code.
Trying == {s \in Session : request[s] \in Matching \cup Claiming}

\* Codes that were accepted are behind the last step, or of a secret that the app
\* has no more; so are those that are tried: of a secret it has.
CodesAreBehind ==
  \A i \in DOMAIN codes :
    /\ codes[i].secret \in 1..secrets
    /\ codes[i].secret \in app => codes[i].step <= user.last

TriesAreKnown ==
  /\ \A s \in Trying : request[s].code.secret \in app \cup {Null}
  /\ \A s \in Session : request[s] \in Claiming /\ request[s].step # 0 =>
       request[s].code.secret = request[s].secret /\ request[s].code.step = request[s].step

\* Each request that goes on was let in below the limit.
Counted == {i \in DOMAIN wrong : wrong[i] + Window > time}
TriesAreFew == Cardinality(Counted) + Cardinality(Trying) < Limit + Cardinality(Session)

\* While no authenticator is set up, who has proven one has proven a former one.
ProvenWithTheApp ==
  /\ \A s \in Session : proven[s] # Null =>
       s \in excused \/ (user.enabled /\ proof[s] = user.secret)
  /\ \A s \in Session : request[s] # Null /\ request[s].at = "prove" =>
       user.enabled /\ (s \in excused \/ request[s].secret = user.secret)

FactorInv ==
  /\ FactorTypes /\ CodesAreBehind /\ TriesAreKnown /\ TriesAreFew /\ ProvenWithTheApp
  /\ Proving!NoReplay

\* What a request goes on to do tells what it remembers.
LEMMA RequestKinds ==
  ASSUME NEW q \in Requests
  PROVE  /\ q.at = "match" <=> q \in Matching
         /\ q.at = "claim" <=> q \in Claiming
         /\ q.at = "prove" <=> q \in [at : {"prove"}, secret : Proving!Secret]
         /\ q \in Matching => q.code \in Proving!Code
         /\ q \in Claiming => /\ q.code \in Proving!Code /\ q.secret \in Proving!Secret
                              /\ q.step \in 0..(MaxTime + 1)
BY DEF Requests, Matching, Claiming

LEMMA Numbers ==
  ASSUME FactorTypes
  PROVE  /\ Cardinality(Session) \in Nat
         /\ IsFiniteSet(Trying) /\ Cardinality(Trying) \in Nat
         /\ Cardinality(Trying) <= Cardinality(Session)
         /\ IsFiniteSet(Counted) /\ Cardinality(Counted) \in Nat
         /\ Proving!Recent = Cardinality(Counted)
<1>1. Trying \in SUBSET Session BY DEF Trying
<1>2. Len(wrong) \in Nat /\ DOMAIN wrong = 1..Len(wrong)
  BY DEF FactorTypes, Proving!TypeOK
<1>3. IsFiniteSet(1..Len(wrong)) BY <1>2, FS_Interval
<1>4. Counted \in SUBSET (1..Len(wrong)) BY <1>2 DEF Counted
<1>5. \A S : Proving!Cardinality(S) = Cardinality(S)
  BY DEF Proving!Cardinality, Cardinality
<1>6. Proving!Recent = Cardinality(Counted) BY <1>5 DEF Proving!Recent, Counted
<1> QED BY <1>1, <1>3, <1>4, <1>6, FactorAssumption, FS_CardinalityType, FS_Subset

\* As many tries, or fewer, and no more mistakes.
LEMMA NoMoreTries ==
  ASSUME FactorInv, FactorTypes', Trying' \subseteq Trying, Counted' \subseteq Counted
  PROVE  TriesAreFew'
<1>1. Cardinality(Trying') <= Cardinality(Trying) /\ Cardinality(Trying') \in Nat
  BY Numbers, FS_Subset, FS_CardinalityType DEF FactorInv
<1>2. Cardinality(Counted') <= Cardinality(Counted) /\ Cardinality(Counted') \in Nat
  BY Numbers, FS_Subset, FS_CardinalityType DEF FactorInv
<1> QED BY <1>1, <1>2, Numbers, FactorAssumption DEF FactorInv, TriesAreFew

LEMMA FactorInit == Proving!Init => FactorInv
<1> SUFFICES ASSUME Proving!Init PROVE FactorInv OBVIOUS
<1>1. FactorTypes
  BY FactorAssumption DEF Proving!Init, FactorTypes, Proving!TypeOK, Proving!NoAuthenticator,
    Proving!Secret
<1>2. Trying = {} /\ Counted = {}
  BY FactorAssumption DEF Proving!Init, Trying, Counted, Requests
<1>3. TriesAreFew
  BY <1>1, <1>2, Numbers, FS_EmptySet, FactorAssumption DEF TriesAreFew
<1>4. Proving!NoReplay /\ CodesAreBehind
  BY DEF Proving!Init, Proving!NoReplay, Proving!IsInjective, CodesAreBehind
<1>5. TriesAreKnown
  BY <1>2, FactorAssumption DEF Proving!Init, TriesAreKnown, Requests
<1>6. ProvenWithTheApp BY DEF Proving!Init, ProvenWithTheApp
<1> QED BY <1>1, <1>3, <1>4, <1>5, <1>6 DEF FactorInv

\* The pages, and setting up is begun.
LEMMA FactorVisits ==
  ASSUME FactorInv, NEW s \in Session, Proving!Visit(s) \/ Proving!EnrolRead(s)
  PROVE  FactorInv'
<1> DEFINE store == [at |-> "store"]
<1>1. CASE Proving!Visit(s)
  <2>1. FactorTypes'
    BY <1>1 DEF FactorInv, FactorTypes, Proving!TypeOK, Proving!Visit
  <2>2. Trying' = Trying /\ Counted' = Counted
    BY <1>1 DEF Trying, Counted, Proving!Visit
  <2>3. TriesAreFew' BY <2>1, <2>2, NoMoreTries
  <2>4. CodesAreBehind' /\ ProvenWithTheApp' /\ Proving!NoReplay'
    BY <1>1 DEF FactorInv, CodesAreBehind, ProvenWithTheApp, Proving!NoReplay, Proving!Visit,
      Proving!IsInjective
  <2>5. TriesAreKnown' BY <1>1, <2>2 DEF FactorInv, TriesAreKnown, Proving!Visit
  <2> QED BY <2>1, <2>3, <2>4, <2>5 DEF FactorInv
<1>2. CASE Proving!EnrolRead(s)
  <2>1. /\ request' = [request EXCEPT ![s] = store] /\ store \in Requests
        /\ store \notin Matching /\ store \notin Claiming /\ store.at = "store"
        /\ UNCHANGED <<user, proven, wrong, page, secrets, app, time, codes, proof, excused>>
    BY <1>2 DEF Proving!EnrolRead, Requests, Matching, Claiming
  <2> HIDE DEF store
  <2>2. /\ request' \in [Session -> Requests \cup {Null}] /\ request'[s] = store
        /\ \A p \in Session : p # s => request'[p] = request[p]
    BY <2>1 DEF FactorInv, FactorTypes
  <2>3. FactorTypes'
    BY <2>1, <2>2 DEF FactorInv, FactorTypes, Proving!TypeOK
  <2>4. Trying' \subseteq Trying /\ Counted' = Counted
    BY <2>1, <2>2 DEF Trying, Counted
  <2>5. TriesAreFew' BY <2>3, <2>4, NoMoreTries
  <2>6. CodesAreBehind' /\ Proving!NoReplay'
    BY <2>1 DEF FactorInv, CodesAreBehind, Proving!NoReplay, Proving!IsInjective
  <2>7. ProvenWithTheApp'
    BY <2>1, <2>2 DEF FactorInv, ProvenWithTheApp
  <2>8. TriesAreKnown' BY <2>1, <2>2, <2>4 DEF FactorInv, TriesAreKnown, Trying
  <2> QED BY <2>3, <2>5, <2>6, <2>7, <2>8 DEF FactorInv
<1> QED BY <1>1, <1>2

LEMMA FactorStores ==
  ASSUME FactorInv, NEW s \in Session, Proving!Store(s)
  PROVE  FactorInv'
<1>1. /\ request' \in [Session -> Requests \cup {Null}] /\ request'[s] = Null
      /\ \A p \in Session : p # s => request'[p] = request[p]
  BY DEF FactorInv, FactorTypes, Proving!Store
<1>2. /\ secrets' = secrets + 1 /\ app' = app \cup {secrets + 1} /\ secrets \in Nat
      /\ secrets + 1 \in Proving!Secret
      /\ UNCHANGED <<proven, wrong, time, codes, proof, excused>>
  BY FactorAssumption DEF FactorInv, FactorTypes, Proving!TypeOK, Proving!Store, Proving!Secret
<1>3. /\ user' \in [secret : Proving!Secret \cup {Null}, enabled : BOOLEAN, last : 0..(MaxTime + 1)]
      /\ user'.last = user.last /\ user'.enabled = user.enabled
      /\ user.enabled => user' = user
  BY <1>2 DEF FactorInv, FactorTypes, Proving!TypeOK, Proving!Store
<1>4. FactorTypes'
  <2>1. page' \in [Session -> {"checking", "enrol", "setup", "verify", "ok"}]
    BY DEF FactorInv, FactorTypes, Proving!TypeOK, Proving!Store
  <2>2. secrets' \in 0..MaxSecrets /\ app' \subseteq 1..secrets' /\ app' \subseteq Proving!Secret
    BY <1>2 DEF FactorInv, FactorTypes, Proving!TypeOK, Proving!Secret
  <2> QED BY <1>1, <1>2, <1>3, <2>1, <2>2 DEF FactorInv, FactorTypes, Proving!TypeOK
<1>5. /\ Trying' \subseteq Trying /\ \A p \in Trying' : p # s
      /\ Counted' = Counted
  BY <1>1, <1>2, FactorAssumption DEF Trying, Counted, Requests
<1>6. TriesAreFew' BY <1>4, <1>5, NoMoreTries
<1>7. CodesAreBehind' /\ Proving!NoReplay'
  BY <1>2, <1>3 DEF FactorInv, CodesAreBehind, Proving!NoReplay, Proving!IsInjective
<1>8. ProvenWithTheApp'
  BY <1>1, <1>2, <1>3 DEF FactorInv, ProvenWithTheApp
<1>9. TriesAreKnown'
  <2>1. \A p \in Session : request'[p] \in Claiming => p # s /\ request'[p] = request[p]
    BY <1>1, FactorAssumption DEF Requests
  <2>2. \A p \in Trying' : request'[p] = request[p] /\ p \in Trying
    BY <1>1, <1>5 DEF Trying
  <2>3. \A p \in Trying' : request'[p].code.secret \in app' \cup {Null}
    BY <1>2, <2>2 DEF FactorInv, TriesAreKnown
  <2> QED BY <2>1, <2>3 DEF FactorInv, TriesAreKnown
<1> QED BY <1>4, <1>6, <1>7, <1>8, <1>9 DEF FactorInv

LEMMA FactorSubmits ==
  ASSUME FactorInv, NEW s \in Session, NEW code \in Proving!Code, Proving!Submit(s, code)
  PROVE  FactorInv'
<1> DEFINE q == [at |-> "match", code |-> code]
<1>1. /\ q \in Matching /\ q \in Requests /\ q \notin Claiming /\ q.code = code /\ q.at = "match"
  BY DEF Matching, Claiming, Requests
<1>2. /\ request' = [request EXCEPT ![s] = q] /\ code.secret \in app \cup {Null}
      /\ ~Proving!Barred
      /\ UNCHANGED <<user, proven, wrong, page, secrets, app, time, codes, proof, excused>>
  BY DEF Proving!Submit, Proving!Typed
<1> HIDE DEF q
<1>3. /\ request' \in [Session -> Requests \cup {Null}] /\ request'[s] = q
      /\ \A p \in Session : p # s => request'[p] = request[p]
  BY <1>1, <1>2 DEF FactorInv, FactorTypes
<1>4. FactorTypes'
  BY <1>2, <1>3 DEF FactorInv, FactorTypes, Proving!TypeOK
<1>5. TriesAreFew'
  <2>1. Cardinality(Counted') < Limit
    <3>1. Counted' = Counted BY <1>2 DEF Counted
    <3> QED BY <1>2, <3>1, Numbers, FactorAssumption DEF FactorInv, Proving!Barred
  <2>2. /\ Cardinality(Trying') <= Cardinality(Session) /\ Cardinality(Trying') \in Nat
        /\ Cardinality(Counted') \in Nat
    <3>1. Trying' \in SUBSET Session BY DEF Trying
    <3>2. Counted' = Counted BY <1>2 DEF Counted
    <3> QED BY <3>1, <3>2, Numbers, FactorAssumption, FS_Subset, FS_CardinalityType DEF FactorInv
  <2>3. Cardinality(Session) \in Nat BY Numbers DEF FactorInv
  <2> QED BY <2>1, <2>2, <2>3, FactorAssumption DEF TriesAreFew
<1>6. CodesAreBehind' /\ Proving!NoReplay'
  BY <1>2 DEF FactorInv, CodesAreBehind, Proving!NoReplay, Proving!IsInjective
<1>7. ProvenWithTheApp'
  BY <1>1, <1>2, <1>3 DEF FactorInv, ProvenWithTheApp
<1>8. TriesAreKnown'
  BY <1>1, <1>2, <1>3 DEF FactorInv, TriesAreKnown, Trying
<1> QED BY <1>4, <1>5, <1>6, <1>7, <1>8 DEF FactorInv

LEMMA FactorMatches ==
  ASSUME FactorInv, NEW s \in Session, Proving!Match(s)
  PROVE  FactorInv'
<1> DEFINE r == request[s]
           q == [at |-> "claim", code |-> r.code, secret |-> user.secret,
                 step |-> Proving!StepOf(user.secret, r.code)]
<1>1. r \in Matching /\ r.code \in Proving!Code /\ r # Null
  BY RequestKinds DEF FactorInv, FactorTypes, Proving!Match
<1>2. UNCHANGED <<user, proven, wrong, page, secrets, app, time, codes, proof, excused>>
  BY DEF Proving!Match
<1>3. request' = [request EXCEPT ![s] = IF user.secret = Null THEN Null ELSE q]
  BY DEF Proving!Match
<1>4. user.secret # Null =>
        /\ q \in Claiming /\ q \in Requests /\ q.at = "claim" /\ q.code = r.code
        /\ q.step # 0 => q.code.secret = q.secret /\ q.code.step = q.step
  <2>1. /\ Proving!StepOf(user.secret, r.code) \in 0..(MaxTime + 1)
        /\ Proving!StepOf(user.secret, r.code) # 0 =>
             /\ r.code.secret = user.secret
             /\ r.code.step = Proving!StepOf(user.secret, r.code)
    BY <1>1, FactorAssumption DEF Proving!StepOf, Proving!Code
  <2>2. user.secret # Null => user.secret \in Proving!Secret
    BY DEF FactorInv, FactorTypes, Proving!TypeOK
  <2>3. user.secret # Null => q \in Claiming
    BY <1>1, <2>1, <2>2 DEF Claiming
  <2> QED BY <2>1, <2>3 DEF Requests
<1> HIDE DEF q
<1>5. /\ request' \in [Session -> Requests \cup {Null}]
      /\ request'[s] = IF user.secret = Null THEN Null ELSE q
      /\ \A p \in Session : p # s => request'[p] = request[p]
  BY <1>3, <1>4 DEF FactorInv, FactorTypes
<1>6. FactorTypes'
  BY <1>2, <1>5 DEF FactorInv, FactorTypes, Proving!TypeOK
<1>7. Trying' \subseteq Trying /\ Counted' = Counted /\ s \in Trying
  BY <1>1, <1>2, <1>5 DEF Trying, Counted
<1>8. TriesAreFew' BY <1>6, <1>7, NoMoreTries
<1>9. CodesAreBehind' /\ Proving!NoReplay'
  BY <1>2 DEF FactorInv, CodesAreBehind, Proving!NoReplay, Proving!IsInjective
<1>10. ProvenWithTheApp'
  BY <1>2, <1>4, <1>5 DEF FactorInv, ProvenWithTheApp
<1>11. TriesAreKnown'
  <2>1. s \in Trying' => user.secret # Null
    BY <1>5, FactorAssumption DEF Trying, Requests
  <2>2. Null \notin Claiming BY FactorAssumption DEF Requests
  <2>3. \A p \in Trying' : request'[p].code.secret \in app' \cup {Null}
    <3>1. s \in Trying' => request'[s].code.secret = r.code.secret
      BY <1>4, <1>5, <2>1
    <3>2. r.code.secret \in app \cup {Null}
      BY <1>7 DEF FactorInv, TriesAreKnown
    <3>3. \A p \in Trying' : p # s => request'[p] = request[p] /\ p \in Trying
      BY <1>5, <1>7 DEF Trying
    <3> QED BY <1>2, <3>1, <3>2, <3>3 DEF FactorInv, TriesAreKnown
  <2>4. ASSUME NEW p \in Session, request'[p] \in Claiming, request'[p].step # 0
        PROVE  /\ request'[p].code.secret = request'[p].secret
               /\ request'[p].code.step = request'[p].step
    BY <1>4, <1>5, <2>2, <2>4 DEF FactorInv, TriesAreKnown
  <2> QED BY <2>3, <2>4 DEF TriesAreKnown
<1> QED BY <1>6, <1>8, <1>9, <1>10, <1>11 DEF FactorInv

\* A code that is accepted is of the app's, and of a later step than those before.
LEMMA FactorClaims ==
  ASSUME FactorInv, NEW s \in Session, Proving!Claim(s)
  PROVE  FactorInv'
<1> DEFINE r == request[s]
           q == [at |-> "prove", secret |-> r.secret]
<1>1. /\ r \in Claiming /\ r.code \in Proving!Code /\ r.secret \in Proving!Secret
      /\ r.step \in 0..(MaxTime + 1) /\ r # Null /\ r.at = "claim" /\ s \in Trying
  BY RequestKinds DEF FactorInv, FactorTypes, Proving!Claim, Trying
<1>2. UNCHANGED <<proven, page, secrets, app, time, proof>>
  BY DEF Proving!Claim
<1>3. Null \notin Claiming /\ Null \notin Matching
  BY FactorAssumption DEF Requests
<1>4. CASE Proving!Claimable(r)
  <2>1. /\ user' = [user EXCEPT !.last = r.step, !.enabled = TRUE]
        /\ codes' = Append(codes, r.code) /\ request' = [request EXCEPT ![s] = q]
        /\ excused' = IF r.secret = user.secret THEN excused ELSE Session
        /\ wrong' = wrong
    BY <1>1, <1>4 DEF Proving!Claim
  <2>2. /\ r.step # 0 /\ user.last < r.step /\ r.code.secret = r.secret /\ r.code.step = r.step
        /\ r.secret \in app
    <3>1. r.step # 0 /\ user.last < r.step BY <1>4 DEF Proving!Claimable
    <3>2. r.code.secret = r.secret /\ r.code.step = r.step
      BY <1>1, <3>1 DEF FactorInv, TriesAreKnown
    <3>3. r.code.secret \in app \cup {Null} BY <1>1 DEF FactorInv, TriesAreKnown
    <3> QED BY <1>1, <3>1, <3>2, <3>3, FactorAssumption
  <2>3. q \in Requests /\ q \notin Claiming /\ q \notin Matching /\ q.at = "prove"
        /\ q.secret = r.secret
    BY <1>1 DEF Requests, Matching, Claiming
  <2> HIDE DEF q
  <2>4. /\ request' \in [Session -> Requests \cup {Null}] /\ request'[s] = q
        /\ \A p \in Session : p # s => request'[p] = request[p]
    BY <2>1, <2>3 DEF FactorInv, FactorTypes
  <2>5. /\ user' \in [secret : Proving!Secret \cup {Null}, enabled : BOOLEAN, last : 0..(MaxTime + 1)]
        /\ user'.last = r.step /\ user'.enabled /\ user'.secret = user.secret
    BY <1>1, <2>1 DEF FactorInv, FactorTypes, Proving!TypeOK
  <2>6. codes \in Seq(Proving!Code) BY DEF FactorInv, FactorTypes, Proving!TypeOK
  <2>7. FactorTypes'
    <3>1. codes' \in Seq(Proving!Code) BY <1>1, <2>1, <2>6, Appended
    <3>2. excused' \subseteq Session
      BY <2>1 DEF FactorInv, FactorTypes, Proving!TypeOK
    <3> QED BY <1>2, <2>1, <2>4, <2>5, <3>1, <3>2 DEF FactorInv, FactorTypes, Proving!TypeOK
  <2>8. /\ Trying' \subseteq Trying /\ Counted' = Counted /\ \A p \in Trying' : p # s
    BY <1>2, <2>1, <2>3, <2>4 DEF Trying, Counted
  <2>9. TriesAreFew' BY <2>7, <2>8, NoMoreTries
  <2>10. /\ DOMAIN codes' = 1..(Len(codes) + 1) /\ Len(codes) \in Nat
         /\ DOMAIN codes = 1..Len(codes)
         /\ \A i \in 1..Len(codes) : codes'[i] = codes[i] /\ codes[i] \in Proving!Code
         /\ codes'[Len(codes) + 1] = r.code
    <3>1. codes' \in Seq(Proving!Code) /\ Len(codes') = Len(codes) + 1
          /\ (\A i \in 1..Len(codes) : codes'[i] = codes[i])
          /\ codes'[Len(codes) + 1] = r.code
      BY <1>1, <2>1, <2>6, Appended
    <3>2. DOMAIN codes' = 1..Len(codes') BY <3>1, Elements
    <3>3. DOMAIN codes = 1..Len(codes) /\ Len(codes) \in Nat
          /\ \A i \in 1..Len(codes) : codes[i] \in Proving!Code
      BY <2>6, Elements
    <3> QED BY <3>1, <3>2, <3>3
  <2>11. \A i \in 1..Len(codes) :
           /\ codes[i].secret \in 1..secrets
           /\ codes[i].secret \in app => codes[i].step <= user.last
    BY <2>10 DEF FactorInv, CodesAreBehind
  <2>12. user.last \in Nat /\ r.step \in Nat /\ \A i \in 1..Len(codes) : codes[i].step \in Nat
    BY <1>1, <2>10, FactorAssumption DEF FactorInv, FactorTypes, Proving!TypeOK, Proving!Code
  <2>13. CodesAreBehind'
    <3>1. ASSUME NEW i \in 1..(Len(codes) + 1)
          PROVE  /\ codes'[i].secret \in 1..secrets
                 /\ codes'[i].secret \in app => codes'[i].step <= r.step
      <4>1. CASE i = Len(codes) + 1
        <5>1. codes'[i] = r.code BY <2>10, <4>1
        <5>2. r.code.secret \in 1..secrets BY <2>2 DEF FactorInv, FactorTypes
        <5> QED BY <2>2, <2>12, <5>1, <5>2
      <4>2. CASE i \in 1..Len(codes)
        BY <2>2, <2>10, <2>11, <2>12, <4>2
      <4> QED BY <2>10, <4>1, <4>2
    <3> QED BY <1>2, <2>5, <2>10, <3>1 DEF CodesAreBehind
  <2>14. Proving!NoReplay'
    <3>1. \A i \in 1..Len(codes) : codes[i] # r.code
      BY <2>2, <2>11, <2>12
    <3>2. \A i, j \in 1..Len(codes) : codes[i] = codes[j] => i = j
      BY <2>10 DEF FactorInv, Proving!NoReplay, Proving!IsInjective
    <3>3. \A i \in 1..(Len(codes) + 1) : i \in 1..Len(codes) \/ i = Len(codes) + 1
      BY <2>10
    <3>4. \A i, j \in 1..(Len(codes) + 1) : codes'[i] = codes'[j] => i = j
      BY <2>10, <3>1, <3>2, <3>3
    <3> QED BY <2>10, <3>4 DEF Proving!NoReplay, Proving!IsInjective
  <2>15. ProvenWithTheApp'
    <3>1. excused \subseteq Session BY DEF FactorInv, FactorTypes, Proving!TypeOK
    <3> QED BY <1>2, <2>1, <2>3, <2>4, <2>5, <3>1 DEF FactorInv, ProvenWithTheApp
  <2>16. TriesAreKnown'
    <3>1. \A p \in Trying' : request'[p] = request[p] /\ p \in Trying
      BY <2>4, <2>8 DEF Trying
    <3>2. \A p \in Trying' : request'[p].code.secret \in app' \cup {Null}
      BY <1>2, <3>1 DEF FactorInv, TriesAreKnown
    <3> QED BY <2>3, <2>4, <3>2 DEF FactorInv, TriesAreKnown
  <2> QED BY <2>7, <2>9, <2>13, <2>14, <2>15, <2>16 DEF FactorInv
<1>5. CASE ~Proving!Claimable(r)
  <2>1. /\ wrong' = Append(wrong, time) /\ request' = [request EXCEPT ![s] = Null]
        /\ UNCHANGED <<user, codes, excused>>
    BY <1>1, <1>5 DEF Proving!Claim
  <2>2. /\ request' \in [Session -> Requests \cup {Null}] /\ request'[s] = Null
        /\ \A p \in Session : p # s => request'[p] = request[p]
    BY <2>1 DEF FactorInv, FactorTypes
  <2>3. /\ wrong' \in Seq(1..MaxTime) /\ wrong \in Seq(1..MaxTime)
        /\ Len(wrong') = Len(wrong) + 1
        /\ \A i \in 1..Len(wrong) : wrong'[i] = wrong[i]
    BY <2>1, Appended DEF FactorInv, FactorTypes, Proving!TypeOK
  <2>4. FactorTypes'
    BY <1>2, <2>1, <2>2, <2>3 DEF FactorInv, FactorTypes, Proving!TypeOK
  <2>5. Trying' = Trying \ {s}
    BY <1>3, <2>2 DEF Trying
  <2>6. Counted' \subseteq Counted \cup {Len(wrong) + 1}
    <3>1. DOMAIN wrong' = 1..(Len(wrong) + 1) /\ DOMAIN wrong = 1..Len(wrong) /\ Len(wrong) \in Nat
      BY <2>3, Elements
    <3> QED BY <1>2, <2>3, <3>1 DEF Counted
  <2>7. TriesAreFew'
    <3>1. /\ Cardinality(Trying') = Cardinality(Trying) - 1
      BY <1>1, <2>5, Numbers, FS_RemoveElement DEF FactorInv
    <3>2. /\ IsFiniteSet(Counted \cup {Len(wrong) + 1})
          /\ Cardinality(Counted \cup {Len(wrong) + 1}) <= Cardinality(Counted) + 1
      <4>1. IsFiniteSet(Counted) /\ Cardinality(Counted) \in Nat
        BY Numbers DEF FactorInv
      <4>2. ASSUME NEW x
            PROVE  /\ IsFiniteSet(Counted \cup {x})
                   /\ Cardinality(Counted \cup {x}) <= Cardinality(Counted) + 1
        <5> DEFINE C == Counted
        <5>1. IsFiniteSet(C) /\ Cardinality(C) \in Nat BY <4>1
        <5> HIDE DEF C
        <5>2. /\ IsFiniteSet(C \cup {x})
              /\ Cardinality(C \cup {x}) = IF x \in C THEN Cardinality(C) ELSE Cardinality(C) + 1
          BY <5>1, FS_AddElement
        <5>3. Cardinality(C \cup {x}) <= Cardinality(C) + 1 BY <5>1, <5>2
        <5> QED BY <5>2, <5>3 DEF C
      <4> QED BY <4>2
    <3>3. Cardinality(Counted') <= Cardinality(Counted \cup {Len(wrong) + 1})
          /\ Cardinality(Counted') \in Nat
          /\ Cardinality(Counted \cup {Len(wrong) + 1}) \in Nat
      BY <2>6, <3>2, FS_Subset, FS_CardinalityType
    <3> QED BY <3>1, <3>2, <3>3, Numbers, FactorAssumption DEF FactorInv, TriesAreFew
  <2>8. CodesAreBehind' /\ Proving!NoReplay'
    BY <1>2, <2>1 DEF FactorInv, CodesAreBehind, Proving!NoReplay, Proving!IsInjective
  <2>9. ProvenWithTheApp'
    BY <1>2, <2>1, <2>2 DEF FactorInv, ProvenWithTheApp
  <2>10. TriesAreKnown'
    <3>1. \A p \in Trying' : request'[p].code.secret \in app' \cup {Null}
      <4>1. \A p \in Trying' : p \in Trying /\ request'[p] = request[p]
        BY <2>2, <2>5 DEF Trying
      <4> QED BY <1>2, <4>1 DEF FactorInv, TriesAreKnown
    <3> QED BY <1>3, <2>2, <3>1 DEF FactorInv, TriesAreKnown
  <2> QED BY <2>4, <2>7, <2>8, <2>9, <2>10 DEF FactorInv
<1> QED BY <1>4, <1>5

LEMMA FactorProves ==
  ASSUME FactorInv, NEW s \in Session, Proving!Prove(s)
  PROVE  FactorInv'
<1> DEFINE r == request[s]
<1>1. /\ r \in Requests /\ r.secret \in Proving!Secret /\ r # Null /\ r.at = "prove"
  <2>1. r \in Requests /\ r # Null /\ r.at = "prove"
    BY DEF FactorInv, FactorTypes, Proving!Prove
  <2>2. r \in [at : {"prove"}, secret : Proving!Secret] BY <2>1, RequestKinds
  <2> QED BY <2>1, <2>2
<1>2. /\ proven' = [proven EXCEPT ![s] = time] /\ proof' = [proof EXCEPT ![s] = r.secret]
      /\ page' = [page EXCEPT ![s] = "ok"] /\ request' = [request EXCEPT ![s] = Null]
      /\ UNCHANGED <<user, wrong, secrets, app, time, codes, excused>>
  BY DEF Proving!Prove
<1>3. Null \notin Claiming /\ Null \notin Matching
  BY FactorAssumption DEF Requests
<1> HIDE DEF r
<1>4. /\ request' \in [Session -> Requests \cup {Null}] /\ request'[s] = Null
      /\ \A p \in Session : p # s => request'[p] = request[p]
  BY <1>2 DEF FactorInv, FactorTypes
<1>5. FactorTypes'
  BY <1>1, <1>2, <1>4 DEF FactorInv, FactorTypes, Proving!TypeOK
<1>6. Trying' \subseteq Trying /\ Counted' = Counted /\ s \notin Trying'
  BY <1>2, <1>3, <1>4 DEF Trying, Counted
<1>7. TriesAreFew' BY <1>5, <1>6, NoMoreTries
<1>8. CodesAreBehind' /\ Proving!NoReplay'
  BY <1>2 DEF FactorInv, CodesAreBehind, Proving!NoReplay, Proving!IsInjective
<1>9. ProvenWithTheApp'
  <2>1. s \in excused \/ (user.enabled /\ r.secret = user.secret)
    BY <1>1 DEF FactorInv, ProvenWithTheApp, r
  <2>2. proof'[s] = r.secret BY <1>2 DEF FactorInv, FactorTypes, Proving!TypeOK
  <2>3. \A p \in Session : p # s => proof'[p] = proof[p] /\ proven'[p] = proven[p]
    BY <1>2 DEF FactorInv, FactorTypes, Proving!TypeOK
  <2> QED BY <1>2, <1>4, <2>1, <2>2, <2>3 DEF FactorInv, ProvenWithTheApp
<1>10. TriesAreKnown'
  <2>1. \A p \in Trying' : request'[p].code.secret \in app' \cup {Null}
    BY <1>2, <1>4, <1>6 DEF FactorInv, TriesAreKnown
  <2> QED BY <1>3, <1>4, <2>1 DEF FactorInv, TriesAreKnown
<1> QED BY <1>5, <1>7, <1>8, <1>9, <1>10 DEF FactorInv

LEMMA FactorResets ==
  ASSUME FactorInv, Proving!Reset
  PROVE  FactorInv'
<1>1. /\ \A s \in Session : request[s] = Null
      /\ user' = Proving!NoAuthenticator /\ app' = {} /\ excused' = excused \cup {s \in Session : proven[s] # Null}
      /\ UNCHANGED <<proven, wrong, request, page, secrets, time, codes, proof>>
  BY DEF Proving!Reset
<1>2. Null \notin Claiming /\ Null \notin Matching
  BY FactorAssumption DEF Requests
<1>3. FactorTypes'
  <2>1. user' \in [secret : Proving!Secret \cup {Null}, enabled : BOOLEAN, last : 0..(MaxTime + 1)]
    <3>1. 0 \in 0..(MaxTime + 1) BY FactorAssumption
    <3>2. user' = [secret |-> Null, enabled |-> FALSE, last |-> 0]
      BY <1>1 DEF Proving!NoAuthenticator
    <3> QED BY <3>1, <3>2
  <2>2. app' \subseteq 1..secrets' /\ app' \subseteq Proving!Secret /\ excused' \subseteq Session
    BY <1>1 DEF FactorInv, FactorTypes, Proving!TypeOK
  <2> QED BY <1>1, <2>1, <2>2 DEF FactorInv, FactorTypes, Proving!TypeOK
<1>4. Trying' = {} /\ Counted' = Counted
  BY <1>1, <1>2 DEF Trying, Counted
<1>5. TriesAreFew' BY <1>3, <1>4, NoMoreTries
<1>6. CodesAreBehind' /\ Proving!NoReplay'
  BY <1>1 DEF FactorInv, CodesAreBehind, Proving!NoReplay, Proving!IsInjective
<1>7. ProvenWithTheApp'
  BY <1>1 DEF ProvenWithTheApp
<1>8. TriesAreKnown' BY <1>1, <1>2, <1>4 DEF TriesAreKnown
<1> QED BY <1>3, <1>5, <1>6, <1>7, <1>8 DEF FactorInv

LEMMA FactorTicks ==
  ASSUME FactorInv, Proving!Tick
  PROVE  FactorInv'
<1>1. /\ time < MaxTime /\ time' = time + 1
      /\ UNCHANGED <<user, proven, wrong, request, page, secrets, app, codes, proof, excused>>
  BY DEF Proving!Tick
<1>2. FactorTypes'
  BY <1>1, FactorAssumption DEF FactorInv, FactorTypes, Proving!TypeOK
<1>3. Trying' = Trying /\ Counted' \subseteq Counted
  <2>1. wrong \in Seq(1..MaxTime) /\ time \in Nat
    BY DEF FactorInv, FactorTypes, Proving!TypeOK
  <2>2. \A i \in DOMAIN wrong : wrong[i] \in Nat
    <3>1. DOMAIN wrong = 1..Len(wrong) /\ \A i \in 1..Len(wrong) : wrong[i] \in 1..MaxTime
      BY <2>1, Elements
    <3> QED BY <3>1
  <2> QED BY <1>1, <2>1, <2>2, FactorAssumption DEF Trying, Counted
<1>4. TriesAreFew' BY <1>2, <1>3, NoMoreTries
<1> QED BY <1>1, <1>2, <1>3, <1>4 DEF FactorInv, CodesAreBehind, Proving!NoReplay,
  Proving!IsInjective, ProvenWithTheApp, TriesAreKnown

LEMMA FactorNext ==
  ASSUME FactorInv, [Proving!Next]_factorVars
  PROVE  FactorInv'
<1>1. CASE UNCHANGED factorVars
  BY <1>1 DEF factorVars, FactorInv, FactorTypes, CodesAreBehind, TriesAreKnown, TriesAreFew,
    Trying, Counted, ProvenWithTheApp, Proving!TypeOK, Proving!NoReplay, Proving!IsInjective
<1>2. CASE Proving!Next
  BY <1>2, FactorVisits, FactorStores, FactorSubmits, FactorMatches, FactorClaims,
    FactorProves, FactorResets, FactorTicks DEF Proving!Next
<1> QED BY <1>1, <1>2

\* What the invariant says of entries.
LEMMA FactorHolds ==
  ASSUME FactorInv
  PROVE  Proving!TypeOK /\ Proving!NoReplay /\ Proving!GuessesAreLimited /\ Proving!EntryIsProven
<1>1. Proving!GuessesAreLimited
  <2>1. \A S : Proving!Cardinality(S) = Cardinality(S)
    BY DEF Proving!Cardinality, Cardinality
  <2> QED BY <2>1, Numbers, FactorAssumption DEF FactorInv, TriesAreFew, Proving!GuessesAreLimited
<1>2. Proving!EntryIsProven
  BY DEF FactorInv, ProvenWithTheApp, Proving!EntryIsProven, Proving!MayEnter, Proving!Fresh
<1> QED BY <1>1, <1>2 DEF FactorInv, FactorTypes

-----------------------------------------------------------------------------
(* The booking page.                                                       *)

Called == [of : {"load", "cancel", "order", "verify", "poll"}]
Answered ==
  [of : {"load", "poll"}, value : Paying!Status] \cup
  [of : {"cancel"}, value : Paying!Status \cup {"refused"}] \cup
  [of : {"verify"}, value : Paying!Status \cup {"authorized"}]
Ordered == [of : {"order"}, order : 0..orders]

PayTypes ==
  /\ status \in Paying!Status /\ lapsed \in BOOLEAN
  /\ advance \in {"none", "created", "authorized", "captured"}
  /\ orders \in 0..MaxOrders
  /\ bank \in [Paying!Orders -> {"unpaid", "authorized", "captured"}]
PanelStates == {"idle", "opening", "verifying", "waiting", "gone"}
PageTypes ==
  /\ seen \in Paying!Status /\ panel \in PanelStates
  /\ polling \in BOOLEAN /\ window \in 0..MaxOrders /\ window <= orders
CallTypes ==
  /\ IsFiniteSet(paying) /\ Cardinality(paying) <= MaxPaying
  /\ paying \subseteq Called \cup Answered \cup Ordered

\* There is one order at most, and nothing else is paid for.
PaidFor == \E o \in Paying!Orders : o <= orders /\ bank[o] # "unpaid"
OneOrder ==
  /\ orders <= 1 /\ (advance = "none" <=> orders = 0)
  /\ advance = "captured" => status # "PENDING"
  /\ \A o \in Paying!Orders : bank[o] # "unpaid" => o <= orders
  /\ Paying!Call("verify") \in paying => PaidFor

\* Wherever it says confirmed, the bank has captured.
IsCaptured == \E o \in Paying!Orders : bank[o] = "captured"
Confirmed == \/ status = "CONFIRMED" \/ seen = "CONFIRMED"
             \/ \E r \in paying \cap Answered : r.value = "CONFIRMED"

PayInv ==
  PayTypes /\ PageTypes /\ CallTypes /\ OneOrder /\ (Confirmed => IsCaptured)

LEMMA PayInit == Paying!Init => PayInv
<1> SUFFICES ASSUME Paying!Init PROVE PayInv OBVIOUS
<1>1. PayTypes /\ PageTypes /\ OneOrder
  <2>0. /\ orders = 0 /\ orders \in 0..MaxOrders
        /\ window \in 0..MaxOrders /\ window <= orders
    BY CheckoutAssumption DEF Paying!Init
  <2>1. PayTypes BY <2>0 DEF Paying!Init, PayTypes, Paying!Status
  <2>2. PageTypes BY <2>0 DEF Paying!Init, PageTypes, PanelStates, Paying!Status
  <2>3. OneOrder BY DEF Paying!Init, OneOrder, Paying!Call
  <2> QED BY <2>1, <2>2, <2>3
<1>2. CallTypes
  BY CheckoutAssumption, FS_EmptySet DEF Paying!Init, CallTypes
<1>3. ~Confirmed BY DEF Paying!Init, Confirmed
<1> QED BY <1>1, <1>2, <1>3 DEF PayInv

\* A reply is told from the call it answers.
LEMMA RepliesOf ==
  ASSUME CallTypes, NEW r \in paying, NEW what \in {"load", "cancel", "order", "verify", "poll"},
         Paying!IsReply(r, what)
  PROVE  /\ what = "order" => r.order \in 0..orders
         /\ what # "order" => r \in Answered
         /\ what \in {"load", "poll"} => r.value \in Paying!Status
         /\ what = "cancel" => r.value \in Paying!Status \cup {"refused"}
         /\ what = "verify" => r.value \in Paying!Status \cup {"authorized"}
<1>1. r.of = what /\ r # [of |-> what] BY DEF Paying!IsReply, Paying!Call
<1>2. r \notin Called BY <1>1 DEF Called
<1>3. r \in Answered \cup Ordered BY <1>2 DEF CallTypes
<1> QED BY <1>1, <1>3 DEF Answered, Ordered

\* How many calls are under way.
LEMMA SamePayNumber == \A S : Paying!Cardinality(S) = Cardinality(S)
  BY DEF Paying!Cardinality, Cardinality

LEMMA CallsGo ==
  ASSUME CallTypes, paying' \subseteq paying
  PROVE  IsFiniteSet(paying') /\ Cardinality(paying') <= MaxPaying
<1>1. /\ IsFiniteSet(paying') /\ Cardinality(paying') <= Cardinality(paying)
      /\ Cardinality(paying') \in Nat /\ Cardinality(paying) \in Nat
  BY FS_Subset, FS_CardinalityType DEF CallTypes
<1> QED BY <1>1, CheckoutAssumption DEF CallTypes

LEMMA CallComes ==
  ASSUME CallTypes, NEW c, Paying!Send(c)
  PROVE  IsFiniteSet(paying') /\ Cardinality(paying') <= MaxPaying
<1>1. Cardinality(paying) < MaxPaying /\ c \notin paying /\ paying' = paying \cup {c}
  BY SamePayNumber DEF Paying!Send
<1>2. Cardinality(paying) \in Nat BY FS_CardinalityType DEF CallTypes
<1>3. IsFiniteSet(paying') /\ Cardinality(paying') = Cardinality(paying) + 1
  BY <1>1, FS_AddElement DEF CallTypes
<1> QED BY <1>1, <1>2, <1>3, CheckoutAssumption

LEMMA CallAnswered ==
  ASSUME CallTypes, NEW c, NEW r, Paying!Answer(c, r)
  PROVE  /\ c \in paying /\ paying' = (paying \ {c}) \cup {r}
         /\ IsFiniteSet(paying') /\ Cardinality(paying') <= MaxPaying
<1>1. c \in paying /\ paying' = (paying \ {c}) \cup {r} BY DEF Paying!Answer
<1>2. Cardinality(paying) \in Nat BY FS_CardinalityType DEF CallTypes
<1>3. IsFiniteSet(paying \ {c}) /\ Cardinality(paying \ {c}) = Cardinality(paying) - 1
  BY <1>1, FS_RemoveElement DEF CallTypes
<1>4. /\ IsFiniteSet(paying')
      /\ \/ Cardinality(paying') = Cardinality(paying \ {c})
         \/ Cardinality(paying') = Cardinality(paying \ {c}) + 1
  BY <1>1, <1>3, FS_AddElement
<1> QED BY <1>1, <1>2, <1>3, <1>4, CheckoutAssumption DEF CallTypes

\* The page says what it had said, or been told; it calls and is answered.
LEMMA PageSteps ==
  ASSUME PayInv, PageTypes', UNCHANGED <<status, lapsed, advance, orders, bank>>,
         NEW c \in Called,
         \/ paying' \subseteq paying
         \/ Paying!Send(c) /\ (c.of = "verify" => PaidFor),
         seen' = "CONFIRMED" => Confirmed
  PROVE  PayInv'
<1>1. paying' \subseteq paying \cup {c} /\ Ordered' = Ordered
  BY DEF Paying!Send, Ordered
<1>2. CallTypes'
  BY <1>1, CallsGo, CallComes DEF PayInv, CallTypes
<1>3. OneOrder'
  <2>1. Paying!Call("verify") \in paying' => PaidFor
    BY <1>1 DEF PayInv, OneOrder, Paying!Call, Paying!Send
  <2> QED BY <2>1 DEF PayInv, OneOrder, PaidFor
<1>4. Confirmed' => IsCaptured'
  <2>1. c \notin Answered BY DEF Called, Answered
  <2>2. Confirmed' => Confirmed
    BY <1>1, <2>1 DEF Confirmed
  <2> QED BY <2>2 DEF PayInv, IsCaptured
<1>5. PayTypes' BY DEF PayInv, PayTypes
<1> QED BY <1>2, <1>3, <1>4, <1>5 DEF PayInv

\* Something is shown.
LEMMA Shown ==
  ASSUME PageTypes, NEW v \in Paying!Status, NEW p \in PanelStates,
         NEW timer \in BOOLEAN, Paying!Show(v, p, timer), UNCHANGED <<orders, window>>
  PROVE  PageTypes' /\ seen' = v
BY DEF PageTypes, PanelStates, Paying!Show, Paying!Tell, Paying!Leaves

LEMMA PageCalls ==
  ASSUME PayInv, \/ Paying!Refresh \/ Paying!Cancel \/ Paying!Pay \/ Paying!Handler \/ Paying!Poll
  PROVE  PayInv'
<1>1. \A w \in {"load", "cancel", "order", "verify", "poll"} :
        Paying!Call(w) \in Called /\ Paying!Call(w).of = w
  BY DEF Paying!Call, Called
<1>2. CASE Paying!Refresh
  <2>1. PageTypes' BY <1>2 DEF PayInv, PageTypes, PanelStates, Paying!Refresh, Paying!page, Paying!server
  <2> QED BY <1>1, <1>2, <2>1, PageSteps
    DEF Paying!Refresh, Paying!server, Paying!page, Confirmed
<1>3. CASE Paying!Cancel
  <2>1. PageTypes' BY <1>3 DEF PayInv, PageTypes, PanelStates, Paying!Cancel, Paying!page, Paying!server
  <2> QED BY <1>1, <1>3, <2>1, PageSteps
    DEF Paying!Cancel, Paying!server, Paying!page, Confirmed
<1>4. CASE Paying!Pay
  <2>1. PageTypes' BY <1>4 DEF PayInv, PageTypes, PanelStates, Paying!Pay, Paying!server
  <2> QED BY <1>1, <1>4, <2>1, PageSteps DEF Paying!Pay, Paying!server, Confirmed
<1>5. CASE Paying!Poll
  <2>1. PageTypes' BY <1>5 DEF PayInv, PageTypes, PanelStates, Paying!Poll, Paying!page, Paying!server
  <2> QED BY <1>1, <1>5, <2>1, PageSteps
    DEF Paying!Poll, Paying!server, Paying!page, Confirmed
<1>6. CASE Paying!Handler
  <2>1. PageTypes'
    BY <1>6, CheckoutAssumption DEF PayInv, PayTypes, PageTypes, PanelStates,
      Paying!Handler, Paying!Tell, Paying!server
  <2>2. PaidFor
    BY <1>6, CheckoutAssumption DEF PayInv, PageTypes, PayTypes, PaidFor, Paying!Handler,
      Paying!Orders
  <2> QED BY <1>1, <1>6, <2>1, <2>2, PageSteps DEF Paying!Handler, Paying!server, Confirmed
<1> QED BY <1>2, <1>3, <1>4, <1>5, <1>6

LEMMA PageAlone ==
  ASSUME PayInv, \/ Paying!Countdown \/ Paying!Dismiss \/ Paying!PollEnds
  PROVE  PayInv'
<1>1. PICK c \in Called : TRUE
  <2>1. [of |-> "load"] \in Called BY DEF Called
  <2> QED BY <2>1
<1>2. CASE Paying!Countdown
  <2>1. PageTypes' /\ seen' = "EXPIRED"
    BY <1>2, Shown DEF PayInv, PageTypes, PanelStates, Paying!Countdown, Paying!server, Paying!Status
  <2> QED BY <1>1, <1>2, <2>1, PageSteps DEF Paying!Countdown, Paying!server
<1>3. CASE Paying!Dismiss
  <2>1. PageTypes'
    BY <1>3, CheckoutAssumption DEF PayInv, PayTypes, PageTypes, PanelStates,
      Paying!Dismiss, Paying!Tell, Paying!server
  <2> QED BY <1>1, <1>3, <2>1, PageSteps DEF Paying!Dismiss, Paying!server, Confirmed
<1>4. CASE Paying!PollEnds
  <2>1. PageTypes' BY <1>4 DEF PayInv, PageTypes, PanelStates, Paying!PollEnds, Paying!Tell, Paying!server
  <2> QED BY <1>1, <1>4, <2>1, PageSteps DEF Paying!PollEnds, Paying!server, Confirmed
<1> QED BY <1>2, <1>3, <1>4

LEMMA PageReplies ==
  ASSUME PayInv, NEW r \in paying,
         \/ Paying!Fail(r) \/ Paying!Loaded(r) \/ Paying!Polled(r) \/ Paying!Cancelled(r)
         \/ Paying!OrderArrives(r) \/ Paying!Verified(r)
  PROVE  PayInv'
<1>1. PICK c \in Called : TRUE
  <2>1. [of |-> "load"] \in Called BY DEF Called
  <2> QED BY <2>1
<1>2. CallTypes /\ PageTypes BY DEF PayInv
<1>3. \A v : (r \in Answered /\ v = r.value /\ v = "CONFIRMED") \/ (v = "CONFIRMED" /\ v = seen)
        => Confirmed
  BY DEF Confirmed
<1>4. CASE Paying!Fail(r)
  <2>1. PageTypes' /\ seen' = seen
    BY <1>2, <1>4, Shown DEF PageTypes, PanelStates, Paying!Fail, Paying!LoadFails, Paying!server
  <2> QED BY <1>1, <1>3, <1>4, <2>1, PageSteps DEF Paying!Fail, Paying!server
<1>5. CASE Paying!Loaded(r)
  <2>1. r \in Answered /\ r.value \in Paying!Status
    BY <1>2, <1>5, RepliesOf DEF Paying!Loaded
  <2>2. PageTypes' /\ seen' = r.value
    BY <1>2, <1>5, <2>1, Shown DEF PageTypes, PanelStates, Paying!Loaded, Paying!server
  <2> QED BY <1>1, <1>3, <1>5, <2>1, <2>2, PageSteps DEF Paying!Loaded, Paying!server
<1>6. CASE Paying!Polled(r)
  <2>1. r \in Answered /\ r.value \in Paying!Status
    BY <1>2, <1>6, RepliesOf DEF Paying!Polled
  <2>2. PageTypes' /\ seen' \in {seen, r.value}
    BY <1>2, <1>6, <2>1, Shown DEF PageTypes, PanelStates, Paying!Polled, Paying!server
  <2> QED BY <1>1, <1>3, <1>6, <2>1, <2>2, PageSteps DEF Paying!Polled, Paying!server
<1>7. CASE Paying!Cancelled(r)
  <2>1. r \in Answered /\ r.value \in Paying!Status \cup {"refused"}
    BY <1>2, <1>7, RepliesOf DEF Paying!Cancelled
  <2>2. PageTypes' /\ seen' \in {seen, r.value}
    BY <1>2, <1>7, <2>1, Shown DEF PageTypes, PanelStates, Paying!Cancelled, Paying!server
  <2> QED BY <1>1, <1>3, <1>7, <2>1, <2>2, PageSteps DEF Paying!Cancelled, Paying!server
<1>8. CASE Paying!OrderArrives(r)
  <2>1. r.order \in 0..orders
    BY <1>2, <1>8, RepliesOf DEF Paying!OrderArrives
  <2>2. PageTypes' /\ seen' = seen
    BY <1>2, <1>8, <2>1, CheckoutAssumption DEF PayInv, PayTypes, PageTypes,
      PanelStates, Paying!OrderArrives, Paying!Tell, Paying!server
  <2> QED BY <1>1, <1>3, <1>8, <2>2, PageSteps DEF Paying!OrderArrives, Paying!server
<1>9. CASE Paying!Verified(r)
  <2>1. r \in Answered /\ r.value \in Paying!Status \cup {"authorized"}
    BY <1>2, <1>9, RepliesOf DEF Paying!Verified
  <2>2. PageTypes' /\ seen' \in {seen, r.value}
    BY <1>2, <1>9, <2>1, Shown DEF PageTypes, PanelStates, Paying!Verified, Paying!server
  <2> QED BY <1>1, <1>3, <1>9, <2>1, <2>2, PageSteps DEF Paying!Verified, Paying!server
<1> QED BY <1>4, <1>5, <1>6, <1>7, <1>8, <1>9

\* The server answers what it shows.
LEMMA ServesView ==
  ASSUME PayInv, NEW what \in {"load", "poll"}, Paying!ServeView(what)
  PROVE  PayInv'
<1> DEFINE c == Paying!Call(what)
           r == Paying!Reply(what, Paying!Displayed)
<1>1. UNCHANGED <<status, lapsed, advance, orders, bank, seen, panel, polling, window>>
  BY DEF Paying!ServeView, Paying!server, Paying!page
<1>2. /\ c \in paying /\ paying' = (paying \ {c}) \cup {r}
      /\ IsFiniteSet(paying') /\ Cardinality(paying') <= MaxPaying
  BY CallAnswered DEF PayInv, Paying!ServeView
<1>3. /\ r \in Answered /\ r # Paying!Call("verify")
      /\ r.value = "CONFIRMED" => status = "CONFIRMED"
  BY DEF PayInv, PayTypes, Paying!Status, Paying!Displayed, Paying!Reply, Paying!Call, Answered
<1> HIDE DEF c, r
<1>4. CallTypes' BY <1>1, <1>2, <1>3 DEF PayInv, CallTypes, Ordered
<1>5. PayTypes' /\ PageTypes' /\ OneOrder'
  BY <1>1, <1>2, <1>3 DEF PayInv, PayTypes, PageTypes, OneOrder, PaidFor, Paying!Call
<1>6. Confirmed' => Confirmed BY <1>1, <1>2, <1>3 DEF Confirmed
<1> QED BY <1>1, <1>4, <1>5, <1>6 DEF PayInv, IsCaptured

LEMMA ServesOrder ==
  ASSUME PayInv, Paying!ServeOrder
  PROVE  PayInv'
<1> DEFINE c == Paying!Call("order")
           fresh == Paying!Payable /\ advance \notin {"created", "authorized"}
           r == Paying!Made(IF Paying!Payable THEN orders' ELSE 0)
<1>1. /\ fresh => orders < MaxOrders
      /\ orders' = (IF fresh THEN orders + 1 ELSE orders)
      /\ advance' = (IF fresh THEN "created" ELSE advance)
      /\ Paying!Answer(c, r)
      /\ UNCHANGED <<status, lapsed, bank, seen, panel, polling, window>>
  BY DEF Paying!ServeOrder, Paying!page
<1>2. /\ c \in paying /\ paying' = (paying \ {c}) \cup {r}
      /\ IsFiniteSet(paying') /\ Cardinality(paying') <= MaxPaying
  BY <1>1, CallAnswered DEF PayInv
<1>3. fresh => orders = 0 /\ advance = "none"
  BY DEF PayInv, PayTypes, OneOrder, Paying!Payable
<1>4. /\ orders \in Nat /\ orders' \in 0..MaxOrders /\ orders' <= 1 /\ orders <= orders'
      /\ advance' = "none" <=> orders' = 0
  BY <1>1, <1>3, CheckoutAssumption DEF PayInv, PayTypes, OneOrder
<1>5. r \in [of : {"order"}, order : 0..orders'] /\ r \notin Answered /\ r # Paying!Call("verify")
  BY <1>4 DEF Paying!Made, Answered, Paying!Call
<1> HIDE DEF c, r, fresh
<1>6. CallTypes'
  BY <1>2, <1>4, <1>5 DEF PayInv, CallTypes, Ordered
<1>7. PayTypes' /\ PageTypes'
  BY <1>1, <1>4, CheckoutAssumption DEF PayInv, PayTypes, PageTypes
<1>8. OneOrder'
  <2>1. Paying!Call("verify") \in paying' => PaidFor'
    BY <1>1, <1>2, <1>4, <1>5 DEF PayInv, OneOrder, PaidFor, Paying!Orders
  <2>2. \A o \in Paying!Orders : bank'[o] # "unpaid" => o <= orders'
    BY <1>1, <1>4 DEF PayInv, OneOrder, Paying!Orders
  <2>3. advance' = "captured" => status' # "PENDING"
    BY <1>1 DEF PayInv, OneOrder
  <2> QED BY <1>4, <2>1, <2>2, <2>3 DEF OneOrder, Paying!Call
<1>9. Confirmed' => Confirmed
  BY <1>1, <1>2, <1>5 DEF Confirmed
<1> QED BY <1>1, <1>6, <1>7, <1>8, <1>9 DEF PayInv, IsCaptured

\* The advance is captured of the one order.
LEMMA Captures ==
  ASSUME PayInv, IsCaptured, Paying!Capture, UNCHANGED <<lapsed, orders, bank>>
  PROVE  /\ PayTypes' /\ advance' = "captured" /\ orders = 1 /\ status' # "PENDING"
<1>1. orders = 1
  BY DEF PayInv, PayTypes, OneOrder, IsCaptured, Paying!Orders
<1>2. advance' = "captured" /\ status' \in Paying!Status /\ status' # "PENDING"
  BY DEF PayInv, PayTypes, OneOrder, Paying!Capture, Paying!Status
<1> QED BY <1>1, <1>2 DEF PayInv, PayTypes

LEMMA CaptureComes ==
  ASSUME PayInv, Paying!Webhook
  PROVE  PayInv'
<1>1. /\ IsCaptured /\ Paying!Capture
      /\ UNCHANGED <<lapsed, orders, bank, seen, panel, polling, window, paying>>
  BY DEF Paying!Webhook, IsCaptured, Paying!page
<1>2. PayTypes' /\ advance' = "captured" /\ orders = 1 /\ status' # "PENDING"
  BY <1>1, Captures
<1>3. PageTypes' /\ CallTypes' BY <1>1 DEF PayInv, PageTypes, CallTypes, Ordered
<1>4. OneOrder' BY <1>1, <1>2 DEF PayInv, OneOrder, PaidFor, Paying!Call
<1> QED BY <1>1, <1>2, <1>3, <1>4 DEF PayInv, IsCaptured

LEMMA ServesVerify ==
  ASSUME PayInv, Paying!ServeVerify
  PROVE  PayInv'
<1> DEFINE o == CHOOSE p \in Paying!Orders : p <= orders /\ bank[p] # "unpaid"
           c == Paying!Call("verify")
<1>1. c \in paying /\ UNCHANGED <<lapsed, orders, bank, seen, panel, polling, window>>
  BY DEF Paying!ServeVerify, Paying!page
<1>2. PaidFor BY <1>1 DEF PayInv, OneOrder
<1>3. o \in Paying!Orders /\ o <= orders /\ bank[o] # "unpaid"
  BY <1>2 DEF PaidFor
<1>4. PageTypes' BY <1>1 DEF PayInv, PageTypes
<1>5. CASE bank[o] = "captured"
  <2> DEFINE r == Paying!Reply("verify", Paying!Displayed')
  <2>1. Paying!Capture /\ Paying!Answer(c, r) BY <1>5 DEF Paying!ServeVerify
  <2>2. IsCaptured BY <1>3, <1>5 DEF IsCaptured
  <2>3. PayTypes' /\ advance' = "captured" /\ orders = 1 /\ status' # "PENDING"
    BY <1>1, <2>1, <2>2, Captures
  <2>4. /\ paying' = (paying \ {c}) \cup {r}
        /\ IsFiniteSet(paying') /\ Cardinality(paying') <= MaxPaying
    BY <2>1, CallAnswered DEF PayInv
  <2>5. r \in Answered /\ r # c
    BY <2>3 DEF PayTypes, Paying!Status, Paying!Displayed, Paying!Reply, Paying!Call, Answered
  <2> HIDE DEF r, o
  <2>6. CallTypes' BY <1>1, <2>4, <2>5 DEF PayInv, CallTypes, Ordered
  <2>7. OneOrder'
    BY <1>1, <1>2, <2>3 DEF PayInv, OneOrder, PaidFor, Paying!Call
  <2> QED BY <1>1, <1>4, <2>2, <2>3, <2>6, <2>7 DEF PayInv, IsCaptured
<1>6. CASE bank[o] # "captured"
  <2> DEFINE r == Paying!Reply("verify", "authorized")
  <2>1. /\ advance' = (IF advance = "created" THEN "authorized" ELSE advance)
        /\ status' = status /\ Paying!Answer(c, r)
    BY <1>6 DEF Paying!ServeVerify
  <2>2. /\ paying' = (paying \ {c}) \cup {r}
        /\ IsFiniteSet(paying') /\ Cardinality(paying') <= MaxPaying
    BY <2>1, CallAnswered DEF PayInv
  <2>3. r \in Answered /\ r # c /\ r.value # "CONFIRMED"
    BY DEF Paying!Status, Paying!Reply, Paying!Call, Answered
  <2> HIDE DEF r, o
  <2>4. CallTypes' BY <1>1, <2>2, <2>3 DEF PayInv, CallTypes, Ordered
  <2>5. PayTypes' BY <1>1, <2>1 DEF PayInv, PayTypes
  <2>6. OneOrder'
    BY <1>1, <1>2, <2>1 DEF PayInv, PayTypes, OneOrder, PaidFor, Paying!Call
  <2>7. Confirmed' => Confirmed BY <1>1, <2>1, <2>2, <2>3 DEF Confirmed
  <2> QED BY <1>1, <1>4, <2>4, <2>5, <2>6, <2>7 DEF PayInv, IsCaptured
<1> QED BY <1>5, <1>6

LEMMA ServesCancel ==
  ASSUME PayInv, Paying!ServeCancel
  PROVE  PayInv'
<1> DEFINE c == Paying!Call("cancel")
           ends == Paying!Displayed \in {"PENDING", "CONFIRMED"}
           r == Paying!Reply("cancel", IF ends THEN "CANCELLED" ELSE "refused")
<1>1. /\ Paying!Answer(c, r) /\ status' = (IF ends THEN "CANCELLED" ELSE status)
      /\ UNCHANGED <<lapsed, advance, orders, bank, seen, panel, polling, window>>
  BY DEF Paying!ServeCancel, Paying!page
<1>2. /\ paying' = (paying \ {c}) \cup {r}
      /\ IsFiniteSet(paying') /\ Cardinality(paying') <= MaxPaying
  BY <1>1, CallAnswered DEF PayInv
<1>3. r \in Answered /\ r # Paying!Call("verify") /\ r.value # "CONFIRMED"
  BY DEF Paying!Status, Paying!Reply, Paying!Call, Answered
<1> HIDE DEF c, r, ends
<1>4. CallTypes' BY <1>1, <1>2, <1>3 DEF PayInv, CallTypes, Ordered
<1>5. PayTypes' /\ PageTypes' BY <1>1 DEF PayInv, PayTypes, PageTypes, PanelStates, Paying!Status
<1>6. OneOrder'
  BY <1>1, <1>2, <1>3 DEF PayInv, OneOrder, PaidFor, Paying!Call
<1>7. Confirmed' => Confirmed BY <1>1, <1>2, <1>3 DEF Confirmed
<1> QED BY <1>1, <1>4, <1>5, <1>6, <1>7 DEF PayInv, IsCaptured

\* Time passes.
LEMMA HoldEnds ==
  ASSUME PayInv, Paying!Lapse \/ Paying!Expire
  PROVE  PayInv'
<1>1. /\ UNCHANGED <<advance, orders, bank, seen, panel, polling, window, paying>>
      /\ lapsed' \in BOOLEAN /\ status' \in {status, "EXPIRED"}
  BY DEF PayInv, PayTypes, Paying!Lapse, Paying!Expire, Paying!page
<1>2. PayTypes' /\ PageTypes' /\ CallTypes'
  BY <1>1 DEF PayInv, PayTypes, PageTypes, CallTypes, Ordered, Paying!Status
<1>3. OneOrder' BY <1>1 DEF PayInv, OneOrder, PaidFor, Paying!Call
<1>4. Confirmed' => Confirmed BY <1>1 DEF Confirmed
<1> QED BY <1>1, <1>2, <1>3, <1>4 DEF PayInv, IsCaptured

\* The bank takes the money of an order that there is.
LEMMA BankActs ==
  ASSUME PayInv, Paying!BankAuthorizes \/ \E o \in Paying!Orders : Paying!BankCaptures(o)
  PROVE  PayInv'
<1>1. PICK o \in Paying!Orders, how \in {"authorized", "captured"} :
        /\ bank' = [bank EXCEPT ![o] = how] /\ bank[o] # "captured" /\ o <= orders
        /\ UNCHANGED <<status, lapsed, advance, orders, seen, panel, polling, window, paying>>
  <2>1. CASE Paying!BankAuthorizes
    <3>1. window \in Paying!Orders /\ window <= orders
      BY <2>1, CheckoutAssumption DEF PayInv, PageTypes, PanelStates, Paying!BankAuthorizes, Paying!Orders
    <3> QED BY <2>1, <3>1 DEF Paying!BankAuthorizes, Paying!page
  <2>2. CASE \E o \in Paying!Orders : Paying!BankCaptures(o)
    <3>1. PICK o \in Paying!Orders : Paying!BankCaptures(o) BY <2>2
    <3>2. o <= orders BY <3>1 DEF PayInv, OneOrder, Paying!BankCaptures
    <3> QED BY <3>1, <3>2 DEF Paying!BankCaptures, Paying!page
  <2> QED BY <2>1, <2>2
<1>2. /\ bank' \in [Paying!Orders -> {"unpaid", "authorized", "captured"}] /\ bank'[o] = how
      /\ \A p \in Paying!Orders : p # o => bank'[p] = bank[p]
  BY <1>1 DEF PayInv, PayTypes
<1>3. PayTypes' /\ PageTypes' /\ CallTypes'
  BY <1>1, <1>2 DEF PayInv, PayTypes, PageTypes, CallTypes, Ordered
<1>4. OneOrder'
  <2>1. PaidFor' BY <1>1, <1>2 DEF PaidFor
  <2>2. \A p \in Paying!Orders : bank'[p] # "unpaid" => p <= orders'
    BY <1>1, <1>2 DEF PayInv, OneOrder
  <2> QED BY <1>1, <2>1, <2>2 DEF PayInv, OneOrder
<1>5. IsCaptured => IsCaptured' BY <1>1, <1>2 DEF IsCaptured
<1>6. Confirmed' => Confirmed BY <1>1 DEF Confirmed
<1> QED BY <1>3, <1>4, <1>5, <1>6 DEF PayInv

LEMMA PayNext ==
  ASSUME PayInv, [Paying!Next]_payVars
  PROVE  PayInv'
<1>1. CASE UNCHANGED payVars
  BY <1>1 DEF payVars, PayInv, PayTypes, PageTypes, CallTypes, OneOrder, PaidFor, Confirmed,
    IsCaptured, Ordered, Paying!Call
<1>2. CASE Paying!Next
  BY <1>2, PageCalls, PageAlone, PageReplies, ServesView, ServesOrder, CaptureComes,
    ServesVerify, ServesCancel, HoldEnds, BankActs DEF Paying!Next
<1> QED BY <1>1, <1>2

\* What the invariant says of the money.
LEMMA PayHolds ==
  ASSUME PayInv
  PROVE  Paying!TypeOK /\ Paying!SuccessIsTrue /\ Paying!PaidOnce
<1>1. Paying!SuccessIsTrue BY DEF PayInv, Confirmed, IsCaptured, Paying!SuccessIsTrue
<1>2. Paying!PaidOnce
  <2> DEFINE P == {o \in Paying!Orders : bank[o] # "unpaid"}
  <2>1. P \subseteq {1} BY DEF PayInv, PayTypes, OneOrder, Paying!Orders
  <2>2. IsFiniteSet({1}) /\ Cardinality({1}) = 1 BY FS_Singleton
  <2>3. Cardinality(P) <= 1 BY <2>1, <2>2, FS_Subset
  <2> QED BY <2>3, SamePayNumber DEF Paying!PaidOnce
<1>3. Paying!TypeOK
  BY SamePayNumber DEF PayInv, PayTypes, PageTypes, PanelStates, CallTypes, Paying!TypeOK
<1> QED BY <1>1, <1>2, <1>3

-----------------------------------------------------------------------------
(* Walk-ins and payments by hand.                                          *)

Adds == [kind : {"add", "added", "not added"}, key : 1..MaxDialogs, detail : Adding!Detail]
Pays == [kind : {"pay", "paid", "not paid"}, number : 1..MaxSends]

WalkTypes ==
  /\ Adding!TypeOK /\ retrying \in BOOLEAN /\ lost \in BOOLEAN /\ open \in BOOLEAN
  /\ open => opening > 0
  /\ adding \subseteq Adds \cup Pays

\* One payment is under way at most, while the button is disabled.
OnePay ==
  /\ \A c \in adding \cap Pays : "pay" \in sending
  /\ \A c, d \in adding \cap Pays : c = d
  /\ "pay" \in sending => ~retrying /\ adding \cap Pays # {}

AnswersAreTrue ==
  \A c \in adding \cap Adds : c.kind = "added" => [key |-> c.key, detail |-> c.detail] \in bookings

\* What the vendor meant to record and is not recorded yet, as far as the page knows.
IsIntended == retrying \/ \E c \in adding \cap Pays : c.kind # "paid"
Intended == IF IsIntended THEN 1 ELSE 0
PaidAsMeant ==
  /\ IsFiniteSet(paid) /\ Cardinality(paid) <= Total /\ meant <= sends
  /\ lost \/ Cardinality(paid) + Intended <= meant

WalkInv ==
  WalkTypes /\ OnePay /\ AnswersAreTrue /\ PaidAsMeant /\ Adding!AddedIsWhatWasAsked

LEMMA WalkKinds ==
  ASSUME NEW c \in Adds \cup Pays
  PROVE  /\ c \in Adds => /\ c \notin Pays /\ "key" \in DOMAIN c
                          /\ c.kind \in {"add", "added", "not added"}
                          /\ c.key \in 1..MaxDialogs /\ c.detail \in Adding!Detail
         /\ c \in Pays => /\ c \notin Adds /\ "key" \notin DOMAIN c
                          /\ c.kind \in {"pay", "paid", "not paid"}
                          /\ c.number \in 1..MaxSends
BY DEF Adds, Pays

LEMMA WalkNumbers ==
  ASSUME WalkInv
  PROVE  /\ Cardinality(paid) \in Nat /\ meant \in Nat /\ sends \in Nat /\ opening \in Nat
         /\ Adding!Due = Total - Cardinality(paid)
<1>1. \A S : Adding!Cardinality(S) = Cardinality(S)
  BY DEF Adding!Cardinality, Cardinality
<1>2. Cardinality(paid) \in Nat BY FS_CardinalityType DEF WalkInv, PaidAsMeant
<1> QED BY <1>1, <1>2 DEF WalkInv, WalkTypes, Adding!TypeOK, Adding!Due

LEMMA WalkInit == Adding!Init => WalkInv
<1> SUFFICES ASSUME Adding!Init PROVE WalkInv OBVIOUS
<1>1. WalkTypes
  <2>1. /\ opening \in 0..MaxDialogs /\ sends \in 0..MaxSends
        /\ meant \in 0..MaxSends /\ balance \in 0..Total
    BY WalkinsAssumption DEF Adding!Init
  <2>2. open = FALSE BY DEF Adding!Init
  <2> QED BY <2>1, <2>2 DEF Adding!Init, WalkTypes, Adding!TypeOK
<1>2. OnePay /\ AnswersAreTrue /\ Adding!AddedIsWhatWasAsked
  BY DEF Adding!Init, OnePay, AnswersAreTrue, Adding!AddedIsWhatWasAsked
<1>3. PaidAsMeant
  <2>1. ~IsIntended BY DEF Adding!Init, IsIntended
  <2>2. IsFiniteSet(paid) /\ Cardinality(paid) = 0 /\ meant = 0 /\ sends = 0
    BY FS_EmptySet DEF Adding!Init
  <2> QED BY <2>1, <2>2, WalkinsAssumption DEF PaidAsMeant, Intended
<1> QED BY <1>1, <1>2, <1>3 DEF WalkInv

\* The dialog opens, closes, is sent.
LEMMA WalkDialog ==
  ASSUME WalkInv, Adding!Open \/ Adding!Close
  PROVE  WalkInv'
<1>1. /\ UNCHANGED <<sending, adding, sends, bookings, paid, balance, meant, retrying, added, lost>>
      /\ opening' \in 0..MaxDialogs /\ open' \in BOOLEAN
      /\ open' => opening' > 0
  <2>1. CASE Adding!Open
    BY <2>1, WalkNumbers, WalkinsAssumption DEF Adding!Open
  <2>2. CASE Adding!Close
    BY <2>2 DEF WalkInv, WalkTypes, Adding!TypeOK, Adding!Close
  <2> QED BY <2>1, <2>2
<1>2. WalkTypes' BY <1>1 DEF WalkInv, WalkTypes, Adding!TypeOK
<1> QED BY <1>1, <1>2 DEF WalkInv, OnePay, AnswersAreTrue, PaidAsMeant, Intended, IsIntended,
  Adding!AddedIsWhatWasAsked

LEMMA WalkSubmit ==
  ASSUME WalkInv, NEW d \in Adding!Detail, Adding!Submit(d)
  PROVE  WalkInv'
<1> DEFINE c == [kind |-> "add", key |-> opening, detail |-> d]
<1>1. /\ adding' = adding \cup {c} /\ sending' = sending \cup {"add"} /\ sends < MaxSends
      /\ sends' = sends + 1
      /\ UNCHANGED <<open, opening, bookings, paid, balance, meant, retrying, added, lost>>
  BY DEF Adding!Submit, Adding!Send
<1>2. c \in Adds
  <2>1. opening \in 1..MaxDialogs
    BY DEF WalkInv, WalkTypes, Adding!TypeOK, Adding!Submit
  <2> QED BY <2>1 DEF Adds
<1>3. c \notin Pays /\ c.kind = "add" BY <1>2, WalkKinds
<1> HIDE DEF c
<1>4. sends' \in 0..MaxSends BY <1>1, WalkNumbers, WalkinsAssumption
<1>5. WalkTypes' BY <1>1, <1>2, <1>4 DEF WalkInv, WalkTypes, Adding!TypeOK
<1>6. adding' \cap Pays = adding \cap Pays BY <1>1, <1>3
<1>7. OnePay' BY <1>1, <1>6 DEF WalkInv, OnePay
<1>8. AnswersAreTrue' BY <1>1, <1>3 DEF WalkInv, AnswersAreTrue
<1>9. PaidAsMeant'
  <2>1. Intended' = Intended BY <1>1, <1>6 DEF Intended, IsIntended
  <2> QED BY <1>1, <2>1, WalkNumbers DEF WalkInv, PaidAsMeant
<1> QED BY <1>1, <1>5, <1>7, <1>8, <1>9 DEF WalkInv, Adding!AddedIsWhatWasAsked

\* The API answers about a walk-in, or its answer comes.
LEMMA WalkServesAdd ==
  ASSUME WalkInv, NEW c \in adding, Adding!ServeAdd(c)
  PROVE  WalkInv'
<1>1. /\ c.kind = "add" /\ c \in Adds
      /\ UNCHANGED <<open, opening, sending, sends, paid, balance, meant, retrying, added, lost>>
  BY WalkKinds DEF WalkInv, WalkTypes, Adding!ServeAdd
<1>2. PICK k \in {"added", "not added"} :
        /\ adding' = (adding \ {c}) \cup {[c EXCEPT !.kind = k]}
        /\ bookings \subseteq bookings'
        /\ bookings' \subseteq bookings \cup {[key |-> c.key, detail |-> c.detail]}
        /\ k = "added" => [key |-> c.key, detail |-> c.detail] \in bookings'
  <2>1. CASE Adding!Answers(c)
    BY <2>1 DEF Adding!ServeAdd, Adding!Answers, Adding!Booked
  <2>2. CASE ~Adding!Answers(c)
    BY <2>2 DEF Adding!ServeAdd
  <2> QED BY <2>1, <2>2
<1> DEFINE r == [c EXCEPT !.kind = k]
<1>3. r \in Adds /\ r.kind = k /\ r.key = c.key /\ r.detail = c.detail
  BY <1>1 DEF Adds
<1>4. r \notin Pays /\ c \notin Pays BY <1>1, <1>3, WalkKinds
<1> HIDE DEF r
<1>5. adding' = (adding \ {c}) \cup {r} BY <1>2 DEF r
<1>6. WalkTypes'
  <2>1. bookings' \subseteq [key : 1..MaxDialogs, detail : Adding!Detail]
    <3>1. c.key \in 1..MaxDialogs /\ c.detail \in Adding!Detail BY <1>1, WalkKinds
    <3>2. [key |-> c.key, detail |-> c.detail] \in [key : 1..MaxDialogs, detail : Adding!Detail]
      BY <3>1
    <3>3. bookings \subseteq [key : 1..MaxDialogs, detail : Adding!Detail]
      BY DEF WalkInv, WalkTypes, Adding!TypeOK
    <3> QED BY <1>2, <3>2, <3>3
  <2> QED BY <1>1, <1>3, <1>5, <2>1 DEF WalkInv, WalkTypes, Adding!TypeOK
<1>7. adding' \cap Pays = adding \cap Pays BY <1>4, <1>5
<1>8. OnePay' BY <1>1, <1>7 DEF WalkInv, OnePay
<1>9. AnswersAreTrue' BY <1>2, <1>3, <1>5 DEF WalkInv, AnswersAreTrue
<1>10. PaidAsMeant'
  BY <1>1, <1>7 DEF WalkInv, PaidAsMeant, Intended, IsIntended
<1> QED BY <1>1, <1>2, <1>6, <1>8, <1>9, <1>10 DEF WalkInv, Adding!AddedIsWhatWasAsked

LEMMA WalkAdded ==
  ASSUME WalkInv, NEW c \in adding, Adding!Added(c)
  PROVE  WalkInv'
<1>1. /\ c \in Adds /\ c.detail \in Adding!Detail /\ c \notin Pays
      /\ adding' = adding \ {c} /\ sending' = sending \ {"add"}
      /\ UNCHANGED <<opening, sends, bookings, paid, balance, meant, retrying, lost>>
  BY WalkKinds DEF WalkInv, WalkTypes, Adding!Added
<1>2. /\ added' = (IF c.kind = "added" THEN added \cup {c.detail} ELSE added)
      /\ open' = (IF c.kind = "added" THEN FALSE ELSE open)
  BY DEF Adding!Added
<1>3. WalkTypes' BY <1>1, <1>2 DEF WalkInv, WalkTypes, Adding!TypeOK
<1>4. adding' \cap Pays = adding \cap Pays BY <1>1
<1>5. OnePay' BY <1>1, <1>4 DEF WalkInv, OnePay
<1>6. AnswersAreTrue' BY <1>1 DEF WalkInv, AnswersAreTrue
<1>7. PaidAsMeant'
  BY <1>1, <1>4 DEF WalkInv, PaidAsMeant, Intended, IsIntended
<1>8. Adding!AddedIsWhatWasAsked'
  <2>1. c.kind = "added" => [key |-> c.key, detail |-> c.detail] \in bookings
    BY <1>1 DEF WalkInv, AnswersAreTrue
  <2>2. c.kind = "added" => \E b \in bookings : b.detail = c.detail
    BY <2>1
  <2> QED BY <1>1, <1>2, <2>2 DEF WalkInv, Adding!AddedIsWhatWasAsked
<1> QED BY <1>3, <1>5, <1>6, <1>7, <1>8 DEF WalkInv

\* A payment is sent: again, or another that is meant.
LEMMA WalkPay ==
  ASSUME WalkInv, Adding!Pay
  PROVE  WalkInv'
<1> DEFINE c == [kind |-> "pay", number |-> sends + 1]
<1>1. /\ adding' = adding \cup {c} /\ sending' = sending \cup {"pay"} /\ sends < MaxSends
      /\ sends' = sends + 1 /\ "pay" \notin sending
      /\ meant' = (IF retrying THEN meant ELSE meant + 1) /\ retrying' = FALSE
      /\ UNCHANGED <<open, opening, bookings, paid, balance, added, lost>>
  BY DEF Adding!Pay, Adding!Send, Adding!MayPay
<1>2. c \in Pays
  <2>1. sends + 1 \in 1..MaxSends BY <1>1, WalkNumbers, WalkinsAssumption
  <2> QED BY <2>1 DEF Pays
<1>3. c \notin Adds /\ c.kind = "pay" BY <1>2, WalkKinds
<1> HIDE DEF c
<1>4. sends' \in 0..MaxSends /\ meant' \in 0..MaxSends /\ meant' <= sends'
  BY <1>1, WalkNumbers, WalkinsAssumption DEF WalkInv, PaidAsMeant
<1>5. WalkTypes' BY <1>1, <1>2, <1>4 DEF WalkInv, WalkTypes, Adding!TypeOK
<1>6. adding \cap Pays = {} BY <1>1 DEF WalkInv, OnePay
<1>7. adding' \cap Pays = {c} BY <1>1, <1>2, <1>6
<1>8. OnePay' BY <1>1, <1>7 DEF OnePay
<1>9. AnswersAreTrue' BY <1>1, <1>3 DEF WalkInv, AnswersAreTrue
<1>10. PaidAsMeant'
  <2>1. Intended = IF retrying THEN 1 ELSE 0
    BY <1>6 DEF Intended, IsIntended
  <2>2. Intended' = 1 BY <1>3, <1>7 DEF Intended, IsIntended
  <2>3. lost \/ Cardinality(paid) + Intended' <= meant'
    BY <1>1, <2>1, <2>2, WalkNumbers DEF WalkInv, PaidAsMeant
  <2> QED BY <1>1, <1>4, <2>3 DEF WalkInv, PaidAsMeant
<1> QED BY <1>1, <1>5, <1>8, <1>9, <1>10 DEF WalkInv, Adding!AddedIsWhatWasAsked

\* The one payment call changes to another answer.
LEMMA PayTurns ==
  ASSUME WalkInv, NEW c \in adding \cap Pays, NEW k \in {"paid", "not paid"},
         adding' = (adding \ {c}) \cup {[c EXCEPT !.kind = k]},
         UNCHANGED <<open, opening, sending, sends, bookings, balance, meant, retrying, added>>,
         paid' \subseteq 1..MaxSends, lost' \in BOOLEAN
  PROVE  /\ WalkTypes' /\ OnePay' /\ AnswersAreTrue' /\ Adding!AddedIsWhatWasAsked'
         /\ Intended' = (IF k = "paid" THEN 0 ELSE 1)
         /\ Intended = (IF c.kind = "paid" THEN 0 ELSE 1)
<1> DEFINE r == [c EXCEPT !.kind = k]
<1>1. r \in Pays /\ r.kind = k BY DEF Pays
<1>2. r \notin Adds /\ c \notin Adds BY <1>1, WalkKinds
<1> HIDE DEF r
<1>3. adding' = (adding \ {c}) \cup {r} BY DEF r
<1>4. adding \cap Pays = {c} BY DEF WalkInv, OnePay
<1>5. adding' \cap Pays = {r} BY <1>1, <1>3, <1>4
<1>6. "pay" \in sending /\ ~retrying BY DEF WalkInv, OnePay
<1>7. WalkTypes' BY <1>1, <1>3 DEF WalkInv, WalkTypes, Adding!TypeOK
<1>8. OnePay' BY <1>5, <1>6 DEF OnePay
<1>9. AnswersAreTrue' BY <1>2, <1>3 DEF WalkInv, AnswersAreTrue
<1>10. Intended' = (IF k = "paid" THEN 0 ELSE 1)
  BY <1>1, <1>5, <1>6 DEF Intended, IsIntended
<1>11. Intended = (IF c.kind = "paid" THEN 0 ELSE 1)
  BY <1>4, <1>6 DEF Intended, IsIntended
<1> QED BY <1>7, <1>8, <1>9, <1>10, <1>11 DEF WalkInv, Adding!AddedIsWhatWasAsked

LEMMA WalkServesPay ==
  ASSUME WalkInv, NEW c \in adding, Adding!ServePay(c)
  PROVE  WalkInv'
<1> DEFINE k == IF Adding!Fits THEN "paid" ELSE "not paid"
<1>1. /\ c \in adding \cap Pays /\ c.kind = "pay" /\ c.number \in 1..MaxSends
      /\ adding' = (adding \ {c}) \cup {[c EXCEPT !.kind = k]}
      /\ paid' = (IF Adding!Fits THEN paid \cup {c.number} ELSE paid)
      /\ UNCHANGED <<open, opening, sending, sends, bookings, balance, meant, retrying, added, lost>>
  BY WalkKinds DEF WalkInv, WalkTypes, Adding!ServePay
<1>2. paid' \subseteq 1..MaxSends /\ lost' \in BOOLEAN /\ k \in {"paid", "not paid"}
  BY <1>1 DEF WalkInv, WalkTypes, Adding!TypeOK
<1>3. /\ WalkTypes' /\ OnePay' /\ AnswersAreTrue' /\ Adding!AddedIsWhatWasAsked'
      /\ Intended' = (IF k = "paid" THEN 0 ELSE 1) /\ Intended = 1
  BY <1>1, <1>2, PayTurns
<1>4. PaidAsMeant'
  <2>1. CASE Adding!Fits
    <3>1. Intended' = 0 BY <1>3, <2>1
    <3>2. Cardinality(paid) < Total
      BY <2>1, WalkNumbers, WalkinsAssumption DEF Adding!Fits
    <3>3. /\ IsFiniteSet(paid') /\ Cardinality(paid') \in Nat
          /\ Cardinality(paid') <= Cardinality(paid) + 1
      <4>1. /\ IsFiniteSet(paid')
            /\ Cardinality(paid') = IF c.number \in paid THEN Cardinality(paid)
                                    ELSE Cardinality(paid) + 1
        BY <1>1, <2>1, FS_AddElement DEF WalkInv, PaidAsMeant
      <4> QED BY <4>1, WalkNumbers
    <3>4. Cardinality(paid') <= Total
      BY <3>2, <3>3, WalkNumbers, WalkinsAssumption
    <3>5. lost \/ Cardinality(paid') + 0 <= meant
      <4>1. lost \/ Cardinality(paid) + 1 <= meant BY <1>3 DEF WalkInv, PaidAsMeant
      <4> QED BY <3>3, <4>1, WalkNumbers
    <3> QED BY <1>1, <3>1, <3>3, <3>4, <3>5 DEF WalkInv, PaidAsMeant
  <2>2. CASE ~Adding!Fits
    <3>1. Intended' = 1 BY <1>3, <2>2
    <3> QED BY <1>1, <1>3, <2>2, <3>1 DEF WalkInv, PaidAsMeant
  <2> QED BY <2>1, <2>2
<1> QED BY <1>3, <1>4 DEF WalkInv

LEMMA WalkPaid ==
  ASSUME WalkInv, NEW c \in adding, Adding!Paid(c)
  PROVE  WalkInv'
<1>1. /\ c \in Pays /\ c \notin Adds /\ c.kind \in {"paid", "not paid"}
      /\ adding' = adding \ {c} /\ sending' = sending \ {"pay"}
      /\ balance' = (IF c.kind = "paid" THEN Adding!Due ELSE balance)
      /\ retrying' = (c.kind = "not paid")
      /\ UNCHANGED <<open, opening, sends, bookings, paid, meant, added, lost>>
  BY WalkKinds DEF WalkInv, WalkTypes, Adding!Paid
<1>2. balance' \in 0..Total
  <2>1. Adding!Due \in 0..Total
    <3>1. Cardinality(paid) <= Total BY DEF WalkInv, PaidAsMeant
    <3> QED BY <3>1, WalkNumbers, WalkinsAssumption
  <2>2. balance \in 0..Total BY DEF WalkInv, WalkTypes, Adding!TypeOK
  <2> QED BY <1>1, <2>1, <2>2
<1>3. WalkTypes' BY <1>1, <1>2 DEF WalkInv, WalkTypes, Adding!TypeOK
<1>4. adding \cap Pays = {c} /\ ~retrying BY <1>1 DEF WalkInv, OnePay
<1>5. adding' \cap Pays = {} BY <1>1, <1>4
<1>6. OnePay' BY <1>1, <1>5 DEF OnePay
<1>7. AnswersAreTrue' BY <1>1 DEF WalkInv, AnswersAreTrue
<1>8. PaidAsMeant'
  <2>1. Intended' = Intended
    BY <1>1, <1>4, <1>5 DEF Intended, IsIntended
  <2> QED BY <1>1, <2>1 DEF WalkInv, PaidAsMeant
<1> QED BY <1>1, <1>3, <1>6, <1>7, <1>8 DEF WalkInv, Adding!AddedIsWhatWasAsked

LEMMA WalkLose ==
  ASSUME WalkInv, NEW c \in adding, Adding!Lose(c)
  PROVE  WalkInv'
<1>1. /\ lost' = (lost \/ c.kind = "paid") /\ lost' \in BOOLEAN
      /\ UNCHANGED <<open, opening, sending, sends, bookings, paid, balance, meant, retrying, added>>
  BY DEF WalkInv, WalkTypes, Adding!Lose
<1>2. CASE c \in Pays
  <2>1. adding' = (adding \ {c}) \cup {[c EXCEPT !.kind = "not paid"]}
    BY <1>2, WalkKinds DEF Adding!Lose
  <2>2. paid' \subseteq 1..MaxSends BY <1>1 DEF WalkInv, WalkTypes, Adding!TypeOK
  <2>3. /\ WalkTypes' /\ OnePay' /\ AnswersAreTrue' /\ Adding!AddedIsWhatWasAsked'
        /\ Intended' = 1 /\ Intended = (IF c.kind = "paid" THEN 0 ELSE 1)
    BY <1>1, <1>2, <2>1, <2>2, PayTurns
  <2>4. PaidAsMeant' BY <1>1, <2>3 DEF WalkInv, PaidAsMeant
  <2> QED BY <2>3, <2>4 DEF WalkInv
<1>3. CASE c \in Adds
  <2> DEFINE r == [c EXCEPT !.kind = "not added"]
  <2>1. r \in Adds /\ r.kind = "not added" BY <1>3 DEF Adds
  <2>2. adding' = (adding \ {c}) \cup {r}
    BY <1>3, WalkKinds DEF Adding!Lose
  <2>3. r \notin Pays /\ c \notin Pays /\ c.kind # "paid" BY <1>3, <2>1, WalkKinds
  <2> HIDE DEF r
  <2>4. adding' \cap Pays = adding \cap Pays BY <2>2, <2>3
  <2>5. WalkTypes' BY <1>1, <2>1, <2>2 DEF WalkInv, WalkTypes, Adding!TypeOK
  <2>6. OnePay' BY <1>1, <2>4 DEF WalkInv, OnePay
  <2>7. AnswersAreTrue' BY <1>1, <2>1, <2>2 DEF WalkInv, AnswersAreTrue
  <2>8. PaidAsMeant'
    BY <1>1, <2>3, <2>4 DEF WalkInv, PaidAsMeant, Intended, IsIntended
  <2> QED BY <1>1, <2>5, <2>6, <2>7, <2>8 DEF WalkInv, Adding!AddedIsWhatWasAsked
<1> QED BY <1>2, <1>3 DEF WalkInv, WalkTypes

LEMMA WalkNext ==
  ASSUME WalkInv, [Adding!Next]_walkVars
  PROVE  WalkInv'
<1>1. CASE UNCHANGED walkVars
  BY <1>1 DEF walkVars, WalkInv, WalkTypes, OnePay, AnswersAreTrue, PaidAsMeant, Intended,
    IsIntended, Adding!TypeOK, Adding!AddedIsWhatWasAsked
<1>2. CASE Adding!Next
  BY <1>2, WalkDialog, WalkSubmit, WalkServesAdd, WalkAdded, WalkPay, WalkServesPay, WalkPaid,
    WalkLose DEF Adding!Next
<1> QED BY <1>1, <1>2

\* What the invariant says of what is recorded.
LEMMA WalkHolds ==
  ASSUME WalkInv
  PROVE  Adding!TypeOK /\ Adding!AddedIsWhatWasAsked /\ Adding!TwiceOnlyIfLost
<1>1. \A S : Adding!Cardinality(S) = Cardinality(S)
  BY DEF Adding!Cardinality, Cardinality
<1>2. Cardinality(paid) > meant => lost
  BY WalkNumbers DEF WalkInv, PaidAsMeant, Intended
<1> QED BY <1>1, <1>2 DEF WalkInv, WalkTypes, Adding!TwiceOnlyIfLost

-----------------------------------------------------------------------------
(* The admin console.                                                      *)

Queries ==
  [n : 1..queries, by : Admin, kind : {"read", "act"}, screen : List, filter : {"all", "stuck"},
   at : {"serve", "audit", "answer", "refused", "lost"},
   data : Watching!States \cup {Null, "none"}]
Views ==
  [screen : List \cup {Null}, filter : {"all", "stuck"},
   shown : Watching!States \cup {Null, "none"}, from : 0..queries, busy : BOOLEAN,
   result : 0..queries \cup {Null}]

ConsoleTypes ==
  /\ rows \in [Watching!Acting -> Watching!States] /\ queries \in 0..MaxQueries
  /\ audited \subseteq 1..queries /\ crashed \in BOOLEAN
  /\ view \in [Admin -> Views] /\ calls \subseteq Queries /\ IsFiniteSet(calls)
  /\ retried \in Nat /\ stuck \in Nat

AnswersAreAudited ==
  \A c \in calls : /\ c.kind = "act" => c.screen \in Watching!Acting
                   /\ c.at = "answer" => c.n \in audited

\* The retries of the email that took it, and the email that can be taken.
Retries == {c \in calls : /\ c.kind = "act" /\ c.screen = "outbox"
                          /\ c.at \in {"audit", "answer"}}
Takeable == IF rows["outbox"] = "stuck" THEN 1 ELSE 0
TakenOnce == retried + Cardinality(Retries) + Takeable <= stuck

ConsoleInv == ConsoleTypes /\ AnswersAreAudited /\ TakenOnce /\ Watching!SeenIsAudited

LEMMA RetriesCount ==
  ASSUME ConsoleInv
  PROVE  /\ IsFiniteSet(Retries) /\ Cardinality(Retries) \in Nat
         /\ Takeable \in {0, 1} /\ retried \in Nat /\ stuck \in Nat
<1>1. Retries \in SUBSET calls BY DEF Retries
<1> QED BY <1>1, FS_Subset, FS_CardinalityType DEF ConsoleInv, ConsoleTypes, Takeable

LEMMA OutboxActs == "outbox" \in Watching!Acting
  BY DEF Watching!Acting, Watching!Lists

LEMMA ConsoleInit == Watching!Init => ConsoleInv
<1> SUFFICES ASSUME Watching!Init PROVE ConsoleInv OBVIOUS
<1>1. queries = 0 /\ queries \in 0..MaxQueries /\ 0 \in 0..queries /\ retried = 0 /\ stuck = 1
  BY ConsoleAssumption DEF Watching!Init
<1>2. Watching!Nowhere \in Views BY <1>1 DEF Watching!Nowhere, Views
<1>3. ConsoleTypes
  <2>1. rows \in [Watching!Acting -> Watching!States] BY DEF Watching!Init, Watching!States
  <2>2. view \in [Admin -> Views] BY <1>2 DEF Watching!Init
  <2>3. IsFiniteSet(calls) /\ calls = {} /\ audited = {} /\ crashed \in BOOLEAN
    BY FS_EmptySet DEF Watching!Init
  <2> QED BY <1>1, <2>1, <2>2, <2>3 DEF ConsoleTypes
<1>4. TakenOnce
  <2>1. Retries = {} /\ Cardinality({}) = 0 BY FS_EmptySet DEF Watching!Init, Retries
  <2> QED BY <1>1, <2>1 DEF TakenOnce, Takeable
<1>5. AnswersAreAudited BY DEF Watching!Init, AnswersAreAudited
<1>6. Watching!SeenIsAudited
  BY DEF Watching!Init, Watching!SeenIsAudited, Watching!Nowhere
<1> QED BY <1>3, <1>4, <1>5, <1>6 DEF ConsoleInv

\* A page that changes has seen what is audited.
Honest(v) == /\ v \in Views
             /\ v.from # 0 => v.from \in audited
             /\ v.result \notin {Null, 0} => v.result \in audited

\* The page of one admin changes, and calls come and go that take nothing.
LEMMA ConsolePage ==
  ASSUME ConsoleInv, NEW a \in Admin, NEW v, Honest(v),
         view' = [view EXCEPT ![a] = v] \/ view' = view,
         UNCHANGED <<rows, audited, crashed, stuck, retried>>,
         NEW c, calls' \subseteq calls \cup {c}, queries' = queries \/ queries' = queries + 1,
         queries' <= MaxQueries,
         \/ calls' \subseteq calls
         \/ c \in Queries' /\ c.at = "serve" /\ (c.kind = "act" => c.screen \in Watching!Acting)
  PROVE  ConsoleInv'
<1>1. /\ queries \in Nat /\ queries' \in 0..MaxQueries
      /\ 1..queries \subseteq 1..queries' /\ 0..queries \subseteq 0..queries'
  BY ConsoleAssumption DEF ConsoleInv, ConsoleTypes
<1>2. Queries \subseteq Queries' /\ Views \subseteq Views'
  BY <1>1 DEF Queries, Views
<1>3. view' \in [Admin -> Views] /\ \A b \in Admin : view'[b] \in {view[b], v}
  BY DEF ConsoleInv, ConsoleTypes, Honest
<1>4. IsFiniteSet(calls')
  <2>1. IsFiniteSet(calls \cup {c}) BY FS_AddElement DEF ConsoleInv, ConsoleTypes
  <2> QED BY <2>1, FS_Subset
<1>5. ConsoleTypes'
  BY <1>1, <1>2, <1>3, <1>4 DEF ConsoleInv, ConsoleTypes
<1>6. AnswersAreAudited' BY DEF ConsoleInv, AnswersAreAudited
<1>7. TakenOnce'
  <2>1. Retries' \subseteq Retries BY DEF Retries
  <2>2. Cardinality(Retries') <= Cardinality(Retries) /\ Cardinality(Retries') \in Nat
    BY <2>1, RetriesCount, FS_Subset, FS_CardinalityType
  <2> QED BY <2>2, RetriesCount DEF ConsoleInv, TakenOnce, Takeable
<1>8. Watching!SeenIsAudited'
  BY <1>3 DEF ConsoleInv, Watching!SeenIsAudited, Honest
<1> QED BY <1>5, <1>6, <1>7, <1>8 DEF ConsoleInv

LEMMA ConsoleReads ==
  ASSUME ConsoleTypes, NEW a \in Admin, NEW place \in List, NEW filter \in {"all", "stuck"},
         queries < MaxQueries, queries' = queries + 1
  PROVE  /\ Watching!Read(a, place, filter) \in Queries'
         /\ Watching!Read(a, place, filter).at = "serve"
         /\ Watching!Read(a, place, filter).kind = "read"
<1>1. queries + 1 \in 1..queries' BY DEF ConsoleTypes
<1> QED BY <1>1 DEF Watching!Read, Queries

LEMMA ConsoleOpens ==
  ASSUME ConsoleInv, NEW a \in Admin,
         \/ \E place \in List : Watching!Open(a, place)
         \/ \E filter \in {"all", "stuck"} : Watching!Search(a, filter)
  PROVE  ConsoleInv'
<1>1. view[a] \in Views /\ ConsoleTypes /\ queries \in Nat
  BY DEF ConsoleInv, ConsoleTypes
<1>2. view[a].from \in 0..queries /\ Honest(view[a])
  BY <1>1 DEF ConsoleInv, Watching!SeenIsAudited, Views, Honest
<1>3. CASE \E place \in List : Watching!Open(a, place)
  <2>1. PICK place \in List : Watching!Open(a, place) BY <1>3
  <2> DEFINE filter == Watching!Lists[place].filter
             c == Watching!Read(a, place, filter)
             v == [Watching!Nowhere EXCEPT !.screen = place, !.filter = filter]
  <2>2. place \in DOMAIN Watching!Lists BY ConsoleAssumption
  <2>3. filter \in {"all", "stuck"} BY <2>2 DEF Watching!Lists
  <2>4. /\ queries < MaxQueries /\ queries' = queries + 1 /\ calls' = calls \cup {c}
        /\ view' = [view EXCEPT ![a] = v]
        /\ UNCHANGED <<rows, audited, crashed, stuck, retried>>
    BY <2>1 DEF Watching!Open, Watching!Send
  <2> HIDE DEF filter
  <2>5. c \in Queries' /\ c.at = "serve" /\ c.kind = "read"
    BY <1>1, <2>3, <2>4, ConsoleReads
  <2>6. Honest(v)
    <3>1. 0 \in 0..queries BY <1>1
    <3> QED BY <2>3, <3>1 DEF Honest, Views, Watching!Nowhere
  <2> HIDE DEF c, v
  <2>7. queries' <= MaxQueries BY <1>1, <2>4, ConsoleAssumption
  <2> QED BY <2>4, <2>5, <2>6, <2>7, ConsolePage
<1>4. CASE \E filter \in {"all", "stuck"} : Watching!Search(a, filter)
  <2>1. PICK filter \in {"all", "stuck"} : Watching!Search(a, filter) BY <1>4
  <2> DEFINE c == Watching!Read(a, view[a].screen, filter)
             v == [view[a] EXCEPT !.filter = filter]
  <2>2. view[a].screen \in List BY <1>1, <2>1 DEF Views, Watching!Search
  <2>3. /\ queries < MaxQueries /\ queries' = queries + 1 /\ calls' = calls \cup {c}
        /\ view' = [view EXCEPT ![a] = v]
        /\ UNCHANGED <<rows, audited, crashed, stuck, retried>>
    BY <2>1 DEF Watching!Search, Watching!Send
  <2>4. c \in Queries' /\ c.at = "serve" /\ c.kind = "read"
    BY <1>1, <2>2, <2>3, ConsoleReads
  <2>5. Honest(v) BY <1>1, <1>2 DEF Honest, Views
  <2> HIDE DEF c, v
  <2>6. queries' <= MaxQueries BY <1>1, <2>3, ConsoleAssumption
  <2> QED BY <2>3, <2>4, <2>5, <2>6, ConsolePage
<1> QED BY <1>3, <1>4

LEMMA ConsoleActs ==
  ASSUME ConsoleInv, NEW a \in Admin, Watching!Act(a)
  PROVE  ConsoleInv'
<1> DEFINE c == [n |-> queries + 1, by |-> a, kind |-> "act", screen |-> view[a].screen,
                 filter |-> view[a].filter, at |-> "serve", data |-> Null]
           v == [view[a] EXCEPT !.busy = TRUE, !.result = Null]
<1>1. view[a] \in Views /\ queries \in Nat BY DEF ConsoleInv, ConsoleTypes
<1>2. /\ queries < MaxQueries /\ queries' = queries + 1 /\ calls' = calls \cup {c}
      /\ view' = [view EXCEPT ![a] = v] /\ view[a].screen \in Watching!Acting
      /\ UNCHANGED <<rows, audited, crashed, stuck, retried>>
  BY DEF Watching!Act, Watching!Send, Watching!Offered
<1>3. view[a].screen \in List
  <2>1. view[a].screen # Null BY <1>2, ConsoleAssumption DEF Watching!Acting
  <2> QED BY <1>1, <2>1 DEF Views
<1>4. c \in Queries' /\ c.at = "serve" /\ c.screen \in Watching!Acting
  <2>1. queries + 1 \in 1..queries' BY <1>1, <1>2
  <2>2. view[a].filter \in {"all", "stuck"} BY <1>1 DEF Views
  <2> QED BY <1>2, <1>3, <2>1, <2>2 DEF Queries
<1>5. Honest(v)
  <2>1. view[a].from # 0 => view[a].from \in audited
    BY DEF ConsoleInv, Watching!SeenIsAudited
  <2> QED BY <1>1, <2>1 DEF Honest, Views
<1> HIDE DEF c, v
<1>6. queries' <= MaxQueries BY <1>1, <1>2, ConsoleAssumption
<1> QED BY <1>2, <1>4, <1>5, <1>6, ConsolePage

\* What a call says.
LEMMA CallSays ==
  ASSUME ConsoleInv, NEW c \in calls
  PROVE  /\ c \in Queries /\ c.n \in 1..queries /\ c.by \in Admin /\ c.screen \in List
         /\ c.filter \in {"all", "stuck"} /\ c.data \in Watching!States \cup {Null, "none"}
         /\ c.at = "answer" => c.n \in audited
         /\ c.kind = "act" => c.screen \in Watching!Acting
         /\ view[c.by] \in Views /\ Honest(view[c.by])
<1>1. c \in Queries /\ c.by \in Admin
  BY DEF ConsoleInv, ConsoleTypes, Queries
<1>2. view[c.by] \in Views BY <1>1 DEF ConsoleInv, ConsoleTypes
<1>3. Honest(view[c.by])
  BY <1>1, <1>2 DEF Honest, ConsoleInv, Watching!SeenIsAudited
<1> QED BY <1>1, <1>2, <1>3 DEF Queries, ConsoleInv, AnswersAreAudited

LEMMA ConsoleLoaded ==
  ASSUME ConsoleInv, NEW c \in calls, Watching!Loaded(c)
  PROVE  ConsoleInv'
<1> DEFINE a == c.by
           v == [view[a] EXCEPT !.shown = c.data, !.from = IF c.at = "answer" THEN c.n ELSE 0]
<1>1. /\ calls' = calls \ {c} /\ UNCHANGED <<rows, queries, audited, crashed, retried, stuck>>
      /\ view' = [view EXCEPT ![a] = v] \/ view' = view
  BY DEF Watching!Loaded
<1>2. queries \in Nat /\ queries <= MaxQueries BY ConsoleAssumption DEF ConsoleInv, ConsoleTypes
<1>3. Honest(v)
  <2>1. (IF c.at = "answer" THEN c.n ELSE 0) \in 0..queries BY <1>2, CallSays
  <2>2. v \in Views BY <2>1, CallSays DEF Views
  <2>3. /\ v.from = IF c.at = "answer" THEN c.n ELSE 0
        /\ v.result = view[a].result
    BY CallSays DEF Views
  <2> QED BY <2>2, <2>3, CallSays DEF Honest
<1>4. a \in Admin BY CallSays
<1> HIDE DEF v, a
<1> QED BY <1>1, <1>2, <1>3, <1>4, ConsolePage

\* An action that was answered counts as done; the list is loaded again.
LEMMA ConsoleActed ==
  ASSUME ConsoleInv, NEW c \in calls, Watching!Acted(c)
  PROVE  ConsoleInv'
<1> DEFINE a == c.by
           r == Watching!Read(c.by, c.screen, c.filter)
           v == [view[a] EXCEPT !.busy = FALSE, !.result = IF c.at = "answer" THEN c.n ELSE 0]
<1>1. /\ UNCHANGED <<rows, audited, crashed, stuck>> /\ c.kind = "act"
      /\ view' = [view EXCEPT ![a] = v] \/ view' = view
      /\ \/ queries' = queries /\ calls' = calls \ {c}
         \/ /\ queries < MaxQueries /\ queries' = queries + 1
            /\ calls' = (calls \ {c}) \cup {r}
      /\ retried' = IF c.at = "answer" /\ c.screen = "outbox" THEN retried + 1 ELSE retried
  BY DEF Watching!Acted
<1>2. queries \in Nat /\ queries <= MaxQueries BY ConsoleAssumption DEF ConsoleInv, ConsoleTypes
<1>3. Honest(v) /\ v \in Views
  <2>1. (IF c.at = "answer" THEN c.n ELSE 0) \in 0..queries BY <1>2, CallSays
  <2>2. v \in Views BY <2>1, CallSays DEF Views
  <2>3. /\ v.result = IF c.at = "answer" THEN c.n ELSE 0
        /\ v.from = view[a].from
    BY CallSays DEF Views
  <2> QED BY <2>2, <2>3, CallSays DEF Honest
<1>4. a \in Admin BY CallSays
<1>5. queries < MaxQueries /\ queries' = queries + 1 =>
        r \in Queries' /\ r.at = "serve" /\ r.kind = "read"
  BY CallSays, ConsoleReads DEF ConsoleInv
<1> HIDE DEF r, v, a
<1>6. queries' \in 0..MaxQueries /\ 1..queries \subseteq 1..queries' /\ 0..queries \subseteq 0..queries'
  BY <1>1, <1>2, ConsoleAssumption
<1>7. Queries \subseteq Queries' /\ Views \subseteq Views'
  BY <1>6 DEF Queries, Views
<1>8. ConsoleTypes'
  <2>1. IsFiniteSet(calls \ {c}) /\ IsFiniteSet((calls \ {c}) \cup {r})
    BY FS_RemoveElement, FS_AddElement DEF ConsoleInv, ConsoleTypes
  <2>2. calls' \subseteq Queries' /\ IsFiniteSet(calls')
    BY <1>1, <1>5, <1>7, <2>1 DEF ConsoleInv, ConsoleTypes
  <2>3. view' \in [Admin -> Views'] BY <1>1, <1>3, <1>7 DEF ConsoleInv, ConsoleTypes
  <2>4. retried' \in Nat BY <1>1 DEF ConsoleInv, ConsoleTypes
  <2>5. audited' \subseteq 1..queries' BY <1>1, <1>6 DEF ConsoleInv, ConsoleTypes
  <2> QED BY <1>1, <1>6, <2>2, <2>3, <2>4, <2>5 DEF ConsoleInv, ConsoleTypes
<1>9. AnswersAreAudited'
  BY <1>1, <1>5 DEF ConsoleInv, AnswersAreAudited
<1>10. TakenOnce'
  <2>1. Retries' \subseteq Retries \ {c} BY <1>1, <1>5 DEF Retries
  <2>2. /\ IsFiniteSet(Retries \ {c}) /\ Cardinality(Retries \ {c}) \in Nat
        /\ Cardinality(Retries \ {c}) =
             IF c \in Retries THEN Cardinality(Retries) - 1 ELSE Cardinality(Retries)
    BY RetriesCount, FS_RemoveElement, FS_CardinalityType
  <2>3. Cardinality(Retries') <= Cardinality(Retries \ {c}) /\ Cardinality(Retries') \in Nat
    BY <2>1, <2>2, FS_Subset, FS_CardinalityType
  <2>4. Takeable' = Takeable BY <1>1 DEF Takeable
  <2>5. retried + Cardinality(Retries) + Takeable <= stuck BY DEF ConsoleInv, TakenOnce
  <2>6. c.at = "answer" /\ c.screen = "outbox" => c \in Retries BY <1>1 DEF Retries
  <2> QED BY <1>1, <2>2, <2>3, <2>4, <2>5, <2>6, RetriesCount DEF TakenOnce
<1>11. Watching!SeenIsAudited'
  <2>1. \A b \in Admin : view'[b] \in {view[b], v}
    BY <1>1, <1>3 DEF ConsoleInv, ConsoleTypes
  <2> QED BY <1>1, <1>3, <2>1 DEF ConsoleInv, Watching!SeenIsAudited, Honest
<1> QED BY <1>8, <1>9, <1>10, <1>11 DEF ConsoleInv

\* A call goes on.
LEMMA CallTurns ==
  ASSUME ConsoleInv, NEW c \in calls, NEW where \in {"serve", "audit", "answer", "refused", "lost"},
         NEW tells \in Watching!States \cup {Null, "none"}, Watching!Step(c, where, tells),
         UNCHANGED <<view, queries, crashed, retried>>,
         rows' \in [Watching!Acting -> Watching!States], stuck' = stuck,
         audited \subseteq audited', audited' \subseteq 1..queries,
         where = "answer" => c.n \in audited'
  PROVE  ConsoleTypes' /\ AnswersAreAudited' /\ Watching!SeenIsAudited'
<1> DEFINE d == [c EXCEPT !.at = where, !.data = tells]
<1>1. /\ d \in Queries /\ d.at = where /\ d.n = c.n /\ d.kind = c.kind /\ d.screen = c.screen
  BY CallSays DEF Queries
<1>2. calls' = (calls \ {c}) \cup {d} BY DEF Watching!Step
<1> HIDE DEF d
<1>3. ConsoleTypes'
  <2>1. IsFiniteSet(calls')
    BY <1>2, FS_RemoveElement, FS_AddElement DEF ConsoleInv, ConsoleTypes
  <2> QED BY <1>1, <1>2, <2>1 DEF ConsoleInv, ConsoleTypes, Queries, Views
<1>4. AnswersAreAudited' BY <1>1, <1>2, CallSays DEF ConsoleInv, AnswersAreAudited
<1>5. Watching!SeenIsAudited' BY DEF ConsoleInv, Watching!SeenIsAudited
<1> QED BY <1>3, <1>4, <1>5

LEMMA ConsoleServes ==
  ASSUME ConsoleInv, NEW c \in calls, Watching!ServeRead(c) \/ Watching!ServeAct(c)
  PROVE  ConsoleInv'
<1>1. ConsoleTypes BY DEF ConsoleInv
<1>2. CASE Watching!ServeRead(c)
  <2>1. Watching!Found(c) \in Watching!States \cup {Null, "none"}
    BY <1>1 DEF ConsoleTypes, Watching!Found, Watching!States
  <2>2. /\ c.kind = "read" /\ Watching!Step(c, "audit", Watching!Found(c))
        /\ UNCHANGED <<rows, view, queries, audited, crashed, retried, stuck>>
    BY <1>2 DEF Watching!ServeRead
  <2>3. ConsoleTypes' /\ AnswersAreAudited' /\ Watching!SeenIsAudited'
    BY <1>1, <2>1, <2>2, CallTurns DEF ConsoleTypes
  <2>4. Retries' \subseteq Retries
    <3>1. [c EXCEPT !.at = "audit", !.data = Watching!Found(c)].kind = "read"
      BY <2>2, CallSays DEF Queries
    <3> QED BY <2>2, <3>1 DEF Retries, Watching!Step
  <2>5. Cardinality(Retries') <= Cardinality(Retries) /\ Cardinality(Retries') \in Nat
    BY <2>4, RetriesCount, FS_Subset, FS_CardinalityType
  <2>6. TakenOnce'
    BY <2>2, <2>5, RetriesCount DEF ConsoleInv, TakenOnce, Takeable
  <2> QED BY <2>3, <2>6 DEF ConsoleInv
<1>3. CASE Watching!ServeAct(c)
  <2>1. /\ c.kind = "act" /\ c.screen \in Watching!Acting
        /\ UNCHANGED <<view, queries, audited, crashed, retried, stuck>>
    BY <1>3, CallSays DEF Watching!ServeAct
  <2>2. CASE Watching!MayAct(c.screen)
    <3>1. PICK new : /\ rows' = [rows EXCEPT ![c.screen] = new]
                     /\ new \in IF c.screen = "outbox" THEN {"queued"} ELSE {"done", rows[c.screen]}
      BY <1>3, <2>2 DEF Watching!ServeAct
    <3>2. Watching!Step(c, "audit", Null) BY <1>3, <2>2 DEF Watching!ServeAct
    <3>3. rows' \in [Watching!Acting -> Watching!States]
      BY <1>1, <2>1, <3>1 DEF ConsoleTypes, Watching!States
    <3>4. ConsoleTypes' /\ AnswersAreAudited' /\ Watching!SeenIsAudited'
      BY <1>1, <2>1, <3>2, <3>3, CallTurns DEF ConsoleTypes
    <3> DEFINE d == [c EXCEPT !.at = "audit", !.data = Null]
    <3>5. d.screen = c.screen /\ calls' = (calls \ {c}) \cup {d}
      BY <3>2, CallSays DEF Queries, Watching!Step
    <3> HIDE DEF d
    <3>6. CASE c.screen = "outbox"
      <4>1. Takeable = 1 /\ Takeable' = 0
        BY <1>1, <2>1, <2>2, <3>1, <3>6 DEF Takeable, Watching!MayAct, ConsoleTypes
      <4>2. Retries' \subseteq Retries \cup {d} BY <3>5 DEF Retries
      <4>3. /\ IsFiniteSet(Retries \cup {d}) /\ Cardinality(Retries \cup {d}) \in Nat
            /\ Cardinality(Retries \cup {d}) <= Cardinality(Retries) + 1
        <5>1. /\ IsFiniteSet(Retries \cup {d})
              /\ Cardinality(Retries \cup {d}) =
                   IF d \in Retries THEN Cardinality(Retries) ELSE Cardinality(Retries) + 1
          BY RetriesCount, FS_AddElement
        <5> QED BY <5>1, RetriesCount
      <4>4. /\ Cardinality(Retries') <= Cardinality(Retries \cup {d})
            /\ Cardinality(Retries') \in Nat
        BY <4>2, <4>3, FS_Subset, FS_CardinalityType
      <4>5. TakenOnce'
        BY <2>1, <4>1, <4>3, <4>4, RetriesCount DEF ConsoleInv, TakenOnce
      <4> QED BY <3>4, <4>5 DEF ConsoleInv
    <3>7. CASE c.screen # "outbox"
      <4>1. Takeable' = Takeable
        BY <1>1, <2>1, <3>1, <3>7, OutboxActs DEF Takeable, ConsoleTypes
      <4>2. Retries' \subseteq Retries BY <3>5, <3>7 DEF Retries
      <4>3. Cardinality(Retries') <= Cardinality(Retries) /\ Cardinality(Retries') \in Nat
        BY <4>2, RetriesCount, FS_Subset, FS_CardinalityType
      <4>4. TakenOnce'
        BY <2>1, <4>1, <4>3, RetriesCount DEF ConsoleInv, TakenOnce
      <4> QED BY <3>4, <4>4 DEF ConsoleInv
    <3> QED BY <3>6, <3>7
  <2>3. CASE ~Watching!MayAct(c.screen)
    <3>1. Watching!Step(c, "refused", Null) /\ UNCHANGED rows
      BY <1>3, <2>3 DEF Watching!ServeAct
    <3>2. ConsoleTypes' /\ AnswersAreAudited' /\ Watching!SeenIsAudited'
      BY <1>1, <2>1, <3>1, CallTurns DEF ConsoleTypes
    <3>3. Retries' \subseteq Retries
      <4>1. [c EXCEPT !.at = "refused", !.data = Null].at = "refused"
        BY CallSays DEF Queries
      <4> QED BY <3>1, <4>1 DEF Retries, Watching!Step
    <3>4. Cardinality(Retries') <= Cardinality(Retries) /\ Cardinality(Retries') \in Nat
      BY <3>3, RetriesCount, FS_Subset, FS_CardinalityType
    <3>5. TakenOnce'
      BY <2>1, <3>1, <3>4, RetriesCount DEF ConsoleInv, TakenOnce, Takeable
    <3> QED BY <3>2, <3>5 DEF ConsoleInv
  <2> QED BY <2>2, <2>3
<1> QED BY <1>2, <1>3

LEMMA ConsoleAudits ==
  ASSUME ConsoleInv, NEW c \in calls, Watching!Audit(c)
  PROVE  ConsoleInv'
<1>1. ConsoleTypes BY DEF ConsoleInv
<1>2. /\ c.at = "audit" /\ audited' = audited \cup {c.n}
      /\ Watching!Step(c, "answer", c.data)
      /\ UNCHANGED <<rows, view, queries, crashed, retried, stuck>>
  BY DEF Watching!Audit
<1>3. ConsoleTypes' /\ AnswersAreAudited' /\ Watching!SeenIsAudited'
  BY <1>1, <1>2, CallSays, CallTurns DEF ConsoleTypes
<1> DEFINE d == [c EXCEPT !.at = "answer", !.data = c.data]
<1>4. d.kind = c.kind /\ d.screen = c.screen /\ calls' = (calls \ {c}) \cup {d}
  BY <1>2, CallSays DEF Queries, Watching!Step
<1> HIDE DEF d
<1>5. Cardinality(Retries') <= Cardinality(Retries) /\ Cardinality(Retries') \in Nat
  <2>1. CASE c \in Retries
    <3>1. Retries' \subseteq (Retries \ {c}) \cup {d} BY <1>4 DEF Retries
    <3>2. /\ IsFiniteSet(Retries \ {c})
          /\ Cardinality(Retries \ {c}) = Cardinality(Retries) - 1
      BY <2>1, RetriesCount, FS_RemoveElement
    <3>3. /\ IsFiniteSet((Retries \ {c}) \cup {d})
          /\ \/ Cardinality((Retries \ {c}) \cup {d}) = Cardinality(Retries \ {c})
             \/ Cardinality((Retries \ {c}) \cup {d}) = Cardinality(Retries \ {c}) + 1
      BY <3>2, FS_AddElement
    <3>4. /\ Cardinality(Retries') <= Cardinality((Retries \ {c}) \cup {d})
          /\ Cardinality(Retries') \in Nat
      BY <3>1, <3>3, FS_Subset, FS_CardinalityType
    <3> QED BY <3>2, <3>3, <3>4, RetriesCount
  <2>2. CASE c \notin Retries
    <3>1. Retries' \subseteq Retries BY <1>2, <1>4, <2>2 DEF Retries
    <3> QED BY <3>1, RetriesCount, FS_Subset, FS_CardinalityType
  <2> QED BY <2>1, <2>2
<1>6. TakenOnce'
  BY <1>2, <1>5, RetriesCount DEF ConsoleInv, TakenOnce, Takeable
<1> QED BY <1>3, <1>6 DEF ConsoleInv

LEMMA ConsoleSender ==
  ASSUME ConsoleInv, Watching!Sender
  PROVE  ConsoleInv'
<1>1. PICK new \in {"done", "stuck"} :
        /\ rows' = [rows EXCEPT !["outbox"] = new]
        /\ stuck' = IF new = "stuck" THEN stuck + 1 ELSE stuck
  BY DEF Watching!Sender
<1>2. rows["outbox"] = "queued" /\ UNCHANGED <<view, calls, queries, audited, crashed, retried>>
  BY DEF Watching!Sender
<1>3. rows' \in [Watching!Acting -> Watching!States] /\ rows'["outbox"] = new
  BY <1>1, OutboxActs DEF ConsoleInv, ConsoleTypes, Watching!States
<1>4. stuck' \in Nat BY <1>1 DEF ConsoleInv, ConsoleTypes
<1>5. ConsoleTypes' BY <1>2, <1>3, <1>4 DEF ConsoleInv, ConsoleTypes, Queries, Views
<1>6. TakenOnce'
  <2>1. Takeable = 0 /\ Takeable' = IF new = "stuck" THEN 1 ELSE 0
    BY <1>2, <1>3 DEF Takeable
  <2>2. Retries' = Retries BY <1>2 DEF Retries
  <2> QED BY <1>1, <1>2, <2>1, <2>2, RetriesCount DEF ConsoleInv, TakenOnce
<1> QED BY <1>2, <1>5, <1>6 DEF ConsoleInv, AnswersAreAudited, Watching!SeenIsAudited

\* Calls that are lost are as many, and take nothing.
LEMMA ConsoleCrash ==
  ASSUME ConsoleInv, Watching!Crash
  PROVE  ConsoleInv'
<1> DEFINE L == [c \in calls |-> [c EXCEPT !.at = "lost", !.data = Null]]
<1>1. /\ crashed' = TRUE /\ calls' = {L[c] : c \in calls}
      /\ UNCHANGED <<rows, view, queries, audited, retried, stuck>>
  BY DEF Watching!Crash
<1>2. \A c \in calls : /\ L[c] \in Queries /\ L[c].at = "lost"
                       /\ L[c].kind = c.kind /\ L[c].screen = c.screen
  <2> SUFFICES ASSUME NEW c \in calls
               PROVE  /\ L[c] \in Queries /\ L[c].at = "lost"
                      /\ L[c].kind = c.kind /\ L[c].screen = c.screen
    OBVIOUS
  <2>1. c \in Queries /\ L[c] = [c EXCEPT !.at = "lost", !.data = Null] BY CallSays
  <2> HIDE DEF L
  <2> QED BY <2>1 DEF Queries
<1>3. IsFiniteSet(calls')
  <2> HIDE DEF L
  <2>1. L \in Surjection(calls, calls')
    <3>1. L = [c \in calls |-> L[c]] BY DEF L
    <3> QED BY <1>1, <3>1 DEF Surjection
  <2> QED BY <2>1, FS_Surjection DEF ConsoleInv, ConsoleTypes
<1> HIDE DEF L
<1>4. ConsoleTypes'
  BY <1>1, <1>2, <1>3 DEF ConsoleInv, ConsoleTypes, Queries, Views
<1>5. AnswersAreAudited' BY <1>1, <1>2 DEF ConsoleInv, AnswersAreAudited
<1>6. TakenOnce'
  <2>1. Retries' = {} BY <1>1, <1>2 DEF Retries
  <2>2. Cardinality(Retries') = 0 BY <2>1, FS_EmptySet
  <2> QED BY <1>1, <2>2, RetriesCount DEF ConsoleInv, TakenOnce, Takeable
<1> QED BY <1>1, <1>4, <1>5, <1>6 DEF ConsoleInv, Watching!SeenIsAudited

LEMMA ConsoleNext ==
  ASSUME ConsoleInv, [Watching!Next]_consoleVars
  PROVE  ConsoleInv'
<1>1. CASE UNCHANGED consoleVars
  BY <1>1 DEF consoleVars, ConsoleInv, ConsoleTypes, AnswersAreAudited, TakenOnce, Retries,
    Takeable, Queries, Views, Watching!SeenIsAudited
<1>2. CASE Watching!Next
  BY <1>2, ConsoleOpens, ConsoleActs, ConsoleLoaded, ConsoleActed, ConsoleServes,
    ConsoleAudits, ConsoleSender, ConsoleCrash DEF Watching!Next
<1> QED BY <1>1, <1>2

\* What the invariant says of the console.
LEMMA ConsoleHolds ==
  ASSUME ConsoleInv
  PROVE  Watching!TypeOK /\ Watching!SeenIsAudited /\ Watching!RetriedOnce
<1>1. Watching!TypeOK
  BY DEF ConsoleInv, ConsoleTypes, Queries, Views, Watching!TypeOK
<1>2. Watching!RetriedOnce
  BY RetriesCount DEF ConsoleInv, TakenOnce, Watching!RetriedOnce
<1> QED BY <1>1, <1>2 DEF ConsoleInv

-----------------------------------------------------------------------------
(* The wizard.                                                             *)

Refreshes == [id : 1..steps, kind : {"refresh"}, to : {Null} \cup 1..3,
              me : {Null, "draft", "live"}, list : {Null} \cup SUBSET (1..2)]
Saves == [id : 1..steps, kind : {"save"}, of : 0..3]
Replies == [id : 1..steps, kind : {"saved", "refused"}, of : 0..3, back : SUBSET (1..2)]

WizardTypes == Starting!TypeOK /\ saves \subseteq Refreshes \cup Saves \cup Replies

StoredWell ==
  /\ finished # {} => "profile" \in finished
  /\ "published" \in finished => Starting!Unfinished = {}
  /\ profile = "live" => "published" \in finished

\* Every step before k is done or was skipped.
Reached(k) == \A j \in Starting!Unfinished : j < k => j \in skipped
Part(k) == <<"profile", "service", "hours", "published">>[k + 1]

\* What a load under way tells and leads to, and what a step that is saved follows.
Knows(c) ==
  /\ c.me # Null \/ c.list # Null \/ c.to # Null => "profile" \in finished
  /\ c.me = "live" => "published" \in finished
  /\ c.list # Null => Starting!Unfinished \subseteq c.list
  /\ ~failed /\ c.to # Null => Reached(c.to)
Follows(c) ==
  /\ c.kind = "saved" => Part(c.of) \in finished
  /\ ~failed /\ c.of > 0 => Reached(c.of)
CallsKnow == /\ \A c \in saves \cap Refreshes : Knows(c)
             /\ \A c \in saves \cap (Saves \cup Replies) : Follows(c)

ShownWell ==
  ~failed /\ shown \in 1..3 => profile # Null /\ "profile" \in finished /\ Reached(shown)

\* A page that is published is told live by the newest load, when no other follows.
IsPublishing == \E c \in saves \cap Replies : c.kind = "saved" /\ c.of = 3
TellsLive ==
  /\ \A c \in saves \cap Refreshes : c.id = newest => c.me # "draft"
  /\ loaded = newest => profile = "live"
LiveInTheEnd == ~failed /\ "published" \in finished => IsPublishing \/ TellsLive

WizardInv == WizardTypes /\ StoredWell /\ CallsKnow /\ ShownWell /\ LiveInTheEnd

\* Of which kind a call is.
LEMMA WizardKinds ==
  ASSUME NEW c \in Refreshes \cup Saves \cup Replies
  PROVE  /\ c.kind = "refresh" <=> c \in Refreshes
         /\ c.kind = "save" <=> c \in Saves
         /\ c.kind \in {"saved", "refused"} <=> c \in Replies
         /\ c.id \in 1..steps
         /\ c \in Refreshes => /\ c.to \in {Null} \cup 1..3 /\ c.me \in {Null, "draft", "live"}
                               /\ c.list \in {Null} \cup SUBSET (1..2)
         /\ c \in Saves \cup Replies => c.of \in 0..3
         /\ c \in Replies => c.back \in SUBSET (1..2)
BY DEF Refreshes, Saves, Replies

LEMMA Parts ==
  /\ Part(0) = "profile" /\ Part(1) = "service" /\ Part(2) = "hours" /\ Part(3) = "published"
  /\ \A k \in 0..3 : Part(k) \in {"profile", "service", "hours", "published"}
<1>1. Part(0) = "profile" /\ Part(1) = "service" /\ Part(2) = "hours" /\ Part(3) = "published"
  BY DEF Part
<1>2. \A k \in 0..3 : k = 0 \/ k = 1 \/ k = 2 \/ k = 3 OBVIOUS
<1> QED BY <1>1, <1>2

\* What is done stays done.
LEMMA DoneStays ==
  ASSUME finished \subseteq finished', skipped \subseteq skipped', failed => failed'
  PROVE  /\ Starting!Unfinished' \subseteq Starting!Unfinished
         /\ \A k : Reached(k) => Reached(k)'
         /\ \A c : Knows(c) => Knows(c)'
         /\ \A c : Follows(c) => Follows(c)'
<1>1. Starting!Unfinished' \subseteq Starting!Unfinished BY DEF Starting!Unfinished
<1>2. \A k : Reached(k) => Reached(k)' BY <1>1 DEF Reached
<1> QED BY <1>1, <1>2 DEF Knows, Follows

\* One call comes, or takes the place of another.
LEMMA CallsKeep ==
  ASSUME WizardInv, finished \subseteq finished', skipped \subseteq skipped', failed => failed',
         steps \in Nat, steps' \in Nat, steps <= steps',
         NEW d, saves' \subseteq saves \cup {d},
         \/ saves' \subseteq saves
         \/ d \in Refreshes' /\ Knows(d)'
         \/ d \in Saves' \cup Replies' /\ Follows(d)'
  PROVE  saves' \subseteq Refreshes' \cup Saves' \cup Replies' /\ CallsKnow'
<1>1. 1..steps \subseteq 1..steps' OBVIOUS
<1>2. Refreshes \subseteq Refreshes' /\ Saves \subseteq Saves' /\ Replies \subseteq Replies'
  BY <1>1 DEF Refreshes, Saves, Replies
<1>3. saves' \subseteq Refreshes' \cup Saves' \cup Replies'
  BY <1>2 DEF WizardInv, WizardTypes
<1>4. ASSUME NEW c \in saves
      PROVE  /\ c \in Refreshes' => c \in Refreshes /\ Knows(c)'
             /\ c \in Saves' \cup Replies' => c \in Saves \cup Replies /\ Follows(c)'
  <2>1. c \in Refreshes \cup Saves \cup Replies BY DEF WizardInv, WizardTypes
  <2>2. c \in Refreshes' => c.kind = "refresh" BY DEF Refreshes
  <2>3. c \in Saves' \cup Replies' => c.kind \in {"save", "saved", "refused"}
    BY DEF Saves, Replies
  <2> QED BY <2>1, <2>2, <2>3, WizardKinds, DoneStays DEF WizardInv, CallsKnow
<1>5. d \in Refreshes' => d \notin Saves' \cup Replies' BY DEF Refreshes, Saves, Replies
<1>6. CallsKnow' BY <1>4, <1>5 DEF CallsKnow
<1> QED BY <1>3, <1>6

LEMMA WizardInit == Starting!Init => WizardInv
<1> SUFFICES ASSUME Starting!Init PROVE WizardInv OBVIOUS
<1> DEFINE c == [id |-> 1, kind |-> "refresh", to |-> Null, me |-> Null, list |-> Null]
<1>1. /\ steps = 1 /\ newest = 1 /\ loaded = 0 /\ saves = {c} /\ profile = Null /\ shown = Null
      /\ saving = Null /\ missing = {} /\ skipped = {} /\ failed = FALSE
      /\ finished \subseteq {"profile", "service", "hours", "published"}
      /\ finished # {} => "profile" \in finished
      /\ "published" \in finished => Starting!Unfinished = {}
  BY DEF Starting!Init
<1>2. c \in Refreshes /\ c.id = 1 /\ c.me = Null /\ c.to = Null /\ c.list = Null
  BY <1>1 DEF Refreshes
<1>3. c.kind = "refresh" OBVIOUS
<1>4. c \notin Saves \cup Replies BY <1>2, <1>3, WizardKinds
<1> HIDE DEF c
<1>5. WizardTypes
  <2>1. steps \in 1..MaxSteps /\ newest \in 0..steps /\ loaded \in 0..steps
    BY <1>1, WizardAssumption
  <2> QED BY <1>1, <1>2, <2>1 DEF WizardTypes, Starting!TypeOK
<1>6. StoredWell BY <1>1, WizardAssumption DEF StoredWell
<1>7. CallsKnow BY <1>1, <1>2, <1>4, WizardAssumption DEF CallsKnow, Knows
<1>8. ShownWell
  <2>1. Null \notin 1..3 BY WizardAssumption
  <2> QED BY <1>1, <2>1 DEF ShownWell
<1>9. LiveInTheEnd BY <1>1, <1>2, WizardAssumption DEF LiveInTheEnd, TellsLive
<1> QED BY <1>5, <1>6, <1>7, <1>8, <1>9 DEF WizardInv

\* Half of a load is served.
LEMMA WizardServes ==
  ASSUME WizardInv, NEW c \in saves, Starting!ServeMe(c) \/ Starting!ServeChecklist(c)
  PROVE  WizardInv'
<1>1. /\ c \in Refreshes /\ "profile" \in finished /\ Knows(c) /\ steps \in Nat
      /\ UNCHANGED <<finished, shown, profile, saving, missing, steps, newest, loaded, skipped, failed>>
  BY WizardKinds DEF WizardInv, WizardTypes, CallsKnow, Starting!ServeMe, Starting!ServeChecklist,
    Starting!TypeOK
<1>2. PICK d : /\ saves' = (saves \ {c}) \cup {d} /\ d \in Refreshes /\ d.id = c.id
               /\ d.me = "draft" => c.me = "draft" \/ "published" \notin finished
               /\ Knows(d)
  <2>1. CASE Starting!ServeMe(c)
    <3> DEFINE m == IF "published" \in finished THEN "live" ELSE "draft"
    <3>1. PICK d : d = [c EXCEPT !.me = m] OBVIOUS
    <3>2. saves' = (saves \ {c}) \cup {d} BY <2>1, <3>1 DEF Starting!ServeMe
    <3>3. d \in Refreshes /\ d.id = c.id /\ d.me = m /\ d.to = c.to /\ d.list = c.list
      BY <1>1, <3>1 DEF Refreshes
    <3>4. Knows(d) BY <1>1, <3>3 DEF Knows
    <3> QED BY <3>2, <3>3, <3>4
  <2>2. CASE Starting!ServeChecklist(c)
    <3>1. PICK d : d = [c EXCEPT !.list = Starting!Unfinished] OBVIOUS
    <3>2. saves' = (saves \ {c}) \cup {d} BY <2>2, <3>1 DEF Starting!ServeChecklist
    <3>3. Starting!Unfinished \in SUBSET (1..2) BY DEF Starting!Unfinished
    <3>4. d \in Refreshes /\ d.id = c.id /\ d.me = c.me /\ d.to = c.to
          /\ d.list = Starting!Unfinished
      BY <1>1, <3>1, <3>3 DEF Refreshes
    <3>5. Knows(d) BY <1>1, <3>4 DEF Knows
    <3> QED BY <3>2, <3>4, <3>5
  <2> QED BY <2>1, <2>2
<1>3. Refreshes' = Refreshes /\ Saves' = Saves /\ Replies' = Replies
  BY <1>1 DEF Refreshes, Saves, Replies
<1>4. Knows(d)' BY <1>1, <1>2, DoneStays
<1>5. saves' \subseteq Refreshes' \cup Saves' \cup Replies' /\ CallsKnow'
  BY <1>1, <1>2, <1>3, <1>4, CallsKeep
<1>6. WizardTypes' BY <1>1, <1>5 DEF WizardInv, WizardTypes, Starting!TypeOK
<1>7. StoredWell' /\ ShownWell'
  BY <1>1 DEF WizardInv, StoredWell, ShownWell, Reached, Starting!Unfinished
<1>8. LiveInTheEnd'
  <2>1. IsPublishing => IsPublishing'
    <3>1. c \notin Replies
      <4>1. c.kind = "refresh" BY <1>1 DEF Refreshes
      <4> QED BY <4>1 DEF Replies
    <3> QED BY <1>2, <1>3, <3>1 DEF IsPublishing
  <2>2. "published" \in finished /\ TellsLive => TellsLive'
    BY <1>1, <1>2, <1>3 DEF TellsLive
  <2> QED BY <1>1, <2>1, <2>2 DEF WizardInv, LiveInTheEnd
<1> QED BY <1>5, <1>6, <1>7, <1>8 DEF WizardInv

LEMMA FirstIsReached ==
  ASSUME NEW L \in SUBSET (1..2), Starting!Unfinished \subseteq L
  PROVE  Starting!FirstOf(L) \in 1..3 /\ Reached(Starting!FirstOf(L))
<1>1. Starting!Unfinished \subseteq 1..2 BY DEF Starting!Unfinished
<1> QED BY <1>1 DEF Starting!FirstOf, Reached

\* Another step is shown, or the same.
LEMMA WizardShows ==
  ASSUME Starting!TypeOK, NEW k \in 0..3 \cup {Null}, Starting!Show(k)
  PROVE  /\ shown' = k /\ saving' \in {Null} \cup 1..steps /\ missing' \subseteq 1..2
BY DEF Starting!TypeOK, Starting!Show

LEMMA WizardLoads ==
  ASSUME WizardInv, NEW c \in saves, Starting!Refreshed(c)
  PROVE  WizardInv'
<1>0. PICK k : k = IF c.to # Null THEN c.to
                     ELSE IF shown = Null THEN Starting!FirstOf(c.list) ELSE shown
  OBVIOUS
<1>1. /\ c \in Refreshes /\ Knows(c) /\ steps \in Nat /\ Starting!TypeOK /\ c.id \in 1..steps
      /\ c.me # Null /\ c.list # Null /\ Starting!Show(k)
      /\ profile' = c.me /\ loaded' = c.id /\ saves' = saves \ {c}
      /\ UNCHANGED <<finished, steps, newest, skipped, failed>>
  BY <1>0, WizardKinds DEF WizardInv, WizardTypes, CallsKnow, Starting!Refreshed, Starting!TypeOK
<1>2. /\ c.to \in {Null} \cup 1..3 /\ c.me \in {"draft", "live"} /\ c.list \in SUBSET (1..2)
      /\ "profile" \in finished /\ Starting!Unfinished \subseteq c.list
  BY <1>1, WizardKinds DEF Knows
<1>3. /\ Starting!FirstOf(c.list) \in 1..3 /\ Reached(Starting!FirstOf(c.list))
  BY <1>2, FirstIsReached
<1>4. k \in 0..3 \cup {Null} /\ (~failed /\ k \in 1..3 => Reached(k))
  <2>1. shown \in 0..3 \cup {Null} BY <1>1 DEF Starting!TypeOK
  <2>2. ~failed /\ shown \in 1..3 => Reached(shown) BY DEF WizardInv, ShownWell
  <2>3. ~failed /\ c.to # Null => Reached(c.to) BY <1>1 DEF Knows
  <2> QED BY <1>0, <1>2, <1>3, <2>1, <2>2, <2>3
<1>5. /\ shown' = k /\ saving' \in {Null} \cup 1..steps /\ missing' \subseteq 1..2
  BY <1>1, <1>4, WizardShows
<1>6. saves' \subseteq Refreshes' \cup Saves' \cup Replies' /\ CallsKnow'
  BY <1>1, CallsKeep
<1>7. WizardTypes'
  <2>1. /\ c.id \in 0..steps BY <1>1
  <2> QED BY <1>1, <1>2, <1>4, <1>5, <1>6, <2>1 DEF WizardTypes, Starting!TypeOK
<1>8. StoredWell'
  BY <1>1 DEF WizardInv, StoredWell, Knows, Starting!Unfinished
<1>9. ShownWell'
  <2>1. \A j : Reached(j) => Reached(j)' BY <1>1, DoneStays
  <2>2. ~failed /\ k \in 1..3 => Reached(k)' BY <1>4, <2>1
  <2>3. Reached(k)' => Reached(shown)' BY <1>5 DEF Reached
  <2>4. profile' # Null BY <1>1, WizardAssumption
  <2> QED BY <1>1, <1>2, <1>5, <2>2, <2>4 DEF ShownWell, Reached, Starting!Unfinished
<1>10. LiveInTheEnd'
  <2>1. IsPublishing => IsPublishing'
    <3>1. c.kind = "refresh" BY <1>1 DEF Refreshes
    <3>2. c \notin Replies BY <3>1 DEF Replies
    <3> QED BY <1>1, <3>2 DEF IsPublishing, Replies
  <2>2. TellsLive => TellsLive'
    BY <1>1, <1>2 DEF TellsLive, Refreshes
  <2> QED BY <1>1, <2>1, <2>2 DEF WizardInv, LiveInTheEnd
<1> QED BY <1>6, <1>7, <1>8, <1>9, <1>10 DEF WizardInv

LEMMA WizardLoadFails ==
  ASSUME WizardInv, NEW c \in saves, Starting!RefreshFails(c)
  PROVE  WizardInv'
<1>0. PICK k : k = IF c.to # Null THEN c.to ELSE 0 OBVIOUS
<1>1. /\ c \in Refreshes /\ Knows(c) /\ steps \in Nat /\ Starting!TypeOK
      /\ c.to \in {Null} \cup 1..3
      /\ Starting!Show(k) /\ failed' = (failed \/ "profile" \in finished) /\ saves' = saves \ {c}
      /\ UNCHANGED <<finished, profile, steps, newest, loaded, skipped>>
  BY <1>0, WizardKinds
  DEF WizardInv, WizardTypes, CallsKnow, Starting!RefreshFails, Starting!TypeOK
<1>2. k \in 0..3 \cup {Null} BY <1>0, <1>1
<1>3. ~failed' => "profile" \notin finished /\ k = 0 /\ "published" \notin finished
  BY <1>0, <1>1 DEF Knows, WizardInv, StoredWell
<1>4. /\ shown' = k /\ saving' \in {Null} \cup 1..steps /\ missing' \subseteq 1..2
  BY <1>1, <1>2, WizardShows
<1>5. saves' \subseteq Refreshes' \cup Saves' \cup Replies' /\ CallsKnow'
  <2>1. failed => failed'
    <3>1. failed' = (failed \/ "profile" \in finished) BY <1>1
    <3> QED BY <3>1
  <2>2. /\ finished \subseteq finished' /\ skipped \subseteq skipped'
        /\ steps' \in Nat /\ steps <= steps' /\ saves' \subseteq saves
    BY <1>1
  <2> QED BY <1>1, <2>1, <2>2, CallsKeep
<1>6. WizardTypes' BY <1>1, <1>2, <1>4, <1>5 DEF WizardTypes, Starting!TypeOK
<1>7. StoredWell' BY <1>1 DEF WizardInv, StoredWell, Starting!Unfinished
<1>8. ShownWell' BY <1>3, <1>4 DEF ShownWell
<1>9. LiveInTheEnd' BY <1>1, <1>3 DEF LiveInTheEnd
<1> QED BY <1>5, <1>6, <1>7, <1>8, <1>9 DEF WizardInv

LEMMA WizardSubmits ==
  ASSUME WizardInv, \/ Starting!SubmitBusiness \/ Starting!SubmitService
                    \/ Starting!SubmitHours \/ Starting!Publish
  PROVE  WizardInv'
<1>1. PICK d : d = [id |-> steps + 1, kind |-> "save", of |-> shown] OBVIOUS
<1>2. /\ shown \in 0..3 /\ steps \in Nat /\ steps < MaxSteps /\ Starting!TypeOK
      /\ saves' = saves \cup {d} /\ steps' = steps + 1 /\ saving' = steps + 1 /\ missing' = {}
      /\ UNCHANGED <<finished, shown, profile, newest, loaded, skipped, failed>>
  BY <1>1 DEF WizardInv, WizardTypes, Starting!TypeOK, Starting!SubmitBusiness,
    Starting!SubmitService, Starting!SubmitHours, Starting!Publish, Starting!Submit
<1>3. d.of = shown /\ d.kind = "save" /\ d \in Saves'
  <2>1. steps + 1 \in 1..steps' BY <1>2
  <2> QED BY <1>1, <1>2, <2>1 DEF Saves
<1>4. Follows(d)'
  <2>1. ~failed /\ shown \in 1..3 => Reached(shown) BY DEF WizardInv, ShownWell
  <2>2. ~failed /\ d.of > 0 => Reached(d.of)
    BY <1>2, <1>3, <2>1 DEF Reached
  <2>3. \A j : Reached(j) => Reached(j)' BY <1>2, DoneStays
  <2> QED BY <1>2, <1>3, <2>2, <2>3 DEF Follows
<1>5. steps' \in Nat /\ steps <= steps' /\ steps' \in 1..MaxSteps /\ steps' \in 1..steps'
  BY <1>2, WizardAssumption
<1>6. saves' \subseteq Refreshes' \cup Saves' \cup Replies' /\ CallsKnow'
  BY <1>2, <1>3, <1>4, <1>5, CallsKeep
<1>7. WizardTypes'
  <2>1. 0..steps \subseteq 0..steps' BY <1>2
  <2> QED BY <1>2, <1>5, <1>6, <2>1 DEF WizardTypes, Starting!TypeOK
<1>8. StoredWell' /\ ShownWell'
  BY <1>2 DEF WizardInv, StoredWell, ShownWell, Reached, Starting!Unfinished
<1>9. LiveInTheEnd'
  <2>1. IsPublishing => IsPublishing'
    <3>1. 1..steps \subseteq 1..steps' BY <1>2
    <3>2. Replies \subseteq Replies' BY <3>1 DEF Replies
    <3> QED BY <1>2, <3>2 DEF IsPublishing
  <2>2. TellsLive => TellsLive'
    <3>1. d \notin Refreshes' BY <1>3 DEF Refreshes
    <3>2. \A c \in saves : c \in Refreshes' => c \in Refreshes
      <4> SUFFICES ASSUME NEW c \in saves, c \in Refreshes' PROVE c \in Refreshes OBVIOUS
      <4>1. c.kind = "refresh" BY DEF Refreshes
      <4> QED BY <4>1, WizardKinds DEF WizardInv, WizardTypes
    <3> QED BY <1>2, <3>1, <3>2 DEF TellsLive
  <2> QED BY <1>2, <2>1, <2>2 DEF WizardInv, LiveInTheEnd
<1> QED BY <1>6, <1>7, <1>8, <1>9 DEF WizardInv

LEMMA WizardMoves ==
  ASSUME WizardInv, Starting!Skip \/ \E k \in 1..2 : Starting!Back(k)
  PROVE  WizardInv'
<1>1. PICK k \in 1..3 :
        /\ Starting!Show(k) /\ UNCHANGED <<finished, profile, saves, steps, newest, loaded, failed>>
        /\ skipped \subseteq skipped' /\ skipped' \subseteq 1..2
        /\ ~failed => /\ \A j \in Starting!Unfinished : j < k => j \in skipped'
                      /\ profile # Null /\ "profile" \in finished
  <2>1. CASE Starting!Skip
    <3>1. shown \in {1, 2} /\ skipped' = skipped \cup {shown} /\ Starting!Show(shown + 1)
      BY <2>1 DEF Starting!Skip
    <3>2. ~failed => profile # Null /\ "profile" \in finished /\ Reached(shown)
      BY <3>1 DEF WizardInv, ShownWell
    <3>3. PICK k : k \in 1..3 /\ k = shown + 1 BY <3>1
    <3>4. UNCHANGED <<finished, profile, saves, steps, newest, loaded, failed>>
      BY <2>1 DEF Starting!Skip
    <3>5. ~failed => \A j \in Starting!Unfinished : j < k => j \in skipped'
      <4>1. Starting!Unfinished \subseteq 1..2 BY DEF Starting!Unfinished
      <4> QED BY <3>1, <3>2, <3>3, <4>1 DEF Reached
    <3>6. skipped' \subseteq 1..2
      BY <3>1 DEF WizardInv, WizardTypes, Starting!TypeOK
    <3>7. Starting!Show(k) BY <3>1, <3>3
    <3>8. skipped \subseteq skipped' BY <3>1
    <3> QED BY <3>2, <3>3, <3>4, <3>5, <3>6, <3>7, <3>8
  <2>2. CASE \E k \in 1..2 : Starting!Back(k)
    <3>1. PICK k \in 1..2 : Starting!Back(k) BY <2>2
    <3>2. /\ shown = 3 /\ Starting!Show(k)
          /\ UNCHANGED <<finished, profile, saves, steps, newest, loaded, failed, skipped>>
      BY <3>1 DEF Starting!Back
    <3>3. ~failed => profile # Null /\ "profile" \in finished /\ Reached(shown)
      BY <3>2 DEF WizardInv, ShownWell
    <3>4. ~failed => \A j \in Starting!Unfinished : j < k => j \in skipped'
      <4>1. Starting!Unfinished \subseteq 1..2 BY DEF Starting!Unfinished
      <4> QED BY <3>1, <3>2, <3>3, <4>1 DEF Reached
    <3>6. skipped' \subseteq 1..2 BY <3>2 DEF WizardInv, WizardTypes, Starting!TypeOK
    <3>7. k \in 1..3 /\ skipped \subseteq skipped' BY <3>1, <3>2
    <3> QED BY <3>2, <3>3, <3>4, <3>6, <3>7
  <2> QED BY <2>1, <2>2
<1>2. Starting!TypeOK /\ steps \in Nat BY DEF WizardInv, WizardTypes, Starting!TypeOK
<1>3. /\ shown' = k /\ saving' \in {Null} \cup 1..steps /\ missing' \subseteq 1..2
  BY <1>1, <1>2, WizardShows
<1>4. saves' \subseteq Refreshes' \cup Saves' \cup Replies' /\ CallsKnow'
  BY <1>1, <1>2, CallsKeep
<1>5. WizardTypes' BY <1>1, <1>2, <1>3, <1>4 DEF WizardTypes, Starting!TypeOK
<1>6. StoredWell' BY <1>1 DEF WizardInv, StoredWell, Starting!Unfinished
<1>7. ShownWell' BY <1>1, <1>3 DEF ShownWell, Reached, Starting!Unfinished
<1>8. LiveInTheEnd'
  BY <1>1 DEF WizardInv, LiveInTheEnd, IsPublishing, TellsLive, Replies, Refreshes
<1> QED BY <1>4, <1>5, <1>6, <1>7, <1>8 DEF WizardInv

\* The API saves a step, or refuses it.
LEMMA WizardSaves ==
  ASSUME WizardInv, NEW c \in saves, Starting!Save(c)
  PROVE  WizardInv'
<1> DEFINE fits == /\ c.of = 0 => "profile" \notin finished
                   /\ c.of > 0 => "profile" \in finished
                   /\ c.of = 3 => Starting!Unfinished = {}
<1>1. /\ c \in Saves /\ c.kind = "save" /\ c.of \in 0..3 /\ c.id \in 1..steps /\ steps \in Nat
      /\ Starting!TypeOK /\ Follows(c)
      /\ UNCHANGED <<shown, profile, saving, missing, steps, newest, loaded, skipped, failed>>
  BY WizardKinds DEF WizardInv, WizardTypes, CallsKnow, Starting!Save, Starting!TypeOK
<1>2. PICK d : d = [id |-> c.id, kind |-> IF fits THEN "saved" ELSE "refused", of |-> c.of,
                    back |-> IF c.of = 3 THEN Starting!Unfinished ELSE {}]
  OBVIOUS
<1>3. /\ finished' = (IF fits THEN finished \cup {Part(c.of)} ELSE finished)
      /\ saves' = (saves \ {c}) \cup {d}
  BY <1>2 DEF Starting!Save, Part
<1>4. /\ d \in Replies /\ d.of = c.of /\ d.kind = IF fits THEN "saved" ELSE "refused"
  <2>1. Starting!Unfinished \in SUBSET (1..2) BY DEF Starting!Unfinished
  <2> QED BY <1>1, <1>2, <2>1 DEF Replies
<1>5. Replies' = Replies /\ Refreshes' = Refreshes /\ Saves' = Saves
  BY <1>1 DEF Replies, Refreshes, Saves
<1>6. /\ fits => \/ c.of = 0
                 \/ c.of \in 1..3 /\ "profile" \in finished
      /\ fits /\ c.of = 3 => Starting!Unfinished = {}
  BY <1>1
<1>7. finished \subseteq finished' BY <1>3
<1>8. Follows(d)'
  <2>1. Reached(c.of) => Reached(c.of)' BY <1>1, <1>7, DoneStays
  <2>2. fits => Part(c.of) \in finished' BY <1>3
  <2>3. ~failed /\ c.of > 0 => Reached(c.of) BY <1>1 DEF Follows
  <2> QED BY <1>1, <1>4, <2>1, <2>2, <2>3 DEF Follows, Part
<1>9. saves' \subseteq Refreshes' \cup Saves' \cup Replies' /\ CallsKnow'
  BY <1>1, <1>3, <1>4, <1>5, <1>7, <1>8, CallsKeep
<1>10. WizardTypes'
  <2>1. finished' \subseteq {"profile", "service", "hours", "published"}
    <3>1. Part(c.of) \in {"profile", "service", "hours", "published"} BY <1>1, Parts
    <3> QED BY <1>1, <1>3, <3>1 DEF Starting!TypeOK
  <2> QED BY <1>1, <1>9, <2>1 DEF WizardTypes, Starting!TypeOK
<1> HIDE DEF fits
<1>11. Starting!Unfinished' \subseteq Starting!Unfinished
  BY <1>7 DEF Starting!Unfinished
<1>12. StoredWell'
  <2>1. finished' # {} => "profile" \in finished'
    <3>1. CASE fits /\ c.of = 0 BY <1>3, <3>1, Parts
    <3>2. CASE fits /\ c.of # 0 BY <1>1, <1>3, <1>6, <3>2
    <3>3. CASE ~fits BY <1>3, <3>3 DEF WizardInv, StoredWell
    <3> QED BY <3>1, <3>2, <3>3
  <2>2. "published" \in finished' => Starting!Unfinished' = {}
    <3>1. CASE "published" \in finished BY <1>11, <3>1 DEF WizardInv, StoredWell
    <3>2. CASE "published" \notin finished /\ "published" \in finished'
      <4>1. fits /\ Part(c.of) = "published" BY <1>3, <3>2
      <4>2. c.of = 3
        <5>1. c.of = 0 \/ c.of = 1 \/ c.of = 2 \/ c.of = 3 BY <1>1
        <5> QED BY <4>1, <5>1, Parts
      <4> QED BY <1>6, <1>11, <4>1, <4>2
    <3> QED BY <3>1, <3>2
  <2> QED BY <1>1, <1>7, <2>1, <2>2 DEF WizardInv, StoredWell
<1>13. ShownWell'
  <2>1. \A k : Reached(k) => Reached(k)' BY <1>1, <1>7, DoneStays
  <2>2. Reached(shown) => Reached(shown)' BY <1>1, <2>1 DEF Reached
  <2> QED BY <1>1, <1>7, <2>2 DEF WizardInv, ShownWell
<1>14. LiveInTheEnd'
  <2>1. "published" \in finished' /\ "published" \notin finished => IsPublishing'
    <3> SUFFICES ASSUME "published" \in finished', "published" \notin finished
                 PROVE  IsPublishing'
      OBVIOUS
    <3>1. fits /\ Part(c.of) = "published" BY <1>3
    <3>2. c.of = 3
      <4>1. c.of = 0 \/ c.of = 1 \/ c.of = 2 \/ c.of = 3 BY <1>1
      <4> QED BY <3>1, <4>1, Parts
    <3> QED BY <1>3, <1>4, <1>5, <3>1, <3>2 DEF IsPublishing
  <2>2. IsPublishing => IsPublishing'
    BY <1>1, <1>3, <1>5 DEF IsPublishing
  <2>3. TellsLive => TellsLive'
    <3>1. d.kind # "refresh" BY <1>4
    <3>2. d \notin Refreshes BY <3>1 DEF Refreshes
    <3> QED BY <1>1, <1>3, <1>5, <3>2 DEF TellsLive
  <2> QED BY <1>1, <2>1, <2>2, <2>3 DEF WizardInv, LiveInTheEnd
<1> QED BY <1>9, <1>10, <1>12, <1>13, <1>14 DEF WizardInv

\* A step is done: the wizard loads again.
LEMMA WizardSaved ==
  ASSUME WizardInv, NEW c \in saves, Starting!Saved(c)
  PROVE  WizardInv'
<1> DEFINE to == IF c.of = 3 THEN Null ELSE c.of + 1
<1>1. /\ c \in Replies /\ c.kind = "saved" /\ c.of \in 0..3 /\ steps \in Nat
      /\ Starting!TypeOK /\ Follows(c) /\ steps < MaxSteps
      /\ steps' = steps + 1 /\ newest' = steps + 1
      /\ saving' = (IF saving = c.id THEN Null ELSE saving)
      /\ UNCHANGED <<finished, shown, profile, missing, loaded, skipped, failed>>
  BY WizardKinds DEF WizardInv, WizardTypes, CallsKnow, Starting!Saved, Starting!TypeOK
<1>2. PICK d : d = [id |-> steps + 1, kind |-> "refresh", to |-> to, me |-> Null, list |-> Null]
  OBVIOUS
<1>3. saves' = (saves \ {c}) \cup {d} BY <1>2 DEF Starting!Saved, Starting!Refresh
<1>4. /\ d \in Refreshes' /\ d.id = steps + 1 /\ d.to = to /\ d.me = Null /\ d.list = Null
  <2>1. steps + 1 \in 1..steps' /\ to \in {Null} \cup 1..3 BY <1>1
  <2> HIDE DEF to
  <2> QED BY <1>2, <2>1 DEF Refreshes
<1>5. Knows(d)'
  <2>1. Part(c.of) \in finished BY <1>1 DEF Follows
  <2>2. "profile" \in finished BY <2>1 DEF WizardInv, StoredWell
  <2>3. ~failed /\ to # Null => Reached(to)
    <3>1. Starting!Unfinished \subseteq 1..2 BY DEF Starting!Unfinished
    <3>2. CASE c.of = 0 BY <3>1, <3>2 DEF Reached
    <3>3. CASE c.of = 1
      <4>1. 1 \notin Starting!Unfinished BY <2>1, <3>3, Parts DEF Starting!Unfinished
      <4> QED BY <3>1, <3>3, <4>1 DEF Reached
    <3>4. CASE c.of = 2
      <4>1. 2 \notin Starting!Unfinished BY <2>1, <3>4, Parts DEF Starting!Unfinished
      <4>2. ~failed => Reached(2) BY <1>1, <3>4 DEF Follows
      <4> QED BY <3>1, <3>4, <4>1, <4>2 DEF Reached
    <3> QED BY <1>1, <3>2, <3>3, <3>4
  <2> HIDE DEF to
  <2>4. Knows(d)
    BY <1>4, <2>2, <2>3, WizardAssumption DEF Knows
  <2> QED BY <1>1, <2>4, DoneStays
<1>6. steps' \in Nat /\ steps <= steps' /\ steps' \in 1..MaxSteps /\ steps' \in 0..steps'
  BY <1>1, WizardAssumption
<1>7. saves' \subseteq Refreshes' \cup Saves' \cup Replies' /\ CallsKnow'
  BY <1>1, <1>3, <1>4, <1>5, <1>6, CallsKeep
<1>8. WizardTypes'
  <2>1. 0..steps \subseteq 0..steps' /\ 1..steps \subseteq 1..steps' BY <1>1
  <2> QED BY <1>1, <1>6, <1>7, <2>1 DEF WizardTypes, Starting!TypeOK
<1>9. StoredWell' /\ ShownWell'
  BY <1>1 DEF WizardInv, StoredWell, ShownWell, Reached, Starting!Unfinished
<1>10. LiveInTheEnd'
  <2>1. TellsLive'
    <3>1. loaded' # newest' BY <1>1 DEF Starting!TypeOK
    <3>2. \A q \in saves : q.id # newest'
      <4>1. \A q \in saves : q.id \in 1..steps
        BY WizardKinds DEF WizardInv, WizardTypes
      <4> QED BY <1>1, <4>1
    <3>3. d.me # "draft" BY <1>4, WizardAssumption
    <3> QED BY <1>3, <3>1, <3>2, <3>3 DEF TellsLive
  <2> QED BY <2>1 DEF LiveInTheEnd
<1> QED BY <1>7, <1>8, <1>9, <1>10 DEF WizardInv

LEMMA WizardRefused ==
  ASSUME WizardInv, NEW c \in saves, Starting!Refused(c)
  PROVE  WizardInv'
<1>1. /\ c \in Replies /\ c.kind = "refused" /\ steps \in Nat /\ Starting!TypeOK
      /\ c.back \in SUBSET (1..2) /\ saves' = saves \ {c}
      /\ saving' = (IF saving = c.id THEN Null ELSE saving)
      /\ missing' = (IF saving = c.id THEN c.back ELSE missing)
      /\ UNCHANGED <<finished, shown, profile, steps, newest, loaded, skipped, failed>>
  BY WizardKinds DEF WizardInv, WizardTypes, Starting!Refused, Starting!TypeOK
<1>2. saves' \subseteq Refreshes' \cup Saves' \cup Replies' /\ CallsKnow'
  BY <1>1, CallsKeep
<1>3. WizardTypes' BY <1>1, <1>2 DEF WizardTypes, Starting!TypeOK
<1>4. StoredWell' /\ ShownWell'
  BY <1>1 DEF WizardInv, StoredWell, ShownWell, Reached, Starting!Unfinished
<1>5. LiveInTheEnd'
  BY <1>1 DEF WizardInv, LiveInTheEnd, IsPublishing, TellsLive, Replies, Refreshes
<1> QED BY <1>2, <1>3, <1>4, <1>5 DEF WizardInv

LEMMA WizardLost ==
  ASSUME WizardInv, NEW c \in saves, Starting!Lost(c)
  PROVE  WizardInv'
<1>1. /\ c \in Saves \cup Replies /\ c.of \in 0..3 /\ c.id \in 1..steps /\ steps \in Nat
      /\ Starting!TypeOK /\ failed' = TRUE
      /\ UNCHANGED <<finished, shown, profile, saving, missing, steps, newest, loaded, skipped>>
  BY WizardKinds DEF WizardInv, WizardTypes, Starting!Lost, Starting!TypeOK
<1>2. PICK d : d = [id |-> c.id, kind |-> "refused", of |-> c.of, back |-> {}] OBVIOUS
<1>3. saves' = (saves \ {c}) \cup {d} BY <1>2 DEF Starting!Lost
<1>4. d \in Replies' /\ d.kind = "refused"
  <2>1. {} \in SUBSET (1..2) OBVIOUS
  <2> QED BY <1>1, <1>2, <2>1 DEF Replies
<1>5. Follows(d)' BY <1>1, <1>4 DEF Follows
<1>6. saves' \subseteq Refreshes' \cup Saves' \cup Replies' /\ CallsKnow'
  BY <1>1, <1>3, <1>4, <1>5, CallsKeep
<1>7. WizardTypes' BY <1>1, <1>6 DEF WizardTypes, Starting!TypeOK
<1>8. StoredWell' /\ ShownWell' /\ LiveInTheEnd'
  BY <1>1 DEF WizardInv, StoredWell, ShownWell, LiveInTheEnd, Starting!Unfinished
<1> QED BY <1>6, <1>7, <1>8 DEF WizardInv

LEMMA WizardElsewhere ==
  ASSUME WizardInv, Starting!Elsewhere
  PROVE  WizardInv'
<1>1. PICK p \in {"profile", "service", "hours"} : finished' = finished \cup {"profile", p}
  BY DEF Starting!Elsewhere
<1>2. /\ steps \in Nat /\ Starting!TypeOK /\ finished \subseteq finished'
      /\ UNCHANGED <<shown, profile, saving, missing, saves, steps, newest, loaded, skipped, failed>>
  BY <1>1 DEF WizardInv, WizardTypes, Starting!TypeOK, Starting!Elsewhere
<1>3. Starting!Unfinished' \subseteq Starting!Unfinished BY <1>2 DEF Starting!Unfinished
<1>4. saves' \subseteq Refreshes' \cup Saves' \cup Replies' /\ CallsKnow'
  BY <1>2, CallsKeep
<1>5. WizardTypes' BY <1>1, <1>2, <1>4 DEF WizardTypes, Starting!TypeOK
<1>6. StoredWell' BY <1>1, <1>2, <1>3 DEF WizardInv, StoredWell
<1>7. ShownWell' BY <1>2, <1>3 DEF WizardInv, ShownWell, Reached
<1>8. LiveInTheEnd'
  BY <1>1, <1>2 DEF WizardInv, LiveInTheEnd, IsPublishing, TellsLive, Replies, Refreshes
<1> QED BY <1>4, <1>5, <1>6, <1>7, <1>8 DEF WizardInv

LEMMA WizardNext ==
  ASSUME WizardInv, [Starting!Next]_wizardVars
  PROVE  WizardInv'
<1>1. CASE UNCHANGED wizardVars
  <2>1. UNCHANGED <<finished, shown, profile, saving, missing, saves, steps, newest, loaded, skipped, failed>>
    BY <1>1 DEF wizardVars
  <2>2. Starting!Unfinished' = Starting!Unfinished /\ Refreshes' = Refreshes /\ Saves' = Saves
        /\ Replies' = Replies
    BY <2>1 DEF Starting!Unfinished, Refreshes, Saves, Replies
  <2>3. WizardTypes' /\ StoredWell' /\ ShownWell' /\ LiveInTheEnd'
    BY <2>1, <2>2 DEF WizardInv, WizardTypes, StoredWell, ShownWell, Reached, LiveInTheEnd,
      IsPublishing, TellsLive, Starting!TypeOK
  <2>4. CallsKnow' BY <2>1, <2>2, DoneStays DEF WizardInv, CallsKnow
  <2> QED BY <2>3, <2>4 DEF WizardInv
<1>2. CASE Starting!Next
  BY <1>2, WizardServes, WizardLoads, WizardLoadFails, WizardSubmits, WizardMoves, WizardSaves,
    WizardSaved, WizardRefused, WizardLost, WizardElsewhere DEF Starting!Next
<1> QED BY <1>1, <1>2

\* What the invariant says of the wizard.
LEMMA WizardHolds ==
  ASSUME WizardInv
  PROVE  Starting!TypeOK /\ Starting!LeadsOn
<1>1. ~failed /\ saves = {} /\ loaded = newest => (profile = "live" <=> "published" \in finished)
  BY DEF WizardInv, StoredWell, LiveInTheEnd, IsPublishing, TellsLive
<1>2. Starting!LeadsOn
  BY <1>1 DEF WizardInv, ShownWell, Reached, Starting!LeadsOn
<1> QED BY <1>2 DEF WizardInv, WizardTypes

-----------------------------------------------------------------------------
(* The booking form.                                                       *)

NewKeys == 1..MaxKey
TimesCalls == [what : {"slots"}, of : Date] \cup [what : {"times"}, value : DayTimes]
HoldCalls == [what : {"hold"}, key : NewKeys, of : Bookable]
HoldReplies ==
  [what : {"held"}, key : NewKeys, value : {"ok", "SLOT_TAKEN", "IDEMPOTENCY_KEY_REUSED"}]
AgreeCalls == [what : {"accept"}, key : 0..MaxKey]
AgreeReplies == [what : {"accepted"}, key : 0..MaxKey, value : {"ok", "HOLD_EXPIRED"}]
LeftCalls == [what : {"left"}, call : HoldCalls \cup AgreeCalls]
FlowCalls == TimesCalls \cup HoldCalls \cup HoldReplies \cup AgreeCalls \cup AgreeReplies
               \cup LeftCalls

\* The holds that are asked for, by the page or by a call it gave up.
Holding == {c \in HoldCalls : c \in asking \/ Choosing!LeftAlone(c) \in asking}

ServerTypes ==
  /\ free \in [Date -> 0..MaxBlocks] /\ due \subseteq 0..MaxKey
  /\ row \in [0..MaxKey -> [status : {"NONE", "HELD", "EXPIRED", "AGREED"},
                            of : Bookable \cup {Null}]]
FormTypes ==
  /\ step \in Choosing!Steps /\ date \in Date \cup {Null} /\ start \in Date \cup {Null}
  /\ blocks \in 0..MaxBlocks /\ slots \in DayTimes \cup {Null}
  /\ email \in BOOLEAN /\ verified \in BOOLEAN /\ expired \in BOOLEAN
  /\ strayed \in BOOLEAN /\ misled \in BOOLEAN
KeyTypes ==
  /\ key \in NewKeys \cup {Null} /\ hold \in 0..MaxKey \cup {Null}
  /\ accepted \in 0..MaxKey \cup {Null} /\ checking \in Bookable \cup {Null}
  /\ awaits \subseteq NewKeys /\ agreeing \subseteq 0..MaxKey /\ refused \subseteq NewKeys
  /\ reviewed \subseteq 0..MaxKey
AskTypes ==
  /\ asking \subseteq FlowCalls
  /\ IsFiniteSet(asking) /\ Cardinality(asking) <= MaxAsked

\* What is asked about has a date, and what is confirmed a start.
Dated ==
  /\ date = Null => /\ start = Null /\ slots = Null /\ checking = Null
                    /\ asking \subseteq AgreeCalls \cup AgreeReplies \cup LeftCalls
                    /\ Holding = {}
  /\ step \in {"Details", "Verify"} => start # Null

\* A row that is there stays, and what was answered of it.
Rowed(k) == row[k].status # "NONE"
AnswersOf(m) ==
  /\ m \in HoldReplies /\ m.value = "ok" => Rowed(m.key)
  /\ m \in AgreeCalls => Rowed(m.key)
  /\ m \in AgreeReplies => Rowed(m.key) /\ (m.value # "ok" => row[m.key].status # "HELD")
RowsKept ==
  /\ \A k \in 0..MaxKey : ~Rowed(k) => row[k].of = Null /\ k \notin due
  /\ \A k \in NewKeys : Rowed(k) => row[k].of \in Bookable
  /\ row[0].of = Null
  /\ \A k \in due : row[k].status # "HELD"
  /\ \A m \in asking : AnswersOf(m)
  /\ hold # Null => Rowed(hold)
  /\ step = "Review" => hold # Null

\* Before the code is checked nothing is held.
Unverified ==
  /\ verified => checking = Null
  /\ ~verified => /\ step \notin {"Review", "Pay"} /\ asking \subseteq TimesCalls
                  /\ awaits = {} /\ key = Null /\ hold = Null
                  /\ \A k \in 0..MaxKey : ~Rowed(k)

\* For a customer who does not stray: what the page waits for ...
Waited == asking \cap (HoldCalls \cup HoldReplies)
Waits ==
  /\ checking # Null => step = "Verify" /\ checking = Choosing!Request
  /\ \A m, n \in Waited : m = n
  /\ \A m \in Waited : m.key \in awaits
  /\ awaits # {} => awaits = {key} /\ step \in {"Verify", "Pay"}
\* ... is the request as it stands, like what it reviews, ...
SameRequest ==
  /\ \A c \in Holding : c.key = key => c.of = Choosing!Request
  /\ key # Null /\ Rowed(key) => row[key].of = Choosing!Request
  /\ hold # Null => /\ step \in {"Review", "Pay"} /\ awaits = {}
                    /\ hold = key \/ (hold = 0 /\ key = Null)
\* ... and no other may take a time, or has one.
OnlyThis(k) == k \in {key, hold} /\ step \in {"Verify", "Review", "Pay"}
OneHold ==
  /\ \A c \in Holding : c.key \in refused \/ Rowed(c.key) \/ OnlyThis(c.key)
  /\ ~misled => \A k \in 0..MaxKey : row[k].status = "HELD" => k \in refused \/ OnlyThis(k)
  /\ ~misled /\ step = "Review" /\ expired => row[hold].status # "HELD"

FlowInv ==
  /\ ServerTypes /\ FormTypes /\ KeyTypes /\ AskTypes
  /\ Dated /\ RowsKept /\ Unverified
  /\ ~strayed => Waits /\ SameRequest /\ OneHold

\* How many calls are under way.
LEMMA SameAskNumber == \A S : Choosing!Cardinality(S) = Cardinality(S)
  BY DEF Choosing!Cardinality, Cardinality

LEMMA AskGoes ==
  ASSUME AskTypes, asking' \subseteq asking
  PROVE  AskTypes'
<1>1. /\ IsFiniteSet(asking') /\ Cardinality(asking') <= Cardinality(asking)
      /\ Cardinality(asking') \in Nat /\ Cardinality(asking) \in Nat
  BY FS_Subset, FS_CardinalityType DEF AskTypes
<1>2. FlowCalls' = FlowCalls
  BY DEF FlowCalls, TimesCalls, HoldCalls, HoldReplies, AgreeCalls, AgreeReplies, LeftCalls
<1> QED BY <1>1, <1>2, FlowAssumption DEF AskTypes

LEMMA AskComes ==
  ASSUME AskTypes, NEW c \in FlowCalls, Choosing!Send(c)
  PROVE  AskTypes' /\ asking' = asking \cup {c}
<1>1. Cardinality(asking) < MaxAsked /\ asking' = asking \cup {c}
  BY SameAskNumber DEF Choosing!Send
<1>2. Cardinality(asking) \in Nat BY FS_CardinalityType DEF AskTypes
<1>3. /\ IsFiniteSet(asking')
      /\ \/ Cardinality(asking') = Cardinality(asking)
         \/ Cardinality(asking') = Cardinality(asking) + 1
  BY <1>1, FS_AddElement DEF AskTypes
<1>4. FlowCalls' = FlowCalls
  BY DEF FlowCalls, TimesCalls, HoldCalls, HoldReplies, AgreeCalls, AgreeReplies, LeftCalls
<1>5. Cardinality(asking') <= MaxAsked BY <1>1, <1>2, <1>3, FlowAssumption
<1> QED BY <1>1, <1>3, <1>4, <1>5 DEF AskTypes

LEMMA AskAnswered ==
  ASSUME AskTypes, NEW c \in asking, NEW r \in FlowCalls, asking' = (asking \ {c}) \cup {r}
  PROVE  AskTypes'
<1>1. Cardinality(asking) \in Nat BY FS_CardinalityType DEF AskTypes
<1>2. IsFiniteSet(asking \ {c}) /\ Cardinality(asking \ {c}) = Cardinality(asking) - 1
  BY FS_RemoveElement DEF AskTypes
<1>3. /\ IsFiniteSet(asking')
      /\ \/ Cardinality(asking') = Cardinality(asking \ {c})
         \/ Cardinality(asking') = Cardinality(asking \ {c}) + 1
  BY <1>2, FS_AddElement
<1>4. FlowCalls' = FlowCalls
  BY DEF FlowCalls, TimesCalls, HoldCalls, HoldReplies, AgreeCalls, AgreeReplies, LeftCalls
<1>5. Cardinality(asking') <= MaxAsked BY <1>1, <1>2, <1>3, FlowAssumption DEF AskTypes
<1> QED BY <1>3, <1>4, <1>5 DEF AskTypes

\* Of which kind a call is.
LEMMA FlowKinds ==
  ASSUME NEW m \in FlowCalls
  PROVE  /\ m.what \in {"slots", "times"} <=> m \in TimesCalls
         /\ m.what = "hold" <=> m \in HoldCalls
         /\ m.what = "held" <=> m \in HoldReplies
         /\ m.what = "accept" <=> m \in AgreeCalls
         /\ m.what = "accepted" <=> m \in AgreeReplies
         /\ m.what = "left" <=> m \in LeftCalls
BY DEF FlowCalls, TimesCalls, HoldCalls, HoldReplies, AgreeCalls, AgreeReplies, LeftCalls

LEMMA FlowFields ==
  ASSUME NEW m \in FlowCalls
  PROVE  /\ m.what = "slots" => m.of \in Date
         /\ m.what = "times" => m.value \in DayTimes
         /\ m.what = "hold" => m.key \in NewKeys /\ m.of \in Bookable
         /\ m.what = "held" => m.key \in NewKeys
         /\ m.what \in {"accept", "accepted"} => m.key \in 0..MaxKey
         /\ m.what = "left" => m.call \in HoldCalls \cup AgreeCalls
                               /\ m = Choosing!LeftAlone(m.call)
BY DEF FlowCalls, TimesCalls, HoldCalls, HoldReplies, AgreeCalls, AgreeReplies, LeftCalls,
  Choosing!LeftAlone

\* What a call that may run asks for.
LEMMA SentOf ==
  ASSUME AskTypes, NEW m \in asking
  PROVE  /\ Choosing!Sent(m).what = "hold" => Choosing!Sent(m) \in Holding
         /\ Choosing!Sent(m).what = "accept" => Choosing!Sent(m) \in AgreeCalls
         /\ m.what \in {"hold", "accept"} => Choosing!Sent(m) = m
<1>1. m \in FlowCalls BY DEF AskTypes
<1>2. CASE m.what = "left"
  <2>1. m.call \in HoldCalls \cup AgreeCalls /\ m = Choosing!LeftAlone(m.call)
        /\ Choosing!Sent(m) = m.call
    BY <1>1, <1>2, FlowFields DEF Choosing!Sent
  <2>2. m.call \in AgreeCalls => m.call.what = "accept" BY DEF AgreeCalls
  <2>3. m.call \in HoldCalls => m.call.what = "hold" BY DEF HoldCalls
  <2> QED BY <1>2, <2>1, <2>2, <2>3 DEF Holding
<1>3. CASE m.what # "left"
  BY <1>1, <1>3, FlowKinds DEF Choosing!Sent, Holding
<1> QED BY <1>2, <1>3

\* The holds asked for after one call came at most.
LEMMA HoldingGrows ==
  ASSUME NEW d, asking' \subseteq asking \cup {d}
  PROVE  /\ d \notin HoldCalls \cup LeftCalls => Holding' \subseteq Holding
         /\ d \in HoldCalls => Holding' \subseteq Holding \cup {d}
         /\ \A c \in Holding : d = Choosing!LeftAlone(c) => Holding' \subseteq Holding
<1>1. \A c \in HoldCalls : Choosing!LeftAlone(c) \in LeftCalls
  BY DEF Choosing!LeftAlone, LeftCalls
<1>2. \A c, e \in HoldCalls : /\ Choosing!LeftAlone(c) = Choosing!LeftAlone(e) => c = e
                              /\ Choosing!LeftAlone(c) # e
  <2>1. \A c : Choosing!LeftAlone(c).call = c /\ Choosing!LeftAlone(c).what = "left"
    BY DEF Choosing!LeftAlone
  <2>2. \A e \in HoldCalls : e.what = "hold" BY DEF HoldCalls
  <2> QED BY <2>1, <2>2
<1>3. ASSUME NEW c \in Holding'
      PROVE  c \in HoldCalls /\ (c \in asking' \/ Choosing!LeftAlone(c) \in asking')
  BY DEF Holding, HoldCalls, Choosing!LeftAlone
<1>4. ASSUME NEW c \in Holding', c \notin Holding
      PROVE  c \in HoldCalls /\ d \in {c, Choosing!LeftAlone(c)}
  BY <1>3, <1>4 DEF Holding
<1>5. Holding \subseteq HoldCalls BY DEF Holding
<1> QED BY <1>1, <1>2, <1>4, <1>5

\* A row that is there is known to the API.
LEMMA SeenIsRowed ==
  ASSUME ServerTypes, RowsKept, NEW k \in 0..MaxKey
  PROVE  Choosing!Seen(k) <=> Rowed(k)
<1>1. row[k] \in [status : {"NONE", "HELD", "EXPIRED", "AGREED"}, of : Bookable \cup {Null}]
  BY DEF ServerTypes
<1>2. row[k] = [status |-> row[k].status, of |-> row[k].of] BY <1>1
<1>3. ~Rowed(k) => row[k] = Choosing!NoRow
  BY <1>2 DEF RowsKept, Rowed, Choosing!NoRow
<1>4. row[k] = Choosing!NoRow => ~Rowed(k) BY DEF Choosing!NoRow, Rowed
<1> QED BY <1>3, <1>4 DEF Choosing!Seen

LEMMA FlowInit == Choosing!Init => FlowInv
<1> SUFFICES ASSUME Choosing!Init PROVE FlowInv OBVIOUS
<1>1. PICK resumed \in BOOLEAN :
        /\ row = [k \in Choosing!Keys |-> IF resumed /\ k = 0
                     THEN [Choosing!NoRow EXCEPT !.status = "HELD"] ELSE Choosing!NoRow]
        /\ hold = (IF resumed THEN 0 ELSE Null) /\ verified = resumed
        /\ reviewed = (IF resumed THEN {0} ELSE {})
        /\ step = IF resumed THEN "Review" ELSE "Service"
  BY DEF Choosing!Init
<1>2. /\ free = [d \in Date |-> MaxBlocks] /\ due = {} /\ asking = {}
      /\ awaits = {} /\ agreeing = {} /\ checking = Null /\ refused = {} /\ strayed = FALSE
      /\ misled = FALSE /\ date = Null /\ start = Null /\ blocks = 0 /\ slots = Null
      /\ email = FALSE /\ key = Null /\ expired = FALSE /\ accepted = Null
  BY DEF Choosing!Init
<1>3. ASSUME NEW k \in 0..MaxKey
      PROVE  /\ row[k] \in [status : {"NONE", "HELD", "EXPIRED", "AGREED"}, of : Bookable \cup {Null}]
             /\ row[k].of = Null
             /\ row[k].status = IF resumed /\ k = 0 THEN "HELD" ELSE "NONE"
  <2>1. CASE resumed /\ k = 0
    <3>1. row[k] = [status |-> "HELD", of |-> Null]
      BY <1>1, <2>1 DEF Choosing!Keys, Choosing!NoRow
    <3> QED BY <2>1, <3>1
  <2>2. CASE ~(resumed /\ k = 0)
    <3>1. row[k] = [status |-> "NONE", of |-> Null]
      BY <1>1, <2>2 DEF Choosing!Keys, Choosing!NoRow
    <3> QED BY <2>2, <3>1
  <2> QED BY <2>1, <2>2
<1>4. \A k \in 0..MaxKey : /\ row[k].of = Null
                           /\ row[k].status = IF resumed /\ k = 0 THEN "HELD" ELSE "NONE"
  BY <1>3
<1>5. 0 \in 0..MaxKey /\ \A k \in NewKeys : k \in 0..MaxKey /\ k # 0
  BY FlowAssumption DEF NewKeys
<1>6. ServerTypes
  <2>1. free \in [Date -> 0..MaxBlocks] BY <1>2, FlowAssumption
  <2>2. DOMAIN row = 0..MaxKey /\ row = [k \in 0..MaxKey |-> row[k]]
    BY <1>1 DEF Choosing!Keys
  <2>3. \A k \in 0..MaxKey : row[k] \in [status : {"NONE", "HELD", "EXPIRED", "AGREED"},
                                         of : Bookable \cup {Null}]
    BY <1>3
  <2>4. row \in [0..MaxKey -> [status : {"NONE", "HELD", "EXPIRED", "AGREED"},
                                         of : Bookable \cup {Null}]]
    BY <2>2, <2>3
  <2> QED BY <1>2, <2>1, <2>4 DEF ServerTypes
<1>7. FormTypes
  <2>1. 0 \in 0..MaxBlocks BY FlowAssumption
  <2> QED BY <1>1, <1>2, <2>1 DEF FormTypes, Choosing!Steps
<1>8. KeyTypes BY <1>1, <1>2, <1>5 DEF KeyTypes
<1>9. AskTypes BY <1>2, FlowAssumption, FS_EmptySet DEF AskTypes
<1>10. Dated BY <1>1, <1>2 DEF Dated, Holding
<1>11. RowsKept
  <2>1. \A k \in 0..MaxKey : ~Rowed(k) => row[k].of = Null /\ k \notin due
    BY <1>2, <1>4 DEF Rowed
  <2>2. \A k \in NewKeys : ~Rowed(k) BY <1>4, <1>5 DEF Rowed
  <2>3. hold # Null => Rowed(hold) BY <1>1, <1>4, <1>5 DEF Rowed
  <2>4. step = "Review" => hold # Null BY <1>1, <1>5, FlowAssumption
  <2> QED BY <1>2, <1>4, <1>5, <2>1, <2>2, <2>3, <2>4 DEF RowsKept
<1>12. Unverified
  <2>1. ~verified => \A k \in 0..MaxKey : ~Rowed(k) BY <1>1, <1>4 DEF Rowed
  <2> QED BY <1>1, <1>2, <2>1 DEF Unverified
<1>13. Waits BY <1>2 DEF Waits, Waited
<1>14. SameRequest BY <1>1, <1>2 DEF SameRequest, Holding
<1>15. OneHold
  <2>1. \A k \in 0..MaxKey : row[k].status = "HELD" => k = 0 /\ resumed BY <1>4
  <2> QED BY <1>1, <1>2, <2>1 DEF OneHold, OnlyThis, Holding
<1> QED BY <1>6, <1>7, <1>8, <1>9, <1>10, <1>11, <1>12, <1>13, <1>14, <1>15 DEF FlowInv

\* The request as it is written.
LEMMA SameChoice ==
  ASSUME UNCHANGED <<date, start, blocks>>
  PROVE  Choosing!Request' = Choosing!Request
BY DEF Choosing!Request

\* The customer chooses: nothing is asked for but times, and another choice has no key.
LEMMA FlowChooses ==
  ASSUME FlowInv, FormTypes', AskTypes',
         UNCHANGED <<free, row, due, verified, hold, expired, accepted, checking, awaits,
                     agreeing, refused, misled, reviewed>>,
         asking' \subseteq asking \cup TimesCalls,
         date' = Null => /\ date = Null /\ start' = Null /\ slots' = Null
                         /\ asking' \subseteq asking,
         step' \in {"Details", "Verify"} => start' # Null,
         strayed => strayed',
         key' = Null \/ (key' = key /\ UNCHANGED <<date, start, blocks>>),
         \/ step' = step /\ UNCHANGED <<key, date, start, blocks>>
         \/ /\ \/ step \in {"Service", "Time", "Details"}
               \/ step = "Verify" /\ ~verified /\ (checking # Null => strayed')
            /\ step' \in {"Service", "Time", "Details", "Verify"}
  PROVE  FlowInv'
<1>1. \A d \in TimesCalls : d \notin HoldCalls \cup HoldReplies \cup AgreeCalls \cup AgreeReplies
                                     \cup LeftCalls
  BY DEF TimesCalls, HoldCalls, HoldReplies, AgreeCalls, AgreeReplies, LeftCalls
<1>2. Holding' \subseteq Holding /\ Holding \subseteq HoldCalls
  <2>1. ASSUME NEW c \in Holding'
        PROVE  c \in HoldCalls /\ (c \in asking' \/ Choosing!LeftAlone(c) \in asking')
    BY DEF Holding, HoldCalls, Choosing!LeftAlone
  <2>2. \A c \in HoldCalls : Choosing!LeftAlone(c) \in LeftCalls
    BY DEF Choosing!LeftAlone, LeftCalls
  <2> QED BY <1>1, <2>1, <2>2 DEF Holding
<1>3. Waited' \subseteq Waited
  <2>1. HoldCalls' = HoldCalls /\ HoldReplies' = HoldReplies BY DEF HoldCalls, HoldReplies
  <2> QED BY <1>1, <2>1 DEF Waited
<1>4. \A k : Rowed(k)' <=> Rowed(k) BY DEF Rowed
<1>5. \A c \in HoldCalls : c.key \in NewKeys /\ c.key # Null
  BY FlowAssumption DEF HoldCalls, NewKeys
<1>6. ServerTypes' /\ KeyTypes'
  BY DEF FlowInv, ServerTypes, KeyTypes, NewKeys
<1>7. Dated'
  <2>1. date' = Null => asking' \subseteq asking /\ Holding' = {} BY <1>2 DEF FlowInv, Dated
  <2> QED BY <2>1 DEF FlowInv, Dated, AgreeCalls, AgreeReplies, LeftCalls, HoldCalls, NewKeys
<1>8. RowsKept'
  <2>1. \A m \in asking' : AnswersOf(m)' <=> AnswersOf(m)
    BY DEF AnswersOf, Rowed, HoldReplies, AgreeCalls, AgreeReplies, NewKeys
  <2>2. \A d \in TimesCalls : AnswersOf(d) BY <1>1 DEF AnswersOf
  <2>3. \A m \in asking' : AnswersOf(m)' BY <2>1, <2>2 DEF FlowInv, RowsKept
  <2> QED BY <1>4, <2>3 DEF FlowInv, RowsKept, NewKeys
<1>9. Unverified'
  BY <1>4 DEF FlowInv, Unverified, TimesCalls
<1>10. ASSUME ~strayed' PROVE Waits' /\ SameRequest' /\ OneHold'
  <2>1. Waits /\ SameRequest /\ OneHold BY <1>10 DEF FlowInv
  <2>2. CASE step' = step /\ UNCHANGED <<key, date, start, blocks>>
    <3>1. Choosing!Request' = Choosing!Request BY <2>2, SameChoice
    <3>2. Waits' BY <1>3, <2>1, <2>2, <3>1 DEF Waits
    <3>3. SameRequest' BY <1>2, <1>4, <2>1, <2>2, <3>1 DEF SameRequest
    <3>4. \A k : OnlyThis(k)' <=> OnlyThis(k) BY <2>2 DEF OnlyThis
    <3>5. OneHold' BY <1>2, <1>4, <2>1, <2>2, <3>4 DEF OneHold
    <3> QED BY <3>2, <3>3, <3>5
  <2>3. CASE /\ \/ step \in {"Service", "Time", "Details"}
                \/ step = "Verify" /\ ~verified /\ (checking # Null => strayed')
             /\ step' \in {"Service", "Time", "Details", "Verify"}
    <3>1. checking = Null /\ awaits = {} /\ hold = Null
      BY <1>10, <2>1, <2>3 DEF Waits, SameRequest, FlowInv, Unverified
    <3>2. Waits' BY <1>3, <2>1, <3>1 DEF Waits
    <3>3. key' = key => Choosing!Request' = Choosing!Request \/ key' = Null
      BY SameChoice
    <3>4. SameRequest' BY <1>2, <1>4, <1>5, <2>1, <3>1, <3>3 DEF SameRequest
    <3>5. \A k \in 0..MaxKey : row[k].status = "HELD" /\ ~misled => k \in refused
      <4>1. CASE step = "Verify" /\ ~verified BY <4>1 DEF FlowInv, Unverified, Rowed
      <4>2. CASE step # "Verify" BY <2>1, <2>3, <4>2 DEF OneHold, OnlyThis
      <4> QED BY <2>3, <4>1, <4>2
    <3>6. \A c \in Holding : c.key \in refused \/ Rowed(c.key)
      <4>1. CASE step = "Verify" /\ ~verified
        <5>1. Holding = {}
          <6>1. asking \subseteq TimesCalls BY <4>1 DEF FlowInv, Unverified
          <6>2. \A c : c \in HoldCalls \cup LeftCalls => c \notin TimesCalls
            BY DEF TimesCalls, HoldCalls, LeftCalls
          <6>3. \A c \in HoldCalls : Choosing!LeftAlone(c) \in LeftCalls
            BY DEF Choosing!LeftAlone, LeftCalls
          <6> QED BY <6>1, <6>2, <6>3 DEF Holding
        <5> QED BY <5>1
      <4>2. CASE step # "Verify" BY <2>1, <2>3, <4>2 DEF OneHold, OnlyThis
      <4> QED BY <2>3, <4>1, <4>2
    <3>7. OneHold' BY <1>2, <1>4, <2>3, <3>5, <3>6 DEF OneHold
    <3> QED BY <3>2, <3>4, <3>7
  <2> QED BY <2>2, <2>3
<1> QED BY <1>6, <1>7, <1>8, <1>9, <1>10 DEF FlowInv

\* A page that asks for the times of a date, or for nothing.
LEMMA AskTimes ==
  ASSUME FlowInv, NEW e \in Date, Choosing!Send(Choosing!AskSlots(e))
  PROVE  AskTypes' /\ Choosing!AskSlots(e) \in TimesCalls
         /\ asking' = asking \cup {Choosing!AskSlots(e)}
<1>1. Choosing!AskSlots(e) \in TimesCalls BY DEF TimesCalls, Choosing!AskSlots
<1>2. Choosing!AskSlots(e) \in FlowCalls BY <1>1 DEF FlowCalls
<1> QED BY <1>1, <1>2, AskComes DEF FlowInv

LEMMA EntersTime ==
  ASSUME FlowInv, Choosing!EnterTime
  PROVE  /\ AskTypes' /\ step' = "Time" /\ slots' = Null
         /\ asking' \subseteq asking \cup TimesCalls
         /\ date = Null => asking' = asking
<1>1. CASE date = Null
  <2>1. asking' = asking /\ step' = "Time" /\ slots' = Null BY <1>1 DEF Choosing!EnterTime
  <2>2. AskTypes' BY <2>1, AskGoes DEF FlowInv
  <2> QED BY <2>1, <2>2
<1>2. CASE date # Null
  <2>1. /\ date \in Date /\ Choosing!Send(Choosing!AskSlots(date))
        /\ step' = "Time" /\ slots' = Null
    BY <1>2 DEF Choosing!EnterTime, FlowInv, FormTypes
  <2> QED BY <1>2, <2>1, AskTimes
<1> QED BY <1>1, <1>2

\* Another date, of which the times are asked for.
LEMMA FlowDates ==
  ASSUME FlowInv, NEW e \in Date, Choosing!PickDate(e) \/ Choosing!MoveDate(e)
  PROVE  FlowInv'
<1>1. /\ step = "Time" /\ step' = "Time" /\ date' = e /\ blocks' = blocks /\ key' = Null
      /\ start' \in {Null, start} /\ slots' \in {Null, slots}
      /\ UNCHANGED <<free, row, due, email, verified, hold, expired, accepted, checking,
                     awaits, agreeing, refused, strayed, misled, reviewed>>
      /\ asking' = asking \/ Choosing!Send(Choosing!AskSlots(e))
  BY DEF Choosing!PickDate, Choosing!MoveDate, Choosing!Choose, Choosing!server, Choosing!details,
    Choosing!held, Choosing!waits, Choosing!history
<1>2. FormTypes' BY <1>1 DEF FlowInv, FormTypes
<1>3. AskTypes' /\ asking' \subseteq asking \cup {Choosing!AskSlots(e)}
      /\ Choosing!AskSlots(e) \in TimesCalls
  <2>1. Choosing!AskSlots(e) \in TimesCalls BY DEF TimesCalls, Choosing!AskSlots
  <2> QED BY <1>1, <2>1, AskTimes, AskGoes DEF FlowInv
<1>4. date' # Null BY <1>1, FlowAssumption
<1> QED BY <1>1, <1>2, <1>3, <1>4, FlowChooses

\* A start, its length and the details, from what is shown.
LEMMA FlowPicks ==
  ASSUME FlowInv, \/ Choosing!PickStart \/ Choosing!EditDetails
                  \/ \E n \in 1..MaxBlocks : Choosing!PickBlocks(n)
  PROVE  FlowInv'
<1>1. /\ step \in {"Time", "Details"} /\ step' = step /\ date' = date /\ key' = Null
      /\ start' \in Date \cup {Null} /\ blocks' \in 0..MaxBlocks
      /\ step = "Details" => start' = start
      /\ date = Null => start' = start
      /\ UNCHANGED <<free, row, due, slots, email, verified, hold, expired, accepted, checking,
                     awaits, agreeing, refused, strayed, misled, reviewed, asking>>
  <2>1. CASE Choosing!PickStart
    <3>1. slots \in DayTimes /\ 1 \in 0..MaxBlocks /\ slots.of \in Date /\ date # Null
      <4>1. slots # Null /\ slots.free > 0 BY <2>1 DEF Choosing!PickStart
      <4>2. slots \in DayTimes BY <4>1 DEF FlowInv, FormTypes
      <4>3. slots.free \in 0..MaxBlocks /\ slots.of \in Date BY <4>2 DEF DayTimes
      <4>4. date # Null BY <4>1 DEF FlowInv, Dated
      <4> QED BY <4>1, <4>2, <4>3, <4>4, FlowAssumption
    <3> QED BY <2>1, <3>1 DEF Choosing!PickStart, Choosing!Choose, Choosing!server, Choosing!details,
      Choosing!held, Choosing!waits, Choosing!history
  <2>2. CASE Choosing!EditDetails
    BY <2>2 DEF Choosing!EditDetails, Choosing!Choose, Choosing!server, Choosing!details,
      Choosing!held, Choosing!waits, Choosing!history, FlowInv, FormTypes
  <2>3. CASE \E n \in 1..MaxBlocks : Choosing!PickBlocks(n)
    <3>1. PICK n \in 1..MaxBlocks : Choosing!PickBlocks(n) BY <2>3
    <3>2. n \in 0..MaxBlocks BY FlowAssumption
    <3> QED BY <3>1, <3>2 DEF Choosing!PickBlocks, Choosing!Choose, Choosing!server,
      Choosing!details, Choosing!held, Choosing!waits, Choosing!history, FlowInv, FormTypes
  <2> QED BY <2>1, <2>2, <2>3
<1>2. FormTypes' BY <1>1 DEF FlowInv, FormTypes
<1>3. AskTypes' BY <1>1, AskGoes DEF FlowInv
<1>4. date' = Null => date = Null /\ start' = Null /\ slots' = Null
  BY <1>1 DEF FlowInv, Dated
<1>5. step' \in {"Details", "Verify"} => start' # Null BY <1>1 DEF FlowInv, Dated
<1> QED BY <1>1, <1>2, <1>3, <1>4, <1>5, FlowChooses

\* On and back.
LEMMA FlowSteps ==
  ASSUME FlowInv, Choosing!ChooseService \/ Choosing!Continue \/ Choosing!Back
  PROVE  FlowInv'
<1>1. /\ date' = date
      /\ UNCHANGED <<free, row, due, verified, hold, expired, accepted, checking,
                     awaits, agreeing, refused, misled, reviewed>>
      /\ strayed' \in BOOLEAN /\ email' \in BOOLEAN /\ slots' \in {Null, slots}
      /\ strayed => strayed'
      /\ \/ key' = Null /\ start' = Null /\ blocks' = 0
         \/ UNCHANGED <<key, start, blocks>>
      /\ \/ step \in {"Service", "Time", "Details"}
         \/ step = "Verify" /\ ~verified /\ (checking # Null => strayed')
      /\ step' \in {"Service", "Time", "Details", "Verify"}
      /\ step' \in {"Details", "Verify"} => start' # Null
  <2>1. CASE Choosing!ChooseService
    BY <2>1 DEF Choosing!ChooseService, Choosing!EnterTime, Choosing!Choose, Choosing!server,
      Choosing!details, Choosing!held, Choosing!waits, Choosing!history, FlowInv, FormTypes
  <2>2. CASE Choosing!Continue
    BY <2>2 DEF Choosing!Continue, Choosing!Ready, Choosing!server, Choosing!choice, Choosing!held,
      Choosing!waits, Choosing!history, FlowInv, FormTypes, Dated
  <2>3. CASE Choosing!Back
    <3>1. strayed' = (strayed \/ checking # Null) /\ strayed \in BOOLEAN
      BY <2>3 DEF Choosing!Back, FlowInv, FormTypes
    <3>2. strayed' \in BOOLEAN /\ (strayed => strayed') /\ (checking # Null => strayed')
      BY <3>1
    <3>3. /\ UNCHANGED <<date, start, blocks, key, email, free, row, due, verified, hold, expired,
                         accepted, checking, awaits, agreeing, refused, misled, reviewed>>
          /\ \/ step = "Time" /\ step' = "Service" /\ UNCHANGED <<slots, asking>>
             \/ step = "Details" /\ Choosing!EnterTime
             \/ step = "Verify" /\ ~verified /\ step' = "Details" /\ UNCHANGED <<slots, asking>>
      BY <2>3 DEF Choosing!Back, Choosing!server, Choosing!choice, Choosing!details, Choosing!held,
        Choosing!waits
    <3>4. step' = "Details" => start # Null
      BY <3>3 DEF Choosing!EnterTime, FlowInv, Dated
    <3>5. email' \in BOOLEAN BY <3>3 DEF FlowInv, FormTypes
    <3> QED BY <3>2, <3>3, <3>4, <3>5 DEF Choosing!EnterTime
  <2> QED BY <2>1, <2>2, <2>3
<1>2. AskTypes' /\ asking' \subseteq asking \cup TimesCalls
      /\ (date = Null => asking' = asking)
  <2>1. asking' = asking \/ Choosing!EnterTime
    BY DEF Choosing!ChooseService, Choosing!Continue, Choosing!Back
  <2> QED BY <2>1, EntersTime, AskGoes DEF FlowInv
<1>3. FormTypes'
  <2>1. 0 \in 0..MaxBlocks BY FlowAssumption
  <2> QED BY <1>1, <2>1 DEF FlowInv, FormTypes, Choosing!Steps
<1>4. date' = Null => date = Null /\ start' = Null /\ slots' = Null
  BY <1>1 DEF FlowInv, Dated
<1> QED BY <1>1, <1>2, <1>3, <1>4, FlowChooses

\* The times come, or do not.
LEMMA FlowTimes ==
  ASSUME FlowInv, NEW m \in asking, Choosing!SlotsArrive(m) \/ Choosing!SlotsFail(m)
  PROVE  FlowInv'
<1>1. /\ asking' = asking \ {m} /\ m.what \in {"slots", "times"} /\ step' = step
      /\ date' = date
      /\ UNCHANGED <<free, row, due, email, verified, hold, expired, accepted, checking,
                     awaits, agreeing, refused, strayed, misled, reviewed>>
  BY DEF Choosing!SlotsArrive, Choosing!SlotsFail, Choosing!Choose, Choosing!choice,
    Choosing!server, Choosing!details, Choosing!held, Choosing!waits, Choosing!history
<1>2. m \in TimesCalls BY <1>1, FlowKinds DEF FlowInv, AskTypes
<1>3. date # Null
  <2>1. m \notin AgreeCalls \cup AgreeReplies \cup LeftCalls
    BY <1>2 DEF TimesCalls, AgreeCalls, AgreeReplies, LeftCalls
  <2> QED BY <2>1 DEF FlowInv, Dated
<1>4. /\ slots' \in DayTimes \cup {Null} /\ start' = start
      /\ \/ UNCHANGED <<key, blocks>>
         \/ key' = Null /\ step = "Time" /\ blocks' \in 0..MaxBlocks
  <2>1. CASE Choosing!SlotsFail(m)
    BY <2>1 DEF Choosing!SlotsFail, Choosing!choice, FlowInv, FormTypes
  <2>2. CASE Choosing!SlotsArrive(m)
    <3>1. m.value \in DayTimes
      BY <2>2, FlowFields DEF Choosing!SlotsArrive, FlowInv, AskTypes
    <3>2. m.value.free > 0 => 1 \in 0..MaxBlocks
      <4>1. m.value.free \in 0..MaxBlocks BY <3>1 DEF DayTimes
      <4> QED BY <4>1, FlowAssumption
    <3> QED BY <2>2, <3>1, <3>2
      DEF Choosing!SlotsArrive, Choosing!Choose, Choosing!choice, FlowInv, FormTypes
  <2> QED BY <2>1, <2>2
<1>5. FormTypes' BY <1>1, <1>4 DEF FlowInv, FormTypes
<1>6. AskTypes' BY <1>1, AskGoes DEF FlowInv
<1>7. step' \in {"Details", "Verify"} => start' # Null
  BY <1>1, <1>4 DEF FlowInv, Dated
<1> QED BY <1>1, <1>2, <1>3, <1>4, <1>5, <1>6, <1>7, FlowChooses

\* What was answered of the rows goes on while they stay.
LEMMA RowsStay ==
  ASSUME FlowInv, UNCHANGED <<row, due>>,
         NEW d, asking' \subseteq asking \cup {d}, asking' \subseteq asking \/ AnswersOf(d),
         hold' # Null => Rowed(hold'), step' = "Review" => hold' # Null
  PROVE  RowsKept'
<1>1. \A k : Rowed(k)' <=> Rowed(k) BY DEF Rowed
<1>2. \A m : AnswersOf(m)' <=> AnswersOf(m)
  BY DEF AnswersOf, Rowed, HoldReplies, AgreeCalls, AgreeReplies, NewKeys
<1>3. \A m \in asking' : AnswersOf(m)' BY <1>2 DEF FlowInv, RowsKept
<1>4. hold' # Null => Rowed(hold)' BY DEF Rowed
<1> QED BY <1>1, <1>3, <1>4 DEF FlowInv, RowsKept, NewKeys

\* A step that leaves the choice, the holds and the rows alone.
LEMMA FlowQuiet ==
  ASSUME FlowInv, FormTypes', AskTypes', free' \in [Date -> 0..MaxBlocks],
         agreeing' \subseteq 0..MaxKey,
         UNCHANGED <<row, due, step, date, start, blocks, slots, key, hold, verified, accepted,
                     awaits, refused, strayed, reviewed>>,
         \/ checking' \in {checking, Null}
         \/ /\ checking' = Choosing!Request /\ Choosing!Request \in Bookable
            /\ step = "Verify" /\ ~verified,
         misled => misled',
         expired' /\ ~misled' /\ step = "Review" => expired \/ row[hold].status # "HELD",
         NEW d, asking' \subseteq asking \cup {d},
         \/ asking' \subseteq asking
         \/ d \in TimesCalls /\ date # Null
         \/ d \in AgreeCalls /\ Rowed(d.key) /\ verified
  PROVE  FlowInv'
<1>1. asking' \subseteq asking \/ d \notin HoldCalls \cup HoldReplies \cup AgreeReplies \cup LeftCalls
  BY DEF TimesCalls, HoldCalls, HoldReplies, AgreeCalls, AgreeReplies, LeftCalls
<1>2. Holding' \subseteq Holding
  <2>1. CASE asking' \subseteq asking
    <3>1. ASSUME NEW c \in Holding'
          PROVE  c \in HoldCalls /\ (c \in asking' \/ Choosing!LeftAlone(c) \in asking')
      BY DEF Holding, HoldCalls, Choosing!LeftAlone
    <3> QED BY <2>1, <3>1 DEF Holding
  <2>2. CASE ~(asking' \subseteq asking) BY <1>1, <2>2, HoldingGrows
  <2> QED BY <2>1, <2>2
<1>3. Waited' \subseteq Waited
  <2>1. HoldCalls' = HoldCalls /\ HoldReplies' = HoldReplies BY DEF HoldCalls, HoldReplies
  <2> QED BY <1>1, <2>1 DEF Waited
<1>4. \A k : Rowed(k)' <=> Rowed(k) BY DEF Rowed
<1>5. Choosing!Request' = Choosing!Request BY SameChoice
<1>6. ServerTypes' /\ KeyTypes'
  <2>1. checking' \in Bookable \cup {Null} BY DEF FlowInv, KeyTypes
  <2> QED BY <2>1 DEF FlowInv, ServerTypes, KeyTypes, NewKeys
<1>7. Dated'
  <2>1. date = Null => checking' = Null
    BY FlowAssumption DEF FlowInv, Dated, Bookable, Choosing!Request
  <2>2. date = Null => asking' \subseteq AgreeCalls \cup AgreeReplies \cup LeftCalls
    BY DEF FlowInv, Dated
  <2>3. UNCHANGED <<AgreeCalls, AgreeReplies, LeftCalls>>
    BY DEF AgreeCalls, AgreeReplies, LeftCalls, HoldCalls, NewKeys
  <2> QED BY <1>2, <2>1, <2>2, <2>3 DEF FlowInv, Dated
<1>8. RowsKept'
  <2>1. asking' \subseteq asking \/ AnswersOf(d)
    <3>1. d \in TimesCalls => d \notin AgreeCalls BY DEF TimesCalls, AgreeCalls
    <3> QED BY <1>1, <3>1 DEF AnswersOf
  <2>2. (hold' # Null => Rowed(hold')) /\ (step' = "Review" => hold' # Null)
    BY DEF FlowInv, RowsKept
  <2> QED BY <2>1, <2>2, RowsStay
<1>9. Unverified'
  <2>1. verified => checking' = Null BY DEF FlowInv, Unverified
  <2>2. ~verified => asking' \subseteq TimesCalls BY DEF FlowInv, Unverified
  <2> QED BY <1>4, <2>1, <2>2 DEF FlowInv, Unverified, TimesCalls
<1>10. ASSUME ~strayed' PROVE Waits' /\ SameRequest' /\ OneHold'
  <2>1. Waits /\ SameRequest /\ OneHold BY <1>10 DEF FlowInv
  <2>2. Waits' BY <1>3, <1>5, <2>1 DEF Waits
  <2>3. SameRequest' BY <1>2, <1>4, <1>5, <2>1 DEF SameRequest
  <2>4. \A k : OnlyThis(k)' <=> OnlyThis(k) BY DEF OnlyThis
  <2>5. OneHold' BY <1>2, <1>4, <2>1, <2>4 DEF OneHold
  <2> QED BY <2>2, <2>3, <2>5
<1> QED BY <1>6, <1>7, <1>8, <1>9, <1>10, FormTypes' DEF FlowInv

LEMMA FlowChecks ==
  ASSUME FlowInv, Choosing!CheckCode \/ Choosing!CodeIsWrong
  PROVE  FlowInv'
<1>1. /\ UNCHANGED <<free, row, due, step, date, start, blocks, slots, email, key, hold, verified,
                     expired, accepted, awaits, agreeing, refused, strayed, misled, reviewed, asking>>
      /\ \/ checking' = Null
         \/ checking' = Choosing!Request /\ step = "Verify" /\ ~verified
  BY DEF Choosing!CheckCode, Choosing!CodeIsWrong, Choosing!server, Choosing!choice,
    Choosing!details, Choosing!held, Choosing!history
<1>2. step = "Verify" => Choosing!Request \in Bookable
  BY DEF FlowInv, Dated, FormTypes, Bookable, Choosing!Request
<1>3. FormTypes' BY <1>1 DEF FlowInv, FormTypes
<1>4. AskTypes' BY <1>1, AskGoes DEF FlowInv
<1>5. free' \in [Date -> 0..MaxBlocks] /\ agreeing' \subseteq 0..MaxKey
  BY <1>1 DEF FlowInv, ServerTypes, KeyTypes
<1> QED BY <1>1, <1>2, <1>3, <1>4, <1>5, FlowQuiet

\* The hold of now is said to have ended.
LEMMA FlowEnds ==
  ASSUME FlowInv, Choosing!TimerFires \/ \E k \in Choosing!Keys : Choosing!OldView(k)
  PROVE  FlowInv'
<1>1. /\ UNCHANGED <<free, row, due, step, date, start, blocks, slots, email, key, hold, verified,
                     checking, accepted, awaits, agreeing, refused, strayed, reviewed, asking>>
      /\ expired' = TRUE /\ misled' \in BOOLEAN /\ (misled => misled') /\ step = "Review"
      /\ ~misled' => expired \/ row[hold].status # "HELD"
  <2>1. CASE Choosing!TimerFires
    <3>1. hold \in due BY <2>1 DEF Choosing!TimerFires
    <3>2. row[hold].status # "HELD" BY <3>1 DEF FlowInv, RowsKept
    <3> QED BY <2>1, <3>2 DEF Choosing!TimerFires, Choosing!server, Choosing!choice,
      Choosing!details, Choosing!waits, Choosing!history, FlowInv, FormTypes
  <2>2. CASE \E k \in Choosing!Keys : Choosing!OldView(k)
    <3>1. PICK k \in Choosing!Keys : Choosing!OldView(k) BY <2>2
    <3>2. /\ misled' = (misled \/ (step = "Review" /\ ~expired /\ k # hold))
          /\ step = "Review" /\ k # hold
      BY <3>1 DEF Choosing!OldView, Choosing!Misleads
    <3>3. misled' \in BOOLEAN /\ (misled => misled') /\ (~misled' => expired)
      BY <3>2 DEF FlowInv, FormTypes
    <3> QED BY <3>1, <3>2, <3>3 DEF Choosing!OldView, Choosing!server, Choosing!choice,
      Choosing!details, Choosing!waits
  <2> QED BY <2>1, <2>2
<1>2. FormTypes' BY <1>1 DEF FlowInv, FormTypes
<1>3. AskTypes' BY <1>1, AskGoes DEF FlowInv
<1>4. free' \in [Date -> 0..MaxBlocks] /\ agreeing' \subseteq 0..MaxKey
  BY <1>1 DEF FlowInv, ServerTypes, KeyTypes
<1> QED BY <1>1, <1>2, <1>3, <1>4, FlowQuiet

LEMMA FlowOthers ==
  ASSUME FlowInv, NEW e \in Date, NEW n \in 0..MaxBlocks, Choosing!Others(e, n)
  PROVE  FlowInv'
<1>1. /\ UNCHANGED <<row, due, step, date, start, blocks, slots, email, key, hold, verified,
                     expired, checking, accepted, awaits, agreeing, refused, strayed, misled, reviewed,
                     asking>>
      /\ free' = [free EXCEPT ![e] = n]
  BY DEF Choosing!Others, Choosing!Untouched, Choosing!choice, Choosing!details, Choosing!held,
    Choosing!waits, Choosing!history
<1>2. FormTypes' BY <1>1 DEF FlowInv, FormTypes
<1>3. AskTypes' BY <1>1, AskGoes DEF FlowInv
<1>4. free' \in [Date -> 0..MaxBlocks] /\ agreeing' \subseteq 0..MaxKey
  BY <1>1 DEF FlowInv, ServerTypes, KeyTypes
<1> QED BY <1>1, <1>2, <1>3, <1>4, FlowQuiet

LEMMA FlowServesTimes ==
  ASSUME FlowInv, NEW m \in asking, Choosing!ServeSlots(m)
  PROVE  FlowInv'
<1>1. PICK d : d = [what |-> "times", value |-> [of |-> m.of, free |-> free[m.of]]] OBVIOUS
<1>2. /\ UNCHANGED <<free, row, due, step, date, start, blocks, slots, email, key, hold, verified,
                     expired, checking, accepted, awaits, agreeing, refused, strayed, misled, reviewed>>
      /\ m.what = "slots" /\ asking' = (asking \ {m}) \cup {d}
  BY <1>1 DEF Choosing!ServeSlots, Choosing!Answer, Choosing!Untouched, Choosing!server,
    Choosing!choice, Choosing!details, Choosing!held, Choosing!waits, Choosing!history
<1>3. m \in TimesCalls /\ m.of \in Date
  BY <1>2, FlowKinds, FlowFields DEF FlowInv, AskTypes
<1>4. d \in TimesCalls
  BY <1>1, <1>3 DEF TimesCalls, DayTimes, FlowInv, ServerTypes
<1>5. date # Null
  <2>1. m \notin AgreeCalls \cup AgreeReplies \cup LeftCalls
    BY <1>3 DEF TimesCalls, AgreeCalls, AgreeReplies, LeftCalls
  <2> QED BY <2>1 DEF FlowInv, Dated
<1>6. FormTypes' BY <1>2 DEF FlowInv, FormTypes
<1>7. AskTypes' BY <1>2, <1>4, AskAnswered DEF FlowInv, FlowCalls
<1>8. free' \in [Date -> 0..MaxBlocks] /\ agreeing' \subseteq 0..MaxKey
  BY <1>2 DEF FlowInv, ServerTypes, KeyTypes
<1> QED BY <1>2, <1>4, <1>5, <1>6, <1>7, <1>8, FlowQuiet

LEMMA FlowAccepts ==
  ASSUME FlowInv, Choosing!Accept
  PROVE  FlowInv'
<1>1. PICK d : d = Choosing!Agree(hold) OBVIOUS
<1>2. /\ UNCHANGED <<free, row, due, step, date, start, blocks, slots, email, key, hold, verified,
                     expired, checking, accepted, awaits, refused, strayed, misled, reviewed>>
      /\ step = "Review" /\ agreeing' = agreeing \cup {hold} /\ Choosing!Send(d)
  BY <1>1 DEF Choosing!Accept, Choosing!server, Choosing!choice, Choosing!details, Choosing!held,
    Choosing!history
<1>3. hold \in 0..MaxKey /\ Rowed(hold) /\ verified
  BY <1>2 DEF FlowInv, KeyTypes, RowsKept, Unverified
<1>4. d \in AgreeCalls /\ d.key = hold BY <1>1, <1>3 DEF AgreeCalls, Choosing!Agree
<1>5. FormTypes' BY <1>2 DEF FlowInv, FormTypes
<1>6. d \in FlowCalls BY <1>4 DEF FlowCalls
<1>7. AskTypes' /\ asking' = asking \cup {d} BY <1>2, <1>6, AskComes DEF FlowInv
<1>8. free' \in [Date -> 0..MaxBlocks] /\ agreeing' \subseteq 0..MaxKey
  BY <1>2, <1>3 DEF FlowInv, ServerTypes, KeyTypes
<1> QED BY <1>2, <1>3, <1>4, <1>5, <1>7, <1>8, FlowQuiet

\* A hold is asked for.
LEMMA FlowSends ==
  ASSUME FlowInv, NEW r \in Bookable, Choosing!Unused # {}, Choosing!SendHold(r),
         verified' = TRUE, checking' = Null,
         UNCHANGED <<free, row, due, step, date, start, blocks, slots, email, hold, expired,
                     accepted, agreeing, refused, strayed, misled, reviewed>>,
         date # Null,
         ~strayed => step = "Verify" /\ r = Choosing!Request /\ awaits = {}
  PROVE  FlowInv'
<1>1. PICK k : k = Choosing!KeyOf OBVIOUS
<1>2. key' = k /\ awaits' = awaits \cup {k} /\ Choosing!Send(Choosing!Ask(k, r))
  BY <1>1 DEF Choosing!SendHold
<1>3. \/ k = key /\ key # Null
      \/ key = Null /\ k \in Choosing!Unused
  BY <1>1 DEF Choosing!KeyOf
<1>4. k \in NewKeys
  <2>1. Choosing!Unused \subseteq NewKeys
    BY FlowAssumption DEF Choosing!Unused, Choosing!Keys, NewKeys
  <2> QED BY <1>3, <2>1 DEF FlowInv, KeyTypes
<1>5. PICK d : d = Choosing!Ask(k, r) OBVIOUS
<1>6. d \in HoldCalls /\ d.key = k /\ d.of = r
  BY <1>4, <1>5 DEF HoldCalls, Choosing!Ask
<1>7. AskTypes' /\ asking' = asking \cup {d}
  <2>1. d \in FlowCalls BY <1>6 DEF FlowCalls
  <2> QED BY <1>2, <1>5, <2>1, AskComes DEF FlowInv
<1>8. Holding' \subseteq Holding \cup {d} /\ Holding \subseteq HoldCalls
  BY <1>6, <1>7, HoldingGrows DEF Holding
<1>9. Waited' \subseteq Waited \cup {d}
  <2>1. HoldCalls' = HoldCalls /\ HoldReplies' = HoldReplies BY DEF HoldCalls, HoldReplies
  <2> QED BY <1>7, <2>1 DEF Waited
<1>10. key = Null => /\ ~Rowed(k) /\ k \notin refused
                     /\ \A c \in Holding : c.key # k
  <2> SUFFICES ASSUME key = Null PROVE ~Rowed(k) /\ k \notin refused /\ \A c \in Holding : c.key # k
    OBVIOUS
  <2>1. /\ row[k] = Choosing!NoRow /\ k \notin refused
        /\ \A m \in asking : Choosing!Sent(m).what # "hold" \/ Choosing!Sent(m).key # k
    BY <1>3 DEF Choosing!Unused
  <2>2. ~Rowed(k) BY <2>1 DEF Rowed, Choosing!NoRow
  <2>3. ASSUME NEW c \in Holding PROVE c.key # k
    <3>1. c \in HoldCalls /\ (c \in asking \/ Choosing!LeftAlone(c) \in asking) BY DEF Holding
    <3>2. c.what = "hold" BY <3>1 DEF HoldCalls
    <3>3. Choosing!Sent(c) = c /\ Choosing!Sent(Choosing!LeftAlone(c)) = c
      BY <3>2 DEF Choosing!Sent, Choosing!LeftAlone
    <3> QED BY <2>1, <3>1, <3>2, <3>3
  <2> QED BY <2>1, <2>2, <2>3
<1>11. \A j : Rowed(j)' <=> Rowed(j) BY DEF Rowed
<1>12. Choosing!Request' = Choosing!Request BY SameChoice
<1>13. ServerTypes' /\ KeyTypes' /\ FormTypes'
  BY <1>2, <1>4 DEF FlowInv, ServerTypes, KeyTypes, FormTypes, NewKeys
<1>15. Dated' BY DEF FlowInv, Dated
<1>16. RowsKept'
  <2>1. AnswersOf(d)
    BY <1>6 DEF AnswersOf, HoldCalls, HoldReplies, AgreeCalls, AgreeReplies
  <2>2. (hold' # Null => Rowed(hold')) /\ (step' = "Review" => hold' # Null)
    BY DEF FlowInv, RowsKept
  <2> QED BY <1>7, <2>1, <2>2, RowsStay
<1>17. Unverified' BY DEF Unverified
<1>18. ASSUME ~strayed' PROVE Waits' /\ SameRequest' /\ OneHold'
  <2>1. /\ Waits /\ SameRequest /\ OneHold
        /\ step = "Verify" /\ r = Choosing!Request /\ awaits = {} /\ hold = Null
    BY <1>18 DEF FlowInv, SameRequest
  <2>2. Waited = {} BY <2>1 DEF Waits
  <2>3. Waits' BY <1>2, <1>6, <1>9, <2>1, <2>2 DEF Waits
  <2>4. SameRequest'
    <3>1. \A c \in Holding' : c.key = k => c.of = Choosing!Request
      BY <1>3, <1>6, <1>8, <1>10, <2>1 DEF SameRequest
    <3>2. Rowed(k) => row[k].of = Choosing!Request
      BY <1>3, <1>10, <2>1 DEF SameRequest
    <3> QED BY <1>2, <1>11, <1>12, <2>1, <3>1, <3>2 DEF SameRequest
  <2>5. OneHold'
    <3>1. \A j \in NewKeys : OnlyThis(j) => OnlyThis(j)'
      BY <1>2, <1>3, <2>1, FlowAssumption DEF OnlyThis, NewKeys
    <3>2. OnlyThis(k)' BY <1>2, <2>1 DEF OnlyThis
    <3>3. \A c \in Holding : c.key \in NewKeys BY <1>8 DEF HoldCalls
    <3>4. \A j \in 0..MaxKey : OnlyThis(j) => j \in NewKeys
      BY <2>1, FlowAssumption DEF OnlyThis, FlowInv, KeyTypes
    <3> QED BY <1>6, <1>8, <1>11, <2>1, <3>1, <3>2, <3>3, <3>4 DEF OneHold
  <2> QED BY <2>3, <2>4, <2>5
<1> QED BY <1>7, <1>13, <1>15, <1>16, <1>17, <1>18 DEF FlowInv

LEMMA FlowHolds ==
  ASSUME FlowInv, Choosing!CodeIsRight \/ Choosing!HoldNow
  PROVE  FlowInv'
<1>1. CASE Choosing!CodeIsRight
  <2>1. /\ checking # Null /\ Choosing!Unused # {} /\ verified' = TRUE /\ checking' = Null
        /\ Choosing!SendHold(checking)
        /\ UNCHANGED <<free, row, due, step, date, start, blocks, slots, email, hold, expired,
                       accepted, agreeing, refused, strayed, misled, reviewed>>
    BY <1>1 DEF Choosing!CodeIsRight, Choosing!server, Choosing!held, Choosing!history
  <2>2. checking \in Bookable /\ ~verified /\ awaits = {}
    BY <2>1 DEF FlowInv, KeyTypes, Unverified, FormTypes
  <2>4. date # Null BY <2>1 DEF FlowInv, Dated
  <2>3. ~strayed => step = "Verify" /\ checking = Choosing!Request
    BY <2>1 DEF FlowInv, Waits
  <2> QED BY <2>1, <2>2, <2>3, <2>4, FlowSends
<1>2. CASE Choosing!HoldNow
  <2>1. /\ step = "Verify" /\ verified /\ Choosing!Unused # {} /\ (awaits = {} \/ strayed)
        /\ Choosing!SendHold(Choosing!Request)
        /\ UNCHANGED <<free, row, due, step, date, start, blocks, slots, email, verified, hold,
                       expired, checking, accepted, agreeing, refused, strayed, misled, reviewed>>
    BY <1>2 DEF Choosing!HoldNow, Choosing!server, Choosing!details, Choosing!held, Choosing!history
  <2>2. Choosing!Request \in Bookable /\ checking = Null /\ verified' = TRUE
    BY <2>1 DEF FlowInv, Dated, FormTypes, Unverified, Bookable, Choosing!Request
  <2>3. date # Null BY <2>1 DEF FlowInv, Dated
  <2> QED BY <2>1, <2>2, <2>3, FlowSends
<1> QED BY <1>1, <1>2

\* A call that holds or agrees is made by a page that is verified, for a date unless it agrees.
LEMMA Knowing ==
  ASSUME FlowInv, NEW m \in asking, m \notin TimesCalls
  PROVE  /\ verified /\ checking = Null
         /\ m \in HoldCalls \cup HoldReplies => date # Null
<1>1. verified /\ checking = Null BY DEF FlowInv, Unverified, FormTypes
<1>2. m \in HoldCalls \cup HoldReplies => m \notin AgreeCalls \cup AgreeReplies \cup LeftCalls
  BY DEF HoldCalls, HoldReplies, AgreeCalls, AgreeReplies, LeftCalls
<1> QED BY <1>1, <1>2 DEF FlowInv, Dated

\* A call that goes is one hold less, if any.
LEMMA HoldingGoes ==
  ASSUME asking' \subseteq asking
  PROVE  Holding' \subseteq Holding
BY DEF Holding, HoldCalls, NewKeys, Bookable, Choosing!LeftAlone

LEMMA FlowHears ==
  ASSUME FlowInv, NEW m \in asking,
         Choosing!Taken(m) \/ Choosing!Held(m) \/ Choosing!NotHeld(m)
  PROVE  FlowInv'
<1>1. /\ m.what = "held" /\ awaits' = awaits \ {m.key} /\ date' = date
      /\ UNCHANGED <<free, row, due, email, verified, accepted, checking, agreeing, strayed, misled>>
      /\ reviewed' \subseteq reviewed \cup {m.key}
  BY DEF Choosing!Taken, Choosing!Held, Choosing!NotHeld, Choosing!Restart, Choosing!Choose,
    Choosing!server, Choosing!details, Choosing!choice, Choosing!held, Choosing!history
<1>2. m \in HoldReplies /\ m \in Waited /\ m.key \in NewKeys /\ m.key # Null
      /\ verified /\ checking = Null /\ date # Null
  <2>1. m \in HoldReplies /\ m.key \in NewKeys
    BY <1>1, FlowKinds, FlowFields DEF FlowInv, AskTypes
  <2>2. m \notin TimesCalls BY <2>1 DEF HoldReplies, TimesCalls
  <2> QED BY <2>1, <2>2, Knowing, FlowAssumption DEF Waited, NewKeys
<1>3. CASE Choosing!Taken(m)
  <2>1. PICK d : d = Choosing!AskSlots(date) OBVIOUS
  <2>2. /\ hold' = Null /\ expired' = FALSE /\ start' = Null /\ blocks' = 0 /\ key' = Null
        /\ step' = "Time" /\ slots' = Null /\ refused' = refused \cup {m.key}
        /\ asking' = (asking \ {m}) \cup {d}
    BY <1>3, <2>1 DEF Choosing!Taken, Choosing!Restart, Choosing!Choose
  <2>3. d \in TimesCalls /\ d \in FlowCalls
    BY <1>2, <2>1 DEF TimesCalls, FlowCalls, Choosing!AskSlots, FlowInv, FormTypes
  <2>4. d \notin HoldCalls \cup HoldReplies \cup AgreeCalls \cup AgreeReplies \cup LeftCalls
    BY <2>3 DEF TimesCalls, HoldCalls, HoldReplies, AgreeCalls, AgreeReplies, LeftCalls
  <2>5. AskTypes' BY <2>2, <2>3, AskAnswered DEF FlowInv
  <2>6. ServerTypes' /\ FormTypes' /\ KeyTypes'
    <3>1. 0 \in 0..MaxBlocks BY FlowAssumption
    <3>2. ServerTypes' BY <1>1 DEF FlowInv, ServerTypes
    <3>3. FormTypes' BY <1>1, <2>2, <3>1 DEF FlowInv, FormTypes, Choosing!Steps
    <3>4. NewKeys' = NewKeys /\ m.key \in 0..MaxKey BY <1>2 DEF NewKeys
    <3>5. KeyTypes' BY <1>1, <1>2, <2>2, <3>4 DEF FlowInv, KeyTypes
    <3> QED BY <3>2, <3>3, <3>5
  <2>7. Dated' BY <1>1, <1>2, <2>2 DEF Dated
  <2>8. RowsKept'
    <3>1. AnswersOf(d) BY <2>4 DEF AnswersOf
    <3> QED BY <1>1, <2>2, <3>1, RowsStay
  <2>9. Unverified' BY <1>1, <1>2 DEF Unverified
  <2>10. ASSUME ~strayed' PROVE Waits' /\ SameRequest' /\ OneHold'
    <3>1. Waits /\ SameRequest /\ OneHold BY <1>1, <2>10 DEF FlowInv
    <3>2. awaits = {key} /\ m.key = key /\ Waited = {m} /\ hold = Null
      BY <1>2, <3>1 DEF Waits, SameRequest
    <3>3. Waited' = {}
      <4>1. HoldCalls' = HoldCalls /\ HoldReplies' = HoldReplies BY DEF HoldCalls, HoldReplies
      <4> QED BY <2>2, <2>4, <3>2, <4>1 DEF Waited
    <3>4. Holding' \subseteq Holding /\ Holding \subseteq HoldCalls
      BY <2>2, <2>4, HoldingGrows DEF Holding
    <3>5. \A c \in HoldCalls : c.key \in NewKeys /\ c.key # Null
      BY FlowAssumption DEF HoldCalls, NewKeys
    <3>6. Waits' BY <1>1, <1>2, <3>2, <3>3 DEF Waits
    <3>7. SameRequest' BY <2>2, <3>4, <3>5 DEF SameRequest
    <3>8. \A k : Rowed(k)' <=> Rowed(k) BY <1>1 DEF Rowed
    <3>9. \A k \in 0..MaxKey : OnlyThis(k) => k \in refused'
      BY <2>2, <3>2, FlowAssumption DEF OnlyThis
    <3>10. \A c \in Holding : c.key \in 0..MaxKey BY <3>4, <3>5 DEF NewKeys
    <3>11. OneHold' BY <1>1, <2>2, <3>1, <3>4, <3>8, <3>9, <3>10 DEF OneHold
    <3> QED BY <3>6, <3>7, <3>11
  <2> QED BY <2>5, <2>6, <2>7, <2>8, <2>9, <2>10 DEF FlowInv
<1>4. CASE Choosing!Held(m) \/ Choosing!NotHeld(m)
  <2>1. /\ asking' = asking \ {m} /\ UNCHANGED <<date, start, blocks, key, slots, refused>>
        /\ \/ m.value = "ok" /\ hold' = m.key /\ expired' = FALSE /\ step' = "Review"
           \/ UNCHANGED <<hold, expired, step>>
    BY <1>4 DEF Choosing!Held, Choosing!NotHeld, Choosing!choice, Choosing!held, Choosing!history
  <2>2. AskTypes' BY <2>1, AskGoes DEF FlowInv
  <2>3. ServerTypes' /\ FormTypes' /\ KeyTypes'
    <3>1. m.key \in 0..MaxKey /\ m.key \in NewKeys BY <1>2 DEF NewKeys
    <3>2. ServerTypes' BY <1>1, <2>1 DEF FlowInv, ServerTypes
    <3>3. FormTypes' BY <1>1, <2>1 DEF FlowInv, FormTypes, Choosing!Steps
    <3>4. NewKeys' = NewKeys BY DEF NewKeys
    <3>5. KeyTypes' BY <1>1, <2>1, <3>1, <3>4 DEF FlowInv, KeyTypes
    <3> QED BY <3>2, <3>3, <3>5
  <2>4. Dated' BY <1>1, <1>2, <2>1 DEF FlowInv, Dated
  <2>5. RowsKept'
    <3>1. m.value = "ok" => Rowed(m.key) BY <1>2 DEF FlowInv, RowsKept, AnswersOf
    <3>2. hold' # Null => Rowed(hold') BY <2>1, <3>1 DEF FlowInv, RowsKept
    <3>3. step' = "Review" => hold' # Null BY <1>2, <2>1 DEF FlowInv, RowsKept
    <3> QED BY <1>1, <2>1, <3>2, <3>3, RowsStay
  <2>6. Unverified' BY <1>1, <1>2 DEF Unverified
  <2>7. ASSUME ~strayed' PROVE Waits' /\ SameRequest' /\ OneHold'
    <3>1. Waits /\ SameRequest /\ OneHold BY <1>1, <2>7 DEF FlowInv
    <3>2. awaits = {key} /\ m.key = key /\ Waited = {m} /\ hold = Null /\ step \in {"Verify", "Pay"}
      BY <1>2, <3>1 DEF Waits, SameRequest
    <3>3. Waited' = {} /\ awaits' = {}
      <4>1. HoldCalls' = HoldCalls /\ HoldReplies' = HoldReplies BY DEF HoldCalls, HoldReplies
      <4> QED BY <1>1, <2>1, <3>2, <4>1 DEF Waited
    <3>4. Holding' \subseteq Holding
      BY <2>1, HoldingGoes
    <3>5. Choosing!Request' = Choosing!Request BY <2>1, SameChoice
    <3>6. \A k : Rowed(k)' <=> Rowed(k) BY <1>1 DEF Rowed
    <3>7. Waits' BY <1>1, <1>2, <3>3 DEF Waits
    <3>8. SameRequest' BY <1>1, <2>1, <3>1, <3>2, <3>3, <3>4, <3>5, <3>6 DEF SameRequest
    <3>9. \A k \in 0..MaxKey : OnlyThis(k) => OnlyThis(k)'
      BY <2>1, <3>2, FlowAssumption DEF OnlyThis
    <3>10. \A c \in Holding : c.key \in 0..MaxKey BY DEF Holding, HoldCalls, NewKeys
    <3>11. ~(step' = "Review" /\ expired') BY <2>1, <3>2
    <3>12. OneHold'
      BY <1>1, <2>1, <3>1, <3>4, <3>6, <3>9, <3>10, <3>11 DEF OneHold
    <3> QED BY <3>7, <3>8, <3>12
  <2> QED BY <2>2, <2>3, <2>4, <2>5, <2>6, <2>7 DEF FlowInv
<1> QED BY <1>3, <1>4

LEMMA FlowChoosesAgain ==
  ASSUME FlowInv, Choosing!ChooseAgain
  PROVE  FlowInv'
<1>1. /\ step = "Review" /\ expired
      /\ hold' = Null /\ expired' = FALSE /\ date' = date /\ start' = Null /\ blocks' = 0
      /\ key' = Null /\ step' = "Time" /\ slots' = Null
      /\ UNCHANGED <<free, row, due, email, verified, accepted, checking, awaits, agreeing,
                     refused, strayed, misled, reviewed>>
      /\ \/ asking' = asking
         \/ date # Null /\ Choosing!Send(Choosing!AskSlots(date))
  BY DEF Choosing!ChooseAgain, Choosing!Restart, Choosing!Choose, Choosing!server,
    Choosing!details, Choosing!waits, Choosing!history
<1>2. /\ AskTypes' /\ asking' \subseteq asking \cup {Choosing!AskSlots(date)}
      /\ asking' = asking \/ (date # Null /\ Choosing!AskSlots(date) \in TimesCalls)
  <2>1. CASE asking' = asking BY <2>1, AskGoes DEF FlowInv
  <2>2. CASE date # Null /\ Choosing!Send(Choosing!AskSlots(date))
    <3>1. date \in Date BY <2>2 DEF FlowInv, FormTypes
    <3> QED BY <2>2, <3>1, AskTimes
  <2> QED BY <1>1, <2>1, <2>2
<1>3. PICK d : d = Choosing!AskSlots(date) OBVIOUS
<1>4. d \in TimesCalls =>
        d \notin HoldCalls \cup HoldReplies \cup AgreeCalls \cup AgreeReplies \cup LeftCalls
  BY DEF TimesCalls, HoldCalls, HoldReplies, AgreeCalls, AgreeReplies, LeftCalls
<1>5. Holding' \subseteq Holding /\ Holding \subseteq HoldCalls
  <2>1. CASE asking' = asking
    <3>1. Holding' = Holding BY <2>1 DEF Holding, HoldCalls, NewKeys, Choosing!LeftAlone
    <3> QED BY <3>1 DEF Holding
  <2>2. CASE asking' # asking
    BY <1>2, <1>3, <1>4, <2>2, HoldingGrows DEF Holding
  <2> QED BY <2>1, <2>2
<1>6. verified /\ checking = Null /\ hold # Null /\ Rowed(hold)
  BY <1>1 DEF FlowInv, Unverified, FormTypes, RowsKept
<1>7. ServerTypes' /\ FormTypes' /\ KeyTypes'
  <2>1. 0 \in 0..MaxBlocks BY FlowAssumption
  <2> QED BY <1>1, <2>1
      DEF FlowInv, ServerTypes, FormTypes, KeyTypes, NewKeys, Choosing!Steps
<1>8. Dated'
  <2>1. date = Null => asking' = asking /\ Holding' = {} BY <1>2, <1>5 DEF FlowInv, Dated
  <2>2. UNCHANGED <<AgreeCalls, AgreeReplies, LeftCalls>>
    BY DEF AgreeCalls, AgreeReplies, LeftCalls, HoldCalls, NewKeys
  <2> QED BY <1>1, <1>6, <2>1, <2>2 DEF FlowInv, Dated
<1>9. RowsKept'
  <2>1. asking' \subseteq asking \/ AnswersOf(d) BY <1>2, <1>3, <1>4 DEF AnswersOf
  <2> QED BY <1>1, <1>2, <1>3, <2>1, RowsStay
<1>10. Unverified' BY <1>1, <1>6 DEF Unverified
<1>11. ASSUME ~strayed' PROVE Waits' /\ SameRequest' /\ OneHold'
  <2>1. Waits /\ SameRequest /\ OneHold BY <1>1, <1>11 DEF FlowInv
  <2>2. awaits = {} /\ (hold = key \/ (hold = 0 /\ key = Null))
    BY <1>6, <2>1 DEF SameRequest
  <2>3. Waited' \subseteq Waited
    <3>1. HoldCalls' = HoldCalls /\ HoldReplies' = HoldReplies BY DEF HoldCalls, HoldReplies
    <3> QED BY <1>2, <1>3, <1>4, <3>1 DEF Waited
  <2>4. \A c \in HoldCalls : c.key \in NewKeys /\ c.key # Null /\ c.key # 0
    BY FlowAssumption DEF HoldCalls, NewKeys
  <2>5. Waits' BY <1>1, <1>6, <2>1, <2>2, <2>3 DEF Waits
  <2>6. SameRequest' BY <1>1, <1>5, <2>4 DEF SameRequest
  <2>7. \A k : Rowed(k)' <=> Rowed(k) BY <1>1 DEF Rowed
  <2>8. \A c \in Holding : OnlyThis(c.key) => Rowed(c.key)
    BY <1>5, <1>6, <2>2, <2>4 DEF OnlyThis
  <2>9. ~misled => \A k \in 0..MaxKey : OnlyThis(k) => row[k].status # "HELD"
    BY <1>1, <2>1, <2>2, FlowAssumption DEF OnlyThis, OneHold
  <2>10. OneHold' BY <1>1, <1>5, <2>1, <2>7, <2>8, <2>9 DEF OneHold
  <2> QED BY <2>5, <2>6, <2>10
<1> QED BY <1>2, <1>7, <1>8, <1>9, <1>10, <1>11 DEF FlowInv

\* An agreement is answered.
LEMMA FlowAgrees ==
  ASSUME FlowInv, NEW m \in asking, Choosing!AcceptArrives(m)
  PROVE  FlowInv'
<1>1. /\ m.what = "accepted" /\ asking' = asking \ {m} /\ agreeing' = agreeing \ {m.key}
      /\ UNCHANGED <<free, row, due, date, start, blocks, slots, key, email, verified, hold, checking,
                     awaits, refused, strayed, reviewed>>
      /\ \/ accepted' = m.key /\ step' = "Pay" /\ UNCHANGED <<expired, misled>>
         \/ m.value # "ok" /\ expired' = TRUE /\ UNCHANGED <<accepted, step>>
            /\ misled' = (misled \/ (step = "Review" /\ ~expired /\ m.key # hold))
  BY DEF Choosing!AcceptArrives, Choosing!Misleads, Choosing!server, Choosing!choice,
    Choosing!details
<1>2. m \in AgreeReplies /\ m.key \in 0..MaxKey
  BY <1>1, FlowKinds, FlowFields DEF FlowInv, AskTypes
<1>3. m \notin TimesCalls BY <1>2 DEF AgreeReplies, TimesCalls
<1>4. verified /\ checking = Null BY <1>3, Knowing
<1>5. AskTypes' BY <1>1, AskGoes DEF FlowInv
<1>6. CASE accepted' = m.key /\ step' = "Pay" /\ UNCHANGED <<expired, misled>>
  <2>1. ServerTypes' BY <1>1 DEF FlowInv, ServerTypes
  <2>2. FormTypes' BY <1>1, <1>6 DEF FlowInv, FormTypes, Choosing!Steps
  <2>3. KeyTypes' BY <1>1, <1>2, <1>6 DEF FlowInv, KeyTypes, NewKeys
  <2>4. Holding' \subseteq Holding BY <1>1, HoldingGoes
  <2>5. Dated'
    <3>1. UNCHANGED <<AgreeCalls, AgreeReplies, LeftCalls>>
      BY DEF AgreeCalls, AgreeReplies, LeftCalls, HoldCalls, NewKeys
    <3> QED BY <1>1, <1>6, <2>4, <3>1 DEF FlowInv, Dated
  <2>6. RowsKept'
    <3>1. hold' # Null => Rowed(hold') BY <1>1 DEF FlowInv, RowsKept
    <3> QED BY <1>1, <1>6, <3>1, RowsStay
  <2>7. Unverified' BY <1>1, <1>4 DEF Unverified
  <2>8. ASSUME ~strayed' PROVE Waits' /\ SameRequest' /\ OneHold'
    <3>1. Waits /\ SameRequest /\ OneHold BY <1>1, <2>8 DEF FlowInv
    <3>2. Waited' \subseteq Waited
      <4>1. HoldCalls' = HoldCalls /\ HoldReplies' = HoldReplies BY DEF HoldCalls, HoldReplies
      <4> QED BY <1>1, <4>1 DEF Waited
    <3>3. Choosing!Request' = Choosing!Request BY <1>1, SameChoice
    <3>4. \A k : Rowed(k)' <=> Rowed(k) BY <1>1 DEF Rowed
    <3>5. Waits' BY <1>1, <1>4, <1>6, <3>1, <3>2 DEF Waits
    <3>6. SameRequest' BY <1>1, <1>6, <2>4, <3>1, <3>3, <3>4 DEF SameRequest
    <3>7. \A k : OnlyThis(k) => OnlyThis(k)' BY <1>1, <1>6 DEF OnlyThis
    <3>8. OneHold' BY <1>1, <1>6, <2>4, <3>1, <3>4, <3>7 DEF OneHold
    <3> QED BY <3>5, <3>6, <3>8
  <2> QED BY <1>5, <2>1, <2>2, <2>3, <2>5, <2>6, <2>7, <2>8 DEF FlowInv
<1>7. CASE m.value # "ok" /\ expired' = TRUE /\ UNCHANGED <<accepted, step>>
           /\ misled' = (misled \/ (step = "Review" /\ ~expired /\ m.key # hold))
  <2>1. FormTypes' BY <1>1, <1>7 DEF FlowInv, FormTypes
  <2>2. misled => misled' BY <1>7
  <2>3. row[m.key].status # "HELD" BY <1>2, <1>7 DEF FlowInv, RowsKept, AnswersOf
  <2>4. ~misled' /\ step = "Review" => expired \/ row[hold].status # "HELD" BY <1>7, <2>3
  <2>5. free' \in [Date -> 0..MaxBlocks] /\ agreeing' \subseteq 0..MaxKey
    BY <1>1 DEF FlowInv, ServerTypes, KeyTypes
  <2> QED BY <1>1, <1>5, <1>7, <2>1, <2>2, <2>4, <2>5, FlowQuiet
<1> QED BY <1>1, <1>6, <1>7

\* The page gives a call up.
LEMMA FlowGivesUp ==
  ASSUME FlowInv, NEW m \in asking, Choosing!GiveUp(m)
  PROVE  FlowInv'
<1>1. /\ m.what \in {"hold", "held", "accept", "accepted"}
      /\ \/ asking' = asking \ {m}
         \/ m.what \in {"hold", "accept"} /\ asking' = (asking \ {m}) \cup {Choosing!LeftAlone(m)}
      /\ IF m.what \in {"hold", "held"} THEN awaits' = awaits \ {m.key} /\ UNCHANGED agreeing
         ELSE agreeing' = agreeing \ {m.key} /\ UNCHANGED awaits
      /\ UNCHANGED <<free, row, due, step, date, start, blocks, slots, key, email, verified, hold,
                     expired, accepted, checking, refused, strayed, misled, reviewed>>
  BY DEF Choosing!GiveUp, Choosing!server, Choosing!choice, Choosing!details, Choosing!held,
    Choosing!history
<1>2. m \in FlowCalls BY DEF FlowInv, AskTypes
<1>3. m \in HoldCalls \cup HoldReplies \cup AgreeCalls \cup AgreeReplies /\ m \notin TimesCalls
  <2>1. m \notin TimesCalls BY <1>1, <1>2, FlowKinds
  <2> QED BY <1>1, <1>2, <2>1, FlowKinds
<1>4. verified /\ checking = Null BY <1>3, Knowing
<1>5. PICK d : d = Choosing!LeftAlone(m) OBVIOUS
<1>6. m.what \in {"hold", "accept"} => d \in LeftCalls
  BY <1>2, <1>5, FlowKinds DEF LeftCalls, Choosing!LeftAlone
<1>7. d.what = "left" BY <1>5 DEF Choosing!LeftAlone
<1>8. d \notin TimesCalls \cup HoldCalls \cup HoldReplies \cup AgreeCalls \cup AgreeReplies
  BY <1>7 DEF TimesCalls, HoldCalls, HoldReplies, AgreeCalls, AgreeReplies
<1>9. AskTypes'
  <2>1. d \in LeftCalls => d \in FlowCalls BY DEF FlowCalls
  <2> QED BY <1>1, <1>5, <1>6, <2>1, AskGoes, AskAnswered DEF FlowInv
<1>10. Holding' \subseteq Holding
  <2>1. CASE asking' = asking \ {m} BY <2>1, HoldingGoes
  <2>2. CASE m.what = "hold" /\ asking' = (asking \ {m}) \cup {d}
    <3>1. m \in Holding BY <1>2, <2>2, FlowKinds DEF Holding
    <3> QED BY <1>5, <2>2, <3>1, HoldingGrows
  <2>3. CASE m.what = "accept" /\ asking' = (asking \ {m}) \cup {d}
    <3>1. ASSUME NEW c \in Holding'
          PROVE  c \in HoldCalls /\ (c \in asking' \/ Choosing!LeftAlone(c) \in asking')
      BY DEF Holding, HoldCalls, Choosing!LeftAlone
    <3>2. ASSUME NEW c \in HoldCalls PROVE Choosing!LeftAlone(c) # d /\ c # d
      <4>1. c.what = "hold" BY DEF HoldCalls
      <4>2. Choosing!LeftAlone(c).call = c /\ d.call = m BY <1>5 DEF Choosing!LeftAlone
      <4> QED BY <1>8, <2>3, <4>1, <4>2
    <3> QED BY <2>3, <3>1, <3>2 DEF Holding
  <2> QED BY <1>1, <1>5, <2>1, <2>2, <2>3
<1>11. ServerTypes' /\ FormTypes' BY <1>1 DEF FlowInv, ServerTypes, FormTypes
<1>12. KeyTypes'
  <2>1. awaits' \subseteq awaits /\ agreeing' \subseteq agreeing BY <1>1
  <2> QED BY <1>1, <2>1 DEF FlowInv, KeyTypes, NewKeys
<1>13. Dated'
  <2>1. UNCHANGED <<AgreeCalls, AgreeReplies, LeftCalls>>
    BY DEF AgreeCalls, AgreeReplies, LeftCalls, HoldCalls, NewKeys
  <2>2. date = Null => asking' \subseteq AgreeCalls \cup AgreeReplies \cup LeftCalls
    BY <1>1, <1>5, <1>6 DEF FlowInv, Dated
  <2> QED BY <1>1, <1>10, <2>1, <2>2 DEF FlowInv, Dated
<1>14. RowsKept'
  <2>1. AnswersOf(d) BY <1>8 DEF AnswersOf
  <2>2. asking' \subseteq asking \cup {d} BY <1>1, <1>5
  <2>3. (hold' # Null => Rowed(hold')) /\ (step' = "Review" => hold' # Null)
    BY <1>1 DEF FlowInv, RowsKept
  <2> QED BY <1>1, <2>1, <2>2, <2>3, RowsStay
<1>15. Unverified' BY <1>1, <1>4 DEF Unverified
<1>16. ASSUME ~strayed' PROVE Waits' /\ SameRequest' /\ OneHold'
  <2>1. Waits /\ SameRequest /\ OneHold BY <1>1, <1>16 DEF FlowInv
  <2>2. Waited' \subseteq Waited \ {m}
    <3>1. HoldCalls' = HoldCalls /\ HoldReplies' = HoldReplies BY DEF HoldCalls, HoldReplies
    <3> QED BY <1>1, <1>5, <1>8, <3>1 DEF Waited
  <2>3. Waits'
    <3>1. CASE m \in Waited
      <4>1. Waited' = {} BY <2>1, <2>2, <3>1 DEF Waits
      <4>2. awaits' \subseteq awaits BY <1>1
      <4>3. awaits' # {} => awaits' = {key} /\ step \in {"Verify", "Pay"}
        BY <2>1, <4>2 DEF Waits
      <4> QED BY <1>1, <1>4, <4>1, <4>3 DEF Waits
    <3>2. CASE m \notin Waited
      <4>1. awaits' = awaits
        <5>1. m.what \notin {"hold", "held"} BY <1>2, <3>2, FlowKinds DEF Waited
        <5> QED BY <1>1, <5>1
      <4> QED BY <1>1, <1>4, <2>1, <2>2, <4>1 DEF Waits
    <3> QED BY <3>1, <3>2
  <2>4. Choosing!Request' = Choosing!Request BY <1>1, SameChoice
  <2>5. \A k : Rowed(k)' <=> Rowed(k) BY <1>1 DEF Rowed
  <2>6. awaits = {} => awaits' = {} BY <1>1
  <2>7. SameRequest' BY <1>1, <1>10, <2>1, <2>4, <2>5, <2>6 DEF SameRequest
  <2>8. \A k : OnlyThis(k)' <=> OnlyThis(k) BY <1>1 DEF OnlyThis
  <2>9. OneHold' BY <1>1, <1>10, <2>1, <2>5, <2>8 DEF OneHold
  <2> QED BY <2>3, <2>7, <2>9
<1> QED BY <1>9, <1>11, <1>12, <1>13, <1>14, <1>15, <1>16 DEF FlowInv

\* The API takes the time of a hold, or answers with the row it has.
LEMMA FlowServesHold ==
  ASSUME FlowInv, NEW m \in asking, Choosing!ServeHold(m)
  PROVE  FlowInv'
<1>1. PICK c : c = Choosing!Sent(m) OBVIOUS
<1>2. c \in Holding /\ c \in HoldCalls /\ c.key \in NewKeys /\ c.key \in 0..MaxKey /\ c.of \in Bookable
  <2>1. c \in Holding BY <1>1, SentOf DEF Choosing!ServeHold, FlowInv
  <2> QED BY <2>1 DEF Holding, HoldCalls, NewKeys
<1>3. PICK fits \in BOOLEAN : fits = (c.of.start = c.of.date /\ c.of.blocks <= free[c.of.date])
  OBVIOUS
<1>4. PICK d : d = Choosing!Reply("held", c.key,
        IF Choosing!Seen(c.key)
        THEN IF row[c.key].of = c.of THEN "ok" ELSE "IDEMPOTENCY_KEY_REUSED"
        ELSE IF fits THEN "ok" ELSE "SLOT_TAKEN")
  OBVIOUS
<1>5. /\ UNCHANGED <<due, step, date, start, blocks, slots, key, email, verified, hold, expired,
                     accepted, checking, awaits, agreeing, refused, strayed, misled, reviewed>>
      /\ asking' = IF m.what = "left" THEN asking \ {m} ELSE (asking \ {m}) \cup {d}
      /\ IF Choosing!Seen(c.key) \/ ~fits THEN UNCHANGED <<free, row>>
         ELSE /\ free' = [free EXCEPT ![c.of.date] = 0]
              /\ row' = [row EXCEPT ![c.key] = [status |-> "HELD", of |-> c.of]]
  BY <1>1, <1>3, <1>4 DEF Choosing!ServeHold, Choosing!Answer, Choosing!Untouched, Choosing!choice,
    Choosing!details, Choosing!held, Choosing!waits, Choosing!history
<1>6. Choosing!Seen(c.key) <=> Rowed(c.key) BY <1>2, SeenIsRowed DEF FlowInv
<1>7. /\ \A k \in 0..MaxKey : row'[k] = row[k]
                              \/ (k = c.key /\ ~Rowed(k) /\ row'[k] = [status |-> "HELD", of |-> c.of])
      /\ row' = row \/ Rowed(c.key)'
      /\ ServerTypes'
  <2>1. CASE UNCHANGED <<free, row>> BY <1>5, <2>1 DEF FlowInv, ServerTypes
  <2>2. CASE /\ free' = [free EXCEPT ![c.of.date] = 0]
             /\ row' = [row EXCEPT ![c.key] = [status |-> "HELD", of |-> c.of]]
             /\ ~Rowed(c.key)
    <3>1. 0 \in 0..MaxBlocks BY FlowAssumption
    <3>2. row'[c.key] = [status |-> "HELD", of |-> c.of]
      BY <1>2, <2>2 DEF FlowInv, ServerTypes
    <3>3. \A k \in 0..MaxKey : k # c.key => row'[k] = row[k]
      BY <1>2, <2>2 DEF FlowInv, ServerTypes
    <3>4. Rowed(c.key)'
      <4>1. row'[c.key].status = "HELD" BY <3>2
      <4>2. c.key' = c.key BY <1>2
      <4> QED BY <4>1 DEF Rowed
    <3>5. [status |-> "HELD", of |-> c.of]
            \in [status : {"NONE", "HELD", "EXPIRED", "AGREED"}, of : Bookable \cup {Null}]
      BY <1>2
    <3>6. ServerTypes' BY <1>5, <2>2, <3>1, <3>5 DEF FlowInv, ServerTypes
    <3> QED BY <2>2, <3>2, <3>3, <3>4, <3>6
  <2> QED BY <1>5, <1>6, <2>1, <2>2
<1>8. /\ \A k \in 0..MaxKey : Rowed(k) => row'[k] = row[k] /\ Rowed(k)'
      /\ \A k \in 0..MaxKey : Rowed(k)' =>
           \/ Rowed(k) /\ row'[k] = row[k]
           \/ k = c.key /\ row'[k].of = c.of
      /\ \A k \in 0..MaxKey : ~Rowed(k)' => ~Rowed(k) /\ row'[k] = row[k]
      /\ \A k \in 0..MaxKey : row'[k].status = "HELD" =>
           \/ row[k].status = "HELD"
           \/ k = c.key /\ ~Rowed(k)
  BY <1>7 DEF Rowed
<1>9. ~(m.what = "left") => m = c /\ m \in HoldCalls /\ m \in Waited
  <2>1. m.what # "left" => Choosing!Sent(m) = m BY DEF Choosing!Sent
  <2> QED BY <1>1, <1>2, <2>1 DEF Waited
<1>10. d \in HoldReplies /\ d.key = c.key /\ (d.value = "ok" => Rowed(c.key)')
  <2>1. d \in HoldReplies /\ d.key = c.key
    BY <1>2, <1>4 DEF HoldReplies, Choosing!Reply
  <2>2. d.value = "ok" => Choosing!Seen(c.key) \/ fits BY <1>4 DEF Choosing!Reply
  <2>3. CASE Choosing!Seen(c.key) BY <1>2, <1>6, <1>8, <2>1, <2>3
  <2>4. CASE ~Choosing!Seen(c.key) /\ fits
    <3>1. row' = [row EXCEPT ![c.key] = [status |-> "HELD", of |-> c.of]] BY <1>5, <2>4
    <3>2. row'[c.key].status = "HELD" BY <1>2, <3>1 DEF FlowInv, ServerTypes
    <3> QED BY <2>1, <3>2 DEF Rowed
  <2> QED BY <2>1, <2>2, <2>3, <2>4
<1>11. d \notin TimesCalls \cup HoldCalls \cup AgreeCalls \cup AgreeReplies \cup LeftCalls
  BY <1>10 DEF TimesCalls, HoldCalls, HoldReplies, AgreeCalls, AgreeReplies, LeftCalls
<1>12. m \notin TimesCalls
  BY <1>1, <1>2 DEF TimesCalls, HoldCalls, Choosing!Sent
<1>13. verified /\ checking = Null BY <1>12, Knowing
<1>14. AskTypes'
  <2>1. d \in FlowCalls BY <1>10 DEF FlowCalls
  <2> QED BY <1>5, <2>1, AskGoes, AskAnswered DEF FlowInv
<1>15. Holding' \subseteq Holding
  <2>1. asking' \subseteq asking \cup {d} BY <1>5
  <2> QED BY <1>11, <2>1, HoldingGrows
<1>16. FormTypes' /\ KeyTypes' BY <1>5 DEF FlowInv, FormTypes, KeyTypes, NewKeys
<1>17. date # Null BY <1>2 DEF FlowInv, Dated
<1>18. Dated' BY <1>5, <1>17 DEF FlowInv, Dated
<1>19. RowsKept'
  <2>1. \A k \in 0..MaxKey : ~Rowed(k)' => row'[k].of = Null /\ k \notin due'
    BY <1>5, <1>8 DEF FlowInv, RowsKept
  <2>2. \A k \in NewKeys : Rowed(k)' => row'[k].of \in Bookable
    BY <1>2, <1>8 DEF FlowInv, RowsKept, NewKeys
  <2>3. row'[0].of = Null
    <3>1. c.key # 0 /\ 0 \in 0..MaxKey BY <1>2, FlowAssumption DEF NewKeys
    <3> QED BY <1>7, <3>1 DEF FlowInv, RowsKept
  <2>4. \A k \in due' : row'[k].status # "HELD"
    BY <1>5, <1>8 DEF FlowInv, RowsKept, ServerTypes
  <2>5. ASSUME NEW q \in asking' PROVE AnswersOf(q)'
    <3>1. CASE q = d BY <1>10, <1>11, <3>1 DEF AnswersOf, AgreeCalls, AgreeReplies
    <3>2. CASE q # d
      <4>1. q \in asking /\ AnswersOf(q) BY <1>5, <3>2 DEF FlowInv, RowsKept
      <4>2. q \in HoldReplies \cup AgreeCalls \cup AgreeReplies => q.key \in 0..MaxKey
        BY DEF HoldReplies, AgreeCalls, AgreeReplies, NewKeys
      <4>3. UNCHANGED <<HoldReplies, AgreeCalls, AgreeReplies>>
        BY DEF HoldReplies, AgreeCalls, AgreeReplies, NewKeys
      <4> QED BY <1>8, <4>1, <4>2, <4>3 DEF AnswersOf
    <3> QED BY <3>1, <3>2
  <2>6. hold' # Null => Rowed(hold)'
    <3>1. hold # Null => hold \in 0..MaxKey /\ Rowed(hold)
      BY DEF FlowInv, RowsKept, KeyTypes
    <3> QED BY <1>5, <1>8, <3>1 DEF Rowed
  <2>7. step' = "Review" => hold' # Null BY <1>5 DEF FlowInv, RowsKept
  <2> QED BY <2>1, <2>2, <2>3, <2>4, <2>5, <2>6, <2>7 DEF RowsKept, NewKeys
<1>20. Unverified' BY <1>5, <1>13 DEF Unverified
<1>21. ASSUME ~strayed' PROVE Waits' /\ SameRequest' /\ OneHold'
  <2>1. Waits /\ SameRequest /\ OneHold BY <1>5, <1>21 DEF FlowInv
  <2>2. HoldCalls' = HoldCalls /\ HoldReplies' = HoldReplies BY DEF HoldCalls, HoldReplies
  <2>3. Waits'
    <3>1. CASE m.what = "left"
      <4>1. Waited' \subseteq Waited BY <1>5, <2>2, <3>1 DEF Waited
      <4> QED BY <1>5, <1>13, <2>1, <4>1 DEF Waits
    <3>2. CASE m.what # "left"
      <4>1. Waited \subseteq {m} /\ m.key \in awaits BY <1>9, <2>1, <3>2 DEF Waits
      <4>2. Waited' \subseteq {d} BY <1>5, <2>2, <3>2, <4>1 DEF Waited
      <4>3. d.key \in awaits BY <1>9, <1>10, <3>2, <4>1
      <4> QED BY <1>5, <1>13, <2>1, <4>2, <4>3 DEF Waits
    <3> QED BY <3>1, <3>2
  <2>4. Choosing!Request' = Choosing!Request BY <1>5, SameChoice
  <2>5. SameRequest'
    <3>1. key # Null => key \in 0..MaxKey BY DEF FlowInv, KeyTypes, NewKeys
    <3>2. key # Null /\ Rowed(key)' => row'[key].of = Choosing!Request
      <4> SUFFICES ASSUME key # Null, Rowed(key)' PROVE row'[key].of = Choosing!Request OBVIOUS
      <4>1. PICK k : k = key OBVIOUS
      <4>2. k \in 0..MaxKey /\ Rowed(k)' BY <1>5, <3>1, <4>1 DEF Rowed
      <4>3. CASE Rowed(k) /\ row'[k] = row[k] BY <2>1, <4>1, <4>3 DEF SameRequest
      <4>4. CASE k = c.key /\ row'[k].of = c.of BY <1>2, <2>1, <4>1, <4>4 DEF SameRequest
      <4> QED BY <1>8, <4>2, <4>3, <4>4
    <3>3. key' # Null /\ Rowed(key)' => row'[key].of = Choosing!Request'
      BY <1>5, <2>4, <3>2 DEF Rowed
    <3> QED BY <1>5, <1>15, <2>1, <2>4, <3>3 DEF SameRequest
  <2>6. \A k : OnlyThis(k)' <=> OnlyThis(k) BY <1>5 DEF OnlyThis
  <2>7. OneHold'
    <3>1. \A q \in Holding : q.key \in 0..MaxKey BY DEF Holding, HoldCalls, NewKeys
    <3>2. \A q \in Holding' : q.key \in refused' \/ Rowed(q.key)' \/ OnlyThis(q.key)'
      <4>1. \A q \in Holding' : q.key' = q.key OBVIOUS
      <4> QED BY <1>5, <1>8, <1>15, <2>1, <2>6, <3>1 DEF OneHold, Rowed
    <3>3. c.key \in refused \/ Rowed(c.key) \/ OnlyThis(c.key) BY <1>2, <2>1 DEF OneHold
    <3>4. ~misled' => \A k \in 0..MaxKey : row'[k].status = "HELD" => k \in refused' \/ OnlyThis(k)'
      BY <1>5, <1>8, <2>1, <2>6, <3>3 DEF OneHold
    <3>5. ~misled' /\ step' = "Review" /\ expired' => row'[hold].status # "HELD"
      <4>1. step = "Review" => hold \in 0..MaxKey /\ Rowed(hold)
        BY DEF FlowInv, RowsKept, KeyTypes
      <4> QED BY <1>5, <1>8, <2>1, <4>1 DEF OneHold
    <3> QED BY <1>5, <3>2, <3>4, <3>5 DEF OneHold
  <2> QED BY <2>3, <2>5, <2>7
<1> QED BY <1>7, <1>14, <1>16, <1>18, <1>19, <1>20, <1>21 DEF FlowInv

\* A row goes on: it is agreed to, or its time ends.
LEMMA FlowSettles ==
  ASSUME FlowInv, NEW k \in 0..MaxKey, NEW what \in {"HELD", "EXPIRED", "AGREED"}, NEW m, NEW d,
         \/ row' = row
         \/ /\ Rowed(k) /\ what # "HELD"
            /\ row' = [row EXCEPT ![k] = [status |-> what, of |-> row[k].of]],
         free' \in [Date -> 0..MaxBlocks],
         due' = due \/ (due' = due \cup {k} /\ Rowed(k) /\ row'[k].status # "HELD"),
         UNCHANGED <<step, date, start, blocks, slots, key, email, verified, hold, expired,
                     accepted, checking, awaits, agreeing, refused, strayed, misled, reviewed>>,
         AskTypes', asking' \subseteq asking \cup {d},
         \/ asking' \subseteq asking
         \/ /\ d \in AgreeReplies /\ verified
            /\ Rowed(d.key) /\ (d.value # "ok" => row'[d.key].status # "HELD")
  PROVE  FlowInv'
<1>1. \A j \in 0..MaxKey : /\ row'[j].of = row[j].of /\ (Rowed(j)' <=> Rowed(j))
                           /\ row'[j].status = "HELD" => row[j].status = "HELD"
  <2>1. CASE row' = row BY <2>1 DEF Rowed
  <2>2. CASE /\ Rowed(k) /\ what # "HELD"
             /\ row' = [row EXCEPT ![k] = [status |-> what, of |-> row[k].of]]
    <3>1. row'[k] = [status |-> what, of |-> row[k].of]
          /\ \A j \in 0..MaxKey : j # k => row'[j] = row[j]
      BY <2>2 DEF FlowInv, ServerTypes
    <3>2. row'[k].status = what /\ row'[k].of = row[k].of BY <3>1
    <3> QED BY <2>2, <3>1, <3>2 DEF Rowed
  <2> QED BY <2>1, <2>2
<1>2. ServerTypes'
  <2>1. row[k] \in [status : {"NONE", "HELD", "EXPIRED", "AGREED"}, of : Bookable \cup {Null}]
    BY DEF FlowInv, ServerTypes
  <2>2. [status |-> what, of |-> row[k].of]
          \in [status : {"NONE", "HELD", "EXPIRED", "AGREED"}, of : Bookable \cup {Null}]
    BY <2>1
  <2> QED BY <2>2 DEF FlowInv, ServerTypes
<1>3. FormTypes' /\ KeyTypes' BY DEF FlowInv, FormTypes, KeyTypes, NewKeys
<1>4. asking' \subseteq asking \/ d \notin TimesCalls \cup HoldCalls \cup HoldReplies \cup AgreeCalls
                                           \cup LeftCalls
  BY DEF TimesCalls, HoldCalls, HoldReplies, AgreeCalls, AgreeReplies, LeftCalls
<1>5. Holding' \subseteq Holding
  <2>1. CASE asking' \subseteq asking BY <2>1, HoldingGoes
  <2>2. CASE ~(asking' \subseteq asking) BY <1>4, <2>2, HoldingGrows
  <2> QED BY <2>1, <2>2
<1>6. Waited' \subseteq Waited
  <2>1. HoldCalls' = HoldCalls /\ HoldReplies' = HoldReplies BY DEF HoldCalls, HoldReplies
  <2> QED BY <1>4, <2>1 DEF Waited
<1>7. Dated'
  <2>1. UNCHANGED <<AgreeCalls, AgreeReplies, LeftCalls>>
    BY DEF AgreeCalls, AgreeReplies, LeftCalls, HoldCalls, NewKeys
  <2>2. date = Null => asking' \subseteq AgreeCalls \cup AgreeReplies \cup LeftCalls
    BY DEF FlowInv, Dated
  <2> QED BY <1>5, <2>1, <2>2 DEF FlowInv, Dated
<1>8. RowsKept'
  <2>1. \A j \in 0..MaxKey : ~Rowed(j)' => row'[j].of = Null /\ j \notin due'
    BY <1>1 DEF FlowInv, RowsKept
  <2>2. \A j \in NewKeys : Rowed(j)' => row'[j].of \in Bookable
    BY <1>1 DEF FlowInv, RowsKept, NewKeys
  <2>3. row'[0].of = Null
    <3>1. 0 \in 0..MaxKey BY FlowAssumption
    <3> QED BY <1>1, <3>1 DEF FlowInv, RowsKept
  <2>4. \A j \in due' : row'[j].status # "HELD"
    BY <1>1 DEF FlowInv, RowsKept, ServerTypes
  <2>5. ASSUME NEW q \in asking' PROVE AnswersOf(q)'
    <3>1. UNCHANGED <<HoldReplies, AgreeCalls, AgreeReplies>>
      BY DEF HoldReplies, AgreeCalls, AgreeReplies, NewKeys
    <3>2. q \in HoldReplies \cup AgreeCalls \cup AgreeReplies => q.key \in 0..MaxKey
      BY DEF HoldReplies, AgreeCalls, AgreeReplies, NewKeys
    <3>3. CASE q \in asking
      <4>1. AnswersOf(q) BY <3>3 DEF FlowInv, RowsKept
      <4> QED BY <1>1, <3>1, <3>2, <4>1 DEF AnswersOf
    <3>4. CASE q \notin asking
      <4>1. q = d /\ ~(asking' \subseteq asking) BY <3>4
      <4>2. q \in AgreeReplies /\ q.key \in 0..MaxKey BY <3>2, <4>1
      <4> QED BY <1>1, <1>4, <3>1, <4>1, <4>2 DEF AnswersOf
    <3> QED BY <3>3, <3>4
  <2>6. hold' # Null => Rowed(hold)'
    <3>1. hold # Null => hold \in 0..MaxKey /\ Rowed(hold)
      BY DEF FlowInv, RowsKept, KeyTypes
    <3> QED BY <1>1, <3>1 DEF Rowed
  <2>7. step' = "Review" => hold' # Null BY DEF FlowInv, RowsKept
  <2> QED BY <2>1, <2>2, <2>3, <2>4, <2>5, <2>6, <2>7 DEF RowsKept, NewKeys
<1>9. Unverified'
  <2>1. ~verified => asking' \subseteq TimesCalls BY DEF FlowInv, Unverified
  <2>2. TimesCalls' = TimesCalls BY DEF TimesCalls
  <2> QED BY <1>1, <2>1, <2>2 DEF FlowInv, Unverified
<1>10. ASSUME ~strayed' PROVE Waits' /\ SameRequest' /\ OneHold'
  <2>1. Waits /\ SameRequest /\ OneHold BY <1>10 DEF FlowInv
  <2>2. Choosing!Request' = Choosing!Request BY SameChoice
  <2>3. Waits' BY <1>6, <2>1, <2>2 DEF Waits
  <2>4. key # Null => key \in 0..MaxKey BY DEF FlowInv, KeyTypes, NewKeys
  <2>5. key' # Null /\ Rowed(key)' => row'[key].of = Choosing!Request'
    BY <1>1, <2>1, <2>2, <2>4 DEF SameRequest, Rowed
  <2>6. SameRequest' BY <1>5, <2>1, <2>2, <2>5 DEF SameRequest
  <2>7. \A j : OnlyThis(j)' <=> OnlyThis(j) BY DEF OnlyThis
  <2>8. \A q \in Holding : q.key \in 0..MaxKey BY DEF Holding, HoldCalls, NewKeys
  <2>9. \A q \in Holding' : q.key \in refused' \/ Rowed(q.key)' \/ OnlyThis(q.key)'
    BY <1>1, <1>5, <2>1, <2>7, <2>8 DEF OneHold, Rowed
  <2>10. ~misled' => \A j \in 0..MaxKey : row'[j].status = "HELD" => j \in refused' \/ OnlyThis(j)'
    BY <1>1, <2>1, <2>7 DEF OneHold
  <2>11. ~misled' /\ step' = "Review" /\ expired' => row'[hold].status # "HELD"
    <3>1. step = "Review" => hold \in 0..MaxKey BY DEF FlowInv, RowsKept, KeyTypes
    <3> QED BY <1>1, <2>1, <3>1 DEF OneHold
  <2>12. OneHold' BY <2>9, <2>10, <2>11 DEF OneHold
  <2> QED BY <2>3, <2>6, <2>12
<1> QED BY <1>2, <1>3, <1>7, <1>8, <1>9, <1>10, AskTypes' DEF FlowInv

LEMMA FlowServesAgreement ==
  ASSUME FlowInv, NEW m \in asking, Choosing!ServeAccept(m)
  PROVE  FlowInv'
<1>1. PICK c : c = Choosing!Sent(m) OBVIOUS
<1>2. c \in AgreeCalls /\ c.key \in 0..MaxKey
  <2>1. c \in AgreeCalls BY <1>1, SentOf DEF Choosing!ServeAccept, FlowInv
  <2> QED BY <2>1 DEF AgreeCalls
<1>3. PICK agreed \in BOOLEAN : agreed <=> row[c.key].status \in {"HELD", "AGREED"}
  <2>1. CASE row[c.key].status \in {"HELD", "AGREED"} BY <2>1
  <2>2. CASE row[c.key].status \notin {"HELD", "AGREED"} BY <2>2
  <2> QED BY <2>1, <2>2
<1>4. PICK d : d = Choosing!Reply("accepted", c.key, IF agreed THEN "ok" ELSE "HOLD_EXPIRED")
  OBVIOUS
<1>5. /\ UNCHANGED <<free, due, step, date, start, blocks, slots, key, email, verified, hold, expired,
                     accepted, checking, awaits, agreeing, refused, strayed, misled, reviewed>>
      /\ asking' = IF m.what = "left" THEN asking \ {m} ELSE (asking \ {m}) \cup {d}
      /\ row' = IF agreed THEN [row EXCEPT ![c.key].status = "AGREED"] ELSE row
  BY <1>1, <1>3, <1>4 DEF Choosing!ServeAccept, Choosing!Answer, Choosing!Untouched,
    Choosing!choice, Choosing!details, Choosing!held, Choosing!waits, Choosing!history
<1>6. d \in AgreeReplies /\ d.key = c.key /\ (d.value # "ok" => ~agreed)
  BY <1>2, <1>4 DEF AgreeReplies, Choosing!Reply
<1>7. m.what # "left" => m = c /\ Rowed(c.key) /\ verified
  <2> SUFFICES ASSUME m.what # "left" PROVE m = c /\ Rowed(c.key) /\ verified OBVIOUS
  <2>1. m = c BY <1>1 DEF Choosing!Sent
  <2>2. m \notin TimesCalls BY <1>2, <2>1 DEF TimesCalls, AgreeCalls
  <2>3. Rowed(c.key) BY <1>2, <2>1 DEF FlowInv, RowsKept, AnswersOf
  <2> QED BY <2>1, <2>2, <2>3, Knowing
<1>8. AskTypes'
  <2>1. d \in FlowCalls BY <1>6 DEF FlowCalls
  <2> QED BY <1>5, <2>1, AskGoes, AskAnswered DEF FlowInv
<1>9. \/ row' = row
      \/ Rowed(c.key) /\ row' = [row EXCEPT ![c.key] = [status |-> "AGREED", of |-> row[c.key].of]]
  <2>1. CASE agreed
    <3>1. row[c.key] \in [status : {"NONE", "HELD", "EXPIRED", "AGREED"}, of : Bookable \cup {Null}]
      BY <1>2 DEF FlowInv, ServerTypes
    <3>2. [row[c.key] EXCEPT !.status = "AGREED"] = [status |-> "AGREED", of |-> row[c.key].of]
      BY <3>1
    <3> QED BY <1>3, <1>5, <2>1, <3>2 DEF Rowed
  <2>2. CASE ~agreed BY <1>5, <2>2
  <2> QED BY <2>1, <2>2
<1>10. d.value # "ok" => row'[d.key].status # "HELD"
  BY <1>3, <1>5, <1>6
<1>11. free' \in [Date -> 0..MaxBlocks] BY <1>5 DEF FlowInv, ServerTypes
<1>12. asking' \subseteq asking \cup {d} /\ (asking' \subseteq asking \/ m.what # "left") BY <1>5
<1> QED BY <1>2, <1>5, <1>6, <1>7, <1>8, <1>9, <1>10, <1>11, <1>12, FlowSettles

LEMMA FlowRunsOut ==
  ASSUME FlowInv, NEW k \in 0..MaxKey, Choosing!RunOut(k)
  PROVE  FlowInv'
<1>1. /\ row[k] # Choosing!NoRow /\ due' = due \cup {k}
      /\ row' = (IF row[k].status = "HELD" THEN [row EXCEPT ![k].status = "EXPIRED"] ELSE row)
      /\ free' = (IF row[k].status = "HELD" /\ row[k].of # Null
                  THEN [free EXCEPT ![row[k].of.date] = MaxBlocks] ELSE free)
      /\ UNCHANGED <<step, date, start, blocks, slots, key, email, verified, hold, expired,
                     accepted, checking, awaits, agreeing, refused, strayed, misled, reviewed, asking>>
  BY DEF Choosing!RunOut, Choosing!Untouched, Choosing!choice, Choosing!details, Choosing!held,
    Choosing!waits, Choosing!history
<1>2. Rowed(k) BY <1>1, SeenIsRowed DEF FlowInv, Choosing!Seen
<1>3. free' \in [Date -> 0..MaxBlocks]
  <2>1. MaxBlocks \in 0..MaxBlocks BY FlowAssumption
  <2> QED BY <1>1, <2>1 DEF FlowInv, ServerTypes
<1>4. AskTypes' BY <1>1, AskGoes DEF FlowInv
<1>5. \/ row' = row /\ row[k].status # "HELD"
      \/ /\ row' = [row EXCEPT ![k] = [status |-> "EXPIRED", of |-> row[k].of]]
         /\ row'[k].status # "HELD"
  <2>1. CASE row[k].status = "HELD"
    <3>1. row[k] \in [status : {"NONE", "HELD", "EXPIRED", "AGREED"}, of : Bookable \cup {Null}]
          /\ k \in DOMAIN row
      BY DEF FlowInv, ServerTypes
    <3>2. [row[k] EXCEPT !.status = "EXPIRED"] = [status |-> "EXPIRED", of |-> row[k].of] BY <3>1
    <3>3. row' = [row EXCEPT ![k] = [status |-> "EXPIRED", of |-> row[k].of]] BY <1>1, <2>1, <3>2
    <3>4. row'[k] = [status |-> "EXPIRED", of |-> row[k].of] BY <3>1, <3>3
    <3> QED BY <3>3, <3>4
  <2>2. CASE row[k].status # "HELD" BY <1>1, <2>2
  <2> QED BY <2>1, <2>2
<1>6. PICK c : c = k OBVIOUS
<1>7. row'[k].status # "HELD" BY <1>5
<1> QED BY <1>1, <1>2, <1>3, <1>4, <1>5, <1>7, FlowSettles

LEMMA FlowNext ==
  ASSUME FlowInv, [Choosing!Next]_flowVars
  PROVE  FlowInv'
<1>1. CASE UNCHANGED flowVars
  <2>1. UNCHANGED <<free, row, due, step, date, start, blocks, slots, email, verified, key, hold,
                    expired, accepted, checking, awaits, agreeing, refused, strayed, misled, reviewed,
                    asking>>
    BY <1>1 DEF flowVars
  <2>2. FormTypes' BY <2>1 DEF FlowInv, FormTypes
  <2>3. AskTypes' BY <2>1, AskGoes DEF FlowInv
  <2>4. free' \in [Date -> 0..MaxBlocks] /\ agreeing' \subseteq 0..MaxKey
    BY <2>1 DEF FlowInv, ServerTypes, KeyTypes
  <2> QED BY <2>1, <2>2, <2>3, <2>4, FlowQuiet
<1>2. CASE \/ Choosing!ChooseService \/ Choosing!PickStart \/ Choosing!Continue
           \/ Choosing!EditDetails \/ Choosing!Back \/ Choosing!CheckCode \/ Choosing!CodeIsRight
           \/ Choosing!CodeIsWrong \/ Choosing!HoldNow \/ Choosing!ChooseAgain
           \/ Choosing!Accept \/ Choosing!TimerFires
  BY <1>2, FlowSteps, FlowPicks, FlowChecks, FlowHolds, FlowChoosesAgain, FlowAccepts, FlowEnds
<1>3. CASE \/ \E e \in Date : \/ Choosing!PickDate(e) \/ Choosing!MoveDate(e)
                              \/ \E n \in 0..MaxBlocks : Choosing!Others(e, n)
           \/ \E n \in 1..MaxBlocks : Choosing!PickBlocks(n)
           \/ \E k \in Choosing!Keys : Choosing!RunOut(k) \/ Choosing!OldView(k)
  BY <1>3, FlowDates, FlowOthers, FlowPicks, FlowRunsOut, FlowEnds DEF Choosing!Keys
<1>4. CASE \E m \in asking :
             \/ Choosing!SlotsArrive(m) \/ Choosing!SlotsFail(m) \/ Choosing!Taken(m)
             \/ Choosing!Held(m) \/ Choosing!NotHeld(m) \/ Choosing!AcceptArrives(m)
             \/ Choosing!GiveUp(m) \/ Choosing!ServeSlots(m) \/ Choosing!ServeHold(m)
             \/ Choosing!ServeAccept(m)
  BY <1>4, FlowTimes, FlowHears, FlowAgrees, FlowGivesUp, FlowServesTimes, FlowServesHold,
    FlowServesAgreement
<1>5. Choosing!Next => \/ \/ Choosing!ChooseService \/ Choosing!PickStart \/ Choosing!Continue
                          \/ Choosing!EditDetails \/ Choosing!Back \/ Choosing!CheckCode
                          \/ Choosing!CodeIsRight \/ Choosing!CodeIsWrong \/ Choosing!HoldNow
                          \/ Choosing!ChooseAgain \/ Choosing!Accept \/ Choosing!TimerFires
                       \/ \/ \E e \in Date : \/ Choosing!PickDate(e) \/ Choosing!MoveDate(e)
                                             \/ \E n \in 0..MaxBlocks : Choosing!Others(e, n)
                          \/ \E n \in 1..MaxBlocks : Choosing!PickBlocks(n)
                          \/ \E k \in Choosing!Keys : Choosing!RunOut(k) \/ Choosing!OldView(k)
                       \/ \E m \in asking :
                            \/ Choosing!SlotsArrive(m) \/ Choosing!SlotsFail(m) \/ Choosing!Taken(m)
                            \/ Choosing!Held(m) \/ Choosing!NotHeld(m) \/ Choosing!AcceptArrives(m)
                            \/ Choosing!GiveUp(m) \/ Choosing!ServeSlots(m) \/ Choosing!ServeHold(m)
                            \/ Choosing!ServeAccept(m)
  BY DEF Choosing!Next
<1> QED BY <1>1, <1>2, <1>3, <1>4, <1>5

\* What the invariant says of the booking form.
LEMMA FlowShows ==
  ASSUME FlowInv
  PROVE  Choosing!TypeOK /\ Choosing!ReviewsWhatItShows /\ Choosing!HoldsOneTime
<1>1. Choosing!TypeOK
  <2>1. Bookable \subseteq [date : Date \cup {Null}, start : Date \cup {Null}, blocks : 0..MaxBlocks]
        /\ Choosing!Request \in [date : Date \cup {Null}, start : Date \cup {Null}, blocks : 0..MaxBlocks]
    BY DEF Bookable, Choosing!Request, FlowInv, FormTypes
  <2>2. NewKeys \subseteq 0..MaxKey BY DEF NewKeys
  <2>3. row \in [0..MaxKey -> [status : {"NONE", "HELD", "EXPIRED", "AGREED"},
                               of : [date : Date \cup {Null}, start : Date \cup {Null},
                                     blocks : 0..MaxBlocks] \cup {Null}]]
    <3>1. \A k \in 0..MaxKey : row[k] \in [status : {"NONE", "HELD", "EXPIRED", "AGREED"},
                                           of : Bookable \cup {Null}]
      BY DEF FlowInv, ServerTypes
    <3>2. [status : {"NONE", "HELD", "EXPIRED", "AGREED"}, of : Bookable \cup {Null}] \subseteq
          [status : {"NONE", "HELD", "EXPIRED", "AGREED"},
           of : [date : Date \cup {Null}, start : Date \cup {Null}, blocks : 0..MaxBlocks] \cup {Null}]
      BY <2>1
    <3>3. row = [k \in 0..MaxKey |-> row[k]] BY DEF FlowInv, ServerTypes
    <3> QED BY <3>1, <3>2, <3>3
  <2>4. checking \in [date : Date \cup {Null}, start : Date \cup {Null}, blocks : 0..MaxBlocks]
                       \cup {Null}
    BY <2>1 DEF FlowInv, KeyTypes
  <2> QED BY <2>1, <2>2, <2>3, <2>4, SameAskNumber
    DEF FlowInv, ServerTypes, FormTypes, KeyTypes, AskTypes, Choosing!TypeOK, Choosing!Keys, DayTimes
<1>2. Choosing!ReviewsWhatItShows
  <2> SUFFICES ASSUME step = "Review", hold # 0, ~expired, ~strayed
               PROVE  row[hold].of = Choosing!Request
    BY DEF Choosing!ReviewsWhatItShows
  <2> QED BY DEF FlowInv, RowsKept, SameRequest
<1>3. Choosing!HoldsOneTime
  <2> SUFFICES ASSUME ~strayed, ~misled
               PROVE  Cardinality({k \in 0..MaxKey \ refused : row[k].status = "HELD"}) <= 1
    BY SameAskNumber DEF Choosing!HoldsOneTime, Choosing!Keys
  <2>1. PICK S : S = {k \in 0..MaxKey \ refused : row[k].status = "HELD"} OBVIOUS
  <2>2. \A i, k \in S : i = k
    <3>1. \A k \in S : k \in 0..MaxKey /\ k \in {key, hold} BY <2>1 DEF FlowInv, OneHold, OnlyThis
    <3>2. hold = Null \/ hold = key \/ key = Null BY DEF FlowInv, SameRequest
    <3> QED BY <3>1, <3>2, FlowAssumption
  <2>3. S = {} \/ \E k : S = {k} BY <2>2
  <2>4. CASE S = {} BY <2>1, <2>4, FS_EmptySet
  <2>5. CASE \E k : S = {k}
    <3>1. PICK k : S = {k} BY <2>5
    <3>2. Cardinality({k}) = 1 BY FS_Singleton
    <3>3. Cardinality(S) = 1 BY <3>1, <3>2
    <3> QED BY <2>1, <3>3
  <2> QED BY <2>3, <2>4, <2>5
<1> QED BY <1>1, <1>2, <1>3

-----------------------------------------------------------------------------
(* The vendor's dashboard.  A load is fresh when nothing happened that soils *)
(* it; what is shown of a fresh load is what is stored, but for the changes  *)
(* that are still under way.                                                 *)

DeskCards == {"settings", "feed", "hours"}
DeskEditors == {"settings", "hours"}
DeskMoves == {"calendar", "lists"}

\* What an item may be: a button that turns it over knows 0 and 1 only.
DeskValues == IF screen \in {"home", "settings"} THEN 0..1 ELSE Nat

DeskMaps == UNION {[p -> DeskValues] : p \in SUBSET Item}

DeskEdits == [op : {"set"}, item : Item, number : DeskValues]
               \cup [op : {"put"}, value : [Item -> DeskValues]]
               \cup [op : {"append"}, item : Item] \cup [op : {"touch"}]

DeskButtons == {Null, "form"} \cup Item

\* The calls under way.
DeskLoads   == [id : Nat, kind : {"load"}, path : SUBSET Item]
DeskAnswers == [id : Nat, kind : {"answer"}, path : SUBSET Item, value : DeskMaps]
DeskBroken  == [id : Nat, kind : {"broken"}]
DeskChanges == [id : Nat, kind : {"edit", "done", "failed"}, edit : DeskEdits, by : DeskButtons,
                was : DeskMaps \cup {Null}, mine : BOOLEAN]
DeskCalls   == DeskLoads \cup DeskAnswers \cup DeskBroken \cup DeskChanges

DeskTypes ==
  /\ screen \in DOMAIN MaxVisit
  /\ stored \in [Item -> DeskValues]
  /\ path \in Managing!Paths
  /\ data = Null \/ (data \in [of : SUBSET Item, value : DeskMaps]
                    /\ data.value \in [data.of -> DeskValues])
  /\ copy = Null \/ copy \in [path -> DeskValues]
  /\ busy \in DeskButtons
  /\ sent \in 1..MaxVisit[screen]
  /\ asked \in 0..sent /\ taken \in 0..sent /\ edited \in 0..sent /\ soiled \in 0..sent
  /\ asked # 0

\* Calls are numbered by when they were sent.
DeskNumbered ==
  /\ net \subseteq DeskCalls
  /\ \A c \in net : c.id <= sent
  /\ \A c \in net \cap DeskAnswers : c.value \in [c.path -> DeskValues]
  /\ \A c \in net \cap DeskChanges : c.id <= edited /\ c.id # asked
  /\ \A c, d \in net \cap DeskChanges : c.id = d.id => c = d

\* What a screen changes.
DeskChanging ==
  /\ screen \notin DeskCards => copy = Null
  /\ \A c \in net \cap DeskChanges :
        /\ c.edit.op = "append" => screen = "services"
        /\ screen \in DeskEditors => /\ c.edit.op \in {"put", "touch"}
                                     /\ c.was \in [Item -> DeskValues] \cup {Null}
                                     /\ c.edit.op = "put" => c.was # Null
        /\ screen = "feed" => \/ c.edit.op = "touch"
                              \/ c.edit.op = "set" /\ c.edit.item \in path
        /\ screen \in DeskCards /\ copy = Null /\ c.mine => c.edit.op = "touch"

\* The newest load is of the path the screen is at.
DeskPaths ==
  /\ \A c \in net \cap (DeskLoads \cup DeskAnswers) :
        c.id <= asked /\ (c.id = asked \/ screen \notin DeskMoves => c.path = path)
  /\ taken <= asked
  /\ data # Null /\ (taken = asked \/ screen \notin DeskMoves) => data.of = path

DeskFresh(n) == soiled = 0 \/ n > soiled

\* A screen that loads again after every change, and shows what it loads.
DeskReloads ==
  screen \notin DeskCards \cup {"services"} /\ DeskFresh(asked)
  /\ (\A c \in net \cap DeskChanges : c.kind # "done") =>
       /\ \A c \in net \cap DeskAnswers : c.id = asked => c.value = Managing!Answer(c.path)
       /\ data # Null /\ taken = asked => data.value = Managing!Answer(data.of)

\* The services: an order is shown at once and loaded again when it is refused.
DeskPuts == {c \in net \cap DeskChanges : c.kind = "edit" /\ c.edit.op = "put" /\ c.id > asked}

DeskOrders ==
  screen = "services" /\ DeskFresh(asked)
  /\ (\A c \in net \cap DeskChanges : /\ c.kind = "done" => c.edit.op = "put"
                                      /\ c.kind = "failed" => c.edit.op # "put") =>
       /\ edited <= asked => \A c \in net \cap DeskAnswers : c.id = asked => c.value = stored
       /\ data # Null /\ taken = asked =>
            /\ \A i \in Item : data.value[i] = 0 <=> stored[i] = 0
            /\ \A c \in DeskPuts : (\A d \in DeskPuts : d.id <= c.id) => data.value = c.edit.value
            /\ DeskPuts = {} => data.value = stored

\* The cards: a copy is made of a fresh load and follows the changes.
DeskLoaded ==
  screen \in DeskCards =>
    /\ \A c \in net \cap DeskAnswers :
          DeskFresh(c.id) /\ edited <= c.id => c.value = Managing!Answer(path)
    /\ data # Null /\ DeskFresh(taken) /\ edited <= taken => data.value = Managing!Answer(path)

\* A card whose calls are answered out of order is soiled once the last is.
DeskInOrder ==
  /\ copy # Null /\ DeskFresh(taken)
  /\ \A c \in net \cap DeskChanges :
        c.kind = "failed" \/ (screen = "feed" /\ c.kind = "done") => c.id >= edited

DeskSwitches == {c \in net \cap DeskChanges :
                   c.kind \in {"edit", "failed"} /\ c.mine /\ c.edit.op = "put"}

DeskSettings ==
  screen \in DeskEditors /\ DeskInOrder =>
    /\ DeskSwitches = {} => copy = stored
    /\ \A c \in DeskSwitches :
          /\ (\A d \in DeskSwitches : d.id <= c.id) => copy = c.edit.value
          /\ (\A d \in DeskSwitches : d.id >= c.id) => c.was = stored
          /\ \A d \in DeskSwitches :
                d.id < c.id /\ (\A e \in DeskSwitches : e.id <= d.id \/ e.id >= c.id)
                  => c.was = d.edit.value

DeskFeeds == {c \in net \cap DeskChanges : c.kind = "done" /\ c.mine /\ c.edit.op = "set"}

DeskFeed ==
  screen = "feed" /\ DeskInOrder =>
    /\ DeskFeeds = {} => copy = Managing!Answer(path)
    /\ \A c \in DeskFeeds : stored[c.edit.item] = c.edit.number

DeskInv == /\ DeskTypes /\ DeskNumbered /\ DeskChanging /\ DeskPaths
           /\ DeskReloads /\ DeskOrders /\ DeskLoaded /\ DeskSettings /\ DeskFeed

\* The kinds of calls are told apart.
LEMMA DeskKinds ==
  ASSUME NEW c \in DeskCalls
  PROVE  /\ c \in DeskLoads <=> c.kind = "load"
         /\ c \in DeskAnswers <=> c.kind = "answer"
         /\ c \in DeskBroken <=> c.kind = "broken"
         /\ c \in DeskChanges <=> c.kind \in {"edit", "done", "failed"}
         /\ c.id \in Nat
BY DEF DeskCalls, DeskLoads, DeskAnswers, DeskBroken, DeskChanges

LEMMA DeskFields ==
  ASSUME NEW c \in DeskChanges
  PROVE  /\ c.id \in Nat /\ c.kind \in {"edit", "done", "failed"} /\ c.edit \in DeskEdits
         /\ c.by \in DeskButtons /\ c.was \in DeskMaps \cup {Null} /\ c.mine \in BOOLEAN
         /\ c \in DeskCalls
BY DEF DeskCalls, DeskChanges

LEMMA DeskOps ==
  ASSUME NEW e \in DeskEdits
  PROVE  /\ e.op \in {"set", "put", "append", "touch"}
         /\ e.op = "set" => e.item \in Item /\ e.number \in DeskValues
         /\ e.op = "put" => e.value \in [Item -> DeskValues]
         /\ e.op = "append" => e.item \in Item
BY DEF DeskEdits

\* A change goes on, or is nobody's any more.
LEMMA DeskChanged ==
  ASSUME NEW c \in DeskChanges, NEW s \in {"edit", "done", "failed"}
  PROVE  /\ [c EXCEPT !.kind = s] \in DeskChanges
         /\ [c EXCEPT !.kind = s].kind = s /\ [c EXCEPT !.kind = s].id = c.id
         /\ [c EXCEPT !.kind = s].edit = c.edit /\ [c EXCEPT !.kind = s].was = c.was
         /\ [c EXCEPT !.kind = s].mine = c.mine
BY DEF DeskChanges

LEMMA DeskLeft ==
  ASSUME NEW c \in DeskChanges
  PROVE  /\ [c EXCEPT !.mine = FALSE] \in DeskChanges
         /\ [c EXCEPT !.mine = FALSE].kind = c.kind /\ [c EXCEPT !.mine = FALSE].id = c.id
         /\ [c EXCEPT !.mine = FALSE].edit = c.edit /\ [c EXCEPT !.mine = FALSE].was = c.was
         /\ [c EXCEPT !.mine = FALSE].mine = FALSE
BY DEF DeskChanges

\* A visit stays on its screen.
LEMMA DeskScreen ==
  ASSUME screen' = screen
  PROVE  /\ DeskValues' = DeskValues /\ DeskMaps' = DeskMaps /\ DeskEdits' = DeskEdits
         /\ DeskChanges' = DeskChanges /\ DeskAnswers' = DeskAnswers /\ DeskCalls' = DeskCalls
         /\ Managing!Paths' = Managing!Paths
<1>1. DeskValues' = DeskValues BY DEF DeskValues
<1>2. DeskMaps' = DeskMaps /\ DeskEdits' = DeskEdits BY <1>1 DEF DeskMaps, DeskEdits
<1>3. DeskChanges' = DeskChanges /\ DeskAnswers' = DeskAnswers
  BY <1>2 DEF DeskChanges, DeskAnswers
<1>4. DeskCalls' = DeskCalls BY <1>3 DEF DeskCalls
<1>5. Managing!Paths' = Managing!Paths BY DEF Managing!Paths
<1> QED BY <1>1, <1>2, <1>3, <1>4, <1>5

LEMMA DeskRanges ==
  /\ DeskValues \subseteq Nat /\ {0, 1} \subseteq DeskValues
  /\ Managing!Paths \subseteq SUBSET Item
  /\ screen \notin DeskMoves \cup {"booking", "feed"} => Managing!Paths = {Item}
  /\ \A p \in SUBSET Item : Null \notin [p -> DeskValues]
<1>1. DeskValues \subseteq Nat /\ {0, 1} \subseteq DeskValues BY DEF DeskValues
<1>2. /\ Managing!Paths \subseteq SUBSET Item
      /\ screen \notin DeskMoves \cup {"booking", "feed"} => Managing!Paths = {Item}
  BY DEF Managing!Paths, DeskMoves
<1>3. ASSUME NEW p \in SUBSET Item PROVE Null \notin [p -> DeskValues]
  <2>1. [p -> DeskValues] \subseteq [p -> Nat] BY <1>1
  <2> QED BY <2>1, DeskAssumption
<1> QED BY <1>1, <1>2, <1>3

\* What was loaded of a path.
LEMMA DeskAnswer ==
  ASSUME DeskTypes, NEW p \in SUBSET Item
  PROVE  /\ Managing!Answer(p) \in [p -> DeskValues] /\ Managing!Answer(p) \in DeskMaps
         /\ \A i \in p : Managing!Answer(p)[i] = stored[i]
         /\ p = Item => Managing!Answer(p) = stored
<1>1. Managing!Answer(p) = [i \in p |-> stored[i]] BY DEF Managing!Answer, Managing!Restrict
<1>2. Managing!Answer(p) \in [p -> DeskValues] BY <1>1 DEF DeskTypes
<1>3. p = Item => Managing!Answer(p) = stored BY <1>1 DEF DeskTypes
<1> QED BY <1>1, <1>2, <1>3 DEF DeskMaps

\* Nothing sent so far is fresh.
LEMMA DeskStale ==
  ASSUME DeskTypes, soiled' = sent, NEW n \in 0..sent
  PROVE  ~DeskFresh(n)'
BY DEF DeskTypes, DeskFresh

LEMMA DeskInit ==
  ASSUME Managing!Init
  PROVE  DeskInv
<1>1. /\ screen \in DOMAIN MaxVisit /\ path \in Managing!Paths
      /\ data = Null /\ copy = Null /\ busy = Null
      /\ net = {[id |-> 1, kind |-> "load", path |-> path]}
      /\ sent = 1 /\ asked = 1 /\ taken = 0 /\ edited = 0 /\ soiled = 0
  BY DEF Managing!Init
<1>2. stored \in [Item -> DeskValues]
  BY DEF Managing!Init, DeskValues
<1>3. DeskTypes
  <2>1. 1 \in 1..MaxVisit[screen] BY <1>1, DeskAssumption
  <2> QED BY <1>1, <1>2, <2>1 DEF DeskTypes, DeskButtons
<1>4. PICK c : c = [id |-> 1, kind |-> "load", path |-> path] OBVIOUS
<1>5. net = {c} /\ c \in DeskLoads /\ c.id = 1 /\ c.path = path /\ c.kind = "load"
  BY <1>1, <1>4, DeskRanges DEF DeskLoads
<1>6. c \in DeskCalls /\ c \notin DeskAnswers /\ c \notin DeskChanges
  BY <1>5, DeskKinds DEF DeskCalls
<1>7. net \cap DeskAnswers = {} /\ net \cap DeskChanges = {} BY <1>5, <1>6
<1>8. DeskNumbered BY <1>1, <1>5, <1>6, <1>7 DEF DeskNumbered
<1>9. DeskChanging /\ DeskPaths BY <1>1, <1>5, <1>7 DEF DeskChanging, DeskPaths
<1>10. DeskReloads /\ DeskOrders /\ DeskLoaded BY <1>1, <1>7 DEF DeskReloads, DeskOrders, DeskLoaded
<1>11. DeskSettings /\ DeskFeed BY <1>1 DEF DeskSettings, DeskFeed, DeskInOrder
<1> QED BY <1>3, <1>8, <1>9, <1>10, <1>11 DEF DeskInv

\* One call is answered, replaced or sent: the numbers stay apart.
LEMMA DeskNumbers ==
  ASSUME DeskInv, NEW d \in DeskCalls, screen' = screen,
         net' \subseteq net \cup {d}, d.id <= sent',
         d \in DeskAnswers => d.value \in [d.path -> DeskValues],
         d \in DeskChanges =>
            /\ d.id <= edited' /\ d.id # asked'
            /\ \A e \in net' \cap DeskChanges : e.id = d.id => e = d,
         sent \in Nat, sent' \in Nat, sent <= sent', edited' \in Nat, edited <= edited',
         asked' = asked \/ asked' = sent + 1
  PROVE  DeskNumbered'
<1>1. DeskCalls' = DeskCalls /\ DeskAnswers' = DeskAnswers /\ DeskChanges' = DeskChanges
      /\ DeskValues' = DeskValues
  BY DeskScreen
<1>2. net' \subseteq DeskCalls BY DEF DeskInv, DeskNumbered
<1>3. edited \in Nat BY DEF DeskInv, DeskTypes
<1>4. \A c \in net' : c.id <= sent'
  BY <1>2, DeskKinds DEF DeskInv, DeskNumbered
<1>5. \A c \in net' \cap DeskAnswers : c.value \in [c.path -> DeskValues]
  BY DEF DeskInv, DeskNumbered
<1>6. ASSUME NEW c \in net' \cap DeskChanges PROVE c.id <= edited' /\ c.id # asked'
  <2>1. CASE c = d BY <2>1, <1>6
  <2>2. CASE c \in net
    <3>1. c.id <= edited /\ c.id # asked /\ c.id <= sent /\ c.id \in Nat
      BY <1>6, <2>2, DeskFields DEF DeskInv, DeskNumbered
    <3> QED BY <1>3, <3>1
  <2> QED BY <1>6, <2>1, <2>2
<1>7. \A c, e \in net' \cap DeskChanges : c.id = e.id => c = e
  BY DEF DeskInv, DeskNumbered
<1> QED BY <1>1, <1>2, <1>4, <1>5, <1>6, <1>7 DEF DeskNumbered

\* What is soiled stays so, or is soiled by what was sent.
LEMMA DeskFresher ==
  ASSUME DeskTypes, soiled' \in {soiled, sent}, NEW n \in 0..sent, DeskFresh(n)'
  PROVE  DeskFresh(n) /\ soiled' = soiled
<1>1. soiled' # sent BY DeskStale
<1> QED BY <1>1 DEF DeskFresh

\* A card that is in order after an answer was in order before it.
LEMMA DeskOrderly ==
  ASSUME DeskInv, NEW c \in net \cap DeskChanges, net' \cap DeskChanges = (net \cap DeskChanges) \ {c},
         UNCHANGED <<screen, taken, edited>>, copy = Null => copy' = Null,
         soiled' \in {soiled, sent},
         (c.kind = "failed" \/ (screen = "feed" /\ c.kind = "done")) /\ edited > c.id
           => soiled' = sent,
         DeskInOrder'
  PROVE  DeskInOrder
<1>1. taken \in 0..sent /\ edited \in Nat /\ DeskTypes BY DEF DeskInv, DeskTypes
<1>2. DeskFresh(taken)' BY DEF DeskInOrder
<1>3. PICK n \in 0..sent : n = taken BY <1>1
<1>4. DeskFresh(n)' BY <1>2, <1>3 DEF DeskFresh
<1>5. DeskFresh(taken) /\ soiled' # sent
  <2>1. DeskFresh(n) BY <1>1, <1>4, DeskFresher
  <2>2. soiled' # sent BY <1>1, <1>4, DeskStale
  <2> QED BY <1>3, <2>1, <2>2 DEF DeskFresh
<1>6. DeskChanges' = DeskChanges BY DeskScreen
<1>7. ASSUME NEW e \in net \cap DeskChanges,
             e.kind = "failed" \/ (screen = "feed" /\ e.kind = "done")
      PROVE  e.id >= edited
  <2>1. CASE e = c
    <3>1. c.id \in Nat BY DeskFields
    <3> QED BY <1>1, <1>5, <1>7, <2>1, <3>1
  <2>2. CASE e # c BY <1>6, <1>7, <2>2 DEF DeskInOrder
  <2> QED BY <2>1, <2>2
<1> QED BY <1>5, <1>7 DEF DeskInOrder

\* A card whose changes are as they were.
LEMMA DeskCardsStay ==
  ASSUME DeskInv, UNCHANGED <<screen, stored, path, copy>>,
         screen \in DeskCards /\ DeskInOrder' =>
           DeskInOrder /\ DeskSwitches' = DeskSwitches /\ DeskFeeds' = DeskFeeds
  PROVE  DeskSettings' /\ DeskFeed'
<1>1. DeskSettings'
  <2> SUFFICES ASSUME screen \in DeskEditors, DeskInOrder' PROVE DeskSettings'
    BY DEF DeskSettings
  <2>1. DeskInOrder /\ DeskSwitches' = DeskSwitches BY DEF DeskCards, DeskEditors
  <2> QED BY <2>1 DEF DeskInv, DeskSettings
<1>2. DeskFeed'
  <2> SUFFICES ASSUME screen = "feed", DeskInOrder' PROVE DeskFeed'
    BY DEF DeskFeed
  <2>1. DeskInOrder /\ DeskFeeds' = DeskFeeds BY DEF DeskCards
  <2>2. Managing!Answer(path)' = Managing!Answer(path) BY DEF Managing!Answer
  <2> QED BY <2>1, <2>2 DEF DeskInv, DeskFeed
<1> QED BY <1>1, <1>2

\* A load is sent: nothing is known of its answer.
LEMMA DeskAsks ==
  ASSUME DeskInv, NEW p \in Managing!Paths, NEW kept \in SUBSET net, Managing!Load(p, kept),
         path' = p, p = path \/ (screen \in DeskMoves /\ screen \notin DeskCards),
         UNCHANGED <<screen, stored, data, copy, taken, edited>>,
         soiled' \in {soiled, sent}, busy' \in DeskButtons,
         \A c \in (net \ kept) \cap DeskChanges :
            screen \in DeskCards => c.edit.op = "touch" \/ (c.edit.op = "put" /\ c.kind = "done"),
         screen \in DeskCards /\ DeskInOrder' => DeskInOrder
  PROVE  DeskInv'
<1>1. DeskTypes /\ DeskNumbered /\ sent \in Nat BY DEF DeskInv, DeskTypes
<1>2. PICK d : d = [id |-> sent + 1, kind |-> "load", path |-> p] OBVIOUS
<1>3. /\ net' = kept \cup {d} /\ sent' = sent + 1 /\ asked' = sent + 1 /\ sent < MaxVisit[screen]
  BY <1>2 DEF Managing!Load
<1>4. /\ d \in DeskLoads /\ d \in DeskCalls /\ d.id = sent + 1 /\ d.path = p /\ d.kind = "load"
  BY <1>1, <1>2, DeskRanges DEF DeskLoads, DeskCalls
<1>5. d \notin DeskAnswers /\ d \notin DeskChanges
  BY <1>4, DeskKinds
<1>6. /\ DeskCalls' = DeskCalls /\ DeskAnswers' = DeskAnswers /\ DeskChanges' = DeskChanges
      /\ DeskValues' = DeskValues /\ DeskMaps' = DeskMaps /\ Managing!Paths' = Managing!Paths
  BY DeskScreen
<1>7. DeskTypes'
  <2>1. MaxVisit[screen] \in Nat BY <1>1, DeskAssumption DEF DeskTypes
  <2>2. sent' \in 1..MaxVisit[screen] /\ asked' \in 0..sent' /\ asked' # 0 /\ soiled' \in 0..sent'
        /\ taken' \in 0..sent' /\ edited' \in 0..sent'
    BY <1>1, <1>3, <2>1 DEF DeskTypes
  <2>3. copy' = Null \/ copy' \in [path' -> DeskValues]
    BY <1>1 DEF DeskTypes, DeskInv, DeskChanging
  <2> QED BY <1>1, <1>6, <2>2, <2>3 DEF DeskTypes
<1>8. DeskNumbered'
  BY <1>1, <1>3, <1>4, <1>5, <1>7, DeskNumbers DEF DeskTypes
<1>9. net' \cap DeskChanges = kept \cap DeskChanges /\ net' \cap DeskAnswers = kept \cap DeskAnswers
  BY <1>3, <1>5
<1>10. DeskChanging'
  <2>1. screen = "feed" => path' = path BY DEF DeskCards
  <2>2. net' \cap DeskChanges' \subseteq net \cap DeskChanges BY <1>6, <1>9
  <2> QED BY <1>6, <2>1, <2>2 DEF DeskInv, DeskChanging
<1>11. DeskPaths'
  <2>1. \A c \in net' \cap (DeskLoads \cup DeskAnswers) :
          c.id <= asked' /\ (c.id = asked' \/ screen \notin DeskMoves => c.path = path')
    <3>1. \A c \in net : c.id <= sent /\ (c \in DeskCalls)
      BY <1>1 DEF DeskNumbered
    <3>2. \A c \in kept : c.id # asked' /\ c.id <= asked' BY <1>1, <1>3, <3>1, DeskKinds
    <3>3. d.id <= asked' BY <1>1, <1>3, <1>4
    <3> QED BY <1>3, <1>4, <3>2, <3>3 DEF DeskInv, DeskPaths
  <2>2. taken' # asked' /\ taken' <= asked' BY <1>1, <1>3 DEF DeskTypes
  <2>3. data' # Null /\ (taken' = asked' \/ screen \notin DeskMoves) => data'.of = path'
    BY <2>2 DEF DeskInv, DeskPaths
  <2> QED BY <1>6, <2>1, <2>2, <2>3 DEF DeskPaths
<1>12. taken' # asked' /\ \A c \in net' \cap DeskAnswers : c.id # asked'
  <2>1. \A c \in net : c.id <= sent /\ c \in DeskCalls BY <1>1 DEF DeskNumbered
  <2> QED BY <1>1, <1>3, <1>9, <2>1, DeskKinds DEF DeskTypes
<1>13. DeskReloads' BY <1>6, <1>12 DEF DeskReloads
<1>14. DeskOrders' BY <1>6, <1>12 DEF DeskOrders
<1>15. DeskLoaded'
  <2> SUFFICES ASSUME screen \in DeskCards PROVE DeskLoaded' BY DEF DeskLoaded
  <2>1. path' = path /\ Managing!Answer(path)' = Managing!Answer(path)
    BY DEF Managing!Answer
  <2>2. ASSUME NEW n \in 0..sent, DeskFresh(n)' PROVE DeskFresh(n)
    BY <1>1, <2>2, DeskFresher
  <2>3. ASSUME NEW c \in net' \cap DeskAnswers, DeskFresh(c.id)', edited <= c.id
        PROVE  c.value = Managing!Answer(path)
    <3>1. PICK n : n = c.id OBVIOUS
    <3>2. c \in net /\ n \in 0..sent BY <1>1, <1>9, <2>3, <3>1, DeskKinds DEF DeskNumbered
    <3>3. DeskFresh(n)' BY <2>3, <3>1
    <3>4. DeskFresh(c.id) BY <2>2, <3>1, <3>2, <3>3
    <3> QED BY <2>3, <3>2, <3>4 DEF DeskInv, DeskLoaded
  <2>4. data # Null /\ DeskFresh(taken)' /\ edited <= taken => data.value = Managing!Answer(path)
    <3>1. PICK n : n = taken OBVIOUS
    <3>2. n \in 0..sent BY <1>1, <3>1 DEF DeskTypes
    <3>3. DeskFresh(taken)' <=> DeskFresh(n)' BY <3>1 DEF DeskFresh
    <3> QED BY <2>2, <3>1, <3>2, <3>3 DEF DeskInv, DeskLoaded
  <2> QED BY <1>6, <2>1, <2>3, <2>4 DEF DeskLoaded
<1>16. DeskSettings' /\ DeskFeed'
  <2>1. CASE screen \in DeskCards
    <3>1. path' = path BY <2>1
    <3>2. DeskSwitches' = DeskSwitches /\ DeskFeeds' = DeskFeeds
      BY <1>6, <1>9, <2>1, DeskOps, DeskFields DEF DeskSwitches, DeskFeeds
    <3> QED BY <3>1, <3>2, DeskCardsStay
  <2>2. CASE screen \notin DeskCards
    BY <2>2 DEF DeskSettings, DeskFeed, DeskCards, DeskEditors
  <2> QED BY <2>1, <2>2
<1> QED BY <1>7, <1>8, <1>10, <1>11, <1>13, <1>14, <1>15, <1>16 DEF DeskInv

\* A change is sent.
LEMMA DeskSent ==
  ASSUME DeskInv, NEW e \in DeskEdits, NEW b \in DeskButtons, Managing!Send(e, b)
  PROVE  \E d \in DeskChanges :
           /\ net' = net \cup {d} /\ d.kind = "edit" /\ d.edit = e /\ d.was = copy /\ d.mine = TRUE
           /\ d.id = sent + 1 /\ edited' = sent + 1 /\ sent' = sent + 1
           /\ net' \cap DeskAnswers = net \cap DeskAnswers
           /\ net' \cap (DeskLoads \cup DeskAnswers) = net \cap (DeskLoads \cup DeskAnswers)
           /\ UNCHANGED <<screen, stored, path, asked, taken, soiled>>
           /\ busy' \in DeskButtons /\ sent' \in 1..MaxVisit[screen]
           /\ DeskNumbered' /\ (data' = data => DeskPaths')
<1>1. DeskTypes /\ DeskNumbered /\ sent \in Nat /\ asked \in 0..sent /\ edited \in 0..sent
  BY DEF DeskInv, DeskTypes
<1>2. PICK d : d = [id |-> sent + 1, kind |-> "edit", edit |-> e, by |-> b, was |-> copy,
                    mine |-> TRUE]
  OBVIOUS
<1>3. copy \in DeskMaps \cup {Null}
  <2>1. path \in SUBSET Item BY <1>1, DeskRanges DEF DeskTypes
  <2> QED BY <1>1, <2>1 DEF DeskTypes, DeskMaps
<1>4. /\ d \in DeskChanges /\ d.id = sent + 1 /\ d.kind = "edit" /\ d.edit = e /\ d.was = copy
      /\ d.mine = TRUE
  BY <1>1, <1>2, <1>3 DEF DeskChanges
<1>5. d \in DeskCalls /\ d \notin DeskAnswers /\ d \notin DeskLoads
  BY <1>4, DeskKinds DEF DeskCalls
<1>6. /\ net' = net \cup {d} /\ edited' = sent + 1 /\ sent' = sent + 1 /\ sent < MaxVisit[screen]
      /\ UNCHANGED <<screen, stored, path, asked, taken, soiled>>
      /\ busy' = IF b = Null THEN busy ELSE b
  BY <1>2 DEF Managing!Send
<1>7. busy' \in DeskButtons /\ sent' \in 1..MaxVisit[screen]
  <2>1. MaxVisit[screen] \in Nat BY <1>1, DeskAssumption DEF DeskTypes
  <2> QED BY <1>1, <1>6, <2>1 DEF DeskTypes
<1>8. /\ net' \cap DeskAnswers = net \cap DeskAnswers
      /\ net' \cap (DeskLoads \cup DeskAnswers) = net \cap (DeskLoads \cup DeskAnswers)
  BY <1>5, <1>6
<1>9. DeskNumbered'
  <2>1. \A c \in net \cap DeskChanges : c.id # d.id
    BY <1>1, <1>4, DeskFields DEF DeskNumbered
  <2>2. \A c \in net' \cap DeskChanges : c.id = d.id => c = d BY <1>6, <2>1
  <2>3. d.id <= sent' /\ d.id <= edited' /\ d.id # asked' BY <1>1, <1>4, <1>6
  <2> QED BY <1>1, <1>5, <1>6, <2>2, <2>3, DeskNumbers
<1>10. data' = data => DeskPaths'
  BY <1>6, <1>8, DeskScreen DEF DeskInv, DeskPaths
<1> QED BY <1>4, <1>6, <1>7, <1>8, <1>9, <1>10

\* A change that shows when it is loaded, or when it is answered.
LEMMA DeskSends ==
  ASSUME DeskInv, NEW e \in DeskEdits, NEW b \in DeskButtons, Managing!Send(e, b),
         UNCHANGED <<data, copy>>,
         screen = "services" => e.op # "put", e.op = "append" => screen = "services",
         screen \in DeskEditors => e.op = "touch" /\ copy = Null,
         screen = "feed" => e.op = "touch" \/ (e.op = "set" /\ e.item \in path /\ copy # Null)
  PROVE  DeskInv'
<1>1. DeskTypes /\ DeskNumbered /\ sent \in Nat /\ asked \in 0..sent /\ edited \in 0..sent
  BY DEF DeskInv, DeskTypes
<1>2. PICK d \in DeskChanges :
           /\ net' = net \cup {d} /\ d.kind = "edit" /\ d.edit = e /\ d.was = copy /\ d.mine = TRUE
           /\ d.id = sent + 1 /\ edited' = sent + 1 /\ sent' = sent + 1
           /\ net' \cap DeskAnswers = net \cap DeskAnswers
           /\ net' \cap (DeskLoads \cup DeskAnswers) = net \cap (DeskLoads \cup DeskAnswers)
           /\ UNCHANGED <<screen, stored, path, asked, taken, soiled>>
           /\ busy' \in DeskButtons /\ sent' \in 1..MaxVisit[screen]
           /\ DeskNumbered' /\ (data' = data => DeskPaths')
  BY DeskSent
<1>3. /\ DeskCalls' = DeskCalls /\ DeskAnswers' = DeskAnswers /\ DeskChanges' = DeskChanges
      /\ DeskValues' = DeskValues /\ DeskMaps' = DeskMaps /\ Managing!Paths' = Managing!Paths
  BY <1>2, DeskScreen
<1>4. DeskTypes'
  BY <1>1, <1>2, <1>3 DEF DeskTypes
<1>5. DeskChanging'
  <2>1. screen \in DeskEditors => copy = Null
    OBVIOUS
  <2>2. \A c \in net' \cap DeskChanges : c = d \/ c \in net \cap DeskChanges BY <1>2
  <2> QED BY <1>2, <1>3, <2>1, <2>2 DEF DeskInv, DeskChanging, DeskCards, DeskEditors
<1>6. DeskReloads'
  <2>1. \A p : Managing!Answer(p)' = Managing!Answer(p) BY <1>2 DEF Managing!Answer
  <2>2. DeskFresh(asked)' => DeskFresh(asked) BY <1>2 DEF DeskFresh
  <2>3. (\A c \in net' \cap DeskChanges : c.kind # "done") =>
          \A c \in net \cap DeskChanges : c.kind # "done"
    BY <1>2
  <2> QED BY <1>2, <1>3, <2>2, <2>3 DEF DeskInv, DeskReloads, Managing!Answer
<1>7. DeskOrders'
  <2> SUFFICES ASSUME screen = "services" PROVE DeskOrders' BY <1>2 DEF DeskOrders
  <2>1. DeskFresh(asked)' => DeskFresh(asked) BY <1>2 DEF DeskFresh
  <2>2. DeskPuts' = DeskPuts BY <1>2, <1>3 DEF DeskPuts
  <2>3. ~(edited' <= asked') BY <1>1, <1>2
  <2> QED BY <1>2, <1>3, <2>1, <2>2, <2>3 DEF DeskInv, DeskOrders
<1>8. DeskLoaded'
  <2>1. \A c \in net' \cap DeskAnswers : ~(edited' <= c.id)
    BY <1>1, <1>2, DeskKinds DEF DeskNumbered, DeskCalls
  <2>2. ~(edited' <= taken') BY <1>1, <1>2 DEF DeskTypes
  <2> QED BY <1>3, <2>1, <2>2 DEF DeskLoaded
<1>9. DeskSettings' /\ DeskFeed'
  <2> SUFFICES ASSUME screen \in DeskCards, DeskInOrder'
               PROVE  DeskInOrder /\ DeskSwitches' = DeskSwitches /\ DeskFeeds' = DeskFeeds
    BY <1>2, DeskCardsStay
  <2>1. DeskFresh(taken)' => DeskFresh(taken) BY <1>2 DEF DeskFresh
  <2>2. \A c \in net \cap DeskChanges : c.id >= edited' => c.id >= edited
    BY <1>1, <1>2, DeskFields
  <2>3. DeskInOrder BY <1>2, <1>3, <2>1, <2>2 DEF DeskInOrder
  <2>4. screen = "feed" BY <2>3 DEF DeskInOrder, DeskCards, DeskEditors
  <2>5. DeskSwitches' = DeskSwitches /\ DeskFeeds' = DeskFeeds
    BY <1>2, <1>3, <2>4 DEF DeskSwitches, DeskFeeds
  <2> QED BY <2>3, <2>5
<1> QED BY <1>2, <1>4, <1>5, <1>6, <1>7, <1>8, <1>9 DEF DeskInv

\* What is shown has the values of its items.
LEMMA DeskShown ==
  ASSUME DeskInv, Managing!Ready
  PROVE  /\ data # Null /\ data.of \subseteq Item /\ data.value \in [data.of -> DeskValues]
         /\ screen \notin DeskMoves => data.of = path
         /\ screen \notin DeskMoves \cup {"booking", "feed"} => data.of = Item
BY DeskRanges DEF DeskInv, DeskTypes, DeskPaths, Managing!Ready

LEMMA DeskEdit ==
  /\ \A i \in Item, n \in DeskValues : Managing!Set(i, n) \in DeskEdits /\ Managing!Set(i, n).op = "set"
                                       /\ Managing!Set(i, n).item = i
  /\ \A f \in [Item -> DeskValues] : /\ Managing!Put(f) \in DeskEdits /\ Managing!Put(f).op = "put"
                                     /\ Managing!Put(f).value = f
  /\ \A i \in Item : Managing!Append(i) \in DeskEdits /\ Managing!Append(i).op = "append"
  /\ Managing!Touch \in DeskEdits /\ Managing!Touch.op = "touch"
BY DEF Managing!Set, Managing!Put, Managing!Append, Managing!Touch, DeskEdits

LEMMA DeskProfile ==
  ASSUME DeskInv, Managing!SaveProfile
  PROVE  DeskInv'
<1>1. /\ Managing!Send(Managing!Touch, "form") /\ copy = Null /\ UNCHANGED <<data, copy>>
      /\ screen # "services"
  BY DEF Managing!SaveProfile, Managing!Keep, Managing!Cards, Managing!Copying
<1>2. "form" \in DeskButtons BY DEF DeskButtons
<1> QED BY <1>1, <1>2, DeskEdit, DeskSends

LEMMA DeskForms ==
  ASSUME DeskInv, NEW i \in Item,
         \/ Managing!AddDate(i) \/ Managing!RemoveDate(i)
          \/ Managing!Block(i) \/ Managing!Unblock(i)
         \/ Managing!CancelBooking(i) \/ Managing!Reschedule(i) \/ Managing!Complete(i)
         \/ Managing!Revoke(i) \/ Managing!TogglePublish(i) \/ Managing!SaveService(i)
         \/ Managing!RemoveService(i) \/ Managing!CreateFeed(i) \/ Managing!DisableFeed(i)
  PROVE  DeskInv'
<1>1. {Null, "form", i} \subseteq DeskButtons /\ DeskValues \subseteq Nat /\ 0 \in DeskValues /\ 1 \in DeskValues
  BY DeskRanges DEF DeskButtons
<1>2. screen \notin {"home", "settings"} => DeskValues = Nat BY DEF DeskValues
<1>5. CASE Managing!AddDate(i) \/ Managing!Block(i)
  <2>1. /\ Managing!Send(Managing!Set(i, 1), "form") /\ screen \in {"dates", "calendar"}
        /\ UNCHANGED <<data, copy>>
    BY <1>5 DEF Managing!AddDate, Managing!Block, Managing!Keep
  <2> QED BY <1>1, <2>1, DeskEdit, DeskSends DEF DeskEditors
<1>6. CASE \/ Managing!RemoveDate(i) \/ Managing!Unblock(i) \/ Managing!Revoke(i)
           \/ Managing!RemoveService(i)
  <2>1. /\ \E b \in {Null, i} : Managing!Send(Managing!Set(i, 0), b)
        /\ screen \in {"dates", "calendar", "sessions", "services"} /\ UNCHANGED <<data, copy>>
    BY <1>6 DEF Managing!RemoveDate, Managing!Unblock, Managing!Revoke, Managing!RemoveService,
      Managing!Keep
  <2>2. PICK b \in {Null, i} : Managing!Send(Managing!Set(i, 0), b) BY <2>1
  <2> QED BY <1>1, <2>1, <2>2, DeskEdit, DeskSends DEF DeskEditors
<1>7. CASE Managing!CancelBooking(i) \/ Managing!Reschedule(i) \/ Managing!Complete(i)
  <2>1. \E n \in {0, 2, 3} : Managing!Decide(i, n)
    BY <1>7 DEF Managing!CancelBooking, Managing!Reschedule, Managing!Complete
  <2>2. PICK n \in {0, 2, 3} : Managing!Decide(i, n) BY <2>1
  <2>3. /\ Managing!Send(Managing!Set(i, n), "form") /\ screen = "booking" /\ UNCHANGED <<data, copy>>
    BY <2>2 DEF Managing!Decide, Managing!Keep
  <2>4. n \in DeskValues BY <1>2, <2>3
  <2> QED BY <1>1, <2>3, <2>4, DeskEdit, DeskSends DEF DeskEditors
<1>8. CASE Managing!TogglePublish(i)
  <2>1. /\ Managing!Ready /\ Managing!Send(Managing!Set(i, 1 - data.value[i]), "form")
        /\ screen = "home" /\ UNCHANGED <<data, copy>>
    BY <1>8 DEF Managing!TogglePublish, Managing!Keep
  <2>2. data.value[i] \in 0..1 BY <2>1, DeskShown DEF DeskValues, DeskMoves
  <2>3. PICK n : n = 1 - data.value[i] OBVIOUS
  <2>4. n \in 0..1 BY <2>2, <2>3
  <2>5. n \in DeskValues BY <2>1, <2>4 DEF DeskValues
  <2> QED BY <1>1, <2>1, <2>3, <2>5, DeskEdit, DeskSends DEF DeskEditors
<1>9. CASE Managing!SaveService(i)
  <2>1. /\ Managing!Send(Managing!Touch, "form") \/ Managing!Send(Managing!Append(i), "form")
        /\ screen = "services" /\ UNCHANGED <<data, copy>>
    BY <1>9 DEF Managing!SaveService, Managing!Keep
  <2> QED BY <1>1, <2>1, DeskEdit, DeskSends DEF DeskEditors
<1>11. CASE Managing!CreateFeed(i) \/ Managing!DisableFeed(i)
  <2>1. \E n \in 0..2, b \in {"form", i} : Managing!Send(Managing!Set(i, n), b)
    BY <1>11 DEF Managing!CreateFeed, Managing!DisableFeed
  <2>2. PICK n \in 0..2, b \in {"form", i} : Managing!Send(Managing!Set(i, n), b) BY <2>1
  <2>3. screen = "feed" /\ copy # Null /\ i \in path /\ UNCHANGED <<data, copy>>
    BY <1>11 DEF Managing!CreateFeed, Managing!DisableFeed, Managing!Keep
  <2>4. n \in DeskValues BY <1>2, <2>3
  <2> QED BY <1>1, <2>2, <2>3, <2>4, DeskEdit, DeskSends DEF DeskEditors
<1> QED BY <1>5, <1>6, <1>7, <1>8, <1>9, <1>11

\* A switch flips at once.
\* An editor's copy is changed and sent.
LEMMA DeskSwitched ==
  ASSUME DeskInv, screen \in DeskEditors, copy # Null, NEW v \in [Item -> DeskValues],
         NEW b \in DeskButtons, Managing!Send(Managing!Put(v), b), copy' = v, data' = data
  PROVE  DeskInv'
<1>1. DeskTypes /\ DeskNumbered /\ sent \in Nat /\ asked \in 0..sent /\ edited \in 0..sent
  BY DEF DeskInv, DeskTypes
<1>3. /\ screen \in DeskEditors /\ copy # Null /\ copy' = v /\ data' = data
      /\ Managing!Send(Managing!Put(v), b)
  OBVIOUS
<1>4. path = Item /\ copy \in [Item -> DeskValues]
  BY <1>1, <1>3, DeskRanges DEF DeskTypes, DeskMoves, DeskEditors
<1>5. v \in [Item -> DeskValues] OBVIOUS
<1>6. PICK e \in DeskEdits : e = Managing!Put(v) /\ e.op = "put" /\ e.value = v
  BY <1>5, DeskEdit
<1>7. PICK d \in DeskChanges :
           /\ net' = net \cup {d} /\ d.kind = "edit" /\ d.edit = e /\ d.was = copy /\ d.mine = TRUE
           /\ d.id = sent + 1 /\ edited' = sent + 1 /\ sent' = sent + 1
           /\ net' \cap DeskAnswers = net \cap DeskAnswers
           /\ net' \cap (DeskLoads \cup DeskAnswers) = net \cap (DeskLoads \cup DeskAnswers)
           /\ UNCHANGED <<screen, stored, path, asked, taken, soiled>>
           /\ busy' \in DeskButtons /\ sent' \in 1..MaxVisit[screen]
           /\ DeskNumbered' /\ (data' = data => DeskPaths')
  BY <1>3, <1>6, DeskSent
<1>8. /\ DeskCalls' = DeskCalls /\ DeskAnswers' = DeskAnswers /\ DeskChanges' = DeskChanges
      /\ DeskValues' = DeskValues /\ DeskMaps' = DeskMaps /\ Managing!Paths' = Managing!Paths
  BY <1>7, DeskScreen
<1>9. DeskTypes'
  BY <1>1, <1>3, <1>4, <1>5, <1>7, <1>8 DEF DeskTypes
<1>10. DeskChanging'
  <2>1. \A c \in net' \cap DeskChanges : c = d \/ c \in net \cap DeskChanges BY <1>7
  <2>2. v # Null BY <1>5, DeskRanges
  <2> QED BY <1>3, <1>4, <1>6, <1>7, <1>8, <2>1, <2>2
           DEF DeskInv, DeskChanging, DeskCards, DeskEditors
<1>11. DeskReloads' /\ DeskOrders' /\ DeskFeed'
  BY <1>3, <1>7 DEF DeskReloads, DeskOrders, DeskFeed, DeskCards, DeskEditors
<1>12. DeskLoaded'
  <2>1. \A c \in net' \cap DeskAnswers : ~(edited' <= c.id)
    BY <1>1, <1>7, DeskKinds DEF DeskNumbered, DeskCalls
  <2>2. ~(edited' <= taken') BY <1>1, <1>7 DEF DeskTypes
  <2> QED BY <1>8, <2>1, <2>2 DEF DeskLoaded
<1>13. DeskSettings'
  <2> SUFFICES ASSUME DeskInOrder' PROVE DeskSettings' BY DEF DeskSettings
  <2>1. DeskInOrder
    <3>1. DeskFresh(taken)' => DeskFresh(taken) BY <1>7 DEF DeskFresh
    <3>2. \A c \in net \cap DeskChanges : c.id >= edited' => c.id >= edited
      BY <1>1, <1>7, DeskFields
    <3> QED BY <1>3, <1>7, <1>8, <3>1, <3>2 DEF DeskInOrder
  <2>2. DeskSwitches' = DeskSwitches \cup {d}
    BY <1>6, <1>7, <1>8 DEF DeskSwitches
  <2>3. /\ DeskSwitches = {} => copy = stored
        /\ \A c \in DeskSwitches :
              /\ (\A s \in DeskSwitches : s.id <= c.id) => copy = c.edit.value
              /\ (\A s \in DeskSwitches : s.id >= c.id) => c.was = stored
              /\ \A s \in DeskSwitches :
                    s.id < c.id /\ (\A t \in DeskSwitches : t.id <= s.id \/ t.id >= c.id)
                      => c.was = s.edit.value
    BY <1>3, <2>1 DEF DeskInv, DeskSettings
  <2>4. \A c \in DeskSwitches : c.id \in Nat /\ c.id < d.id
    BY <1>1, <1>7, DeskFields DEF DeskSwitches, DeskNumbered
  <2>5. d \notin DeskSwitches BY <2>4
  <2>6. ASSUME NEW c \in DeskSwitches PROVE
              /\ ~ \A s \in DeskSwitches \cup {d} : s.id <= c.id
              /\ (\A s \in DeskSwitches \cup {d} : s.id >= c.id) => c.was = stored
              /\ \A s \in DeskSwitches \cup {d} :
                    s.id < c.id /\ (\A t \in DeskSwitches \cup {d} : t.id <= s.id \/ t.id >= c.id)
                      => c.was = s.edit.value
    <3>1. ~(d.id <= c.id) /\ ~(d.id < c.id) BY <1>7, <2>4, DeskFields
    <3> QED BY <2>3, <3>1
  <2>7. /\ copy' = d.edit.value
        /\ (\A s \in DeskSwitches \cup {d} : s.id >= d.id) => d.was = stored
        /\ \A s \in DeskSwitches \cup {d} :
              s.id < d.id /\ (\A t \in DeskSwitches \cup {d} : t.id <= s.id \/ t.id >= d.id)
                => d.was = s.edit.value
    <3>1. copy' = d.edit.value /\ d.was = copy /\ d.id \in Nat BY <1>3, <1>6, <1>7, DeskFields
    <3>2. (\A s \in DeskSwitches \cup {d} : s.id >= d.id) => DeskSwitches = {}
      BY <2>4, <3>1
    <3>3. ASSUME NEW s \in DeskSwitches \cup {d}, s.id < d.id,
                 \A t \in DeskSwitches \cup {d} : t.id <= s.id \/ t.id >= d.id
          PROVE  copy = s.edit.value
      <4>1. s \in DeskSwitches BY <3>1, <3>3
      <4>2. \A t \in DeskSwitches : t.id <= s.id BY <2>4, <3>1, <3>3
      <4> QED BY <2>3, <4>1, <4>2
    <3> QED BY <2>3, <3>1, <3>2, <3>3
  <2> QED BY <1>7, <2>2, <2>6, <2>7 DEF DeskSettings
<1> QED BY <1>7, <1>3, <1>9, <1>10, <1>11, <1>12, <1>13 DEF DeskInv

LEMMA DeskToggles ==
  ASSUME DeskInv, NEW i \in Item, Managing!Toggle(i)
  PROVE  DeskInv'
<1>1. PICK v : v = [copy EXCEPT ![i] = 1 - @] OBVIOUS
<1>2. /\ screen = "settings" /\ copy # Null /\ copy' = v /\ data' = data
      /\ Managing!Send(Managing!Put(v), Null)
  BY <1>1 DEF Managing!Toggle
<1>3. copy \in [Item -> 0..1] /\ DeskValues = 0..1
  BY <1>2, DeskRanges DEF DeskInv, DeskTypes, DeskValues, DeskMoves
<1>4. v \in [Item -> DeskValues]
  <2>1. copy[i] \in 0..1 BY <1>3
  <2>2. 1 - copy[i] \in 0..1 BY <2>1
  <2> QED BY <1>1, <1>3, <2>2
<1>5. Null \in DeskButtons BY DEF DeskButtons
<1> QED BY <1>2, <1>4, <1>5, DeskSwitched DEF DeskEditors

LEMMA DeskHours ==
  ASSUME DeskInv, Managing!SaveHours
  PROVE  DeskInv'
<1>1. "form" \in DeskButtons /\ {0, 1} \subseteq DeskValues BY DeskRanges DEF DeskButtons
<1>2. PICK f \in [Item -> 0..1] : copy' = f /\ Managing!Send(Managing!Put(f), "form")
  BY DEF Managing!SaveHours
<1>3. f \in [Item -> DeskValues] BY <1>1
<1>4. screen \in DeskEditors /\ copy # Null /\ data' = data
  BY DEF Managing!SaveHours, DeskEditors
<1> QED BY <1>1, <1>2, <1>3, <1>4, DeskSwitched

LEMMA DeskPlaces ==
  ASSUME NEW f \in [Item -> Nat], NEW i \in Item, f[i] # 0
  PROVE  Managing!Place(f, i) \in Nat \ {0}
<1>1. PICK S : S = {j \in Item : f[j] # 0 /\ f[j] <= f[i]} OBVIOUS
<1>2. IsFiniteSet(S) /\ S # {}
  <2>1. f[i] \in Nat /\ i \in S BY <1>1
  <2>2. S \in SUBSET Item BY <1>1
  <2> QED BY <2>1, <2>2, FS_Subset, DeskAssumption
<1>3. Cardinality(S) \in Nat /\ Cardinality(S) # 0
  BY <1>2, FS_CardinalityType, FS_EmptySet
<1>4. \A T : Managing!Cardinality(T) = Cardinality(T)
  BY DEF Managing!Cardinality, Cardinality
<1>5. Managing!Place(f, i) = Cardinality(S) BY <1>1, <1>4 DEF Managing!Place
<1> QED BY <1>3, <1>5

\* Two services change places: the list has the same ones.
LEMMA DeskSwaps ==
  ASSUME DeskInv, screen = "services", Managing!Ready, NEW i \in Item, NEW j \in Item,
         {i, j} \subseteq Managing!Listed
  PROVE  /\ Managing!Swapped(i, j) \in [Item -> DeskValues]
         /\ \A k \in Item : Managing!Swapped(i, j)[k] = 0 <=> data.value[k] = 0
<1>1. data.of = Item /\ data.value \in [Item -> Nat] /\ DeskValues = Nat
  BY DeskShown DEF DeskMoves, DeskValues
<1>2. PICK f \in [Item -> Nat] : f = data.value BY <1>1
<1>3. f[i] # 0 /\ f[j] # 0 BY <1>2 DEF Managing!Listed
<1>4. PICK v : v = Managing!Swapped(i, j) OBVIOUS
<1>5. v = [k \in Item |-> IF f[k] = 0 THEN 0
                          ELSE Managing!Place(f, IF k = i THEN j ELSE IF k = j THEN i ELSE k)]
  BY <1>2, <1>4 DEF Managing!Swapped
<1>6. ASSUME NEW k \in Item PROVE v[k] \in Nat /\ (v[k] = 0 <=> f[k] = 0)
  <2>1. PICK l \in Item : l = (IF k = i THEN j ELSE IF k = j THEN i ELSE k) OBVIOUS
  <2>2. v[k] = IF f[k] = 0 THEN 0 ELSE Managing!Place(f, l) BY <1>5, <2>1
  <2>3. CASE f[k] = 0 BY <2>2, <2>3
  <2>4. CASE f[k] # 0
    <3>1. f[l] # 0 BY <1>3, <2>1, <2>4
    <3>2. Managing!Place(f, l) \in Nat \ {0} BY <3>1, DeskPlaces
    <3> QED BY <2>2, <2>4, <3>2
  <2> QED BY <2>3, <2>4
<1>7. v \in [Item -> Nat] BY <1>5, <1>6
<1> QED BY <1>1, <1>2, <1>4, <1>6, <1>7

\* An order is shown as it is sent.
LEMMA DeskReorders ==
  ASSUME DeskInv, NEW i \in Item, NEW j \in Item, Managing!Move(i, j)
  PROVE  DeskInv'
<1>1. DeskTypes /\ DeskNumbered /\ sent \in Nat /\ asked \in 0..sent /\ edited \in 0..sent
  BY DEF DeskInv, DeskTypes
<1>2. PICK v : v = Managing!Swapped(i, j) OBVIOUS
<1>3. /\ screen = "services" /\ Managing!Ready /\ {i, j} \subseteq Managing!Listed
      /\ data' = [data EXCEPT !.value = v] /\ copy' = copy
      /\ Managing!Send(Managing!Put(v), Null)
  BY <1>2 DEF Managing!Move
<1>4. v \in [Item -> DeskValues] /\ \A k \in Item : v[k] = 0 <=> data.value[k] = 0
  BY <1>2, <1>3, DeskSwaps
<1>5. data # Null /\ data.of = Item /\ path = Item
  BY <1>1, <1>3, DeskShown DEF DeskMoves
<1>6. data'.of = Item /\ data'.value = v
  BY <1>1, <1>3, <1>5 DEF DeskTypes
<1>7. PICK e \in DeskEdits : e = Managing!Put(v) /\ e.op = "put" /\ e.value = v
  BY <1>4, DeskEdit
<1>8. PICK d \in DeskChanges :
           /\ net' = net \cup {d} /\ d.kind = "edit" /\ d.edit = e /\ d.was = copy /\ d.mine = TRUE
           /\ d.id = sent + 1 /\ edited' = sent + 1 /\ sent' = sent + 1
           /\ net' \cap DeskAnswers = net \cap DeskAnswers
           /\ net' \cap (DeskLoads \cup DeskAnswers) = net \cap (DeskLoads \cup DeskAnswers)
           /\ UNCHANGED <<screen, stored, path, asked, taken, soiled>>
           /\ busy' \in DeskButtons /\ sent' \in 1..MaxVisit[screen]
           /\ DeskNumbered' /\ (data' = data => DeskPaths')
  <2>1. Null \in DeskButtons BY DEF DeskButtons
  <2> QED BY <1>3, <1>7, <2>1, DeskSent
<1>9. /\ DeskCalls' = DeskCalls /\ DeskAnswers' = DeskAnswers /\ DeskChanges' = DeskChanges
      /\ DeskValues' = DeskValues /\ DeskMaps' = DeskMaps /\ Managing!Paths' = Managing!Paths
  BY <1>8, DeskScreen
<1>10. DeskTypes'
  <2>1. data' \in [of : SUBSET Item, value : DeskMaps] /\ data'.value \in [data'.of -> DeskValues]
    <3>1. v \in DeskMaps BY <1>4 DEF DeskMaps
    <3>2. data \in [of : SUBSET Item, value : DeskMaps] BY <1>1, <1>5 DEF DeskTypes
    <3> QED BY <1>3, <1>4, <1>6, <3>1, <3>2
  <2> QED BY <1>1, <1>3, <1>8, <1>9, <2>1 DEF DeskTypes
<1>11. DeskPaths'
  <2>1. data'.of = path' BY <1>5, <1>6, <1>8
  <2> QED BY <1>8, <1>9, <2>1 DEF DeskInv, DeskPaths
<1>12. DeskChanging' /\ DeskReloads' /\ DeskLoaded' /\ DeskSettings' /\ DeskFeed'
  BY <1>3, <1>8 DEF DeskInv, DeskChanging, DeskReloads, DeskLoaded, DeskSettings, DeskFeed, DeskCards, DeskEditors
<1>13. DeskOrders'
  <2> SUFFICES ASSUME DeskFresh(asked)',
                      \A c \in net' \cap DeskChanges : /\ c.kind = "done" => c.edit.op = "put"
                                                       /\ c.kind = "failed" => c.edit.op # "put"
               PROVE  /\ ~(edited' <= asked')
                      /\ taken' = asked' =>
                           /\ \A k \in Item : data'.value[k] = 0 <=> stored'[k] = 0
                           /\ \A c \in DeskPuts' : (\A s \in DeskPuts' : s.id <= c.id)
                                                      => data'.value = c.edit.value
                           /\ DeskPuts' # {}
    BY <1>9 DEF DeskOrders
  <2>1. ~(edited' <= asked') BY <1>1, <1>8
  <2>2. DeskPuts' = DeskPuts \cup {d}
    BY <1>1, <1>7, <1>8, <1>9 DEF DeskPuts
  <2>3. \A c \in DeskPuts : ~(d.id <= c.id)
    BY <1>1, <1>8, DeskFields DEF DeskPuts, DeskNumbered
  <2>4. data'.value = d.edit.value BY <1>6, <1>7, <1>8
  <2>5. taken' = asked' => \A k \in Item : data'.value[k] = 0 <=> stored'[k] = 0
    <3>1. DeskFresh(asked) BY <1>8 DEF DeskFresh
    <3>2. \A c \in net \cap DeskChanges : /\ c.kind = "done" => c.edit.op = "put"
                                          /\ c.kind = "failed" => c.edit.op # "put"
      BY <1>8
    <3>3. taken = asked => \A k \in Item : data.value[k] = 0 <=> stored[k] = 0
      BY <1>3, <1>5, <3>1, <3>2 DEF DeskInv, DeskOrders
    <3> QED BY <1>4, <1>6, <1>8, <3>3
  <2> QED BY <2>1, <2>2, <2>3, <2>4, <2>5
<1> QED BY <1>8, <1>10, <1>11, <1>12, <1>13 DEF DeskInv

\* Once a screen is soiled nothing is known of it.
LEMMA DeskSoiled ==
  ASSUME DeskTypes, soiled' = sent, sent' = sent, DeskTypes', DeskNumbered'
  PROVE  DeskReloads' /\ DeskOrders' /\ DeskLoaded' /\ DeskSettings' /\ DeskFeed'
<1>1. sent \in Nat /\ sent # 0 /\ asked' \in 0..sent /\ taken' \in 0..sent
  BY DEF DeskTypes
<1>2. ~DeskFresh(asked)' /\ ~DeskFresh(taken)' BY <1>1 DEF DeskFresh
<1>3. \A c \in net' \cap DeskAnswers' : ~(soiled' = 0 \/ c.id > soiled')
  <2>1. \A c \in DeskAnswers' : c.id \in Nat BY DEF DeskAnswers
  <2> QED BY <1>1, <2>1 DEF DeskNumbered
<1>4. DeskLoaded' BY <1>2, <1>3 DEF DeskLoaded, DeskFresh
<1> QED BY <1>2, <1>4 DEF DeskReloads, DeskOrders, DeskSettings, DeskFeed, DeskInOrder

\* What is known of the loads stays known while nothing is stored or sent.
LEMMA DeskLoadsStay ==
  ASSUME DeskInv, UNCHANGED <<screen, stored, path, asked, edited>>, soiled' \in {soiled, sent},
         net' \cap DeskAnswers \subseteq net, data' = Null \/ (data' = data /\ taken' = taken),
         screen \in DeskCards \cup {"services"}
           \/ \A c \in net \cap DeskChanges : c.kind = "done" =>
                \E d \in net' \cap DeskChanges : d.kind = "done"
  PROVE  DeskReloads' /\ DeskLoaded'
<1>1. DeskTypes /\ DeskNumbered /\ asked \in 0..sent /\ taken \in 0..sent BY DEF DeskInv, DeskTypes
<1>2. DeskChanges' = DeskChanges /\ DeskAnswers' = DeskAnswers BY DeskScreen
<1>3. ASSUME NEW n \in 0..sent, DeskFresh(n)' PROVE DeskFresh(n)
  BY <1>1, <1>3, DeskFresher
<1>4. DeskFresh(asked)' => DeskFresh(asked)
  <2>1. PICK n : n = asked OBVIOUS
  <2>2. DeskFresh(asked)' <=> DeskFresh(n)' BY <2>1 DEF DeskFresh
  <2> QED BY <1>1, <1>3, <2>1, <2>2
<1>5. DeskFresh(taken)' /\ taken' = taken => DeskFresh(taken)
  <2>1. PICK n : n = taken OBVIOUS
  <2>2. DeskFresh(taken)' /\ taken' = taken => DeskFresh(n)' BY <2>1 DEF DeskFresh
  <2> QED BY <1>1, <1>3, <2>1, <2>2
<1>6. \A p : Managing!Answer(p)' = Managing!Answer(p) BY DEF Managing!Answer
<1>7. DeskReloads'
  <2> SUFFICES ASSUME screen \notin DeskCards \cup {"services"}, DeskFresh(asked)',
                      \A c \in net' \cap DeskChanges : c.kind # "done"
               PROVE  /\ \A c \in net' \cap DeskAnswers : c.id = asked
                                                            => c.value = Managing!Answer(c.path)
                      /\ data' # Null /\ taken' = asked => data'.value = Managing!Answer(data'.of)
    BY <1>2 DEF DeskReloads, Managing!Answer
  <2>1. \A c \in net \cap DeskChanges : c.kind # "done" OBVIOUS
  <2> QED BY <1>4, <2>1 DEF DeskInv, DeskReloads
<1>8. DeskLoaded'
  <2> SUFFICES ASSUME screen \in DeskCards
               PROVE  /\ \A c \in net' \cap DeskAnswers : DeskFresh(c.id)' /\ edited <= c.id
                                                            => c.value = Managing!Answer(path)
                      /\ data' # Null /\ DeskFresh(taken)' /\ edited <= taken'
                           => data'.value = Managing!Answer(path)
    BY <1>2 DEF DeskLoaded, Managing!Answer
  <2>1. ASSUME NEW c \in net' \cap DeskAnswers, DeskFresh(c.id)', edited <= c.id
        PROVE  c.value = Managing!Answer(path)
    <3>1. c \in net \cap DeskAnswers OBVIOUS
    <3>2. c.id \in 0..sent BY <1>1, <3>1, DeskKinds DEF DeskNumbered, DeskCalls
    <3>3. PICK n : n = c.id OBVIOUS
    <3>4. DeskFresh(n) BY <1>3, <2>1, <3>2, <3>3
    <3> QED BY <2>1, <3>1, <3>3, <3>4 DEF DeskInv, DeskLoaded
  <2>2. data' # Null /\ DeskFresh(taken)' /\ edited <= taken'
           => data'.value = Managing!Answer(path)
    BY <1>5 DEF DeskInv, DeskLoaded
  <2> QED BY <2>1, <2>2
<1> QED BY <1>7, <1>8

LEMMA DeskOtherwise ==
  ASSUME DeskInv, NEW i \in Item, Managing!Elsewhere(i)
  PROVE  DeskInv'
<1>1. PICK n \in 0..1 : stored' = [stored EXCEPT ![i] = n]
  BY DEF Managing!Elsewhere
<1>2. soiled' = sent /\ UNCHANGED <<screen, path, data, copy, busy, net, sent, asked, taken, edited>>
  BY DEF Managing!Elsewhere
<1>3. /\ DeskCalls' = DeskCalls /\ DeskAnswers' = DeskAnswers /\ DeskChanges' = DeskChanges
      /\ DeskValues' = DeskValues /\ DeskMaps' = DeskMaps /\ Managing!Paths' = Managing!Paths
  BY <1>2, DeskScreen
<1>4. DeskTypes /\ DeskNumbered BY DEF DeskInv
<1>5. n \in DeskValues BY DeskRanges
<1>6. stored' \in [Item -> DeskValues] BY <1>1, <1>4, <1>5 DEF DeskTypes
<1>7. DeskTypes' BY <1>2, <1>3, <1>4, <1>6 DEF DeskTypes
<1>8. DeskNumbered' BY <1>2, <1>3, <1>4 DEF DeskNumbered
<1>9. DeskChanging' /\ DeskPaths' BY <1>2, <1>3 DEF DeskInv, DeskChanging, DeskPaths
<1> QED BY <1>2, <1>4, <1>7, <1>8, <1>9, DeskSoiled DEF DeskInv

LEMMA DeskOpens ==
  ASSUME DeskInv, Managing!OpenTab
  PROVE  DeskInv'
<1>1. /\ screen \in DeskCards /\ Managing!Ready /\ copy = Null /\ copy' = data.value
      /\ soiled' = (IF edited > taken THEN sent ELSE soiled)
      /\ UNCHANGED <<screen, stored, path, data, busy, net, sent, asked, taken, edited>>
  BY DEF Managing!OpenTab, Managing!Cards, Managing!Copying, DeskCards
<1>2. /\ DeskCalls' = DeskCalls /\ DeskAnswers' = DeskAnswers /\ DeskChanges' = DeskChanges
      /\ DeskValues' = DeskValues /\ DeskMaps' = DeskMaps /\ Managing!Paths' = Managing!Paths
  BY <1>1, DeskScreen
<1>3. DeskTypes /\ DeskNumbered /\ sent \in Nat /\ edited \in 0..sent /\ taken \in 0..sent
  BY DEF DeskInv, DeskTypes
<1>4. data # Null /\ data.of = path /\ data.value \in [path -> DeskValues]
  BY <1>1, DeskShown DEF DeskCards, DeskMoves
<1>5. DeskTypes' BY <1>1, <1>2, <1>3, <1>4 DEF DeskTypes
<1>6. DeskNumbered' BY <1>1, <1>2, <1>3 DEF DeskNumbered
<1>7. DeskChanging' /\ DeskPaths' BY <1>1, <1>2 DEF DeskInv, DeskChanging, DeskPaths
<1>8. CASE edited > taken
  BY <1>1, <1>3, <1>5, <1>6, <1>7, <1>8, DeskSoiled DEF DeskInv
<1>9. CASE ~(edited > taken)
  <2>1. soiled' = soiled /\ edited <= taken BY <1>1, <1>3, <1>9
  <2>2. DeskReloads' /\ DeskLoaded' BY <1>1, <2>1, DeskLoadsStay
  <2>3. DeskOrders' BY <1>1 DEF DeskOrders, DeskCards
  <2>4. DeskFresh(taken)' => copy' = Managing!Answer(path)
    BY <1>1, <1>4, <2>1 DEF DeskFresh, DeskInv, DeskLoaded
  <2>5. \A c \in net \cap DeskChanges : c.mine => c.edit.op = "touch"
    BY <1>1 DEF DeskInv, DeskChanging
  <2>6. DeskSwitches' = {} /\ DeskFeeds' = {}
    BY <1>1, <1>2, <2>5 DEF DeskSwitches, DeskFeeds
  <2>7. Managing!Answer(path)' = Managing!Answer(path) BY <1>1 DEF Managing!Answer
  <2>8. DeskFeed' BY <2>4, <2>6, <2>7 DEF DeskFeed, DeskInOrder
  <2>9. DeskSettings'
    <3> SUFFICES ASSUME screen \in DeskEditors, DeskInOrder' PROVE copy' = stored'
      BY <1>1, <2>6 DEF DeskSettings
    <3>1. path = Item BY <1>3, DeskRanges DEF DeskTypes, DeskMoves, DeskEditors
    <3>2. Managing!Answer(path) = stored BY <1>3, <3>1, DeskAnswer
    <3> QED BY <1>1, <2>4, <3>2 DEF DeskInOrder
  <2> QED BY <1>5, <1>6, <1>7, <2>2, <2>3, <2>8, <2>9 DEF DeskInv
<1> QED BY <1>8, <1>9

\* The calls of a card that is left are nobody's.
LEMMA DeskOrphans ==
  ASSUME DeskInv, NEW kept \in SUBSET net, net' = Managing!Orphaned(kept),
         UNCHANGED <<screen, sent, asked, edited>>
  PROVE  /\ DeskNumbered'
         /\ net' \cap (DeskLoads \cup DeskAnswers) = kept \cap (DeskLoads \cup DeskAnswers)
         /\ net' \cap DeskAnswers = kept \cap DeskAnswers
         /\ \A d \in net' \cap DeskChanges :
               d.mine = FALSE /\ \E c \in kept \cap DeskChanges :
                  d.id = c.id /\ d.kind = c.kind /\ d.edit = c.edit /\ d.was = c.was
         /\ \A c \in kept \cap DeskChanges : \E d \in net' \cap DeskChanges : d.kind = c.kind
<1>1. /\ DeskCalls' = DeskCalls /\ DeskAnswers' = DeskAnswers /\ DeskChanges' = DeskChanges
      /\ DeskValues' = DeskValues
  BY DeskScreen
<1>2. kept \subseteq DeskCalls /\ DeskNumbered BY DEF DeskInv, DeskNumbered
<1>3. \A c \in kept : IF c.kind \in {"edit", "done", "failed"}
                      THEN c \in DeskChanges ELSE c \notin DeskChanges
  BY <1>2, DeskKinds
<1> DEFINE L(c) == [c EXCEPT !.mine = FALSE]
<1>4. net' = {IF c \in DeskChanges THEN L(c) ELSE c : c \in kept}
  BY <1>3 DEF Managing!Orphaned
<1>12. \A c \in DeskChanges : L(c) \in DeskChanges /\ L(c).mine = FALSE /\ L(c).id = c.id
         /\ L(c).kind = c.kind /\ L(c).edit = c.edit /\ L(c).was = c.was
  BY DeskLeft
<1> HIDE DEF L
<1>5. ASSUME NEW d \in net'
      PROVE  (d \in kept /\ d \notin DeskChanges) \/ \E c \in kept \cap DeskChanges : d = L(c)
  <2>1. PICK c \in kept : d = IF c \in DeskChanges THEN L(c) ELSE c
    BY <1>4
  <2> QED BY <2>1
<1>13. \A d \in net' \cap DeskChanges : \E c \in kept \cap DeskChanges : d = L(c) BY <1>5
<1>6. \A c \in DeskChanges : c \in DeskCalls /\ c \notin DeskLoads \cup DeskAnswers
  <2>1. \A c \in DeskChanges : c \in DeskCalls /\ c.kind \in {"edit", "done", "failed"} BY DeskFields
  <2> QED BY <2>1, DeskKinds
<1>7. net' \cap (DeskLoads \cup DeskAnswers) = kept \cap (DeskLoads \cup DeskAnswers)
  <2>1. \A d \in net' : d \in DeskLoads \cup DeskAnswers => d \in kept BY <1>5, <1>6, <1>12
  <2>2. \A d \in kept : d \in DeskLoads \cup DeskAnswers => d \in net' BY <1>4, <1>6
  <2> QED BY <2>1, <2>2
<1>8. net' \cap DeskAnswers = kept \cap DeskAnswers BY <1>7
<1>9. ASSUME NEW d \in net' \cap DeskChanges
      PROVE  d.mine = FALSE /\ \E c \in kept \cap DeskChanges :
               d.id = c.id /\ d.kind = c.kind /\ d.edit = c.edit /\ d.was = c.was
  <2>1. PICK c \in kept \cap DeskChanges : d = L(c) BY <1>13
  <2> QED BY <1>12, <2>1
<1>10. ASSUME NEW c \in kept \cap DeskChanges
       PROVE  \E d \in net' \cap DeskChanges : d.kind = c.kind
  <2>1. L(c) \in net' BY <1>4
  <2> QED BY <1>12, <2>1
<1>11. DeskNumbered'
  <2>1. net' \subseteq DeskCalls BY <1>2, <1>5, <1>6, <1>12
  <2>2. ASSUME NEW d \in net' PROVE \E c \in kept : d.id = c.id
    <3>1. CASE d \in kept BY <3>1
    <3>2. CASE \E c \in kept \cap DeskChanges : d = L(c) BY <1>12, <3>2
    <3> QED BY <1>5, <3>1, <3>2
  <2>3. \A d \in net' : d.id <= sent' BY <1>2, <2>2 DEF DeskNumbered
  <2>4. \A d \in net' \cap DeskAnswers : d.value \in [d.path -> DeskValues]
    BY <1>2, <1>8 DEF DeskNumbered
  <2>5. ASSUME NEW d \in net' \cap DeskChanges PROVE d.id <= edited' /\ d.id # asked'
    <3>1. PICK c \in kept \cap DeskChanges : d.id = c.id BY <1>9
    <3> QED BY <1>2, <3>1 DEF DeskNumbered
  <2>6. ASSUME NEW d \in net' \cap DeskChanges, NEW e \in net' \cap DeskChanges, d.id = e.id
        PROVE  d = e
    <3>1. PICK c \in kept \cap DeskChanges : d = L(c) BY <1>13
    <3>2. PICK b \in kept \cap DeskChanges : e = L(b) BY <1>13
    <3>3. b.id = c.id BY <1>12, <2>6, <3>1, <3>2
    <3>4. b = c BY <1>2, <3>3 DEF DeskNumbered
    <3> QED BY <3>1, <3>2, <3>4
  <2> QED BY <1>1, <2>1, <2>3, <2>4, <2>5, <2>6 DEF DeskNumbered
<1> QED BY <1>7, <1>8, <1>9, <1>10, <1>11

\* A card is left, or its page goes with a load that failed.
LEMMA DeskForgets ==
  ASSUME DeskInv, NEW kept \in SUBSET net, net' = Managing!Orphaned(kept), screen # "services",
         net \cap DeskChanges \subseteq kept, copy' = Null, data' = data \/ data' = Null,
         busy' = Null, UNCHANGED <<screen, stored, path, sent, asked, taken, edited, soiled>>
  PROVE  DeskInv'
<1>1. /\ DeskCalls' = DeskCalls /\ DeskAnswers' = DeskAnswers /\ DeskChanges' = DeskChanges
      /\ DeskValues' = DeskValues /\ DeskMaps' = DeskMaps /\ Managing!Paths' = Managing!Paths
  BY DeskScreen
<1>2. /\ DeskNumbered'
      /\ net' \cap (DeskLoads \cup DeskAnswers) = kept \cap (DeskLoads \cup DeskAnswers)
      /\ net' \cap DeskAnswers = kept \cap DeskAnswers
      /\ \A d \in net' \cap DeskChanges :
            d.mine = FALSE /\ \E c \in kept \cap DeskChanges :
               d.id = c.id /\ d.kind = c.kind /\ d.edit = c.edit /\ d.was = c.was
      /\ \A c \in kept \cap DeskChanges : \E d \in net' \cap DeskChanges : d.kind = c.kind
  BY DeskOrphans
<1>3. DeskTypes' BY <1>1 DEF DeskInv, DeskTypes, DeskButtons
<1>4. DeskChanging'
  BY <1>1, <1>2 DEF DeskInv, DeskChanging
<1>5. DeskPaths' BY <1>1, <1>2 DEF DeskInv, DeskPaths
<1>6. DeskReloads' /\ DeskLoaded'
  <2>1. \A c \in net \cap DeskChanges : \E d \in net' \cap DeskChanges : d.kind = c.kind BY <1>2
  <2> QED BY <1>2, <2>1, DeskLoadsStay
<1>7. DeskOrders' /\ DeskSettings' /\ DeskFeed'
  BY DEF DeskOrders, DeskSettings, DeskFeed, DeskInOrder
<1> QED BY <1>2, <1>3, <1>4, <1>5, <1>6, <1>7 DEF DeskInv

\* A load fails, or its failure is shown.
LEMMA DeskGone ==
  ASSUME DeskInv, NEW d \in DeskBroken, d.id <= sent, net' \subseteq net \cup {d},
         net' \cap DeskChanges = net \cap DeskChanges,
         UNCHANGED <<screen, stored, path, data, copy, sent, asked, taken, edited, soiled>>,
         busy' \in DeskButtons
  PROVE  DeskInv'
<1>1. /\ DeskCalls' = DeskCalls /\ DeskAnswers' = DeskAnswers /\ DeskChanges' = DeskChanges
      /\ DeskValues' = DeskValues /\ DeskMaps' = DeskMaps /\ Managing!Paths' = Managing!Paths
  BY DeskScreen
<1>2. d \in DeskCalls /\ d \notin DeskLoads \cup DeskAnswers \cup DeskChanges
  <2>1. d \in DeskCalls /\ d.kind = "broken" BY DEF DeskCalls, DeskBroken
  <2> QED BY <2>1, DeskKinds
<1>3. DeskTypes' BY <1>1 DEF DeskInv, DeskTypes
<1>4. DeskNumbered' BY <1>2, DeskNumbers DEF DeskInv, DeskTypes
<1>5. DeskChanging' BY <1>1, <1>2 DEF DeskInv, DeskChanging
<1>6. DeskPaths' BY <1>1, <1>2 DEF DeskInv, DeskPaths
<1>7. DeskReloads' /\ DeskLoaded' BY <1>2, DeskLoadsStay
<1>8. DeskOrders'
  <2>1. DeskPuts' = DeskPuts BY <1>1, <1>2 DEF DeskPuts
  <2>2. DeskFresh(asked)' <=> DeskFresh(asked) BY DEF DeskFresh
  <2> QED BY <1>1, <1>2, <2>1, <2>2 DEF DeskInv, DeskOrders
<1>9. DeskSettings' /\ DeskFeed'
  <2>1. DeskSwitches' = DeskSwitches /\ DeskFeeds' = DeskFeeds
    BY <1>1, <1>2 DEF DeskSwitches, DeskFeeds
  <2>2. DeskFresh(taken)' <=> DeskFresh(taken) BY DEF DeskFresh
  <2>3. DeskInOrder' => DeskInOrder BY <1>1, <1>2, <2>2 DEF DeskInOrder
  <2> QED BY <2>1, <2>3, DeskCardsStay
<1> QED BY <1>3, <1>4, <1>5, <1>6, <1>7, <1>8, <1>9 DEF DeskInv

LEMMA DeskLeaves ==
  ASSUME DeskInv, Managing!LeaveTab
  PROVE  DeskInv'
<1>1. screen # "services" BY DEF Managing!LeaveTab, Managing!Copying, Managing!Cards
<1>2. /\ net' = Managing!Orphaned(net) /\ copy' = Null /\ busy' = Null /\ data' = data
      /\ UNCHANGED <<screen, stored, path, sent, asked, taken, edited, soiled>>
  BY DEF Managing!LeaveTab
<1> QED BY <1>1, <1>2, DeskForgets

LEMMA DeskBreaks ==
  ASSUME DeskInv, NEW c \in net, Managing!LoadFails(c)
  PROVE  DeskInv'
<1>1. c.kind = "broken" /\ c \notin DeskChanges /\ c \in DeskCalls
  BY DeskKinds DEF Managing!LoadFails, DeskInv, DeskNumbered
<1>2. UNCHANGED <<screen, stored, path, sent, asked, taken, edited, soiled>>
  BY DEF Managing!LoadFails
<1>3. CASE screen \in Managing!Forgets
  <2>1. net' = net \ {c} /\ data' = data /\ copy' = copy /\ busy' = busy
    BY <1>3 DEF Managing!LoadFails
  <2>2. busy' \in DeskButtons BY <2>1 DEF DeskInv, DeskTypes
  <2>3. c \in DeskBroken /\ c.id <= sent BY <1>1, DeskKinds DEF DeskInv, DeskNumbered
  <2>4. net' \cap DeskChanges = net \cap DeskChanges /\ net' \subseteq net \cup {c} BY <1>1, <2>1
  <2> QED BY <1>2, <2>1, <2>2, <2>3, <2>4, DeskGone
<1>4. CASE screen \notin Managing!Forgets
  <2>1. net' = Managing!Orphaned(net \ {c}) /\ data' = Null /\ copy' = Null /\ busy' = Null
    BY <1>4 DEF Managing!LoadFails
  <2>2. screen # "services" BY <1>4 DEF Managing!Forgets
  <2> QED BY <1>1, <1>2, <2>1, <2>2, DeskForgets
<1> QED BY <1>3, <1>4

LEMMA DeskTakes ==
  ASSUME DeskInv, NEW c \in net, Managing!Loaded(c)
  PROVE  DeskInv'
<1>1. DeskTypes /\ DeskNumbered /\ sent \in Nat /\ asked \in 0..sent /\ edited \in 0..sent
      /\ soiled \in 0..sent
  BY DEF DeskInv, DeskTypes
<1>2. /\ c \in DeskAnswers /\ c \notin DeskChanges /\ c.id \in 0..sent
      /\ c.value \in [c.path -> DeskValues] /\ c.path \in SUBSET Item /\ c.value \in DeskMaps
  <2>1. c \in DeskAnswers /\ c \notin DeskChanges /\ c.id \in Nat
    BY <1>1, DeskKinds DEF Managing!Loaded, DeskNumbered
  <2> QED BY <1>1, <2>1 DEF DeskNumbered, DeskAnswers
<1>3. /\ data' = [of |-> c.path, value |-> c.value] /\ taken' = c.id /\ net' = net \ {c}
      /\ busy' = (IF screen = "home" THEN Null ELSE busy)
      /\ soiled' = (IF \/ screen = "services" /\ edited > c.id
                       \/ copy # Null /\ soiled > 0
                    THEN sent ELSE soiled)
      /\ UNCHANGED <<screen, stored, path, copy, sent, asked, edited>>
  BY DEF Managing!Loaded
<1>4. /\ DeskCalls' = DeskCalls /\ DeskAnswers' = DeskAnswers /\ DeskChanges' = DeskChanges
      /\ DeskValues' = DeskValues /\ DeskMaps' = DeskMaps /\ Managing!Paths' = Managing!Paths
  BY <1>3, DeskScreen
<1>5. net' \cap DeskChanges = net \cap DeskChanges /\ net' \subseteq net BY <1>2, <1>3
<1>6. data'.of = c.path /\ data'.value = c.value BY <1>3
<1>7. DeskTypes'
  <2>1. data' \in [of : SUBSET Item, value : DeskMaps] BY <1>2, <1>3
  <2>2. busy' \in DeskButtons BY <1>1, <1>3 DEF DeskTypes, DeskButtons
  <2>3. soiled' \in 0..sent BY <1>1, <1>3
  <2> QED BY <1>1, <1>2, <1>3, <1>4, <1>6, <2>1, <2>2, <2>3 DEF DeskTypes
<1>8. DeskNumbered' BY <1>1, <1>3, <1>4, <1>5 DEF DeskNumbered
<1>9. DeskChanging' BY <1>3, <1>4, <1>5 DEF DeskInv, DeskChanging
<1>10. DeskPaths'
  <2>1. c.id <= asked /\ (c.id = asked \/ screen \notin DeskMoves => c.path = path)
    BY <1>2 DEF DeskInv, DeskPaths
  <2> QED BY <1>3, <1>4, <1>5, <1>6, <2>1 DEF DeskInv, DeskPaths
<1>11. CASE soiled' = sent
  BY <1>1, <1>3, <1>7, <1>8, <1>9, <1>10, <1>11, DeskSoiled DEF DeskInv
<1>12. CASE soiled' # sent
  <2>1. /\ soiled' = soiled /\ ~(screen = "services" /\ edited > c.id)
        /\ ~(copy # Null /\ soiled > 0)
    BY <1>3, <1>12
  <2>2. DeskFresh(asked)' <=> DeskFresh(asked) BY <1>3, <2>1 DEF DeskFresh
  <2>3. \A p : Managing!Answer(p)' = Managing!Answer(p) BY <1>3 DEF Managing!Answer
  <2>4. DeskReloads'
    <3> SUFFICES ASSUME screen \notin DeskCards \cup {"services"}, DeskFresh(asked),
                        \A d \in net \cap DeskChanges : d.kind # "done"
                 PROVE  /\ \A d \in net' \cap DeskAnswers :
                             d.id = asked => d.value = Managing!Answer(d.path)
                        /\ taken' = asked => data'.value = Managing!Answer(data'.of)
      BY <1>3, <1>4, <1>5, <2>2 DEF DeskReloads, Managing!Answer
    <3>1. \A d \in net \cap DeskAnswers : d.id = asked => d.value = Managing!Answer(d.path)
      BY DEF DeskInv, DeskReloads
    <3>2. c.id = asked => c.value = Managing!Answer(c.path) BY <1>2, <3>1
    <3> QED BY <1>3, <1>5, <1>6, <3>1, <3>2
  <2>5. DeskOrders'
    <3> SUFFICES ASSUME screen = "services", DeskFresh(asked),
                        \A d \in net \cap DeskChanges : /\ d.kind = "done" => d.edit.op = "put"
                                                        /\ d.kind = "failed" => d.edit.op # "put"
                 PROVE  /\ edited <= asked =>
                             \A d \in net' \cap DeskAnswers : d.id = asked => d.value = stored
                        /\ taken' = asked => DeskPuts' = {} /\ data'.value = stored
      BY <1>3, <1>4, <1>5, <2>2 DEF DeskOrders
    <3>1. edited <= asked => \A d \in net \cap DeskAnswers : d.id = asked => d.value = stored
      BY DEF DeskInv, DeskOrders
    <3>2. taken' = asked => edited <= asked BY <1>1, <1>2, <1>3, <2>1
    <3>3. edited <= asked => DeskPuts' = {}
      BY <1>1, <1>3, <1>4, <1>5, DeskFields DEF DeskPuts, DeskNumbered
    <3> QED BY <1>2, <1>3, <1>5, <1>6, <3>1, <3>2, <3>3
  <2>6. DeskLoaded'
    <3> SUFFICES ASSUME screen \in DeskCards
                 PROVE  /\ \A d \in net' \cap DeskAnswers :
                             DeskFresh(d.id) /\ edited <= d.id => d.value = Managing!Answer(path)
                        /\ DeskFresh(c.id) /\ edited <= c.id => c.value = Managing!Answer(path)
      BY <1>3, <1>4, <1>6, <2>1 DEF DeskLoaded, DeskFresh, Managing!Answer
    <3> QED BY <1>2, <1>5 DEF DeskInv, DeskLoaded
  <2>7. DeskSettings' /\ DeskFeed'
    <3>1. DeskSwitches' = DeskSwitches /\ DeskFeeds' = DeskFeeds
      BY <1>4, <1>5 DEF DeskSwitches, DeskFeeds
    <3>2. copy # Null => DeskFresh(taken) BY <1>1, <2>1 DEF DeskFresh
    <3>3. DeskInOrder' => DeskInOrder BY <1>3, <1>4, <1>5, <3>2 DEF DeskInOrder
    <3> QED BY <1>3, <3>1, <3>3, DeskCardsStay
  <2> QED BY <1>7, <1>8, <1>9, <1>10, <2>4, <2>5, <2>6, <2>7 DEF DeskInv
<1> QED BY <1>11, <1>12

\* A call that has been acted on keeps its number.
LEMMA DeskActs ==
  ASSUME DeskInv, NEW c \in net, NEW d \in DeskCalls, net' = (net \ {c}) \cup {d}, d.id = c.id,
         d \in DeskChanges => c \in DeskChanges /\ d.edit = c.edit /\ d.was = c.was
                                /\ d.mine = c.mine,
         d \notin DeskLoads,
         d \in DeskAnswers => c \in DeskLoads /\ d.path = c.path
                                /\ d.value \in [d.path -> DeskValues],
         UNCHANGED <<screen, path, data, copy, busy, sent, asked, taken, edited>>
  PROVE  DeskNumbered' /\ DeskChanging' /\ DeskPaths'
<1>1. /\ DeskCalls' = DeskCalls /\ DeskAnswers' = DeskAnswers /\ DeskChanges' = DeskChanges
      /\ DeskValues' = DeskValues
  BY DeskScreen
<1>2. DeskTypes /\ DeskNumbered /\ sent \in Nat /\ edited \in Nat /\ asked \in Nat
  BY DEF DeskInv, DeskTypes
<1>3. DeskNumbered'
  <2>1. d.id <= sent' BY <1>2 DEF DeskNumbered
  <2>2. ASSUME d \in DeskChanges
        PROVE  /\ d.id <= edited' /\ d.id # asked'
               /\ \A e \in net' \cap DeskChanges : e.id = d.id => e = d
    <3>1. c \in net \cap DeskChanges BY <2>2
    <3>2. d.id <= edited' /\ d.id # asked' BY <1>2, <3>1 DEF DeskNumbered
    <3>3. \A e \in (net \ {c}) \cap DeskChanges : e.id # d.id BY <1>2, <3>1 DEF DeskNumbered
    <3> QED BY <3>2, <3>3
  <2> QED BY <1>2, <2>1, <2>2, DeskNumbers
<1>4. DeskChanging'
  <2>1. \A e \in net' \cap DeskChanges : \E b \in net \cap DeskChanges :
           e.edit = b.edit /\ e.was = b.was /\ e.mine = b.mine
    OBVIOUS
  <2> QED BY <1>1, <2>1 DEF DeskInv, DeskChanging
<1>5. DeskPaths'
  <2>1. \A e \in net' \cap (DeskLoads \cup DeskAnswers) :
           \E b \in net \cap (DeskLoads \cup DeskAnswers) : e.id = b.id /\ e.path = b.path
    OBVIOUS
  <2> QED BY <1>1, <2>1 DEF DeskInv, DeskPaths
<1> QED BY <1>3, <1>4, <1>5

LEMMA DeskServesLoad ==
  ASSUME DeskInv, NEW c \in net, Managing!ServeLoad(c)
  PROVE  DeskInv'
<1>1. DeskTypes /\ DeskNumbered BY DEF DeskInv
<1>2. c.kind = "load" /\ c \in DeskCalls /\ c \in DeskLoads /\ c \notin DeskChanges
  BY <1>1, DeskKinds DEF Managing!ServeLoad, DeskNumbered
<1>3. c.id \in Nat /\ c.path \in SUBSET Item BY <1>2 DEF DeskLoads
<1>4. PICK d : d = [id |-> c.id, kind |-> "answer", path |-> c.path,
                    value |-> Managing!Answer(c.path)]
  OBVIOUS
<1>5. /\ net' = (net \ {c}) \cup {d}
      /\ UNCHANGED <<screen, stored, path, data, copy, busy, sent, asked, taken, edited, soiled>>
  BY <1>4 DEF Managing!ServeLoad
<1>6. /\ d \in DeskAnswers /\ d.id = c.id /\ d.path = c.path /\ d.kind = "answer"
      /\ d.value = Managing!Answer(d.path) /\ d.value \in [d.path -> DeskValues]
  BY <1>1, <1>3, <1>4, DeskAnswer DEF DeskAnswers
<1>7. d \in DeskCalls /\ d \notin DeskLoads /\ d \notin DeskChanges
  BY <1>6, DeskKinds DEF DeskCalls
<1>8. DeskNumbered' /\ DeskChanging' /\ DeskPaths' BY <1>2, <1>5, <1>6, <1>7, DeskActs
<1>9. /\ DeskCalls' = DeskCalls /\ DeskAnswers' = DeskAnswers /\ DeskChanges' = DeskChanges
      /\ DeskValues' = DeskValues /\ DeskMaps' = DeskMaps /\ Managing!Paths' = Managing!Paths
  BY <1>5, DeskScreen
<1>10. DeskTypes' BY <1>1, <1>5, <1>9 DEF DeskTypes
<1>11. net' \cap DeskChanges = net \cap DeskChanges
       /\ \A e \in net' \cap DeskAnswers : e = d \/ e \in net \cap DeskAnswers
  BY <1>2, <1>5, <1>7
<1>12. screen \notin DeskMoves => c.path = path BY <1>2 DEF DeskInv, DeskPaths
<1>13. DeskReloads'
  <2>1. DeskFresh(asked)' <=> DeskFresh(asked) BY <1>5 DEF DeskFresh
  <2> QED BY <1>5, <1>6, <1>9, <1>11, <2>1 DEF DeskInv, DeskReloads, Managing!Answer
<1>14. DeskOrders'
  <2>1. DeskFresh(asked)' <=> DeskFresh(asked) BY <1>5 DEF DeskFresh
  <2>2. DeskPuts' = DeskPuts BY <1>5, <1>9, <1>11 DEF DeskPuts
  <2>3. screen = "services" => d.value = stored
    <3>1. screen = "services" => c.path = Item
      BY <1>1, <1>12, DeskRanges DEF DeskMoves, DeskTypes
    <3> QED BY <1>1, <1>3, <1>6, <3>1, DeskAnswer
  <2> QED BY <1>5, <1>9, <1>11, <2>1, <2>2, <2>3 DEF DeskInv, DeskOrders
<1>15. DeskLoaded'
  <2>1. screen \in DeskCards => d.value = Managing!Answer(path)
    BY <1>6, <1>12 DEF DeskCards, DeskMoves
  <2>2. DeskFresh(taken)' <=> DeskFresh(taken) BY <1>5 DEF DeskFresh
  <2>3. \A n : DeskFresh(n)' <=> (soiled = 0 \/ n > soiled) BY <1>5 DEF DeskFresh
  <2> QED BY <1>5, <1>9, <1>11, <2>1 DEF DeskInv, DeskLoaded, DeskFresh, Managing!Answer
<1>16. DeskSettings' /\ DeskFeed'
  <2>1. DeskSwitches' = DeskSwitches /\ DeskFeeds' = DeskFeeds
    BY <1>9, <1>11 DEF DeskSwitches, DeskFeeds
  <2>2. DeskFresh(taken)' <=> DeskFresh(taken) BY <1>5 DEF DeskFresh
  <2>3. DeskInOrder' => DeskInOrder BY <1>5, <1>9, <1>11, <2>2 DEF DeskInOrder
  <2> QED BY <1>5, <2>1, <2>3, DeskCardsStay
<1> QED BY <1>8, <1>10, <1>13, <1>14, <1>15, <1>16 DEF DeskInv

\* The switches under way as another set of calls that say the same.
LEMMA DeskAlike ==
  ASSUME NEW S, NEW T, NEW f, NEW g,
         \A c \in T : \E b \in S : c.id = b.id /\ c.edit = b.edit /\ c.was = b.was,
         \A b \in S : \E c \in T : c.id = b.id /\ c.edit = b.edit /\ c.was = b.was,
         S = {} => f = g,
         \A c \in S :
           /\ (\A e \in S : e.id <= c.id) => f = c.edit.value
           /\ (\A e \in S : e.id >= c.id) => c.was = g
           /\ \A e \in S : e.id < c.id /\ (\A b \in S : b.id <= e.id \/ b.id >= c.id)
                             => c.was = e.edit.value
  PROVE  /\ T = {} => f = g
         /\ \A c \in T :
           /\ (\A e \in T : e.id <= c.id) => f = c.edit.value
           /\ (\A e \in T : e.id >= c.id) => c.was = g
           /\ \A e \in T : e.id < c.id /\ (\A b \in T : b.id <= e.id \/ b.id >= c.id)
                             => c.was = e.edit.value
<1>1. T = {} => f = g OBVIOUS
<1>2. ASSUME NEW c \in T, \A e \in T : e.id <= c.id PROVE f = c.edit.value
  <2>1. PICK b \in S : c.id = b.id /\ c.edit = b.edit /\ c.was = b.was OBVIOUS
  <2>2. \A e \in S : e.id <= b.id BY <1>2, <2>1
  <2> QED BY <2>1, <2>2
<1>3. ASSUME NEW c \in T, \A e \in T : e.id >= c.id PROVE c.was = g
  <2>1. PICK b \in S : c.id = b.id /\ c.edit = b.edit /\ c.was = b.was OBVIOUS
  <2>2. \A e \in S : e.id >= b.id BY <1>3, <2>1
  <2> QED BY <2>1, <2>2
<1>4. ASSUME NEW c \in T, NEW e \in T, e.id < c.id, \A b \in T : b.id <= e.id \/ b.id >= c.id
      PROVE  c.was = e.edit.value
  <2>1. PICK b \in S : c.id = b.id /\ c.edit = b.edit /\ c.was = b.was OBVIOUS
  <2>2. PICK h \in S : e.id = h.id /\ e.edit = h.edit /\ e.was = h.was OBVIOUS
  <2>3. \A s \in S : s.id <= h.id \/ s.id >= b.id BY <1>4, <2>1, <2>2
  <2>4. h.id < b.id BY <1>4, <2>1, <2>2
  <2> QED BY <2>1, <2>2, <2>3, <2>4
<1> QED BY <1>1, <1>2, <1>3, <1>4

LEMMA DeskFails ==
  ASSUME DeskInv, NEW c \in net, Managing!Fails(c)
  PROVE  DeskInv'
<1>1. DeskTypes /\ DeskNumbered /\ c \in DeskCalls /\ sent \in Nat BY DEF DeskInv, DeskNumbered, DeskTypes
<1>2. /\ c.kind \in {"edit", "done", "load", "answer"}
      /\ soiled' = (IF c.kind = "done" THEN sent ELSE soiled)
      /\ UNCHANGED <<screen, stored, path, data, copy, busy, sent, asked, taken, edited>>
  BY DEF Managing!Fails
<1>3. /\ DeskCalls' = DeskCalls /\ DeskAnswers' = DeskAnswers /\ DeskChanges' = DeskChanges
      /\ DeskValues' = DeskValues /\ DeskMaps' = DeskMaps /\ Managing!Paths' = Managing!Paths
  BY <1>2, DeskScreen
<1>4. CASE c.kind \in {"load", "answer"}
  <2>1. PICK d : d = [id |-> c.id, kind |-> "broken"] OBVIOUS
  <2>2. c.id \in Nat /\ c.id <= sent /\ c \notin DeskChanges
    BY <1>1, <1>4, DeskKinds DEF DeskNumbered
  <2>3. d \in DeskBroken /\ d.id <= sent BY <2>1, <2>2 DEF DeskBroken
  <2>4. d \notin DeskChanges
    <3>1. d \in DeskCalls /\ d.kind = "broken" BY <2>1, <2>3 DEF DeskCalls
    <3> QED BY <3>1, DeskKinds
  <2>5. net' = (net \ {c}) \cup {d} BY <1>4, <2>1 DEF Managing!Fails
  <2>6. net' \cap DeskChanges = net \cap DeskChanges BY <2>2, <2>4, <2>5
  <2>7. busy' \in DeskButtons BY <1>1, <1>2 DEF DeskTypes
  <2> QED BY <1>2, <1>4, <2>3, <2>5, <2>6, <2>7, DeskGone
<1>5. CASE c.kind \in {"edit", "done"}
  <2>1. c \in DeskChanges /\ c \in net \cap DeskChanges BY <1>1, <1>5, DeskKinds
  <2>2. PICK d : d = [c EXCEPT !.kind = "failed"] OBVIOUS
  <2>3. net' = (net \ {c}) \cup {d} BY <1>5, <2>2 DEF Managing!Fails
  <2>4. /\ d \in DeskChanges /\ d.kind = "failed" /\ d.id = c.id /\ d.edit = c.edit
        /\ d.was = c.was /\ d.mine = c.mine
    BY <2>1, <2>2, DeskChanged
  <2>5. d \in DeskCalls /\ d \notin DeskLoads \cup DeskAnswers
    BY <2>4, DeskKinds DEF DeskCalls
  <2>6. DeskNumbered' /\ DeskChanging' /\ DeskPaths'
    BY <1>2, <2>1, <2>3, <2>4, <2>5, DeskActs
  <2>7. DeskTypes'
    <3>1. soiled' \in 0..sent BY <1>1, <1>2 DEF DeskTypes
    <3> QED BY <1>1, <1>2, <1>3, <3>1 DEF DeskTypes
  <2>8. CASE c.kind = "done"
    BY <1>1, <1>2, <2>6, <2>7, <2>8, DeskSoiled DEF DeskInv
  <2>9. CASE c.kind = "edit"
    <3>1. soiled' = soiled BY <1>2, <2>9
    <3>2. net' \cap DeskAnswers \subseteq net BY <2>3, <2>5
    <3>3. DeskReloads' /\ DeskLoaded'
      <4>1. \A e \in net \cap DeskChanges : e.kind = "done" =>
              \E b \in net' \cap DeskChanges : b.kind = "done"
        BY <2>3, <2>9
      <4> QED BY <1>2, <3>1, <3>2, <4>1, DeskLoadsStay
    <3>4. DeskOrders'
      <4> SUFFICES ASSUME screen = "services", DeskFresh(asked)', 
                          \A e \in net' \cap DeskChanges : /\ e.kind = "done" => e.edit.op = "put"
                                                           /\ e.kind = "failed" => e.edit.op # "put"
                   PROVE  DeskOrders'
        BY <1>2, <1>3 DEF DeskOrders
      <4>1. c.edit.op # "put" BY <2>3, <2>4
      <4>2. DeskPuts' = DeskPuts BY <1>2, <1>3, <2>3, <2>4, <4>1 DEF DeskPuts
      <4>3. DeskFresh(asked) BY <1>2, <3>1 DEF DeskFresh
      <4>4. \A e \in net \cap DeskChanges : /\ e.kind = "done" => e.edit.op = "put"
                                            /\ e.kind = "failed" => e.edit.op # "put"
        BY <2>3, <2>9
      <4> QED BY <1>2, <1>3, <3>2, <4>2, <4>3, <4>4 DEF DeskInv, DeskOrders
    <3>5. DeskInOrder' => DeskInOrder
      <4>1. DeskFresh(taken)' <=> DeskFresh(taken) BY <1>2, <3>1 DEF DeskFresh
      <4> QED BY <1>2, <1>3, <2>3, <2>9, <4>1 DEF DeskInOrder
    <3>6. DeskSettings'
      <4> SUFFICES ASSUME screen \in DeskEditors, DeskInOrder' PROVE DeskSettings'
        BY <1>2 DEF DeskSettings
      <4>1. DeskInOrder /\ screen \in DeskEditors BY <1>2, <3>5
      <4>2. \A e \in DeskSwitches' : \E b \in DeskSwitches :
              e.id = b.id /\ e.edit = b.edit /\ e.was = b.was
        <5>1. ASSUME NEW e \in DeskSwitches' PROVE e \in DeskSwitches \/ (e = d /\ c \in DeskSwitches)
          BY <1>3, <2>1, <2>3, <2>4, <2>9 DEF DeskSwitches
        <5> QED BY <2>4, <5>1
      <4>3. \A b \in DeskSwitches : \E e \in DeskSwitches' :
              e.id = b.id /\ e.edit = b.edit /\ e.was = b.was
        <5>1. ASSUME NEW b \in DeskSwitches PROVE b \in DeskSwitches' \/ (b = c /\ d \in DeskSwitches')
          BY <1>3, <2>1, <2>3, <2>4, <2>9 DEF DeskSwitches
        <5> QED BY <2>4, <5>1
      <4>4. PICK T : T = DeskSwitches' OBVIOUS
      <4>5. /\ DeskSwitches = {} => copy = stored
            /\ \A e \in DeskSwitches :
                 /\ (\A b \in DeskSwitches : b.id <= e.id) => copy = e.edit.value
                 /\ (\A b \in DeskSwitches : b.id >= e.id) => e.was = stored
                 /\ \A b \in DeskSwitches :
                      b.id < e.id /\ (\A h \in DeskSwitches : h.id <= b.id \/ h.id >= e.id)
                        => e.was = b.edit.value
        BY <4>1 DEF DeskInv, DeskSettings
      <4>6. /\ T = {} => copy = stored
            /\ \A e \in T :
                 /\ (\A b \in T : b.id <= e.id) => copy = e.edit.value
                 /\ (\A b \in T : b.id >= e.id) => e.was = stored
                 /\ \A b \in T : b.id < e.id /\ (\A h \in T : h.id <= b.id \/ h.id >= e.id)
                                   => e.was = b.edit.value
        BY <4>2, <4>3, <4>4, <4>5, DeskAlike
      <4> QED BY <1>2, <4>4, <4>6 DEF DeskSettings
    <3>7. DeskFeed'
      <4> SUFFICES ASSUME screen = "feed", DeskInOrder' PROVE DeskFeed' BY <1>2 DEF DeskFeed
      <4>1. DeskInOrder /\ screen = "feed" BY <1>2, <3>5
      <4>2. DeskFeeds' = DeskFeeds BY <1>3, <2>1, <2>3, <2>4, <2>9 DEF DeskFeeds
      <4>3. Managing!Answer(path)' = Managing!Answer(path) BY <1>2 DEF Managing!Answer
      <4> QED BY <1>2, <4>1, <4>2, <4>3 DEF DeskInv, DeskFeed
    <3> QED BY <2>6, <2>7, <3>3, <3>4, <3>6, <3>7 DEF DeskInv
  <2> QED BY <1>5, <2>8, <2>9
<1> QED BY <1>2, <1>4, <1>5

LEMMA DeskHighest ==
  ASSUME NEW f \in [Item -> Nat], Item # {}
  PROVE  Managing!Max(Managing!Range(f)) \in Nat
<1>1. PICK i \in Item : \A j \in Item : f[j] <= f[i] BY Highest, DeskAssumption
<1>2. PICK R : R = {f[j] : j \in Item} OBVIOUS
<1>3. R \subseteq Nat /\ f[i] \in R /\ \A y \in R : f[i] >= y BY <1>1, <1>2
<1>4. Managing!Range(f) = R BY <1>2 DEF Managing!Range
<1>5. Managing!Max(R) \in R BY <1>3 DEF Managing!Max
<1> QED BY <1>3, <1>4, <1>5

\* What a change leaves stored.
LEMMA DeskApplied ==
  ASSUME DeskTypes, NEW e \in DeskEdits, e.op = "append" => screen = "services"
  PROVE  /\ Managing!Applied(e) \in [Item -> DeskValues]
         /\ e.op = "touch" => Managing!Applied(e) = stored
         /\ e.op = "set" => Managing!Applied(e)[e.item] = e.number
         /\ e.op = "put" => \A i \in Item : Managing!Applied(e)[i] =
              IF screen = "services" /\ e.value[i] = 0 THEN stored[i] ELSE e.value[i]
<1>1. stored \in [Item -> DeskValues] BY DEF DeskTypes
<1>2. CASE e.op = "set"
  <2>1. Managing!Applied(e) = [stored EXCEPT ![e.item] = e.number] BY <1>2 DEF Managing!Applied
  <2>2. e.item \in Item /\ e.number \in DeskValues BY <1>2, DeskOps
  <2> QED BY <1>1, <1>2, <2>1, <2>2
<1>3. CASE e.op = "put"
  <2>1. Managing!Applied(e) = [i \in Item |-> IF screen = "services" /\ e.value[i] = 0
                                              THEN stored[i] ELSE e.value[i]]
    BY <1>3 DEF Managing!Applied
  <2>2. e.value \in [Item -> DeskValues] BY <1>3, DeskOps
  <2> QED BY <1>1, <1>3, <2>1, <2>2
<1>4. CASE e.op = "append"
  <2>1. Managing!Applied(e) = [stored EXCEPT ![e.item] = 1 + Managing!Max(Managing!Range(stored))]
    BY <1>4 DEF Managing!Applied
  <2>2. e.item \in Item /\ DeskValues = Nat BY <1>4, DeskOps DEF DeskValues
  <2>3. Managing!Max(Managing!Range(stored)) \in Nat BY <1>1, <2>2, DeskHighest
  <2>4. PICK n \in Nat : n = 1 + Managing!Max(Managing!Range(stored)) BY <2>3
  <2> QED BY <1>1, <1>4, <2>1, <2>2, <2>4
<1>5. CASE e.op = "touch"
  <2>1. Managing!Applied(e) = stored BY <1>5 DEF Managing!Applied
  <2> QED BY <1>1, <1>5, <2>1
<1> QED BY <1>2, <1>3, <1>4, <1>5, DeskOps

\* A change is made in its turn.
LEMMA DeskServesInTurn ==
  ASSUME DeskInv, NEW c \in net \cap DeskChanges, NEW d \in DeskChanges, c.kind = "edit",
         d.kind = "done", d.id = c.id, d.edit = c.edit, d.was = c.was, d.mine = c.mine,
         net' = (net \ {c}) \cup {d}, net' \cap DeskAnswers = net \cap DeskAnswers,
         Managing!Permitted(c.edit), stored' = Managing!Applied(c.edit), ~Managing!Soil(c),
         UNCHANGED <<screen, path, data, copy, busy, sent, asked, taken, edited, soiled>>
  PROVE  DeskReloads' /\ DeskOrders' /\ DeskLoaded' /\ DeskSettings' /\ DeskFeed'
<1>1. DeskTypes /\ DeskNumbered /\ sent \in Nat /\ asked \in 0..sent /\ edited \in 0..sent
      /\ taken \in 0..sent
  BY DEF DeskInv, DeskTypes
<1>2. DeskAnswers' = DeskAnswers /\ DeskChanges' = DeskChanges BY DeskScreen
<1>3. /\ c.edit \in DeskEdits /\ c.id \in Nat /\ c.mine \in BOOLEAN
      /\ c.edit.op = "append" => screen = "services"
  BY DeskFields DEF DeskInv, DeskChanging
<1>4. DeskFresh(asked)' = DeskFresh(asked) /\ DeskFresh(taken)' = DeskFresh(taken) BY DEF DeskFresh
<1>5. screen \in DeskCards \cup {"services"} =>
        /\ c.mine = TRUE /\ c.id > asked
        /\ \A e \in net \cap DeskChanges : e.kind = "edit" /\ e # c => e.id > c.id
  <2> SUFFICES ASSUME screen \in DeskCards \cup {"services"}
               PROVE  /\ c.mine = TRUE /\ c.id > asked
                      /\ \A e \in net \cap DeskChanges : e.kind = "edit" /\ e # c => e.id > c.id
    OBVIOUS
  <2>1. c.mine /\ ~(asked > c.id) /\ \A e \in net : ~(e.kind = "edit" /\ e.id < c.id)
    BY DEF Managing!Soil, Managing!Overtaken, Managing!Cards, Managing!Copying, DeskCards
  <2>2. c.id # asked /\ \A e \in net \cap DeskChanges : e # c => e.id # c.id
    BY <1>1 DEF DeskNumbered
  <2>3. \A e \in net \cap DeskChanges : e.id \in Nat BY DeskFields
  <2> QED BY <1>1, <1>3, <2>1, <2>2, <2>3
<1>6. c.id <= edited BY <1>1 DEF DeskNumbered
<1>7. DeskReloads'
  BY <1>2 DEF DeskReloads
<1>8. DeskOrders'
  <2> SUFFICES ASSUME screen = "services", DeskFresh(asked), data # Null, taken = asked,
                      \A e \in net' \cap DeskChanges : /\ e.kind = "done" => e.edit.op = "put"
                                                       /\ e.kind = "failed" => e.edit.op # "put"
               PROVE  /\ \A i \in Item : data.value[i] = 0 <=> stored'[i] = 0
                      /\ \A e \in DeskPuts' : (\A b \in DeskPuts' : b.id <= e.id)
                                                => data.value = e.edit.value
                      /\ DeskPuts' = {} => data.value = stored'
    <3>1. screen = "services" => ~(edited <= asked) BY <1>1, <1>3, <1>5, <1>6
    <3> QED BY <1>2, <1>4, <3>1 DEF DeskOrders
  <2>1. c.edit.op = "put" OBVIOUS
  <2>2. \A e \in net \cap DeskChanges : /\ e.kind = "done" => e.edit.op = "put"
                                        /\ e.kind = "failed" => e.edit.op # "put"
    OBVIOUS
  <2>3. /\ \A i \in Item : data.value[i] = 0 <=> stored[i] = 0
        /\ \A e \in DeskPuts : (\A b \in DeskPuts : b.id <= e.id) => data.value = e.edit.value
    BY <2>2 DEF DeskInv, DeskOrders
  <2>4. DeskPuts' = DeskPuts \ {c} BY <1>2 DEF DeskPuts
  <2>5. c \in DeskPuts /\ \A e \in DeskPuts \ {c} : e.id > c.id
    BY <1>5, <2>1 DEF DeskPuts
  <2>6. PICK v \in [Item -> DeskValues] : v = c.edit.value BY <1>3, <2>1, DeskOps
  <2>7. \A i \in Item : v[i] # 0 => stored[i] # 0
    BY <2>1, <2>6 DEF Managing!Permitted
  <2>8. \A i \in Item : stored'[i] = IF v[i] = 0 THEN stored[i] ELSE v[i]
    BY <1>1, <1>3, <2>1, <2>6, DeskApplied
  <2>9. \A i \in Item : stored'[i] = 0 <=> stored[i] = 0 BY <2>7, <2>8
  <2>10. ASSUME NEW e \in DeskPuts', \A b \in DeskPuts' : b.id <= e.id
         PROVE  data.value = e.edit.value
    <3>1. e \in DeskPuts /\ e.id > c.id BY <2>4, <2>5, <2>10
    <3>2. e.id \in Nat BY <3>1, DeskFields DEF DeskPuts
    <3>3. \A b \in DeskPuts : b.id <= e.id BY <1>3, <2>4, <2>10, <3>1, <3>2
    <3> QED BY <2>3, <3>1, <3>3
  <2>11. ASSUME DeskPuts' = {} PROVE data.value = stored'
    <3>1. DeskPuts = {c} BY <2>4, <2>5, <2>11
    <3>2. data.value = v BY <1>3, <2>3, <2>6, <3>1
    <3>3. \A i \in Item : stored'[i] = v[i] BY <2>3, <2>7, <2>8, <3>2
    <3>4. stored' \in [Item -> DeskValues] BY <1>1, <1>3, DeskApplied
    <3> QED BY <3>2, <3>3, <3>4
  <2> QED BY <2>3, <2>9, <2>10, <2>11
<1>9. DeskLoaded'
  <2> SUFFICES ASSUME screen \in DeskCards
               PROVE  ~(edited <= taken) /\ \A a \in net \cap DeskAnswers : ~(edited <= a.id)
    BY <1>2 DEF DeskLoaded
  <2>1. edited > asked BY <1>1, <1>3, <1>5, <1>6
  <2>2. taken <= asked /\ \A a \in net \cap DeskAnswers : a.id <= asked
    BY DEF DeskInv, DeskPaths
  <2>3. \A a \in DeskAnswers : a.id \in Nat BY DEF DeskAnswers
  <2> QED BY <1>1, <2>1, <2>2, <2>3
<1>10. DeskInOrder' => DeskInOrder
  BY <1>2, <1>4 DEF DeskInOrder
<1>11. DeskSettings'
  <2> SUFFICES ASSUME screen \in DeskEditors, DeskInOrder' PROVE DeskSettings' BY DEF DeskSettings
  <2>1. DeskInOrder BY <1>10
  <2>2. c.mine = TRUE /\ c.edit.op \in {"put", "touch"}
    BY <1>5 DEF DeskInv, DeskChanging, DeskCards, DeskEditors
  <2>3. /\ DeskSwitches = {} => copy = stored
        /\ \A e \in DeskSwitches :
              /\ (\A s \in DeskSwitches : s.id <= e.id) => copy = e.edit.value
              /\ (\A s \in DeskSwitches : s.id >= e.id) => e.was = stored
              /\ \A s \in DeskSwitches :
                    s.id < e.id /\ (\A t \in DeskSwitches : t.id <= s.id \/ t.id >= e.id)
                      => e.was = s.edit.value
    BY <2>1 DEF DeskInv, DeskSettings
  <2>4. CASE c.edit.op = "touch"
    <3>1. stored' = stored BY <1>1, <1>3, <2>4, DeskApplied
    <3>2. DeskSwitches' = DeskSwitches BY <1>2, <2>4 DEF DeskSwitches
    <3> QED BY <2>3, <3>1, <3>2 DEF DeskSettings
  <2>5. CASE c.edit.op = "put"
    <3>1. DeskSwitches' = DeskSwitches \ {c} BY <1>2 DEF DeskSwitches
    <3>2. c \in DeskSwitches BY <2>2, <2>5 DEF DeskSwitches
    <3>3. ASSUME NEW e \in DeskSwitches \ {c} PROVE e.id > c.id /\ e.id \in Nat
      <4>1. e \in net \cap DeskChanges /\ e.kind \in {"edit", "failed"} /\ e # c /\ e.id \in Nat
        BY DeskFields DEF DeskSwitches
      <4>2. e.kind = "failed" => e.id >= edited BY <2>1, <4>1 DEF DeskInOrder
      <4>3. e.id # c.id BY <1>1, <4>1 DEF DeskNumbered
      <4>4. e.kind = "edit" => e.id > c.id BY <1>5, <4>1 DEF DeskCards, DeskEditors
      <4> QED BY <1>1, <1>3, <1>6, <4>1, <4>2, <4>3, <4>4
    <3>4. stored' = c.edit.value
      <4>1. \A i \in Item : stored'[i] = c.edit.value[i] 
        BY <1>1, <1>3, <2>5, DeskApplied DEF DeskEditors
      <4>2. c.edit.value \in [Item -> DeskValues] BY <1>3, <2>5, DeskOps
      <4>3. stored' \in [Item -> DeskValues] BY <1>1, <1>3, DeskApplied
      <4> QED BY <4>1, <4>2, <4>3
    <3>5. DeskSwitches \ {c} = {} => copy = c.edit.value
      BY <1>3, <2>3, <3>2
    <3>6. ASSUME NEW e \in DeskSwitches \ {c}
          PROVE  /\ (\A s \in DeskSwitches \ {c} : s.id <= e.id) => copy = e.edit.value
                 /\ (\A s \in DeskSwitches \ {c} : s.id >= e.id) => e.was = c.edit.value
                 /\ \A s \in DeskSwitches \ {c} :
                      s.id < e.id /\ (\A t \in DeskSwitches \ {c} : t.id <= s.id \/ t.id >= e.id)
                        => e.was = s.edit.value
      <4>1. e.id > c.id /\ e.id \in Nat BY <3>3
      <4>2. (\A s \in DeskSwitches \ {c} : s.id <= e.id) => copy = e.edit.value
        BY <1>3, <2>3, <4>1
      <4>3. (\A s \in DeskSwitches \ {c} : s.id >= e.id) => e.was = c.edit.value
        <5> SUFFICES ASSUME \A s \in DeskSwitches \ {c} : s.id >= e.id
                     PROVE  e.was = c.edit.value
          OBVIOUS
        <5>1. \A t \in DeskSwitches : t.id <= c.id \/ t.id >= e.id BY <1>3
        <5> QED BY <1>3, <2>3, <3>2, <4>1, <5>1
      <4>4. ASSUME NEW s \in DeskSwitches \ {c}, s.id < e.id,
                   \A t \in DeskSwitches \ {c} : t.id <= s.id \/ t.id >= e.id
            PROVE  e.was = s.edit.value
        <5>1. s.id > c.id /\ s.id \in Nat BY <3>3
        <5>2. \A t \in DeskSwitches : t.id <= s.id \/ t.id >= e.id BY <1>3, <4>4, <5>1
        <5> QED BY <2>3, <4>4, <5>2
      <4> QED BY <4>2, <4>3, <4>4
    <3> QED BY <3>1, <3>4, <3>5, <3>6 DEF DeskSettings
  <2> QED BY <2>2, <2>4, <2>5
<1>12. DeskFeed'
  <2> SUFFICES ASSUME screen = "feed", DeskInOrder' PROVE DeskFeed' BY DEF DeskFeed
  <2>1. DeskInOrder BY <1>10
  <2>2. c.mine = TRUE /\ c.edit.op \in {"set", "touch"}
    BY <1>5 DEF DeskInv, DeskChanging, DeskCards
  <2>3. /\ DeskFeeds = {} => copy = Managing!Answer(path)
        /\ \A e \in DeskFeeds : stored[e.edit.item] = e.edit.number
    BY <2>1 DEF DeskInv, DeskFeed
  <2>4. CASE c.edit.op = "touch"
    <3>1. stored' = stored BY <1>1, <1>3, <2>4, DeskApplied
    <3>2. DeskFeeds' = DeskFeeds BY <1>2, <2>4 DEF DeskFeeds
    <3>3. Managing!Answer(path)' = Managing!Answer(path) BY <3>1 DEF Managing!Answer
    <3> QED BY <2>3, <3>1, <3>2, <3>3 DEF DeskFeed
  <2>5. CASE c.edit.op = "set"
    <3>1. d.id >= edited BY <1>2 DEF DeskInOrder
    <3>2. c.id = edited BY <1>1, <1>3, <1>6, <3>1
    <3>3. DeskFeeds = {}
      <4>1. ASSUME NEW e \in DeskFeeds PROVE FALSE
        <5>1. e \in net \cap DeskChanges /\ e.kind = "done" /\ e.id \in Nat
          BY DeskFields DEF DeskFeeds
        <5>2. e.id >= edited /\ e.id <= edited BY <1>1, <2>1, <5>1 DEF DeskInOrder, DeskNumbered
        <5>3. e.id = c.id BY <1>1, <3>2, <5>1, <5>2
        <5>4. e = c BY <1>1, <5>1, <5>3 DEF DeskNumbered
        <5> QED BY <5>1, <5>4
      <4> QED BY <4>1
    <3>4. DeskFeeds' = {d} BY <1>2, <2>2, <2>5, <3>3 DEF DeskFeeds
    <3>5. stored'[d.edit.item] = d.edit.number BY <1>1, <1>3, <2>5, DeskApplied
    <3> QED BY <3>4, <3>5 DEF DeskFeed
  <2> QED BY <2>2, <2>4, <2>5
<1> QED BY <1>7, <1>8, <1>9, <1>11, <1>12

LEMMA DeskServes ==
  ASSUME DeskInv, NEW c \in net, Managing!Serve(c)
  PROVE  DeskInv'
<1>1. DeskTypes /\ DeskNumbered /\ c \in DeskCalls /\ sent \in Nat
  BY DEF DeskInv, DeskNumbered, DeskTypes
<1>2. /\ c.kind = "edit" /\ Managing!Permitted(c.edit) /\ stored' = Managing!Applied(c.edit)
      /\ soiled' = (IF Managing!Soil(c) THEN sent ELSE soiled)
      /\ UNCHANGED <<screen, path, data, copy, busy, sent, asked, taken, edited>>
  BY DEF Managing!Serve
<1>3. c \in net \cap DeskChanges /\ c.edit \in DeskEdits
      /\ (c.edit.op = "append" => screen = "services")
  <2>1. c \in net \cap DeskChanges BY <1>1, <1>2, DeskKinds
  <2> QED BY <2>1, DeskFields DEF DeskInv, DeskChanging
<1>4. PICK d : d = [c EXCEPT !.kind = "done"] OBVIOUS
<1>5. net' = (net \ {c}) \cup {d} BY <1>4 DEF Managing!Serve
<1>6. /\ d \in DeskChanges /\ d.kind = "done" /\ d.id = c.id /\ d.edit = c.edit
      /\ d.was = c.was /\ d.mine = c.mine
  BY <1>3, <1>4, DeskChanged
<1>7. d \in DeskCalls /\ d \notin DeskLoads \cup DeskAnswers
  BY <1>6, DeskKinds DEF DeskCalls
<1>8. DeskNumbered' /\ DeskChanging' /\ DeskPaths'
  BY <1>2, <1>3, <1>5, <1>6, <1>7, DeskActs
<1>9. DeskTypes'
  <2>1. soiled' \in 0..sent BY <1>1, <1>2 DEF DeskTypes
  <2>2. stored' \in [Item -> DeskValues] BY <1>1, <1>2, <1>3, DeskApplied
  <2>3. DeskValues' = DeskValues /\ DeskMaps' = DeskMaps /\ Managing!Paths' = Managing!Paths
    BY <1>2, DeskScreen
  <2> QED BY <1>1, <1>2, <2>1, <2>2, <2>3 DEF DeskTypes
<1>10. CASE Managing!Soil(c)
  BY <1>1, <1>2, <1>8, <1>9, <1>10, DeskSoiled DEF DeskInv
<1>11. CASE ~Managing!Soil(c)
  <2>1. net' \cap DeskAnswers = net \cap DeskAnswers
    <3>1. c \notin DeskAnswers BY <1>1, <1>2, DeskKinds
    <3> QED BY <1>5, <1>7, <3>1
  <2>2. soiled' = soiled BY <1>2, <1>11
  <2>3. DeskReloads' /\ DeskOrders' /\ DeskLoaded' /\ DeskSettings' /\ DeskFeed'
    BY <1>2, <1>3, <1>5, <1>6, <1>11, <2>1, <2>2, DeskServesInTurn
  <2> QED BY <1>8, <1>9, <2>3 DEF DeskInv
<1> QED BY <1>10, <1>11

\* A change is answered and nothing is loaded for it.
LEMMA DeskEnds ==
  ASSUME DeskInv, NEW c \in net \cap DeskChanges, net' = net \ {c},
         c.kind = "done" => screen \in DeskCards \cup {"services"},
         copy' = Null => copy = Null, copy' = Null \/ copy' \in [path -> DeskValues],
         screen \notin DeskCards => copy' = Null,
         soiled' \in {soiled, sent}, busy' \in DeskButtons,
         UNCHANGED <<screen, stored, path, data, sent, asked, taken, edited>>,
         DeskOrders', DeskSettings', DeskFeed'
  PROVE  DeskInv'
<1>1. /\ DeskCalls' = DeskCalls /\ DeskAnswers' = DeskAnswers /\ DeskChanges' = DeskChanges
      /\ DeskValues' = DeskValues /\ DeskMaps' = DeskMaps /\ Managing!Paths' = Managing!Paths
  BY DeskScreen
<1>2. DeskTypes /\ DeskNumbered BY DEF DeskInv
<1>3. DeskTypes'
  <2>1. soiled' \in 0..sent BY <1>2 DEF DeskTypes
  <2> QED BY <1>1, <1>2, <2>1 DEF DeskTypes
<1>4. DeskNumbered' BY <1>1, <1>2 DEF DeskNumbered
<1>5. DeskChanging' BY <1>1 DEF DeskInv, DeskChanging
<1>6. DeskPaths' BY <1>1 DEF DeskInv, DeskPaths
<1>7. DeskReloads' /\ DeskLoaded'
  <2>1. screen \in DeskCards \cup {"services"}
           \/ \A e \in net \cap DeskChanges : e.kind = "done" =>
                \E d \in net' \cap DeskChanges : d.kind = "done"
    OBVIOUS
  <2>2. net' \cap DeskAnswers \subseteq net OBVIOUS
  <2> QED BY <2>1, <2>2, DeskLoadsStay
<1> QED BY <1>3, <1>4, <1>5, <1>6, <1>7 DEF DeskInv

\* The list of services goes by orders that are not refused.
LEMMA DeskListStays ==
  ASSUME DeskInv, NEW c \in net \cap DeskChanges, net' = net \ {c},
         screen = "services" => /\ soiled' = soiled
                                /\ c.kind = "done" => c.edit.op = "put"
                                /\ c.kind = "failed" => c.edit.op # "put"
                                /\ c.kind # "edit",
         UNCHANGED <<screen, stored, data, asked, taken, edited>>
  PROVE  DeskOrders'
<1> SUFFICES ASSUME screen = "services" PROVE DeskOrders' BY DEF DeskOrders
<1>1. DeskAnswers' = DeskAnswers /\ DeskChanges' = DeskChanges BY DeskScreen
<1>2. DeskFresh(asked)' = DeskFresh(asked) BY DEF DeskFresh
<1>3. DeskPuts' = DeskPuts BY <1>1 DEF DeskPuts
<1>4. (\A e \in net' \cap DeskChanges : /\ e.kind = "done" => e.edit.op = "put"
                                        /\ e.kind = "failed" => e.edit.op # "put")
      => \A e \in net \cap DeskChanges : /\ e.kind = "done" => e.edit.op = "put"
                                         /\ e.kind = "failed" => e.edit.op # "put"
  OBVIOUS
<1> QED BY <1>1, <1>2, <1>3, <1>4 DEF DeskInv, DeskOrders

LEMMA DeskDone ==
  ASSUME DeskInv, NEW c \in net, Managing!Done(c)
  PROVE  DeskInv'
<1>1. DeskTypes /\ DeskNumbered /\ c \in DeskCalls /\ sent \in Nat /\ edited \in 0..sent
  BY DEF DeskInv, DeskNumbered, DeskTypes
<1>2. /\ c.kind = "done" /\ busy' = Managing!Released(c)
      /\ soiled' = (IF screen = "feed" /\ edited > c.id THEN sent ELSE soiled)
      /\ copy' = (IF screen = "feed" /\ c.mine /\ c.edit.op = "set"
                  THEN [copy EXCEPT ![c.edit.item] = c.edit.number] ELSE copy)
      /\ UNCHANGED <<screen, stored, path, data, taken, edited>>
  BY DEF Managing!Done
<1>3. c \in net \cap DeskChanges /\ c.edit \in DeskEdits /\ c.id \in Nat /\ c.id <= edited
  <2>1. c \in net \cap DeskChanges BY <1>1, <1>2, DeskKinds
  <2> QED BY <1>1, <2>1, DeskFields DEF DeskNumbered
<1>4. DeskChanges' = DeskChanges /\ DeskAnswers' = DeskAnswers BY <1>2, DeskScreen
<1>5. busy' \in DeskButtons BY <1>1, <1>2 DEF DeskTypes, DeskButtons, Managing!Released
<1>6. soiled' \in {soiled, sent} BY <1>2
<1>7. copy = Null => copy' = Null
  <2>1. screen = "feed" /\ c.mine /\ copy = Null => c.edit.op = "touch"
    BY <1>3 DEF DeskInv, DeskChanging, DeskCards
  <2> QED BY <1>2, <2>1
<1>8. net' \cap DeskChanges = (net \cap DeskChanges) \ {c} => (DeskInOrder' => DeskInOrder)
  <2>1. (c.kind = "failed" \/ (screen = "feed" /\ c.kind = "done")) /\ edited > c.id
           => soiled' = sent
    BY <1>2
  <2> QED BY <1>2, <1>3, <1>6, <1>7, <2>1, DeskOrderly
<1>9. CASE Managing!Reloads(c)
  <2>1. Managing!Load(path, net \ {c}) BY <1>9 DEF Managing!Done
  <2>2. /\ screen \in {"settings", "feed"} => c.edit.op = "touch"
        /\ screen \in DeskCards => c.edit.op \in {"touch", "put"}
    BY <1>3, <1>9 DEF Managing!Reloads, Managing!Cards, DeskCards, DeskEditors, DeskInv, DeskChanging
  <2>3. copy' = copy BY <1>2, <2>2 DEF DeskCards
  <2>4. net' \cap DeskChanges = (net \cap DeskChanges) \ {c}
    <3>1. PICK d : d = [id |-> sent + 1, kind |-> "load", path |-> path] OBVIOUS
    <3>2. net' = (net \ {c}) \cup {d} BY <2>1, <3>1 DEF Managing!Load
    <3>3. d.kind = "load" BY <3>1
    <3>4. d \notin DeskChanges BY <3>3, DeskFields
    <3> QED BY <3>2, <3>4
  <2>5. path \in Managing!Paths BY <1>1 DEF DeskTypes
  <2>6. \A e \in (net \ (net \ {c})) \cap DeskChanges :
          screen \in DeskCards => e.edit.op = "touch" \/ (e.edit.op = "put" /\ e.kind = "done")
    BY <1>2, <2>2
  <2>7. PICK p \in Managing!Paths : p = path BY <2>5
  <2>8. DeskInOrder' => DeskInOrder BY <1>8, <2>4
  <2> QED BY <1>2, <1>5, <1>6, <2>1, <2>3, <2>6, <2>7, <2>8, DeskAsks
<1>10. CASE ~Managing!Reloads(c)
  <2>1. net' = net \ {c} /\ UNCHANGED <<sent, asked>> BY <1>10 DEF Managing!Done
  <2>2. /\ screen \in DeskCards \cup {"services"} /\ screen # "hours"
        /\ screen = "services" => c.edit.op = "put"
        /\ screen = "feed" => c.edit.op = "set" /\ c.edit.item \in path
    <3>1. screen \in DeskCards \cup {"services"} /\ screen # "hours"
      BY <1>10 DEF Managing!Reloads, Managing!Cards, DeskCards
    <3>2. screen = "services" => c.edit.op = "put"
      BY <1>10 DEF Managing!Reloads, Managing!Cards
    <3>3. screen = "feed" => c.edit.op # "touch"
      BY <1>10 DEF Managing!Reloads, Managing!Cards
    <3> QED BY <1>3, <3>1, <3>2, <3>3 DEF DeskInv, DeskChanging
  <2>3. DeskOrders' BY <1>2, <1>3, <2>1, <2>2, DeskListStays
  <2>4. DeskInOrder' => DeskInOrder BY <1>8, <2>1
  <2>5. CASE screen = "feed" /\ c.mine
    <3>1. copy' = [copy EXCEPT ![c.edit.item] = c.edit.number] BY <1>2, <2>2, <2>5
    <3>2. c.edit.item \in Item /\ c.edit.number \in DeskValues /\ path = {c.edit.item}
      <4>1. c.edit.item \in Item /\ c.edit.number \in DeskValues BY <1>3, <2>2, <2>5, DeskOps
      <4>2. \E i \in Item : path = {i} BY <1>1, <2>5 DEF DeskTypes, Managing!Paths
      <4> QED BY <2>2, <2>5, <4>1, <4>2
    <3>3. copy \in [path -> DeskValues] /\ copy # Null
      <4>1. copy # Null BY <1>3, <2>2, <2>5 DEF DeskInv, DeskChanging, DeskCards
      <4> QED BY <1>1, <4>1 DEF DeskTypes
    <3>4. copy' \in [path -> DeskValues] BY <3>1, <3>2, <3>3
    <3>5. copy' # Null BY <3>2, <3>4, DeskRanges
    <3>6. DeskFeed'
      <4> SUFFICES ASSUME DeskInOrder' PROVE DeskFeed' BY DEF DeskFeed
      <4>1. DeskInOrder BY <2>4
      <4>2. c \in DeskFeeds BY <1>2, <1>3, <2>2, <2>5 DEF DeskFeeds
      <4>3. stored[c.edit.item] = c.edit.number BY <2>5, <4>1, <4>2 DEF DeskInv, DeskFeed
      <4>4. ASSUME NEW e \in DeskFeeds' PROVE FALSE
        <5>1. e \in net \cap DeskChanges /\ e.kind = "done" /\ e # c /\ e.id \in Nat
          BY <1>4, <2>1, DeskFields DEF DeskFeeds
        <5>2. e.id >= edited /\ c.id >= edited BY <1>2, <1>3, <2>5, <4>1, <5>1 DEF DeskInOrder
        <5>3. e.id <= edited BY <1>1, <5>1 DEF DeskNumbered
        <5>4. e.id = c.id BY <1>1, <1>3, <5>1, <5>2, <5>3
        <5> QED BY <1>1, <1>3, <5>1, <5>4 DEF DeskNumbered
      <4>5. Managing!Answer(path) = [i \in path |-> stored[i]]
        BY DEF Managing!Answer, Managing!Restrict
      <4>6. copy' = Managing!Answer(path) BY <3>1, <3>2, <3>3, <4>3, <4>5
      <4>7. Managing!Answer(path)' = Managing!Answer(path) BY <1>2 DEF Managing!Answer
      <4> QED BY <4>4, <4>6, <4>7 DEF DeskFeed
    <3>7. DeskSettings' BY <1>2, <2>5 DEF DeskSettings, DeskEditors
    <3> QED BY <1>2, <1>3, <1>5, <1>6, <2>1, <2>2, <2>3, <2>5, <3>4, <3>5, <3>6, <3>7, DeskEnds
         DEF DeskCards
  <2>6. CASE ~(screen = "feed" /\ c.mine)
    <3>1. copy' = copy BY <1>2, <2>6
    <3>2. c.mine => c.edit.op # "set"
      BY <1>3, <2>2, <2>6 DEF DeskInv, DeskChanging, DeskCards, DeskEditors
    <3>3. DeskSwitches' = DeskSwitches /\ DeskFeeds' = DeskFeeds
      BY <1>2, <1>4, <2>1, <3>2 DEF DeskSwitches, DeskFeeds
    <3>4. DeskSettings' /\ DeskFeed' BY <1>2, <2>4, <3>1, <3>3, DeskCardsStay
    <3>5. copy' = Null \/ copy' \in [path -> DeskValues] BY <1>1, <3>1 DEF DeskTypes
    <3>6. screen \notin DeskCards => copy' = Null BY <3>1 DEF DeskInv, DeskChanging
    <3> QED BY <1>2, <1>3, <1>5, <1>6, <2>1, <2>2, <2>3, <3>1, <3>4, <3>5, <3>6, DeskEnds
  <2> QED BY <2>5, <2>6
<1> QED BY <1>9, <1>10

LEMMA DeskRefused ==
  ASSUME DeskInv, NEW c \in net, Managing!Failed(c)
  PROVE  DeskInv'
<1>1. DeskTypes /\ DeskNumbered /\ c \in DeskCalls /\ sent \in Nat /\ edited \in 0..sent
  BY DEF DeskInv, DeskNumbered, DeskTypes
<1>2. /\ c.kind = "failed" /\ busy' = (IF c.mine /\ c.by # Null THEN Null ELSE busy)
      /\ soiled' = (IF screen = "hours" \/ (screen \in DeskCards /\ edited > c.id)
                    THEN sent ELSE soiled)
      /\ copy' = (IF screen = "settings" /\ c.mine /\ c.edit.op = "put" THEN c.was ELSE copy)
      /\ UNCHANGED <<screen, stored, path, data, taken, edited>>
  BY DEF Managing!Failed, Managing!Cards, DeskCards
<1>3. c \in net \cap DeskChanges /\ c.edit \in DeskEdits /\ c.id \in Nat /\ c.id <= edited
  <2>1. c \in net \cap DeskChanges BY <1>1, <1>2, DeskKinds
  <2> QED BY <1>1, <2>1, DeskFields DEF DeskNumbered
<1>4. DeskChanges' = DeskChanges /\ DeskAnswers' = DeskAnswers BY <1>2, DeskScreen
<1>5. busy' \in DeskButtons BY <1>1, <1>2 DEF DeskTypes, DeskButtons
<1>6. soiled' \in {soiled, sent} BY <1>2
<1>7. copy = Null => copy' = Null
  <2>1. screen = "settings" /\ c.mine /\ copy = Null => c.edit.op = "touch"
    BY <1>3 DEF DeskInv, DeskChanging, DeskCards
  <2> QED BY <1>2, <2>1
<1>8. net' \cap DeskChanges = (net \cap DeskChanges) \ {c} => (DeskInOrder' => DeskInOrder)
  <2>1. screen \in DeskCards \/ ~DeskInOrder'
    <3>1. screen \notin DeskCards => copy' = Null BY <1>2, <1>7 DEF DeskInv, DeskChanging
    <3> QED BY <3>1 DEF DeskInOrder
  <2>2. screen \in DeskCards => ((c.kind = "failed" \/ (screen = "feed" /\ c.kind = "done")) /\ edited > c.id
           => soiled' = sent)
    BY <1>2
  <2> QED BY <1>2, <1>3, <1>6, <1>7, <2>1, <2>2, DeskOrderly
<1>9. CASE screen = "services" /\ c.edit.op = "put"
  <2>1. Managing!Load(path, net \ {c}) BY <1>9 DEF Managing!Failed
  <2>2. screen \notin DeskCards /\ copy' = copy BY <1>2, <1>9 DEF DeskCards
  <2>3. PICK p \in Managing!Paths : p = path BY <1>1 DEF DeskTypes
  <2> QED BY <1>2, <1>5, <1>6, <2>1, <2>2, <2>3, DeskAsks
<1>10. CASE ~(screen = "services" /\ c.edit.op = "put")
  <2>1. net' = net \ {c} /\ UNCHANGED <<sent, asked>> BY <1>10 DEF Managing!Failed
  <2>2. screen = "services" => soiled' = soiled /\ c.edit.op # "put"
    BY <1>2, <1>10 DEF DeskCards
  <2>3. DeskOrders' BY <1>2, <1>3, <2>1, <2>2, DeskListStays
  <2>4. DeskInOrder' => DeskInOrder BY <1>8, <2>1
  <2>5. CASE screen = "settings" /\ c.mine /\ c.edit.op = "put"
    <3>1. copy' = c.was BY <1>2, <2>5
    <3>2. path = Item BY <1>1, <2>5, DeskRanges DEF DeskTypes, DeskMoves
    <3>3. copy' \in [path -> DeskValues] /\ copy' # Null
      BY <1>3, <2>5, <3>1, <3>2 DEF DeskInv, DeskChanging, DeskEditors
    <3>4. DeskFeed' BY <1>2, <2>5 DEF DeskFeed
    <3>5. DeskSettings'
      <4> SUFFICES ASSUME DeskInOrder' PROVE DeskSettings' BY DEF DeskSettings
      <4>1. DeskInOrder BY <2>4
      <4>2. c \in DeskSwitches BY <1>2, <1>3, <2>5 DEF DeskSwitches
      <4>3. DeskSwitches' = DeskSwitches \ {c} BY <1>4, <2>1 DEF DeskSwitches
      <4>4. \A e \in DeskSwitches : (\A s \in DeskSwitches : s.id >= e.id) => e.was = stored
        BY <2>5, <4>1 DEF DeskInv, DeskSettings, DeskEditors
      <4>9. ASSUME NEW e \in DeskSwitches, NEW s \in DeskSwitches, s.id < e.id,
                   \A t \in DeskSwitches : t.id <= s.id \/ t.id >= e.id
            PROVE  e.was = s.edit.value
        BY <2>5, <4>1, <4>9 DEF DeskInv, DeskSettings, DeskEditors
      <4>5. c.id >= edited BY <1>2, <1>3, <4>1 DEF DeskInOrder
      <4>6. \A e \in DeskSwitches \ {c} : e.id \in Nat /\ e.id < c.id
        <5>1. ASSUME NEW e \in DeskSwitches \ {c} PROVE e.id \in Nat /\ e.id < c.id
          <6>1. e \in net \cap DeskChanges /\ e.id \in Nat BY DeskFields DEF DeskSwitches
          <6>2. e.id <= edited /\ e.id # c.id BY <1>1, <1>3, <6>1 DEF DeskNumbered
          <6> QED BY <1>1, <1>3, <4>5, <6>1, <6>2
        <5> QED BY <5>1
      <4>7. DeskSwitches \ {c} = {} => c.was = stored BY <1>3, <4>2, <4>4
      <4>8. ASSUME NEW e \in DeskSwitches \ {c}
            PROVE  /\ (\A s \in DeskSwitches \ {c} : s.id <= e.id) => c.was = e.edit.value
                   /\ (\A s \in DeskSwitches \ {c} : s.id >= e.id) => e.was = stored
                   /\ \A s \in DeskSwitches \ {c} :
                        s.id < e.id /\ (\A t \in DeskSwitches \ {c} : t.id <= s.id \/ t.id >= e.id)
                          => e.was = s.edit.value
        <5>1. e.id \in Nat /\ e.id < c.id BY <4>6
        <5>2. (\A s \in DeskSwitches \ {c} : s.id <= e.id) => c.was = e.edit.value
          <6> SUFFICES ASSUME \A s \in DeskSwitches \ {c} : s.id <= e.id
                       PROVE  c.was = e.edit.value
            OBVIOUS
          <6>1. \A t \in DeskSwitches : t.id <= e.id \/ t.id >= c.id BY <1>3
          <6> QED BY <4>2, <4>9, <5>1, <6>1
        <5>3. (\A s \in DeskSwitches \ {c} : s.id >= e.id) => e.was = stored
          <6> SUFFICES ASSUME \A s \in DeskSwitches \ {c} : s.id >= e.id PROVE e.was = stored
            OBVIOUS
          <6>1. \A s \in DeskSwitches : s.id >= e.id BY <1>3, <5>1
          <6> QED BY <4>4, <6>1
        <5>4. ASSUME NEW s \in DeskSwitches \ {c}, s.id < e.id,
                     \A t \in DeskSwitches \ {c} : t.id <= s.id \/ t.id >= e.id
              PROVE  e.was = s.edit.value
          <6>1. \A t \in DeskSwitches : t.id <= s.id \/ t.id >= e.id BY <1>3, <5>1, <5>4
          <6> QED BY <4>9, <5>4, <6>1
        <5> QED BY <5>2, <5>3, <5>4
      <4> QED BY <1>2, <3>1, <4>3, <4>7, <4>8 DEF DeskSettings
    <3> QED BY <1>2, <1>3, <1>5, <1>6, <2>1, <2>3, <2>5, <3>3, <3>4, <3>5, DeskEnds DEF DeskCards
  <2>7. CASE screen = "hours"
    <3>1. soiled' = sent /\ sent' = sent /\ copy' = copy BY <1>2, <2>1, <2>7
    <3>2. PICK n : n = taken OBVIOUS
    <3>3. ~DeskFresh(n)' BY <1>1, <3>1, <3>2, DeskStale DEF DeskTypes
    <3>4. ~DeskInOrder' BY <1>2, <3>2, <3>3 DEF DeskInOrder, DeskFresh
    <3>5. DeskSettings' /\ DeskFeed' BY <3>4 DEF DeskSettings, DeskFeed
    <3>6. copy' = Null \/ copy' \in [path -> DeskValues] BY <1>1, <3>1 DEF DeskTypes
    <3>7. screen \notin DeskCards => copy' = Null BY <3>1 DEF DeskInv, DeskChanging
    <3> QED BY <1>2, <1>3, <1>5, <1>6, <2>1, <2>3, <3>1, <3>5, <3>6, <3>7, DeskEnds
  <2>6. CASE screen # "hours" /\ ~(screen = "settings" /\ c.mine /\ c.edit.op = "put")
    <3>1. copy' = copy BY <1>2, <2>6
    <3>2. DeskFeeds' = DeskFeeds BY <1>2, <1>4, <2>1 DEF DeskFeeds
    <3>3. screen \in DeskCards => DeskSwitches' = DeskSwitches
      <4>1. screen = "feed" => c.edit.op # "put" BY <1>3 DEF DeskInv, DeskChanging
      <4> QED BY <1>2, <1>4, <2>1, <2>6, <4>1 DEF DeskSwitches, DeskCards
    <3>4. DeskSettings' /\ DeskFeed' BY <1>2, <2>4, <3>1, <3>2, <3>3, DeskCardsStay
    <3>5. copy' = Null \/ copy' \in [path -> DeskValues] BY <1>1, <3>1 DEF DeskTypes
    <3>6. screen \notin DeskCards => copy' = Null BY <3>1 DEF DeskInv, DeskChanging
    <3> QED BY <1>2, <1>3, <1>5, <1>6, <2>1, <2>3, <3>1, <3>4, <3>5, <3>6, DeskEnds
  <2> QED BY <2>5, <2>6, <2>7
<1> QED BY <1>9, <1>10

LEMMA DeskGoes ==
  ASSUME DeskInv, \/ Managing!Retry
                  \/ \E p \in SUBSET Item : Managing!Go(p)
  PROVE  DeskInv'
<1>1. DeskTypes BY DEF DeskInv
<1>2. busy \in DeskButtons /\ path \in Managing!Paths BY <1>1 DEF DeskTypes
<1>3. PICK kept : kept = net OBVIOUS
<1>4. /\ kept \in SUBSET net
      /\ \A c \in (net \ kept) \cap DeskChanges :
           screen \in DeskCards => c.edit.op = "touch" \/ (c.edit.op = "put" /\ c.kind = "done")
  BY <1>3
<1>5. CASE Managing!Retry
  <2>1. /\ Managing!Load(path, kept)
        /\ UNCHANGED <<screen, stored, path, data, copy, busy, taken, edited, soiled>>
    BY <1>3, <1>5 DEF Managing!Retry
  <2>2. DeskInOrder' => DeskInOrder
    <3>1. PICK d : d = [id |-> sent + 1, kind |-> "load", path |-> path] OBVIOUS
    <3>2. net \subseteq net' BY <1>3, <2>1 DEF Managing!Load
    <3>3. DeskFresh(taken)' <=> DeskFresh(taken) BY <2>1 DEF DeskFresh
    <3>4. DeskChanges' = DeskChanges BY <2>1, DeskScreen
    <3> QED BY <2>1, <3>2, <3>3, <3>4 DEF DeskInOrder
  <2>3. PICK p \in Managing!Paths : p = path BY <1>2
  <2> QED BY <1>2, <1>4, <2>1, <2>2, <2>3, DeskAsks
<1>6. ASSUME NEW p \in SUBSET Item, Managing!Go(p) PROVE DeskInv'
  <2>1. /\ screen \in DeskMoves /\ p \in Managing!Paths /\ path' = p /\ Managing!Load(p, kept)
        /\ UNCHANGED <<screen, stored, data, copy, busy, taken, edited, soiled>>
    BY <1>3, <1>6 DEF Managing!Go, DeskMoves
  <2>2. screen \notin DeskCards BY <2>1 DEF DeskMoves, DeskCards
  <2> QED BY <1>2, <1>4, <2>1, <2>2, DeskAsks
<1> QED BY <1>5, <1>6

LEMMA DeskNext ==
  ASSUME DeskInv, [Managing!Next]_deskVars
  PROVE  DeskInv'
<1>1. CASE UNCHANGED deskVars
  <2>1. UNCHANGED <<screen, stored, path, data, copy, busy, net, sent, asked, taken, edited, soiled>>
    BY <1>1 DEF deskVars
  <2>2. PICK d \in DeskBroken : d.id <= sent
    <3>1. PICK d : d = [id |-> 0, kind |-> "broken"] OBVIOUS
    <3>2. d \in DeskBroken /\ d.id = 0 BY <3>1 DEF DeskBroken
    <3>3. 0 <= sent BY DEF DeskInv, DeskTypes
    <3> QED BY <3>2, <3>3
  <2>3. busy' \in DeskButtons BY <2>1 DEF DeskInv, DeskTypes
  <2> QED BY <2>1, <2>2, <2>3, DeskGone
<1>2. CASE Managing!Next
  <2>1. CASE Managing!Retry \/ \E p \in SUBSET Item : Managing!Go(p) BY <2>1, DeskGoes
  <2>2. CASE Managing!OpenTab \/ Managing!LeaveTab BY <2>2, DeskOpens, DeskLeaves
  <2>3. CASE Managing!SaveHours \/ Managing!SaveProfile
    <3>1. CASE Managing!SaveHours BY <3>1, DeskHours
    <3>2. CASE Managing!SaveProfile BY <3>2, DeskProfile
    <3> QED BY <2>3, <3>1, <3>2
  <2>4. ASSUME NEW i \in Item,
               \/ Managing!AddDate(i) \/ Managing!RemoveDate(i)
               \/ Managing!Block(i) \/ Managing!Unblock(i) \/ Managing!CancelBooking(i)
               \/ Managing!Reschedule(i) \/ Managing!Complete(i) \/ Managing!Revoke(i)
               \/ Managing!TogglePublish(i) \/ Managing!SaveService(i) \/ Managing!RemoveService(i)
               \/ Managing!CreateFeed(i) \/ Managing!DisableFeed(i)
        PROVE  DeskInv'
    BY <2>4, DeskForms
  <2>5. ASSUME NEW i \in Item, \/ Managing!Toggle(i) \/ Managing!Elsewhere(i)
                               \/ \E j \in Item : Managing!Move(i, j)
        PROVE  DeskInv'
    BY <2>5, DeskToggles, DeskOtherwise, DeskReorders
  <2>6. ASSUME NEW c \in net, \/ Managing!Loaded(c) \/ Managing!LoadFails(c)
                              \/ Managing!ServeLoad(c) \/ Managing!Serve(c) \/ Managing!Fails(c)
                              \/ Managing!Done(c) \/ Managing!Failed(c)
        PROVE  DeskInv'
    BY <2>6, DeskTakes, DeskBreaks, DeskServesLoad, DeskServes, DeskFails, DeskDone, DeskRefused
  <2> QED BY <1>2, <2>1, <2>2, <2>3, <2>4, <2>5, <2>6 DEF Managing!Next
<1> QED BY <1>1, <1>2

\* What the invariant says of a screen.
LEMMA DeskShows ==
  ASSUME DeskInv
  PROVE  Managing!TypeOK /\ Managing!SettledScreenIsTrue
<1>1. DeskTypes BY DEF DeskInv
<1>2. Managing!TypeOK
  <2>1. DeskValues \subseteq Nat BY DeskRanges
  <2>2. stored \in [Item -> Nat] BY <1>1, <2>1 DEF DeskTypes
  <2>3. data = Null \/ data.value \in [data.of -> Nat] BY <1>1, <2>1 DEF DeskTypes
  <2>4. copy = Null \/ copy \in [path -> Nat] BY <1>1, <2>1 DEF DeskTypes
  <2>5. sent \in 0..MaxVisit[screen] BY <1>1 DEF DeskTypes
  <2> QED BY <1>1, <2>2, <2>3, <2>4, <2>5 DEF DeskTypes, Managing!TypeOK, DeskButtons
<1>3. Managing!SettledScreenIsTrue
  <2> SUFFICES ASSUME net = {}, Managing!Shown # Null, taken = asked,
                      soiled = 0 \/ taken > soiled
               PROVE  Managing!Shown = Managing!Answer(path)
    BY DEF Managing!SettledScreenIsTrue
  <2>1. DeskFresh(taken) /\ DeskFresh(asked) BY DEF DeskFresh
  <2>2. path \in SUBSET Item BY <1>1, DeskRanges DEF DeskTypes
  <2>3. screen \in {"services", "settings", "hours"} => path = Item
    BY <1>1, DeskRanges DEF DeskTypes, DeskMoves
  <2>4. path = Item => Managing!Answer(path) = stored BY <1>1, <2>2, DeskAnswer
  <2>5. CASE screen \in DeskCards
    <3>1. Managing!Shown = copy /\ copy # Null 
      BY <2>5 DEF Managing!Shown, Managing!Cards, Managing!Copying, DeskCards
    <3>2. DeskInOrder BY <2>1, <3>1 DEF DeskInOrder
    <3>3. DeskSwitches = {} /\ DeskFeeds = {} BY DEF DeskSwitches, DeskFeeds
    <3>4. screen \in DeskEditors => copy = stored BY <3>2, <3>3 DEF DeskInv, DeskSettings
    <3>5. screen = "feed" => copy = Managing!Answer(path) BY <3>2, <3>3 DEF DeskInv, DeskFeed
    <3> QED BY <2>3, <2>4, <2>5, <3>1, <3>4, <3>5 DEF DeskCards, DeskEditors
  <2>6. CASE screen \notin DeskCards
    <3>1. Managing!Shown = data.value /\ data # Null
      BY <2>6 DEF Managing!Shown, Managing!Cards, Managing!Copying, DeskCards
    <3>2. data.of = path BY <3>1 DEF DeskInv, DeskPaths
    <3>3. CASE screen = "services"
      <4>1. DeskPuts = {} BY DEF DeskPuts
      <4>2. data.value = stored BY <2>1, <3>1, <3>3, <4>1 DEF DeskInv, DeskOrders
      <4> QED BY <2>3, <2>4, <3>1, <3>3, <4>2
    <3>4. CASE screen # "services"
      <4>1. data.value = Managing!Answer(data.of)
        BY <2>1, <2>6, <3>1, <3>4 DEF DeskInv, DeskReloads
      <4> QED BY <3>1, <3>2, <4>1
    <3> QED BY <3>3, <3>4
  <2> QED BY <2>5, <2>6
<1> QED BY <1>2, <1>3

-----------------------------------------------------------------------------
(* The theorems: every part keeps its invariant, and no part becomes       *)
(* another.                                                                *)

ScreensInv ==
  /\ part = "flow" => FlowInv
  /\ part = "checkout" => PayInv
  /\ part = "desk" => DeskInv
  /\ part = "walk-ins" => WalkInv
  /\ part = "console" => ConsoleInv
  /\ part = "onboarding" => WizardInv
  /\ part = "second factor" => FactorInv
  /\ part = "google" => GoogleInv

LEMMA ScreensInit == Init => ScreensInv
<1> SUFFICES ASSUME Init PROVE ScreensInv OBVIOUS
<1>1. part = "flow" => FlowInv BY FlowInit DEF Init
<1>2. part = "checkout" => PayInv BY PayInit DEF Init
<1>3. part = "desk" => DeskInv BY DeskInit DEF Init
<1>4. part = "walk-ins" => WalkInv BY WalkInit DEF Init
<1>5. part = "console" => ConsoleInv BY ConsoleInit DEF Init
<1>6. part = "onboarding" => WizardInv BY WizardInit DEF Init
<1>7. part = "second factor" => FactorInv BY FactorInit DEF Init
<1>8. part = "google" => GoogleInv BY GoogleInit DEF Init
<1> QED BY <1>1, <1>2, <1>3, <1>4, <1>5, <1>6, <1>7, <1>8 DEF ScreensInv

LEMMA ScreensNext == ScreensInv /\ [Next]_vars => ScreensInv'
<1> SUFFICES ASSUME ScreensInv, [Next]_vars PROVE ScreensInv' OBVIOUS
<1>0. part' = part BY Alone
<1>1. part = "flow" => FlowInv' BY Alone, FlowNext DEF ScreensInv
<1>2. part = "checkout" => PayInv' BY Alone, PayNext DEF ScreensInv
<1>3. part = "desk" => DeskInv' BY Alone, DeskNext DEF ScreensInv
<1>4. part = "walk-ins" => WalkInv' BY Alone, WalkNext DEF ScreensInv
<1>5. part = "console" => ConsoleInv' BY Alone, ConsoleNext DEF ScreensInv
<1>6. part = "onboarding" => WizardInv' BY Alone, WizardNext DEF ScreensInv
<1>7. part = "second factor" => FactorInv' BY Alone, FactorNext DEF ScreensInv
<1>8. part = "google" => GoogleInv' BY Alone, GoogleNext DEF ScreensInv
<1> QED BY <1>0, <1>1, <1>2, <1>3, <1>4, <1>5, <1>6, <1>7, <1>8 DEF ScreensInv

LEMMA ScreensKept == Spec => []ScreensInv
  BY ScreensInit, ScreensNext, PTL DEF Spec

\* Every page, dialog, callback and request stays well typed, whatever it is
\* answered, and in whichever order.
THEOREM ScreensTyping == Spec => []TypesOK
<1>1. ScreensInv => TypesOK
  <2> SUFFICES ASSUME ScreensInv PROVE TypesOK OBVIOUS
  <2>1. part = "flow" => Choosing!TypeOK BY FlowShows DEF ScreensInv
  <2>2. part = "checkout" => Paying!TypeOK BY PayHolds DEF ScreensInv
  <2>3. part = "desk" => Managing!TypeOK BY DeskShows DEF ScreensInv
  <2>4. part = "walk-ins" => Adding!TypeOK BY WalkHolds DEF ScreensInv
  <2>5. part = "console" => Watching!TypeOK BY ConsoleHolds DEF ScreensInv
  <2>6. part = "onboarding" => Starting!TypeOK BY WizardHolds DEF ScreensInv
  <2>7. part = "second factor" => Proving!TypeOK BY FactorHolds DEF ScreensInv
  <2>8. part = "google" => Returning!TypeOK BY DEF ScreensInv, GoogleInv, GoogleTypes
  <2> QED BY <2>1, <2>2, <2>3, <2>4, <2>5, <2>6, <2>7, <2>8 DEF TypesOK
<1> QED BY <1>1, ScreensKept, PTL

\* Whatever a customer chooses, however late and in whichever order the API
\* answers, the page agrees to the booking it shows and holds one time at most,
\* unless an answer about an earlier hold misled it or a call it gave up ran after
\* its retry; it says paid of what is paid, and the advance is paid once
\* (booking-flow.tsx, payment-panel.tsx, booking-page.tsx).
THEOREM CustomersSeeTheTruth == Spec => []CustomerSeesTheTruth
<1>1. ScreensInv => CustomerSeesTheTruth
  BY FlowShows, PayHolds DEF ScreensInv, CustomerSeesTheTruth
<1> QED BY <1>1, ScreensKept, PTL

\* A dashboard screen at rest shows what is stored, for every number of items and
\* of calls, unless its last load or its editor was overtaken by a change (an editor
\* opened while its hours are saved has the old ones); a walk-in is added once and
\* as meant; the wizard says live of a page that is; an admin sees no list the audit
\* log does not know of, and a thing is repaired once (app/dashboard/*.tsx,
\* onboarding-wizard.tsx, components/admin/*.tsx, admin-routes.ts:264-298).
THEOREM ScreensAreTrue == Spec => []DashboardsAreTrue
<1>1. ScreensInv => DashboardsAreTrue
  BY DeskShows, WalkHolds, WizardHolds, ConsoleHolds DEF ScreensInv, DashboardsAreTrue
<1> QED BY <1>1, ScreensKept, PTL

\* No code opens the admin's session twice, and no session is opened without a code
\* of the secret that is stored, of few guesses; no attempt with Google opens two
\* sessions or one of another user, for any number of sessions, secrets, attempts
\* and callbacks (admin-routes.ts:42-83, google/routes.ts:67-110).
THEOREM EntriesProven == Spec => []EntriesAreProven
<1>1. ScreensInv => EntriesAreProven
  BY FactorHolds DEF ScreensInv, EntriesAreProven, GoogleInv
<1> QED BY <1>1, ScreensKept, PTL
=============================================================================
