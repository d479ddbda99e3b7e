---------------------------- MODULE CodesProofs ----------------------------
(***************************************************************************)
(* Proofs about Codes, for any addresses, purposes, requests and limits.   *)
(***************************************************************************)
EXTENDS Codes, SequenceTheorems, TLAPS

\* A request with a code has found a row of the table; rows never go away.
Found == \A r \in Request : trying[r] # Null => trying[r].code \in DOMAIN codes

TypeInv == TypeOK /\ Found

(***************************************************************************)
(* Rows, and what each statement writes in one.                            *)
(***************************************************************************)
LEMMA Bounds ==
  /\ MaxAttempts \in Nat \ {0} /\ Resend \in Nat \ {0}
  /\ MaxTime \in Nat /\ MaxCodes \in Nat
  BY LimitAssumption, BoundAssumption

LEMMA Fields ==
  ASSUME NEW row \in Code
  PROVE  /\ row.email \in Email /\ row.purpose \in Purpose /\ row.ip \in Ip
         /\ row.created \in Nat /\ row.committed \in Nat
         /\ row.attempts \in Nat /\ row.attempts <= MaxAttempts
         /\ row.consumed \in BOOLEAN /\ row.rival \in 0..MaxCodes
         /\ row.compared \in Nat /\ row.wins \in Nat
  BY Bounds DEF Code

\* checkOtp's UPDATE.
LEMMA RowCompared ==
  ASSUME NEW row \in Code, row.attempts < MaxAttempts
  PROVE  [row EXCEPT !.attempts = @ + 1, !.compared = @ + 1] \in Code
  <1>1. row.attempts + 1 \in 0..MaxAttempts /\ row.compared + 1 \in Nat
    BY Fields, Bounds
  <1> QED BY <1>1 DEF Code

\* consumeOtp's UPDATE.
LEMMA RowConsumed ==
  ASSUME NEW row \in Code
  PROVE  [row EXCEPT !.consumed = TRUE, !.wins = @ + 1] \in Code
  <1>1. row.wins + 1 \in Nat
    BY Fields
  <1> QED BY <1>1 DEF Code

\* createOtp's UPDATE and INSERT.
LEMMA RowSuperseded ==
  ASSUME NEW row \in Code, NEW n \in 0..MaxCodes
  PROVE  [row EXCEPT !.consumed = TRUE, !.rival = n] \in Code
  BY DEF Code

LEMMA RowInserted ==
  ASSUME NEW q \in Asking, clock \in 0..MaxTime
  PROVE  [email |-> q.email, purpose |-> q.purpose, ip |-> q.ip,
          created |-> q.since, attempts |-> 0, consumed |-> FALSE,
          committed |-> clock, rival |-> 0, compared |-> 0, wins |-> 0] \in Code
  <1>1. q.email \in Email /\ q.purpose \in Purpose /\ q.ip \in Ip /\ q.since \in 0..MaxTime
    BY DEF Asking
  <1>2. 0 \in 0..MaxAttempts /\ 0 \in 0..MaxCodes
    BY Bounds
  <1> QED BY <1>1, <1>2 DEF Code

LEMMA Table ==
  ASSUME TypeOK
  PROVE  /\ Len(codes) \in Nat /\ Len(codes) <= MaxCodes
         /\ DOMAIN codes = 1..Len(codes) /\ DOMAIN codes \subseteq 1..MaxCodes
         /\ \A c \in DOMAIN codes : codes[c] \in Code
  <1>1. codes \in Seq(Code) /\ Len(codes) <= MaxCodes /\ Len(codes) \in Nat
    BY DEF TypeOK
  <1>2. DOMAIN codes = 1..Len(codes) /\ \A c \in DOMAIN codes : codes[c] \in Code
    BY <1>1
  <1> QED BY <1>1, <1>2, Bounds

\* An asking request and one with a code are well-typed records.
LEMMA InHand ==
  ASSUME TypeInv, NEW r \in Request
  PROVE  /\ asking[r] # Null => asking[r] \in Asking
         /\ trying[r] # Null => trying[r] \in Trying /\ trying[r].code \in DOMAIN codes
  BY DEF TypeInv, TypeOK, Found

\* What the transaction that issues a code does to the table (createOtp): the
\* codes it supersedes are consumed, the others stay, and one row is added.
LEMMA Issued ==
  ASSUME TypeInv, NEW r \in Request, IssueCode(r)
  PROVE  /\ codes' \in Seq(Code) /\ Len(codes') = Len(codes) + 1
         /\ DOMAIN codes' = DOMAIN codes \cup {Len(codes) + 1}
         /\ \A c \in DOMAIN codes :
              codes'[c] = IF c \in asking[r].older /\ ~codes[c].consumed
                          THEN [codes[c] EXCEPT !.consumed = TRUE, !.rival = Len(codes) + 1]
                          ELSE codes[c]
         /\ codes'[Len(codes) + 1] =
              [email |-> asking[r].email, purpose |-> asking[r].purpose,
               ip |-> asking[r].ip, created |-> asking[r].since, attempts |-> 0,
               consumed |-> FALSE, committed |-> clock, rival |-> 0,
               compared |-> 0, wins |-> 0]
  <1> DEFINE n == Len(codes)
             new == [email |-> asking[r].email, purpose |-> asking[r].purpose,
                     ip |-> asking[r].ip, created |-> asking[r].since, attempts |-> 0,
                     consumed |-> FALSE, committed |-> clock, rival |-> 0,
                     compared |-> 0, wins |-> 0]
             ended(c) == [codes[c] EXCEPT !.consumed = TRUE, !.rival = n + 1]
             after(c) == IF c \in asking[r].older /\ ~codes[c].consumed
                         THEN ended(c) ELSE codes[c]
             older == [c \in DOMAIN codes |-> after(c)]
  <1>1. n \in Nat /\ DOMAIN codes = 1..n /\ n + 1 \in 0..MaxCodes
    <2>1. n < MaxCodes BY DEF IssueCode
    <2>2. n \in Nat /\ DOMAIN codes = 1..n BY Table DEF TypeInv
    <2> QED BY <2>1, <2>2, Bounds
  <1>2. asking[r] \in Asking /\ codes' = Append(older, new)
    BY InHand DEF IssueCode
  <1>3. new \in Code
    BY <1>2, RowInserted DEF TypeInv, TypeOK
  <1>4. ASSUME NEW c \in 1..n PROVE after(c) \in Code
    <2>1. codes[c] \in Code
      BY <1>1, Table DEF TypeInv
    <2>2. ended(c) \in Code
      BY <1>1, <2>1, RowSuperseded
    <2> HIDE DEF ended
    <2> QED BY <2>1, <2>2
  <1> HIDE DEF after, new
  <1>5. older \in [1..n -> Code] /\ \A c \in 1..n : older[c] = after(c)
    BY <1>1, <1>4
  <1> HIDE DEF older
  <1>6. older \in Seq(Code) /\ Len(older) = n
    BY <1>1, <1>5
  <1>7. /\ codes' \in Seq(Code) /\ Len(codes') = n + 1
        /\ \A c \in 1..n : codes'[c] = after(c)
        /\ codes'[n + 1] = new
    BY <1>1, <1>2, <1>3, <1>5, <1>6, AppendProperties
  <1>8. DOMAIN codes' = DOMAIN codes \cup {n + 1}
    BY <1>1, <1>7
  <1> QED BY <1>1, <1>7, <1>8 DEF after, new

\* The row that is added: just committed, live, and made for its request.
LEMMA NewRow ==
  ASSUME TypeInv, NEW r \in Request, IssueCode(r)
  PROVE  LET row == codes'[Len(codes) + 1]
         IN /\ row.email = asking[r].email /\ row.purpose = asking[r].purpose
            /\ row.created = asking[r].since /\ row.committed = clock
            /\ row.attempts = 0 /\ row.compared = 0 /\ row.wins = 0
            /\ row.rival = 0 /\ ~row.consumed
  <1>1. codes'[Len(codes) + 1] =
          [email |-> asking[r].email, purpose |-> asking[r].purpose,
           ip |-> asking[r].ip, created |-> asking[r].since, attempts |-> 0,
           consumed |-> FALSE, committed |-> clock, rival |-> 0,
           compared |-> 0, wins |-> 0]
    BY Issued
  <1> QED BY <1>1

\* Updating one row leaves a well-typed table with the same rows.
LEMMA RowUpdated ==
  ASSUME TypeOK, NEW c \in DOMAIN codes, NEW row \in Code,
         codes' = [codes EXCEPT ![c] = row]
  PROVE  /\ codes' \in Seq(Code) /\ Len(codes') = Len(codes)
         /\ DOMAIN codes' = DOMAIN codes
         /\ \A d \in DOMAIN codes : codes'[d] = IF d = c THEN row ELSE codes[d]
  <1>1. codes \in Seq(Code) /\ c \in 1..Len(codes) /\ DOMAIN codes = 1..Len(codes)
    BY Table DEF TypeOK
  <1> QED BY <1>1, ExceptSeq

\* What an attempt does to the table: it counts on its row.
LEMMA Attempted ==
  ASSUME TypeInv, NEW r \in Request, CountAttempt(r)
  PROVE  LET c == trying[r].code
         IN /\ c \in DOMAIN codes /\ codes[c].attempts < MaxAttempts
            /\ codes' \in Seq(Code) /\ Len(codes') = Len(codes)
            /\ DOMAIN codes' = DOMAIN codes
            /\ \A d \in DOMAIN codes : codes'[d] =
                 IF d = c THEN [codes[c] EXCEPT !.attempts = @ + 1, !.compared = @ + 1]
                 ELSE codes[d]
  <1> DEFINE c == trying[r].code
             row == [codes[c] EXCEPT !.attempts = @ + 1, !.compared = @ + 1]
  <1>1. c \in DOMAIN codes
    BY InHand DEF CountAttempt
  <1>2. codes[c] \in Code /\ codes[c].attempts < MaxAttempts
    BY <1>1, Table DEF CountAttempt, TypeInv
  <1>3. row \in Code
    BY <1>2, RowCompared
  <1>4. codes' = [codes EXCEPT ![c] = row]
    BY DEF CountAttempt
  <1> HIDE DEF row, c
  <1>5. /\ codes' \in Seq(Code) /\ Len(codes') = Len(codes)
        /\ DOMAIN codes' = DOMAIN codes
        /\ \A d \in DOMAIN codes : codes'[d] = IF d = c THEN row ELSE codes[d]
    BY <1>1, <1>3, <1>4, RowUpdated DEF TypeInv
  <1> QED BY <1>1, <1>2, <1>5 DEF row, c

\* What the transaction behind a code does to the table: the code is consumed,
\* and was not before.
LEMMA Consumed ==
  ASSUME TypeInv, NEW r \in Request, ConsumeOtp(r)
  PROVE  LET c == trying[r].code
         IN /\ c \in DOMAIN codes /\ ~codes[c].consumed
            /\ codes' \in Seq(Code) /\ Len(codes') = Len(codes)
            /\ DOMAIN codes' = DOMAIN codes
            /\ \A d \in DOMAIN codes : codes'[d] =
                 IF d = c THEN [codes[c] EXCEPT !.consumed = TRUE, !.wins = @ + 1]
                 ELSE codes[d]
  <1> DEFINE c == trying[r].code
             row == [codes[c] EXCEPT !.consumed = TRUE, !.wins = @ + 1]
  <1>1. c \in DOMAIN codes
    BY InHand DEF ConsumeOtp
  <1>2. codes[c] \in Code /\ ~codes[c].consumed
    BY <1>1, Table DEF ConsumeOtp, Consumable, TypeInv
  <1>3. row \in Code
    BY <1>2, RowConsumed
  <1>4. codes' = [codes EXCEPT ![c] = row]
    BY DEF ConsumeOtp
  <1> HIDE DEF row, c
  <1>5. /\ codes' \in Seq(Code) /\ Len(codes') = Len(codes)
        /\ DOMAIN codes' = DOMAIN codes
        /\ \A d \in DOMAIN codes : codes'[d] = IF d = c THEN row ELSE codes[d]
    BY <1>1, <1>3, <1>4, RowUpdated DEF TypeInv
  <1> QED BY <1>1, <1>2, <1>5 DEF row, c

(***************************************************************************)
(* Type correctness.                                                       *)
(***************************************************************************)
LEMMA TypeStep ==
  ASSUME TypeInv, [Next]_vars
  PROVE  TypeInv'
  <1>2. ASSUME NEW r \in Request, Step(r) PROVE TypeInv'
    <2>1. ASSUME NEW e \in Email, NEW p \in Purpose, NEW ip \in Ip, AskForCode(r, e, p, ip)
          PROVE  TypeInv'
      <3>1. [email |-> e, purpose |-> p, ip |-> ip, since |-> clock,
             looked |-> FALSE, older |-> {}] \in Asking
        BY DEF TypeInv, TypeOK, Asking
      <3> QED BY <2>1, <3>1 DEF AskForCode, TypeInv, TypeOK, Found
    <2>2. CASE Supersede(r)
      <3>1. Unconsumed(asking[r].email, asking[r].purpose) \subseteq 1..MaxCodes
        BY Table DEF Unconsumed, TypeInv
      <3>2. asking[r] \in Asking BY <2>2, InHand DEF Supersede
      <3>3. [asking[r] EXCEPT !.looked = TRUE,
               !.older = Unconsumed(asking[r].email, asking[r].purpose)] \in Asking
        BY <3>1, <3>2 DEF Asking
      <3> QED BY <2>2, <3>3 DEF Supersede, TypeInv, TypeOK, Found
    <2>3. CASE IssueCode(r)
      <3>1. codes' \in Seq(Code) /\ Len(codes') = Len(codes) + 1
            /\ DOMAIN codes \subseteq DOMAIN codes'
        BY <2>3, Issued
      <3>2. Len(codes') <= MaxCodes
        <4>1. Len(codes) \in Nat /\ Len(codes) < MaxCodes
          BY <2>3, Table DEF IssueCode, TypeInv
        <4> QED BY <3>1, <4>1, Bounds
      <3> QED BY <2>3, <3>1, <3>2 DEF IssueCode, TypeInv, TypeOK, Found
    <2>4. ASSUME NEW e \in Email, NEW p \in Purpose, TryCode(r, e, p)
          PROVE  TypeInv'
      <3>1. PICK c \in Newest(e, p) :
              trying' = [trying EXCEPT ![r] = [code |-> c, matched |-> FALSE]]
        BY <2>4 DEF TryCode
      <3>2. c \in DOMAIN codes /\ c \in 1..MaxCodes
        BY Table DEF Newest, Unconsumed, TypeInv
      <3> QED BY <2>4, <3>1, <3>2 DEF TryCode, TypeInv, TypeOK, Found, Trying
    <2>5. CASE CountAttempt(r)
      <3>1. /\ codes' \in Seq(Code) /\ Len(codes') = Len(codes)
            /\ DOMAIN codes' = DOMAIN codes
        BY <2>5, Attempted
      <3>2. trying[r] # Null /\ trying[r] \in Trying /\ trying[r].code \in DOMAIN codes
        BY <2>5, InHand DEF CountAttempt
      <3>3. [trying[r] EXCEPT !.matched = TRUE] \in Trying
            /\ [trying[r] EXCEPT !.matched = TRUE].code = trying[r].code
        BY <3>2 DEF Trying
      <3> QED BY <2>5, <3>1, <3>2, <3>3 DEF CountAttempt, TypeInv, TypeOK, Found
    <2>6. CASE ConsumeOtp(r)
      <3>1. /\ codes' \in Seq(Code) /\ Len(codes') = Len(codes)
            /\ DOMAIN codes' = DOMAIN codes
        BY <2>6, Consumed
      <3> QED BY <2>6, <3>1 DEF ConsumeOtp, TypeInv, TypeOK, Found
    <2>7. CASE GiveUp(r)
      BY <2>7 DEF GiveUp, TypeInv, TypeOK, Found
    <2> QED BY <1>2, <2>1, <2>2, <2>3, <2>4, <2>5, <2>6, <2>7 DEF Step
  <1>3. CASE Tick
    BY <1>3, BoundAssumption DEF Tick, TypeInv, TypeOK, Found
  <1>4. CASE UNCHANGED vars
    BY <1>4 DEF vars, TypeInv, TypeOK, Found
  <1> QED BY <1>2, <1>3, <1>4 DEF Next

\* Every reachable state is well typed, for any values of the constants.
THEOREM CodesTyping == Spec => [](TypeOK /\ Found)
  <1>1. Init => TypeInv
    BY BoundAssumption DEF Init, TypeInv, TypeOK, Found
  <1>2. Spec => []TypeInv
    BY <1>1, TypeStep, PTL DEF Spec
  <1> QED BY <1>2, PTL DEF TypeInv

(***************************************************************************)
(* Guesses and wins.                                                       *)
(***************************************************************************)
\* What a row's counters say of its past: every comparison was counted as an
\* attempt, and only a consumed code has served a transaction, one.
RowCounted(row) ==
  row.compared = row.attempts /\ row.wins <= 1 /\ (~row.consumed => row.wins = 0)

Counted == \A c \in DOMAIN codes : RowCounted(codes[c])

LEMMA CountedStep ==
  ASSUME TypeInv, Counted, [Next]_vars
  PROVE  Counted'
  <1>1. \A c \in DOMAIN codes : codes[c] \in Code /\ RowCounted(codes[c])
    BY Table DEF TypeInv, Counted
  <1>2. ASSUME NEW r \in Request, Step(r) PROVE Counted'
    <2>1. CASE IssueCode(r)
      <3>1. \A c \in DOMAIN codes : RowCounted(codes'[c])
        <4> SUFFICES ASSUME NEW c \in DOMAIN codes PROVE RowCounted(codes'[c])
          OBVIOUS
        <4>1. \/ codes'[c] = codes[c]
              \/ codes'[c] = [codes[c] EXCEPT !.consumed = TRUE, !.rival = Len(codes) + 1]
          BY <2>1, Issued
        <4>2. codes[c] \in Code /\ RowCounted(codes[c])
          BY <1>1
        <4> QED BY <4>1, <4>2 DEF RowCounted, Code
      <3>2. RowCounted(codes'[Len(codes) + 1])
        BY <2>1, NewRow DEF RowCounted
      <3> QED BY <2>1, <3>1, <3>2, Issued DEF Counted
    <2>2. CASE CountAttempt(r)
      <3> SUFFICES ASSUME NEW d \in DOMAIN codes PROVE RowCounted(codes'[d])
        BY <2>2, Attempted DEF Counted
      <3>1. \/ codes'[d] = codes[d]
            \/ codes'[d] = [codes[d] EXCEPT !.attempts = @ + 1, !.compared = @ + 1]
        BY <2>2, Attempted
      <3>2. codes[d] \in Code /\ RowCounted(codes[d])
        BY <1>1
      <3> QED BY <3>1, <3>2 DEF RowCounted, Code
    <2>3. CASE ConsumeOtp(r)
      <3> SUFFICES ASSUME NEW d \in DOMAIN codes PROVE RowCounted(codes'[d])
        BY <2>3, Consumed DEF Counted
      <3>1. \/ codes'[d] = codes[d]
            \/ /\ ~codes[d].consumed
               /\ codes'[d] = [codes[d] EXCEPT !.consumed = TRUE, !.wins = @ + 1]
        BY <2>3, Consumed
      <3>2. codes[d] \in Code /\ RowCounted(codes[d])
        BY <1>1
      <3>3. CASE codes'[d] = codes[d]
        BY <3>2, <3>3
      <3>4. CASE /\ ~codes[d].consumed
                 /\ codes'[d] = [codes[d] EXCEPT !.consumed = TRUE, !.wins = @ + 1]
        <4>1. codes[d].wins = 0 /\ codes[d].compared = codes[d].attempts
          BY <3>2, <3>4 DEF RowCounted
        <4>2. /\ codes'[d].consumed = TRUE /\ codes'[d].wins = codes[d].wins + 1
              /\ codes'[d].compared = codes[d].compared
              /\ codes'[d].attempts = codes[d].attempts
          BY <3>2, <3>4 DEF Code
        <4> QED BY <4>1, <4>2 DEF RowCounted
      <3> QED BY <3>1, <3>3, <3>4
    <2>4. CASE UNCHANGED codes
      BY <2>4 DEF Counted
    <2> QED BY <1>2, <2>1, <2>2, <2>3, <2>4
            DEF Step, AskForCode, Supersede, TryCode, GiveUp
  <1>3. CASE UNCHANGED codes
    BY <1>3 DEF Counted
  <1> QED BY <1>2, <1>3 DEF Next, Tick, vars

\* A code serves one transaction, whatever requests have matched it before it
\* was consumed (consumeOtp, api/auth.ts:94).
THEOREM WorksOnce == Spec => []CodeWorksOnce
  <1>1. Init => Counted
    BY DEF Init, Counted
  <1>2. Spec => []TypeInv
    BY CodesTyping, PTL DEF TypeInv
  <1>3. Counted => CodeWorksOnce
    BY DEF Counted, RowCounted, CodeWorksOnce
  <1> QED BY <1>1, <1>2, <1>3, CountedStep, PTL DEF Spec

\* No more than MaxAttempts guesses are ever compared with one code, however
\* many requests guess at once (checkOtp, api/auth.ts:78).
THEOREM Guesses == Spec => []GuessesAreBounded
  <1>1. Init => Counted
    BY DEF Init, Counted
  <1>2. Spec => []TypeInv
    BY CodesTyping, PTL DEF TypeInv
  <1>3. TypeInv /\ Counted => GuessesAreBounded
    <2> SUFFICES ASSUME TypeInv, Counted, NEW c \in DOMAIN codes
                 PROVE  codes[c].compared <= MaxAttempts
      BY DEF GuessesAreBounded
    <2>1. codes[c] \in Code /\ codes[c].compared = codes[c].attempts
      BY Table DEF TypeInv, Counted, RowCounted
    <2> QED BY <2>1, Fields
  <1> QED BY <1>1, <1>2, <1>3, CountedStep, PTL DEF Spec

(***************************************************************************)
(* Live and superseded codes.                                              *)
(***************************************************************************)
\* A code is for what a request asks for.
Same(c, q) == codes[c].email = q.email /\ codes[c].purpose = q.purpose

\* What a request for a code knows of the codes there are.  The live ones have
\* cooled down or were committed after it began, and once it has looked it will
\* supersede each that was not; it supersedes codes for its own purpose only.
AskingKnows(q) ==
  /\ q.since <= clock
  /\ \A c \in DOMAIN codes : (Same(c, q) /\ ~codes[c].consumed) =>
       /\ \/ codes[c].created + Resend <= q.since
          \/ codes[c].committed >= q.since
       /\ q.looked => (c \in q.older \/ codes[c].committed >= q.since)
  /\ \A c \in q.older : c \in DOMAIN codes /\ Same(c, q)

Knowing == \A r \in Request : asking[r] # Null => AskingKnows(asking[r])

\* Codes are superseded by codes that were issued.
Rivals == \A c \in DOMAIN codes : codes[c].rival = 0 \/ codes[c].rival \in DOMAIN codes

AskInv == Knowing /\ Rivals /\ LiveCodesOverlap /\ SupersededAfterCooldown

\* No step changes what a row is for or when it was created and committed, nor
\* makes it live again; only IssueCode names a rival.
LEMMA RowsKept ==
  ASSUME TypeInv, [Next]_vars, NEW c \in DOMAIN codes
  PROVE  /\ c \in DOMAIN codes'
         /\ codes'[c].email = codes[c].email /\ codes'[c].purpose = codes[c].purpose
         /\ codes'[c].created = codes[c].created
         /\ codes'[c].committed = codes[c].committed
         /\ codes[c].consumed => codes'[c].consumed
         /\ (\A r \in Request : ~IssueCode(r)) => codes'[c].rival = codes[c].rival
  <1>0. codes[c] \in Code
    BY Table DEF TypeInv
  <1>1. ASSUME NEW r \in Request, IssueCode(r)
        PROVE  /\ c \in DOMAIN codes'
               /\ \/ codes'[c] = codes[c]
                  \/ codes'[c] = [codes[c] EXCEPT !.consumed = TRUE, !.rival = Len(codes) + 1]
    BY <1>1, Issued
  <1>2. ASSUME NEW r \in Request, CountAttempt(r)
        PROVE  /\ c \in DOMAIN codes'
               /\ \/ codes'[c] = codes[c]
                  \/ codes'[c] = [codes[c] EXCEPT !.attempts = @ + 1, !.compared = @ + 1]
    BY <1>2, Attempted
  <1>3. ASSUME NEW r \in Request, ConsumeOtp(r)
        PROVE  /\ c \in DOMAIN codes'
               /\ \/ codes'[c] = codes[c]
                  \/ codes'[c] = [codes[c] EXCEPT !.consumed = TRUE, !.wins = @ + 1]
    BY <1>3, Consumed
  <1>4. \/ codes' = codes
        \/ \E r \in Request : IssueCode(r) \/ CountAttempt(r) \/ ConsumeOtp(r)
    BY DEF Next, Step, Tick, vars, AskForCode, Supersede, TryCode, GiveUp
  <1>5. CASE codes' = codes
    BY <1>5
  <1>6. CASE \E r \in Request : IssueCode(r)
    BY <1>0, <1>1, <1>6 DEF Code
  <1>7. CASE \E r \in Request : CountAttempt(r)
    BY <1>0, <1>2, <1>7 DEF Code
  <1>8. CASE \E r \in Request : ConsumeOtp(r)
    BY <1>0, <1>3, <1>8 DEF Code
  <1> QED BY <1>4, <1>5, <1>6, <1>7, <1>8

\* A row is added only by IssueCode, committed at the time of that step.
LEMMA RowsAdded ==
  ASSUME TypeInv, [Next]_vars, NEW d \in DOMAIN codes', d \notin DOMAIN codes
  PROVE  /\ codes'[d].committed = clock /\ codes'[d].rival = 0 /\ ~codes'[d].consumed
         /\ \E r \in Request : IssueCode(r) /\ d = Len(codes) + 1
  <1>1. \E r \in Request : IssueCode(r)
    <2>1. ASSUME NEW r \in Request, CountAttempt(r) \/ ConsumeOtp(r)
          PROVE  DOMAIN codes' = DOMAIN codes
      BY <2>1, Attempted, Consumed
    <2> QED BY <2>1 DEF Next, Step, Tick, vars, AskForCode, Supersede, TryCode, GiveUp
  <1>2. PICK r \in Request : IssueCode(r)
    BY <1>1
  <1>3. DOMAIN codes' = DOMAIN codes \cup {Len(codes) + 1}
    BY <1>2, Issued
  <1>4. d = Len(codes) + 1
    BY <1>3
  <1> QED BY <1>2, <1>4, NewRow

\* What a request knows stays true while it does nothing itself.
LEMMA KnowingKept ==
  ASSUME TypeInv, [Next]_vars, NEW q \in Asking, AskingKnows(q)
  PROVE  AskingKnows(q)'
  <1>1. q.since \in Nat /\ clock \in Nat /\ clock' \in Nat /\ clock' >= clock /\ q.since <= clock
    <2>1. q.since \in Nat /\ clock \in Nat /\ q.since <= clock
      BY Bounds DEF TypeInv, TypeOK, Asking, AskingKnows
    <2>2. clock' = clock \/ clock' = clock + 1
      BY DEF Next, Step, Tick, vars, AskForCode, Supersede, IssueCode, TryCode,
         CountAttempt, ConsumeOtp, GiveUp
    <2> QED BY <2>1, <2>2
  <1>2. ASSUME NEW c \in DOMAIN codes', Same(c, q)', ~codes'[c].consumed
        PROVE  /\ \/ codes'[c].created + Resend <= q.since
                  \/ codes'[c].committed >= q.since
               /\ q.looked => (c \in q.older \/ codes'[c].committed >= q.since)
    <2>1. CASE c \in DOMAIN codes
      <3>1. Same(c, q) /\ ~codes[c].consumed
        BY <1>2, <2>1, RowsKept DEF Same
      <3>2. codes'[c].created = codes[c].created /\ codes'[c].committed = codes[c].committed
        BY <2>1, RowsKept
      <3> QED BY <2>1, <3>1, <3>2 DEF AskingKnows
    <2>2. CASE c \notin DOMAIN codes
      <3>1. codes'[c].committed = clock
        BY <1>2, <2>2, RowsAdded
      <3> QED BY <1>1, <3>1
    <2> QED BY <2>1, <2>2
  <1>3. ASSUME NEW c \in q.older PROVE c \in DOMAIN codes' /\ Same(c, q)'
    <2>1. c \in DOMAIN codes /\ Same(c, q)
      BY DEF AskingKnows
    <2> QED BY <2>1, RowsKept DEF Same
  <1> QED BY <1>1, <1>2, <1>3 DEF AskingKnows

LEMMA KnowingStep ==
  ASSUME TypeInv, Knowing, [Next]_vars
  PROVE  Knowing'
  <1> SUFFICES ASSUME NEW r \in Request, asking'[r] # Null
               PROVE  AskingKnows(asking[r])'
    BY DEF Knowing
  <1>1. \A q \in Request : asking[q] # Null => asking[q] \in Asking /\ AskingKnows(asking[q])
    BY InHand DEF Knowing
  <1>2. CASE asking'[r] = asking[r]
    <2> DEFINE q == asking[r]
    <2>1. q \in Asking /\ AskingKnows(q)
      BY <1>1, <1>2
    <2>2. ASSUME NEW k \in Asking, AskingKnows(k) PROVE AskingKnows(k)'
      BY <2>2, KnowingKept
    <2>3. PICK k \in Asking : k = q /\ AskingKnows(k)
      BY <2>1
    <2>4. AskingKnows(k)'
      BY <2>2, <2>3
    <2>5. asking'[r] = k
      BY <1>2, <2>3
    <2> QED BY <2>4, <2>5 DEF AskingKnows, Same
  <1>3. ASSUME NEW e \in Email, NEW p \in Purpose, NEW ip \in Ip, AskForCode(r, e, p, ip)
        PROVE  AskingKnows(asking[r])'
    <2>1. asking'[r] = [email |-> e, purpose |-> p, ip |-> ip, since |-> clock,
                        looked |-> FALSE, older |-> {}]
      BY <1>3 DEF AskForCode, TypeInv, TypeOK
    <2>2. codes' = codes /\ clock' = clock /\ clock \in Nat
      BY <1>3, Bounds DEF AskForCode, TypeInv, TypeOK
    <2>3. \A c \in DOMAIN codes : (codes[c].email = e /\ codes[c].purpose = p
             /\ ~codes[c].consumed) => codes[c].created + Resend <= clock
      BY <1>3 DEF AskForCode, CooledDown, Unconsumed
    <2> QED BY <2>1, <2>2, <2>3 DEF AskingKnows, Same
  <1>4. CASE Supersede(r)
    <2>1. asking[r] \in Asking /\ AskingKnows(asking[r])
      BY <1>1, <1>4 DEF Supersede
    <2>2. asking'[r] = [asking[r] EXCEPT !.looked = TRUE,
                          !.older = Unconsumed(asking[r].email, asking[r].purpose)]
      BY <1>4 DEF Supersede, TypeInv, TypeOK
    <2>3. /\ asking'[r].email = asking[r].email /\ asking'[r].purpose = asking[r].purpose
          /\ asking'[r].since = asking[r].since
          /\ asking'[r].older = Unconsumed(asking[r].email, asking[r].purpose)
      BY <2>1, <2>2 DEF Asking
    <2>4. codes' = codes /\ clock' = clock
      BY <1>4 DEF Supersede
    <2> QED BY <2>1, <2>3, <2>4 DEF AskingKnows, Same, Unconsumed
  <1> QED
    <2>1. ASSUME NEW s \in Request, s # r, Step(s) PROVE asking'[r] = asking[r]
      BY <2>1 DEF Step, AskForCode, Supersede, IssueCode, TryCode, CountAttempt,
         ConsumeOtp, GiveUp, TypeInv, TypeOK
    <2>2. CASE IssueCode(r) \/ GiveUp(r)
      BY <2>2 DEF IssueCode, GiveUp, TypeInv, TypeOK
    <2>3. CASE UNCHANGED asking
      BY <1>2, <2>3
    <2> QED BY <1>2, <1>3, <1>4, <2>1, <2>2, <2>3
            DEF Next, Step, Tick, vars, TryCode, CountAttempt, ConsumeOtp

\* Steps that issue no code keep the table's part of the invariant.
LEMMA CooledStep ==
  ASSUME TypeInv, AskInv, [Next]_vars
  PROVE  Rivals' /\ LiveCodesOverlap' /\ SupersededAfterCooldown'
  <1>1. ASSUME \A r \in Request : ~IssueCode(r)
        PROVE  Rivals' /\ LiveCodesOverlap' /\ SupersededAfterCooldown'
    <2>1. \A c \in DOMAIN codes' : c \in DOMAIN codes
      BY <1>1, RowsAdded
    <2>2. \A c \in DOMAIN codes : c \in DOMAIN codes' /\ codes'[c].rival = codes[c].rival
      BY <1>1, RowsKept
    <2>3. Rivals'
      BY <2>1, <2>2 DEF Rivals, AskInv
    <2>4. LiveCodesOverlap'
      BY <2>1, RowsKept DEF LiveCodesOverlap, AskInv
    <2>5. SupersededAfterCooldown'
      <3> SUFFICES ASSUME NEW c \in DOMAIN codes', codes'[c].rival # 0
                   PROVE  LET d == codes'[c].rival
                          IN \/ codes'[d].created >= codes'[c].created + Resend
                             \/ codes'[c].committed >= codes'[d].created
        BY DEF SupersededAfterCooldown
      <3> DEFINE d == codes[c].rival
      <3>1. c \in DOMAIN codes /\ codes'[c].rival = d /\ d \in DOMAIN codes /\ d # 0
        BY <2>1, <2>2 DEF AskInv, Rivals
      <3>2. \/ codes[d].created >= codes[c].created + Resend
            \/ codes[c].committed >= codes[d].created
        BY <3>1 DEF AskInv, SupersededAfterCooldown
      <3> HIDE DEF d
      <3>3. /\ codes'[c].created = codes[c].created /\ codes'[c].committed = codes[c].committed
            /\ codes'[d].created = codes[d].created
        BY <3>1, RowsKept
      <3> QED BY <3>1, <3>2, <3>3
    <2> QED BY <2>3, <2>4, <2>5
  <1>2. ASSUME NEW r \in Request, IssueCode(r)
        PROVE  Rivals' /\ LiveCodesOverlap' /\ SupersededAfterCooldown'
    <2> DEFINE n == Len(codes) + 1
               q == asking[r]
    <2>1. DOMAIN codes' = DOMAIN codes \cup {n} /\ n \notin DOMAIN codes /\ n # 0
      <3>1. DOMAIN codes' = DOMAIN codes \cup {n}
        BY <1>2, Issued
      <3>2. Len(codes) \in Nat /\ DOMAIN codes = 1..Len(codes)
        BY Table DEF TypeInv
      <3> QED BY <3>1, <3>2
    <2>2. q # Null /\ q.looked /\ q \in Asking /\ AskingKnows(q)
      BY <1>2, InHand DEF IssueCode, AskInv, Knowing
    <2>3. /\ codes'[n].email = q.email /\ codes'[n].purpose = q.purpose
          /\ codes'[n].created = q.since /\ codes'[n].rival = 0
      BY <1>2, NewRow
    <2>4. ASSUME NEW c \in DOMAIN codes
          PROVE  \/ codes'[c] = codes[c] /\ (c \in q.older => codes[c].consumed)
                 \/ /\ c \in q.older /\ ~codes[c].consumed
                    /\ codes'[c].consumed /\ codes'[c].rival = n
      <3>1. codes[c] \in Code
        BY Table DEF TypeInv
      <3>2. codes'[c] = IF c \in q.older /\ ~codes[c].consumed
                        THEN [codes[c] EXCEPT !.consumed = TRUE, !.rival = n]
                        ELSE codes[c]
        BY <1>2, Issued
      <3> QED BY <3>1, <3>2 DEF Code
    <2> HIDE DEF n, q
    <2>5. \A c \in DOMAIN codes :
            /\ codes'[c].email = codes[c].email /\ codes'[c].purpose = codes[c].purpose
            /\ codes'[c].created = codes[c].created
            /\ codes'[c].committed = codes[c].committed
            /\ codes[c].consumed => codes'[c].consumed
      BY RowsKept
    <2>6. Rivals'
      BY <2>1, <2>3, <2>4 DEF Rivals, AskInv
    <2>7. LiveCodesOverlap'
      <3> SUFFICES ASSUME NEW c \in DOMAIN codes', NEW d \in DOMAIN codes', c < d,
                          codes'[c].email = codes'[d].email,
                          codes'[c].purpose = codes'[d].purpose,
                          ~codes'[c].consumed, ~codes'[d].consumed
                   PROVE  codes'[c].committed >= codes'[d].created
        BY DEF LiveCodesOverlap
      <3>1. c \in DOMAIN codes
        BY <1>2, <2>1, Table DEF TypeInv, n
      <3>2. CASE d \in DOMAIN codes
        BY <2>5, <3>1, <3>2 DEF AskInv, LiveCodesOverlap
      <3>3. CASE d = n
        <4>1. Same(c, q) /\ ~codes[c].consumed /\ c \notin q.older
          BY <2>3, <2>4, <2>5, <3>1, <3>3 DEF Same
        <4>2. codes[c].committed >= q.since
          BY <2>2, <3>1, <4>1 DEF AskingKnows
        <4> QED BY <2>3, <2>5, <3>1, <3>3, <4>2
      <3> QED BY <2>1, <3>2, <3>3
    <2>8. SupersededAfterCooldown'
      <3> SUFFICES ASSUME NEW c \in DOMAIN codes', codes'[c].rival # 0
                   PROVE  LET d == codes'[c].rival
                          IN \/ codes'[d].created >= codes'[c].created + Resend
                             \/ codes'[c].committed >= codes'[d].created
        BY DEF SupersededAfterCooldown
      <3>1. c \in DOMAIN codes
        BY <2>1, <2>3
      <3>2. CASE codes'[c] = codes[c]
        <4>1. codes[c].rival \in DOMAIN codes
          BY <3>1, <3>2 DEF AskInv, Rivals
        <4>2. codes'[codes[c].rival].created = codes[codes[c].rival].created
          BY <2>5, <4>1
        <4> QED BY <3>1, <3>2, <4>2 DEF AskInv, SupersededAfterCooldown
      <3>3. CASE c \in q.older /\ ~codes[c].consumed /\ codes'[c].rival = n
        <4>1. \/ codes[c].created + Resend <= q.since
              \/ codes[c].committed >= q.since
          BY <2>2, <3>1, <3>3 DEF AskingKnows
        <4>2. /\ codes[c].created \in Nat /\ q.since \in Nat /\ Resend \in Nat
          BY <2>2, <3>1, Table, Fields, Bounds DEF TypeInv, Asking
        <4> QED BY <2>3, <2>5, <3>1, <3>3, <4>1, <4>2
      <3> QED BY <2>4, <3>1, <3>2, <3>3
    <2> QED BY <2>6, <2>7, <2>8
  <1> QED BY <1>1, <1>2

LEMMA AskInvHolds == Spec => []AskInv
  <1>1. Init => AskInv
    BY DEF Init, AskInv, Knowing, Rivals, LiveCodesOverlap, SupersededAfterCooldown
  <1>2. Spec => []TypeInv
    BY CodesTyping, PTL DEF TypeInv
  <1>3. TypeInv /\ AskInv /\ [Next]_vars => AskInv'
    BY KnowingStep, CooledStep DEF AskInv
  <1> QED BY <1>1, <1>2, <1>3, PTL DEF Spec

\* Two codes for one address and purpose are live together only if the second
\* was asked for before the first was committed (createOtp, api/auth.ts:58).
THEOREM OneLiveCode == Spec => []LiveCodesOverlap
  <1>1. AskInv => LiveCodesOverlap
    BY DEF AskInv
  <1> QED BY <1>1, AskInvHolds, PTL

\* A code is superseded only after the cooldown, or by a request that was
\* already asking when it was committed (createOtp, api/auth.ts:51).
THEOREM Cooldown == Spec => []SupersededAfterCooldown
  <1>1. AskInv => SupersededAfterCooldown
    BY DEF AskInv
  <1> QED BY <1>1, AskInvHolds, PTL
=============================================================================
