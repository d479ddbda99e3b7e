---------------------------- MODULE OutboxProofs ----------------------------
(***************************************************************************)
(* Theorems of Outbox.  The invariant says what a sender that has an email *)
(* in hand may rely on: as long as nothing excuses a second copy, nobody   *)
(* else has it in hand, its lease holds, and a copy is out exactly when    *)
(* the row says sent or the sender is about to say so.                     *)
(***************************************************************************)
EXTENDS Outbox, TLAPS

\* Some sender has claimed e and not written down how it went.
Held(s, e) == \E c \in batch[s] : c[1] = e
\* Sender s knows that e was accepted and will write it down.
Accepted(s, e) == answer[s] # Null /\ answer[s].claim[1] = e /\ answer[s].ok

\* The row of an email, whatever becomes of its senders.
Row(e) ==
  /\ status[e] = "none" => e \notin removed /\ \A s \in Sender : ~Held(s, e)
  /\ e \in removed => status[e] # "queued"
  /\ status[e] = "sent" => delivered[e] > 0
  /\ status[e] \in {"none", "queued"} => attempts[e] <= Len(Backoff)

\* What a sender has in hand.
Hand(s) ==
  answer[s] # Null =>
    /\ answer[s].claim \in batch[s]
    /\ answer[s].ok => delivered[answer[s].claim[1]] > 0

\* An email nobody has lost the hold on.
Kept(e) ==
  /\ \A s, t \in Sender : Held(s, e) /\ Held(t, e) => s = t
  /\ \A s \in Sender : \A c, d \in batch[s] : c[1] = e /\ d[1] = e => c = d
  /\ \A s \in Sender : Held(s, e) =>
       /\ lease[e] > 0
       /\ status[e] = "queued" \/ (status[e] = "failed" /\ e \in removed)
  /\ delivered[e] \in {0, 1}
  /\ delivered[e] = 1 => status[e] = "sent" \/ \E s \in Sender : Accepted(s, e)

Inv ==
  /\ TypeOK
  /\ \A e \in Email : Row(e) /\ (e \notin excused => Kept(e))
  /\ \A s \in Sender : Hand(s)

-----------------------------------------------------------------------------
(* Small facts.                                                            *)

LEMMA Clamped ==
  ASSUME NEW x \in Nat
  PROVE  /\ Min({2, x + 1}) \in {2, x + 1} /\ Min({2, x + 1}) <= 2
         /\ Min({2, x + 1}) <= x + 1
<1>1. \E m \in {2, x + 1} : \A y \in {2, x + 1} : m <= y
  OBVIOUS
<1>2. Min({2, x + 1}) \in {2, x + 1} /\ \A y \in {2, x + 1} : Min({2, x + 1}) <= y
  BY <1>1 DEF Min
<1> QED BY <1>2

LEMMA Lowered ==
  ASSUME NEW x \in Nat
  PROVE  Max({0, x - 1}) \in Nat /\ Max({0, x - 1}) <= x
<1>1. \E m \in {0, x - 1} : \A y \in {0, x - 1} : m >= y
  OBVIOUS
<1>2. Max({0, x - 1}) \in {0, x - 1} /\ \A y \in {0, x - 1} : Max({0, x - 1}) >= y
  BY <1>1 DEF Max
<1> QED BY <1>2

LEMMA Constants ==
  /\ Len(Backoff) \in Nat /\ DOMAIN Backoff = 1..Len(Backoff)
  /\ \A i \in 1..Len(Backoff) : Backoff[i] \in Nat
  /\ Lease \in Nat /\ Lease > 0 /\ KeepCode \in Nat
  /\ MaxCrashes \in Nat /\ MaxRetries \in Nat /\ Codes \subseteq Email
BY NumberAssumption, EmailAssumption

\* What a sender has in hand is a claim it read of a row.
LEMMA HandType ==
  ASSUME TypeOK, NEW s \in Sender
  PROVE  /\ batch[s] \subseteq Claims
         /\ \A c \in batch[s] : c[1] \in Email /\ c[2] \in 0..Len(Backoff)
         /\ answer[s] # Null =>
              /\ answer[s].claim \in Claims /\ answer[s].ok \in BOOLEAN
              /\ answer[s].claim[1] \in Email /\ answer[s].claim[2] \in 0..Len(Backoff)
<1>1. batch[s] \subseteq Claims
  BY DEF TypeOK
<1>2. \A c \in Claims : c[1] \in Email /\ c[2] \in 0..Len(Backoff)
  BY DEF Claims, Tries
<1>3. answer[s] # Null => answer[s] \in Answered
  BY DEF TypeOK
<1> QED BY <1>1, <1>2, <1>3 DEF Answered

\* The senders go on undisturbed; only the row changes.
LEMMA KeptStays ==
  ASSUME NEW e \in Email, Kept(e), UNCHANGED <<batch, answer, delivered>>,
         status[e] = "sent" => status'[e] = "sent",
         \A s \in Sender : Held(s, e) =>
           /\ lease'[e] > 0
           /\ status'[e] = "queued" \/ (status'[e] = "failed" /\ e \in removed')
  PROVE  Kept(e)'
<1>1. /\ \A s \in Sender : Held(s, e)' <=> Held(s, e)
      /\ \A s \in Sender : Accepted(s, e)' <=> Accepted(s, e)
  BY DEF Held, Accepted
<1> QED BY <1>1 DEF Kept

-----------------------------------------------------------------------------
(* Steps on a row alone.                                                   *)

LEMMA EnqueueStep ==
  ASSUME Inv, NEW x \in Email, Enqueue(x)
  PROVE  Inv'
<1>1. TypeOK'
  BY Constants DEF Inv, TypeOK, Enqueue, senders
<1>2. ASSUME NEW e \in Email PROVE Row(e)'
  BY DEF Inv, TypeOK, Enqueue, senders, Row, Held
<1>3. ASSUME NEW e \in Email, e \notin excused' PROVE Kept(e)'
  <2>1. Kept(e) /\ Row(e) /\ UNCHANGED <<batch, answer, delivered>>
    BY <1>3 DEF Inv, Enqueue, senders
  <2>2. status[e] = "sent" => status'[e] = "sent"
    BY <1>3 DEF Inv, TypeOK, Enqueue
  <2>3. ASSUME NEW s \in Sender, Held(s, e)
        PROVE  /\ lease'[e] > 0
               /\ status'[e] = "queued" \/ (status'[e] = "failed" /\ e \in removed')
    BY <1>3, <2>1, <2>3 DEF Inv, TypeOK, Enqueue, Row, Kept
  <2> QED BY <2>1, <2>2, <2>3, KeptStays
<1>4. ASSUME NEW s \in Sender PROVE Hand(s)'
  BY DEF Inv, Enqueue, senders, Hand
<1> QED BY <1>1, <1>2, <1>3, <1>4 DEF Inv

\* The content of an email is removed, and the email is not sent any more.
LEMMA RemoveStep ==
  ASSUME Inv, NEW x \in Email, status[x] # "none", removed' = removed \cup {x},
         status' = [status EXCEPT ![x] = IF @ = "queued" THEN "failed" ELSE @],
         UNCHANGED <<attempts, wait, lease, keep, senders, delivered, excused, crashes, retries>>
  PROVE  Inv'
<1>1. TypeOK'
  BY DEF Inv, TypeOK, senders
<1>2. ASSUME NEW e \in Email PROVE Row(e)'
  BY DEF Inv, TypeOK, senders, Row, Held
<1>3. ASSUME NEW e \in Email, e \notin excused' PROVE Kept(e)'
  <2>1. Kept(e) /\ Row(e) /\ UNCHANGED <<batch, answer, delivered>>
    BY <1>3 DEF Inv, senders
  <2>2. status[e] = "sent" => status'[e] = "sent"
    BY <1>3 DEF Inv, TypeOK
  <2>3. ASSUME NEW s \in Sender, Held(s, e)
        PROVE  /\ lease'[e] > 0
               /\ status'[e] = "queued" \/ (status'[e] = "failed" /\ e \in removed')
    BY <1>3, <2>1, <2>3 DEF Inv, TypeOK, Row, Kept
  <2> QED BY <2>1, <2>2, <2>3, KeptStays
<1>4. ASSUME NEW s \in Sender PROVE Hand(s)'
  BY DEF Inv, senders, Hand
<1> QED BY <1>1, <1>2, <1>3, <1>4 DEF Inv

LEMMA RemoveOldStep ==
  ASSUME Inv, NEW x \in Email, RemoveOld(x)
  PROVE  Inv'
<1>1. TypeOK'
  BY DEF Inv, TypeOK, RemoveOld, senders
<1>2. ASSUME NEW e \in Email PROVE Row(e)'
  BY DEF Inv, TypeOK, RemoveOld, senders, Row, Held
<1>3. ASSUME NEW e \in Email, e \notin excused' PROVE Kept(e)'
  <2>1. Kept(e) /\ Row(e) /\ UNCHANGED <<batch, answer, delivered>>
    BY <1>3 DEF Inv, RemoveOld, senders
  <2>2. status[e] = "sent" => status'[e] = "sent"
    BY <1>3 DEF Inv, TypeOK, RemoveOld
  <2>3. ASSUME NEW s \in Sender, Held(s, e)
        PROVE  /\ lease'[e] > 0
               /\ status'[e] = "queued" \/ (status'[e] = "failed" /\ e \in removed')
    BY <1>3, <2>1, <2>3 DEF Inv, TypeOK, RemoveOld, Row, Kept
  <2> QED BY <2>1, <2>2, <2>3, KeptStays
<1>4. ASSUME NEW s \in Sender PROVE Hand(s)'
  BY DEF Inv, RemoveOld, senders, Hand
<1> QED BY <1>1, <1>2, <1>3, <1>4 DEF Inv

LEMMA RetryStep ==
  ASSUME Inv, NEW x \in Email, Retry(x)
  PROVE  Inv'
<1>1. TypeOK'
  BY Constants DEF Inv, TypeOK, Retry, senders
<1>2. ASSUME NEW e \in Email PROVE Row(e)'
  BY Constants DEF Inv, TypeOK, Retry, senders, Row, Held
<1>3. ASSUME NEW e \in Email, e \notin excused' PROVE Kept(e)'
  <2>1. Kept(e) /\ Row(e) /\ UNCHANGED <<batch, answer, delivered>>
    BY <1>3 DEF Inv, Retry, senders
  <2>2. status[e] = "sent" => status'[e] = "sent"
    BY <1>3 DEF Inv, TypeOK, Retry
  <2>3. ASSUME NEW s \in Sender, Held(s, e)
        PROVE  /\ lease'[e] > 0
               /\ status'[e] = "queued" \/ (status'[e] = "failed" /\ e \in removed')
    BY <1>3, <2>1, <2>3 DEF Inv, TypeOK, Retry, Row, Kept
  <2> QED BY <2>1, <2>2, <2>3, KeptStays
<1>4. ASSUME NEW s \in Sender PROVE Hand(s)'
  BY DEF Inv, Retry, senders, Hand
<1> QED BY <1>1, <1>2, <1>3, <1>4 DEF Inv

LEMMA TickStep ==
  ASSUME Inv, Tick
  PROVE  Inv'
<1>1. ASSUME NEW e \in Email
      PROVE  /\ wait'[e] \in Nat /\ lease'[e] \in 0..Lease /\ keep'[e] \in 0..KeepCode
  <2>1. /\ wait[e] \in Nat /\ lease[e] \in 0..Lease /\ keep[e] \in 0..KeepCode
    BY DEF Inv, TypeOK
  <2>2. /\ wait'[e] = Max({0, wait[e] - 1}) /\ lease'[e] = Max({0, lease[e] - 1})
        /\ keep'[e] = Max({0, keep[e] - 1})
    BY DEF Tick, CountDown
  <2>3. lease[e] \in Nat /\ keep[e] \in Nat
    BY <2>1, Constants
  <2>4. /\ wait'[e] \in Nat /\ lease'[e] \in Nat /\ lease'[e] <= lease[e]
        /\ keep'[e] \in Nat /\ keep'[e] <= keep[e]
    BY <2>1, <2>2, <2>3, Lowered
  <2> QED BY <2>1, <2>4, Constants
<1>2. InHand \subseteq Email
  BY HandType DEF Inv, InHand
<1>3. TypeOK'
  <2>1. /\ wait' \in [Email -> Nat] /\ lease' \in [Email -> 0..Lease]
        /\ keep' \in [Email -> 0..KeepCode]
    <3>1. /\ wait' = [e \in Email |-> wait'[e]] /\ lease' = [e \in Email |-> lease'[e]]
          /\ keep' = [e \in Email |-> keep'[e]]
      BY DEF Tick, CountDown
    <3> QED BY <1>1, <3>1
  <2>2. excused' \subseteq Email
    BY <1>2 DEF Inv, TypeOK, Tick
  <2> QED BY <2>1, <2>2 DEF Inv, TypeOK, Tick, senders
<1>4. ASSUME NEW e \in Email PROVE Row(e)'
  BY DEF Inv, TypeOK, Tick, senders, Row, Held
<1>5. ASSUME NEW e \in Email, e \notin excused' PROVE Kept(e)'
  <2>1. Kept(e) /\ (e \in InHand => lease'[e] # 0)
    BY <1>5 DEF Inv, Tick
  <2>2. \A s \in Sender : Held(s, e) => e \in InHand
    BY DEF Held, InHand
  <2>3. lease'[e] \in Nat
    BY <1>1, Constants
  <2>4. UNCHANGED <<batch, answer, status, removed, delivered>>
    BY DEF Tick, senders
  <2> QED BY <2>1, <2>2, <2>3, <2>4 DEF Kept, Held, Accepted
<1>6. ASSUME NEW s \in Sender PROVE Hand(s)'
  BY DEF Inv, Tick, senders, Hand
<1> QED BY <1>3, <1>4, <1>5, <1>6 DEF Inv

LEMMA CrashStep ==
  ASSUME Inv, Crash
  PROVE  Inv'
<1>1. UNCHANGED <<status, attempts, wait, lease, keep, removed, delivered, retries>>
  BY DEF Crash, table
<1>2. TypeOK'
  <2>1. excused' \subseteq Email
    BY HandType DEF Inv, TypeOK, Crash
  <2>2. crashes' \in 0..MaxCrashes
    BY Constants DEF Inv, TypeOK, Crash
  <2>3. batch' \in [Sender -> SUBSET Claims] /\ answer' \in [Sender -> {Null} \cup Answered]
    BY DEF Crash
  <2> QED BY <1>1, <2>1, <2>2, <2>3 DEF Inv, TypeOK
<1>3. \A s \in Sender : batch'[s] = {} /\ answer'[s] = Null
  BY DEF Crash
<1>4. ASSUME NEW e \in Email PROVE Row(e)'
  BY <1>1, <1>3 DEF Inv, Row, Held
<1>5. ASSUME NEW e \in Email, e \notin excused' PROVE Kept(e)'
  <2>1. Kept(e) /\ \A s \in Sender : ~Accepted(s, e)
    BY <1>5 DEF Inv, Crash, Accepted
  <2> QED BY <1>1, <1>3, <2>1 DEF Kept, Held
<1>6. ASSUME NEW s \in Sender PROVE Hand(s)'
  BY <1>3 DEF Hand
<1> QED BY <1>2, <1>4, <1>5, <1>6 DEF Inv

-----------------------------------------------------------------------------
(* Steps of a sender.                                                      *)

\* A claim takes only emails that are queued and that nobody holds.
LEMMA ClaimStep ==
  ASSUME Inv, NEW z \in Sender, NEW urgentOnly \in BOOLEAN, Claim(z, urgentOnly)
  PROVE  Inv'
<1>1. PICK S \in SUBSET Due(urgentOnly) :
        /\ batch' = [batch EXCEPT ![z] = {<<e, attempts[e]>> : e \in S}]
        /\ lease' = [e \in Email |-> IF e \in S THEN Lease ELSE lease[e]]
  BY DEF Claim, Batches, kSubset
<1>2. /\ batch[z] = {}
      /\ UNCHANGED <<status, attempts, wait, keep, removed, answer, delivered, excused, crashes, retries>>
  BY DEF Claim
<1>3. S \subseteq Email /\ \A e \in S : status[e] = "queued" /\ lease[e] = 0
  BY <1>1 DEF Due
<1>4. TypeOK /\ answer[z] = Null
  BY <1>2 DEF Inv, Hand
<1>5. {<<e, attempts[e]>> : e \in S} \subseteq Claims
  <2>1. ASSUME NEW e \in S PROVE <<e, attempts[e]>> \in Claims
    <3>1. attempts[e] \in Nat /\ attempts[e] <= Len(Backoff) /\ e \in Email
      BY <1>3, <1>4, Constants DEF Inv, Row, TypeOK
    <3> QED BY <3>1, Constants DEF Claims, Tries
  <2> QED BY <2>1
<1>6. batch' \in [Sender -> SUBSET Claims]
  BY <1>1, <1>4, <1>5 DEF TypeOK
<1>7. lease' \in [Email -> 0..Lease]
  BY <1>1, <1>4, Constants DEF TypeOK
<1>8. TypeOK'
  BY <1>2, <1>4, <1>6, <1>7 DEF TypeOK
<1>9. /\ batch'[z] = {<<e, attempts[e]>> : e \in S}
      /\ \A s \in Sender \ {z} : batch'[s] = batch[s]
  BY <1>1, <1>4 DEF TypeOK
<1>10. ASSUME NEW e \in Email
       PROVE  /\ Held(z, e)' <=> e \in S
              /\ \A s \in Sender \ {z} : Held(s, e)' <=> Held(s, e)
              /\ ~Held(z, e)
              /\ \A s \in Sender : Accepted(s, e)' <=> Accepted(s, e)
  <2>1. ASSUME NEW c \in batch'[z], c[1] = e PROVE e \in S
    BY <1>9, <2>1
  <2>2. ASSUME e \in S PROVE \E c \in batch'[z] : c[1] = e
    <3>1. <<e, attempts[e]>> \in batch'[z] /\ <<e, attempts[e]>>[1] = e
      BY <1>9, <2>2
    <3> QED BY <3>1
  <2>3. Held(z, e)' <=> e \in S
    BY <2>1, <2>2 DEF Held
  <2> QED BY <1>2, <1>9, <2>3 DEF Held, Accepted
<1>11. ASSUME NEW e \in Email PROVE Row(e)'
  BY <1>2, <1>3, <1>10 DEF Inv, Row
<1>12. ASSUME NEW e \in Email, e \notin excused' PROVE Kept(e)'
  <2>1. Kept(e)
    BY <1>2, <1>12 DEF Inv
  <2>2. e \in S => \A s \in Sender : ~Held(s, e)
    BY <1>3, <2>1 DEF Kept
  <2>3. \A s \in Sender : Held(s, e)' <=> Held(s, e) \/ (s = z /\ e \in S)
    BY <1>10
  <2>4. lease'[e] = IF e \in S THEN Lease ELSE lease[e]
    BY <1>1
  <2>5. \A s, t \in Sender : Held(s, e)' /\ Held(t, e)' => s = t
    BY <2>1, <2>2, <2>3 DEF Kept
  <2>6. \A s \in Sender : \A c, d \in batch'[s] : c[1] = e /\ d[1] = e => c = d
    BY <1>9, <2>1 DEF Kept
  <2>7. ASSUME NEW s \in Sender, Held(s, e)'
        PROVE  /\ lease'[e] > 0
               /\ status[e] = "queued" \/ (status[e] = "failed" /\ e \in removed)
    <3>1. CASE e \in S
      BY <3>1, <1>3, <2>4, Constants
    <3>2. CASE e \notin S
      BY <3>2, <2>1, <2>3, <2>4, <2>7 DEF Kept
    <3> QED BY <3>1, <3>2
  <2> QED BY <1>2, <1>10, <2>1, <2>5, <2>6, <2>7 DEF Kept
<1>13. ASSUME NEW s \in Sender PROVE Hand(s)'
  BY <1>2, <1>4, <1>9 DEF Inv, Hand
<1> QED BY <1>8, <1>11, <1>12, <1>13 DEF Inv

\* Nobody else holds the email, and no copy of it is out.
LEMMA DeliverStep ==
  ASSUME Inv, NEW z \in Sender, Deliver(z)
  PROVE  Inv'
<1>1. PICK claim \in batch[z], a \in Answers :
        /\ answer' = [answer EXCEPT ![z] = [claim |-> claim, ok |-> a = "accepted"]]
        /\ delivered' = IF a = "refused" THEN delivered
             ELSE [delivered EXCEPT ![claim[1]] = Min({2, @ + 1})]
        /\ excused' = IF a = "unknown" THEN excused \cup {claim[1]} ELSE excused
  BY DEF Deliver
<1> DEFINE x == claim[1]
           new == [claim |-> claim, ok |-> a = "accepted"]
<1>2. /\ TypeOK /\ answer[z] = Null /\ claim \in Claims /\ x \in Email
      /\ UNCHANGED <<status, attempts, wait, lease, keep, removed, batch, crashes, retries>>
  BY HandType DEF Inv, Deliver, table
<1>3. new \in Answered /\ new.claim = claim /\ new.ok = (a = "accepted") /\ new # Null
  <2>1. new \in Answered
    BY <1>2 DEF Answered
  <2> QED BY <2>1, NullAssumption
<1> HIDE DEF new
<1>4. answer' = [answer EXCEPT ![z] = new]
  BY <1>1 DEF new
<1>5. answer' \in [Sender -> {Null} \cup Answered] /\ answer'[z] = new
      /\ \A s \in Sender \ {z} : answer'[s] = answer[s]
  BY <1>2, <1>3, <1>4 DEF TypeOK
<1>6. delivered[x] \in 0..2 /\ delivered[x] \in Nat
  BY <1>2 DEF TypeOK
<1>7. Min({2, delivered[x] + 1}) \in {1, 2}
      /\ (delivered[x] = 0 => Min({2, delivered[x] + 1}) = 1)
  <2>1. ASSUME NEW n \in 0..2
        PROVE  Min({2, n + 1}) \in {1, 2} /\ (n = 0 => Min({2, n + 1}) = 1)
    BY Clamped
  <2> QED BY <1>6, <2>1
<1>8. /\ delivered' \in [Email -> 0..2]
      /\ \A e \in Email \ {x} : delivered'[e] = delivered[e]
      /\ delivered'[x] = IF a = "refused" THEN delivered[x] ELSE Min({2, delivered[x] + 1})
  <2> HIDE DEF x
  <2> DEFINE m == Min({2, delivered[x] + 1})
  <2>1. delivered' = IF a = "refused" THEN delivered ELSE [delivered EXCEPT ![x] = m]
    BY <1>1 DEF x
  <2>2. m \in 0..2
    BY <1>7
  <2> HIDE DEF m
  <2>3. delivered \in [Email -> 0..2] /\ x \in Email
    BY <1>2 DEF TypeOK
  <2>4. /\ delivered' \in [Email -> 0..2]
        /\ \A e \in Email \ {x} : delivered'[e] = delivered[e]
        /\ delivered'[x] = IF a = "refused" THEN delivered[x] ELSE m
    BY <2>1, <2>2, <2>3
  <2> QED BY <2>4 DEF m
<1> HIDE DEF x
<1>9. TypeOK'
  BY <1>1, <1>2, <1>5, <1>8 DEF TypeOK, x
<1>10. \A e \in Email : delivered'[e] \in Nat /\ (delivered[e] > 0 => delivered'[e] > 0)
  BY <1>2, <1>6, <1>7, <1>8 DEF TypeOK
<1>11. ASSUME NEW e \in Email PROVE Row(e)'
  BY <1>2, <1>10 DEF Inv, Row, Held
<1>12. ASSUME NEW e \in Email, e \notin excused' PROVE Kept(e)'
  <2>1. Kept(e) /\ e \notin excused /\ (e = x => a # "unknown")
    BY <1>1, <1>12 DEF Inv, x
  <2>2. \A s \in Sender : Held(s, e)' <=> Held(s, e)
    BY <1>2 DEF Held
  <2>3. CASE e # x
    <3>1. \A s \in Sender : Accepted(s, e) => Accepted(s, e)'
      BY <1>2, <1>5 DEF Accepted
    <3>2. delivered'[e] = delivered[e]
      BY <1>8, <2>3
    <3> QED BY <1>2, <2>1, <2>2, <3>1, <3>2 DEF Kept
  <2>4. CASE e = x
    <3>1. Held(z, e)
      BY <2>4 DEF Held, x
    <3>2. status[e] # "sent"
      BY <2>1, <3>1 DEF Kept
    <3>3. ASSUME NEW s \in Sender, Accepted(s, e) PROVE FALSE
      <4>1. answer[s].claim \in batch[s] /\ answer[s].claim[1] = e
        BY <3>3 DEF Inv, Hand, Accepted
      <4>2. Held(s, e)
        BY <4>1 DEF Held
      <4>3. s = z
        BY <2>1, <3>1, <4>2 DEF Kept
      <4> QED BY <1>2, <3>3, <4>3 DEF Accepted
    <3>4. delivered[e] = 0
      BY <2>1, <3>2, <3>3 DEF Kept
    <3>5. a \in {"accepted", "refused"}
      BY <2>1, <2>4, AnswerAssumption
    <3>6. delivered'[e] = IF a = "refused" THEN 0 ELSE 1
      BY <1>7, <1>8, <2>4, <3>4
    <3>7. a = "accepted" => Accepted(z, e)'
      BY <1>3, <1>5, <2>4 DEF Accepted, x
    <3> QED BY <1>2, <2>1, <2>2, <3>5, <3>6, <3>7 DEF Kept
  <2> QED BY <2>3, <2>4
<1>13. ASSUME NEW s \in Sender PROVE Hand(s)'
  <2>1. CASE s = z
    <3>1. a = "accepted" => delivered'[x] > 0
      BY <1>7, <1>8
    <3> QED BY <1>2, <1>3, <1>5, <2>1, <3>1 DEF Hand, x
  <2>2. CASE s # z
    <3>1. answer[s] # Null => answer[s].claim[1] \in Email
      BY <1>2, HandType
    <3> QED BY <1>2, <1>5, <1>10, <2>2, <3>1 DEF Inv, Hand
  <2> QED BY <2>1, <2>2
<1> QED BY <1>9, <1>11, <1>12, <1>13 DEF Inv

\* What follows from writing down an answer, whatever is written.
LEMMA Proceeds ==
  ASSUME Inv, NEW z \in Sender, answer[z] # Null, Proceed(z),
         NEW x, x = answer[z].claim[1]
  PROVE  /\ batch' \in [Sender -> SUBSET Claims]
         /\ answer' \in [Sender -> {Null} \cup Answered]
         /\ x \in Email /\ Held(z, x)
         /\ \A s \in Sender : Hand(s)'
         /\ \A s \in Sender : batch'[s] \subseteq batch[s]
         /\ \A e \in Email, s \in Sender :
              /\ Held(s, e)' => Held(s, e)
              /\ Accepted(s, e) => Accepted(s, e)' \/ (s = z /\ e = x /\ answer[z].ok)
         /\ x \notin excused => \A s \in Sender : ~Held(s, x)'
<1>p. PICK claim : claim = answer[z].claim
  OBVIOUS
<1>1. TypeOK /\ claim \in batch[z] /\ x \in Email /\ x = claim[1]
  BY <1>p, HandType DEF Inv, Hand
<1>2. /\ batch'[z] = batch[z] \ {claim} /\ answer'[z] = Null
      /\ \A s \in Sender \ {z} : batch'[s] = batch[s] /\ answer'[s] = answer[s]
      /\ UNCHANGED <<keep, delivered, excused, crashes, retries>>
  BY <1>1, <1>p DEF Proceed, TypeOK
<1>3. batch' \in [Sender -> SUBSET Claims] /\ answer' \in [Sender -> {Null} \cup Answered]
  BY <1>1, <1>p DEF Proceed, TypeOK
<1>4. Held(z, x)
  BY <1>1 DEF Held
<1>5. \A s \in Sender : batch'[s] \subseteq batch[s]
  BY <1>2
<1>6. ASSUME NEW s \in Sender PROVE Hand(s)'
  BY <1>2 DEF Inv, Hand
<1>7. ASSUME NEW e \in Email, NEW s \in Sender
      PROVE  /\ Held(s, e)' => Held(s, e)
             /\ Accepted(s, e) => Accepted(s, e)' \/ (s = z /\ e = x /\ answer[z].ok)
  BY <1>1, <1>2, <1>5, <1>p DEF Held, Accepted
<1>8. ASSUME x \notin excused, NEW s \in Sender PROVE ~Held(s, x)'
  <2>1. Kept(x)
    BY <1>1, <1>8 DEF Inv
  <2>2. CASE s = z
    <3>1. \A c \in batch[z] : c[1] = x => c = claim
      BY <1>1, <2>1 DEF Kept
    <3> QED BY <1>2, <2>2, <3>1 DEF Held
  <2>3. CASE s # z
    <3>1. ~Held(s, x)
      BY <1>4, <2>1, <2>3 DEF Kept
    <3> QED BY <1>5, <3>1 DEF Held
  <2> QED BY <2>2, <2>3
<1> QED BY <1>1, <1>3, <1>4, <1>5, <1>6, <1>7, <1>8

\* An email that the answer is not about stays in the hands it is in.
LEMMA OthersStay ==
  ASSUME Inv, NEW z \in Sender, answer[z] # Null, Proceed(z), NEW e \in Email,
         e # answer[z].claim[1], Kept(e), status'[e] = status[e], lease'[e] = lease[e],
         e \in removed' <=> e \in removed
  PROVE  Kept(e)'
<1>1. /\ \A s \in Sender : batch'[s] \subseteq batch[s]
      /\ \A s \in Sender :
           /\ Held(s, e)' => Held(s, e)
           /\ Accepted(s, e) => Accepted(s, e)'
  BY Proceeds
<1>2. UNCHANGED delivered
  BY DEF Proceed
<1> QED BY <1>1, <1>2 DEF Kept

LEMMA RecordSentStep ==
  ASSUME Inv, NEW z \in Sender, RecordSent(z)
  PROVE  Inv'
<1>x. PICK x : x = answer[z].claim[1]
  OBVIOUS
<1>1. answer[z] # Null /\ answer[z].ok /\ Proceed(z)
  BY DEF RecordSent
<1>2. /\ status' = [status EXCEPT ![x] = "sent"] /\ lease' = [lease EXCEPT ![x] = 0]
      /\ removed' = IF x \in Codes THEN removed \cup {x} ELSE removed
      /\ UNCHANGED <<attempts, wait, keep, delivered, excused, crashes, retries>>
  BY <1>x DEF RecordSent, Proceed
<1>3. /\ batch' \in [Sender -> SUBSET Claims]
      /\ answer' \in [Sender -> {Null} \cup Answered]
      /\ x \in Email /\ \A s \in Sender : Hand(s)'
      /\ \A s \in Sender : batch'[s] \subseteq batch[s]
      /\ \A e \in Email, s \in Sender : Held(s, e)' => Held(s, e)
      /\ x \notin excused => \A s \in Sender : ~Held(s, x)'
  BY <1>1, <1>x, Proceeds
<1>4. TypeOK /\ delivered[x] > 0
  BY <1>1, <1>x DEF Inv, Hand
<1>5. TypeOK'
  BY <1>2, <1>3, <1>4, Constants DEF TypeOK
<1>6. ASSUME NEW e \in Email PROVE Row(e)'
  <2>1. Row(e)
    BY DEF Inv
  <2>2. CASE e = x
    BY <1>2, <1>3, <1>4, <2>2 DEF Row, TypeOK
  <2>3. CASE e # x
    <3>1. status'[e] = status[e] /\ (e \in removed' <=> e \in removed)
      BY <1>2, <1>4, <2>3 DEF TypeOK
    <3> QED BY <1>2, <1>3, <2>1, <3>1 DEF Row
  <2> QED BY <2>2, <2>3
<1>7. ASSUME NEW e \in Email, e \notin excused' PROVE Kept(e)'
  <2>1. Kept(e)
    BY <1>2, <1>7 DEF Inv
  <2>2. CASE e = x
    <3>1. status'[e] = "sent" /\ delivered'[e] = delivered[e] /\ \A s \in Sender : ~Held(s, e)'
      BY <1>2, <1>3, <1>4, <1>7, <2>2 DEF TypeOK
    <3> QED BY <2>1, <1>3, <3>1 DEF Kept
  <2>3. CASE e # x
    <3>1. status'[e] = status[e] /\ lease'[e] = lease[e] /\ (e \in removed' <=> e \in removed)
      BY <1>2, <1>4, <2>3 DEF TypeOK
    <3> QED BY <1>1, <1>x, <2>1, <2>3, <3>1, OthersStay
  <2> QED BY <2>2, <2>3
<1> QED BY <1>3, <1>5, <1>6, <1>7 DEF Inv

LEMMA RecordFailureStep ==
  ASSUME Inv, NEW z \in Sender, RecordFailure(z)
  PROVE  Inv'
<1>x. PICK x : x = answer[z].claim[1]
  OBVIOUS
<1>t. PICK tries : tries = answer[z].claim[2] + 1
  OBVIOUS
<1>1. answer[z] # Null /\ ~answer[z].ok /\ Proceed(z)
  BY DEF RecordFailure
<1>2. /\ attempts' = [attempts EXCEPT ![x] = tries] /\ lease' = [lease EXCEPT ![x] = 0]
      /\ IF tries \in DOMAIN Backoff
         THEN wait' = [wait EXCEPT ![x] = Backoff[tries]] /\ UNCHANGED status
         ELSE status' = [status EXCEPT ![x] = "failed"] /\ UNCHANGED wait
      /\ UNCHANGED <<removed, keep, delivered, excused, crashes, retries>>
  BY <1>x, <1>t DEF RecordFailure, Proceed
<1>3. /\ batch' \in [Sender -> SUBSET Claims]
      /\ answer' \in [Sender -> {Null} \cup Answered]
      /\ x \in Email /\ Held(z, x) /\ \A s \in Sender : Hand(s)'
      /\ \A s \in Sender : batch'[s] \subseteq batch[s]
      /\ \A e \in Email, s \in Sender : Held(s, e)' => Held(s, e)
      /\ x \notin excused => \A s \in Sender : ~Held(s, x)'
  BY <1>1, <1>x, Proceeds
<1>4. TypeOK /\ tries \in 1..(Len(Backoff) + 1)
  <2>1. answer[z].claim[2] \in 0..Len(Backoff)
    BY <1>1, HandType DEF Inv
  <2> QED BY <1>t, <2>1, Constants DEF Inv
<1>5. status' = status \/ (tries > Len(Backoff) /\ status' = [status EXCEPT ![x] = "failed"])
  BY <1>2, <1>4, Constants
<1>6. TypeOK'
  <2>1. attempts' \in [Email -> 0..(Len(Backoff) + 1)] /\ lease' \in [Email -> 0..Lease]
    BY <1>2, <1>3, <1>4, Constants DEF TypeOK
  <2>2. status' \in [Email -> {"none", "queued", "sent", "failed"}]
    BY <1>3, <1>4, <1>5 DEF TypeOK
  <2>3. wait' \in [Email -> Nat]
    BY <1>2, <1>3, <1>4, Constants DEF TypeOK
  <2> QED BY <1>2, <1>3, <1>4, <2>1, <2>2, <2>3 DEF TypeOK
<1>7. ASSUME NEW e \in Email PROVE Row(e)'
  <2>1. Row(e) /\ (e = x => status[e] # "none")
    BY <1>3 DEF Inv, Row
  <2>2. CASE e = x
    <3>1. attempts'[e] = tries /\ (status'[e] = status[e] \/ (tries > Len(Backoff) /\ status'[e] = "failed"))
      BY <1>2, <1>4, <1>5, <2>2 DEF TypeOK
    <3>2. tries > Len(Backoff) => status'[e] = "failed"
      BY <1>2, <1>4, <2>2, Constants DEF TypeOK
    <3>3. tries <= Len(Backoff) \/ tries > Len(Backoff)
      BY <1>4, Constants
    <3> QED BY <1>2, <2>1, <2>2, <3>1, <3>2, <3>3 DEF Row
  <2>3. CASE e # x
    <3>1. status'[e] = status[e] /\ attempts'[e] = attempts[e]
      BY <1>2, <1>4, <1>5, <2>3 DEF TypeOK
    <3> QED BY <1>2, <1>3, <2>1, <3>1 DEF Row
  <2> QED BY <2>2, <2>3
<1>8. ASSUME NEW e \in Email, e \notin excused' PROVE Kept(e)'
  <2>1. Kept(e)
    BY <1>2, <1>8 DEF Inv
  <2>2. CASE e = x
    <3>1. delivered'[e] = delivered[e] /\ \A s \in Sender : ~Held(s, e)'
      BY <1>2, <1>3, <1>8, <2>2
    <3>2. status[e] # "sent"
      BY <1>3, <2>1, <2>2 DEF Kept
    <3>3. ASSUME NEW s \in Sender, Accepted(s, e) PROVE FALSE
      <4>1. answer[s].claim \in batch[s] /\ answer[s].claim[1] = e
        BY <3>3 DEF Inv, Hand, Accepted
      <4>2. Held(s, e)
        BY <4>1 DEF Held
      <4>3. s = z
        BY <1>3, <2>1, <2>2, <4>2 DEF Kept
      <4> QED BY <1>1, <3>3, <4>3 DEF Accepted
    <3>4. delivered'[e] = 0
      BY <2>1, <3>1, <3>2, <3>3 DEF Kept
    <3> QED BY <2>1, <1>3, <3>1, <3>4 DEF Kept
  <2>3. CASE e # x
    <3>1. status'[e] = status[e] /\ lease'[e] = lease[e] /\ (e \in removed' <=> e \in removed)
      BY <1>2, <1>4, <1>5, <2>3 DEF TypeOK
    <3> QED BY <1>1, <1>x, <2>1, <2>3, <3>1, OthersStay
  <2> QED BY <2>2, <2>3
<1> QED BY <1>3, <1>6, <1>7, <1>8 DEF Inv

-----------------------------------------------------------------------------
(* The theorems.                                                           *)

LEMMA InvInit ==
  ASSUME Init
  PROVE  Inv
<1>1. TypeOK
  BY Constants DEF Init, TypeOK
<1>2. \A e \in Email : Row(e) /\ Kept(e)
  BY Constants DEF Init, Row, Kept, Held
<1>3. \A s \in Sender : Hand(s)
  BY DEF Init, Hand
<1> QED BY <1>1, <1>2, <1>3 DEF Inv

LEMMA NextStep ==
  ASSUME Inv, [Next]_vars
  PROVE  Inv'
<1>1. ASSUME NEW e \in Email, RemoveCode(e) \/ Erase(e)
      PROVE  Inv'
  BY <1>1, RemoveStep DEF RemoveCode, Erase
<1>2. CASE \E e \in Email : Enqueue(e) \/ RemoveCode(e) \/ RemoveOld(e) \/ Erase(e) \/ Retry(e)
  BY <1>1, <1>2, EnqueueStep, RemoveOldStep, RetryStep
<1>3. CASE \E s \in Sender : Sending(s)
  BY <1>3, ClaimStep, DeliverStep, RecordSentStep, RecordFailureStep DEF Sending
<1>4. CASE Tick
  BY <1>4, TickStep
<1>5. CASE Crash
  BY <1>5, CrashStep
<1>6. CASE UNCHANGED vars
  <2>1. UNCHANGED <<status, attempts, wait, lease, keep, removed, batch, answer,
                    delivered, excused, crashes, retries>>
    BY <1>6 DEF vars, table, senders
  <2> QED BY <2>1 DEF Inv, TypeOK, Row, Kept, Hand, Held, Accepted
<1> QED BY <1>2, <1>3, <1>4, <1>5, <1>6 DEF Next

\* The invariant holds of every behaviour of the outbox and its senders.
THEOREM OutboxInvariant == Spec => []Inv
BY InvInit, NextStep, PTL DEF Spec

\* Rows, claims and answers keep their types, for any emails, senders, limits,
\* leases and waits.
THEOREM OutboxTyping == Spec => []TypeOK
<1>1. Inv => TypeOK
  BY DEF Inv
<1> QED BY <1>1, OutboxInvariant, PTL

\* Without a lease that ran out, an answer that stayed away or a crash, nobody
\* gets an email twice, however claims, retries, removals and erasures overlap.
THEOREM OnceUnlessExcused == Spec => []TwiceOnlyIfExcused
<1>1. Inv => TwiceOnlyIfExcused
  <2> SUFFICES ASSUME Inv, NEW e \in Email, e \notin excused
               PROVE  ~(delivered[e] > 1)
    BY DEF TwiceOnlyIfExcused
  <2>1. delivered[e] \in {0, 1}
    BY DEF Inv, Kept
  <2> QED BY <2>1
<1> QED BY <1>1, OutboxInvariant, PTL

LEMMA RowsAreHonest == Inv => OutboxIsHonest
<1> SUFFICES ASSUME Inv, NEW e \in Email
             PROVE  /\ status[e] = "sent" => delivered[e] > 0
                    /\ status[e] = "failed" /\ e \notin removed =>
                         delivered[e] = 0 \/ e \in excused
                    /\ status[e] = "queued" => e \notin removed
  BY DEF OutboxIsHonest, RemovedIsNotQueued, Inv, TypeOK
<1>1. status[e] = "sent" => delivered[e] > 0
  BY DEF Inv, Row
<1>2. ASSUME status[e] = "failed", e \notin removed, e \notin excused
      PROVE  delivered[e] = 0
  <2>1. Kept(e)
    BY <1>2 DEF Inv
  <2>2. ASSUME NEW s \in Sender, Accepted(s, e) PROVE FALSE
    <3>1. answer[s].claim \in batch[s] /\ answer[s].claim[1] = e
      BY <2>2 DEF Inv, Hand, Accepted
    <3>2. Held(s, e)
      BY <3>1 DEF Held
    <3> QED BY <1>2, <2>1, <3>2 DEF Kept
  <2> QED BY <1>2, <2>1, <2>2 DEF Kept
<1>3. status[e] = "queued" => e \notin removed
  BY DEF Inv, Row
<1> QED BY <1>1, <1>2, <1>3

\* What the outbox says of an email is what became of it.
THEOREM Honest == Spec => []OutboxIsHonest
BY RowsAreHonest, OutboxInvariant, PTL

\* An email whose content was removed is never queued in its place.
THEOREM RemovedStaysOut == Spec => []RemovedIsNotQueued
<1>1. Inv => RemovedIsNotQueued
  BY DEF Inv, TypeOK, Row, RemovedIsNotQueued
<1> QED BY <1>1, OutboxInvariant, PTL

=============================================================================
