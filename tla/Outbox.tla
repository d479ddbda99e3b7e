------------------------------- MODULE Outbox -------------------------------
(***************************************************************************)
(* The email_outbox table and the senders that empty it: ticks, and the    *)
(* immediate sends after a request, several of which may run at once.      *)
(*                                                                         *)
(* A sender claims a batch under a lease, then hands the emails over one   *)
(* by one; handing over and writing down how it went are two steps, and    *)
(* the lease may run out, or the process crash, between them.  Due times   *)
(* and leases count down to 0.  An email is named by its dedupe key.       *)
(***************************************************************************)
EXTENDS Integers, Sequences, FiniteSetsExt

CONSTANTS Email,       \* dedupe keys
          Urgent,      \* those of priority 0
          Codes,       \* sign-in codes, which are urgent
          Sender,      \* calls of sendOutbox that may run at once
          Limit,       \* emails claimed at once
          Backoff,     \* BACKOFF_MINUTES
          Lease,       \* how long a claim holds
          KeepCode,    \* how long an unsent code is kept
          Answers,     \* what the mail service may answer
          MaxCrashes,  \* bound on crashes
          MaxRetries,  \* bound on retries by an admin
          Null

ASSUME EmailAssumption == Codes \subseteq Urgent /\ Urgent \subseteq Email
ASSUME NumberAssumption ==
  /\ {Limit, Lease, KeepCode} \subseteq Nat \ {0}
  /\ Backoff \in Seq(Nat \ {0}) /\ {MaxCrashes, MaxRetries} \subseteq Nat
ASSUME AnswerAssumption == Answers \subseteq {"accepted", "refused", "unknown"}

VARIABLES
  status,     \* email_outbox.status, "none" without a row
  attempts,
  wait,       \* time until next_attempt_at
  lease,      \* time until locked_until
  keep,       \* time until the cleanup may remove a code
  removed,    \* body_purged_at is set
  batch,      \* what each sender has claimed: emails with their attempts
  answer,     \* the claim a sender has handed over, and the answer
  delivered,  \* copies the recipient got, counted up to 2
  excused,    \* emails a sender lost its hold on while it had them in hand
  crashes, retries

table == <<status, attempts, wait, lease, keep, removed>>
senders == <<batch, answer>>
vars == <<table, senders, delivered, excused, crashes, retries>>

Tries == 0..Len(Backoff)
Claims == Email \X Tries
Answered == [claim : Claims, ok : BOOLEAN]

\* A sender without an answer is told from one with an answer.
ASSUME NullAssumption == Null \notin Answered

TypeOK ==
  /\ status \in [Email -> {"none", "queued", "sent", "failed"}]
  /\ attempts \in [Email -> 0..(Len(Backoff) + 1)]
  /\ wait \in [Email -> Nat] /\ lease \in [Email -> 0..Lease]
  /\ keep \in [Email -> 0..KeepCode]
  /\ removed \subseteq Email
  /\ batch \in [Sender -> SUBSET Claims]
  /\ answer \in [Sender -> {Null} \cup Answered]
  /\ delivered \in [Email -> 0..2] /\ excused \subseteq Email
  /\ crashes \in 0..MaxCrashes /\ retries \in 0..MaxRetries

Init ==
  /\ status = [e \in Email |-> "none"]
  /\ attempts = [e \in Email |-> 0]
  /\ wait = [e \in Email |-> 0] /\ lease = [e \in Email |-> 0]
  /\ keep = [e \in Email |-> 0] /\ removed = {}
  /\ batch = [s \in Sender |-> {}] /\ answer = [s \in Sender |-> Null]
  /\ delivered = [e \in Email |-> 0] /\ excused = {}
  /\ crashes = 0 /\ retries = 0

-----------------------------------------------------------------------------
\* Queued in the transaction of the business; a second one with the same key
\* changes nothing.
Enqueue(e) ==
  /\ status[e] = "none"
  /\ status' = [status EXCEPT ![e] = "queued"]
  /\ keep' = [keep EXCEPT ![e] = IF e \in Codes THEN KeepCode ELSE 0]
  /\ UNCHANGED <<attempts, wait, lease, removed, senders, delivered, excused,
                 crashes, retries>>

\* Variant: a claim does not look at the lease of another.
DueThoughLeased(urgentOnly) ==
  {e \in Email : /\ status[e] = "queued" /\ wait[e] = 0
                 /\ urgentOnly => e \in Urgent}

Due(urgentOnly) ==
  {e \in Email : /\ status[e] = "queued" /\ wait[e] = 0 /\ lease[e] = 0
                 /\ urgentOnly => e \in Urgent}

\* The rows one claim may take: as many as are due up to the limit, the most
\* urgent first.
Batches(due) ==
  {S \in kSubset(Min({Limit, Cardinality(due)}), due) :
     S \cap Urgent = due \cap Urgent \/ S \subseteq Urgent}

\* Variant: an email counts as sent from the moment it is claimed.
ClaimAsSent(s, urgentOnly) ==
  /\ batch[s] = {}
  /\ Due(urgentOnly) # {}
  /\ \E S \in Batches(Due(urgentOnly)) :
       /\ batch' = [batch EXCEPT ![s] = {<<e, attempts[e]>> : e \in S}]
       /\ status' = [e \in Email |-> IF e \in S THEN "sent" ELSE status[e]]
  /\ UNCHANGED <<attempts, wait, lease, keep, removed, answer, delivered,
                 excused, crashes, retries>>

\* sendOutbox begins: one UPDATE, which skips rows another claim has locked.
Claim(s, urgentOnly) ==
  /\ batch[s] = {}
  /\ Due(urgentOnly) # {}
  /\ \E S \in Batches(Due(urgentOnly)) :
       /\ batch' = [batch EXCEPT ![s] = {<<e, attempts[e]>> : e \in S}]
       /\ lease' = [e \in Email |-> IF e \in S THEN Lease ELSE lease[e]]
  /\ UNCHANGED <<status, attempts, wait, keep, removed, answer, delivered,
                 excused, crashes, retries>>

\* The sender hands its most urgent email over.  When the answer does not come
\* in time the email may have been delivered, and counts as refused.
Deliver(s) ==
  /\ answer[s] = Null
  /\ \E claim \in batch[s], a \in Answers :
       /\ claim[1] \in Urgent \/ \A other \in batch[s] : other[1] \notin Urgent
       /\ answer' = [answer EXCEPT ![s] = [claim |-> claim, ok |-> a = "accepted"]]
       /\ delivered' = IF a = "refused" THEN delivered
            ELSE [delivered EXCEPT ![claim[1]] = Min({2, @ + 1})]
       /\ excused' = IF a = "unknown" THEN excused \cup {claim[1]} ELSE excused
  /\ UNCHANGED <<table, batch, crashes, retries>>

\* The sender has written down its answer and turns to the rest of its batch.
Proceed(s) ==
  /\ batch' = [batch EXCEPT ![s] = @ \ {answer[s].claim}]
  /\ answer' = [answer EXCEPT ![s] = Null]
  /\ UNCHANGED <<keep, delivered, excused, crashes, retries>>

\* Whatever has become of the row meanwhile.
RecordSent(s) ==
  /\ answer[s] # Null /\ answer[s].ok
  /\ LET e == answer[s].claim[1] IN
     /\ status' = [status EXCEPT ![e] = "sent"]
     /\ lease' = [lease EXCEPT ![e] = 0]
     /\ removed' = IF e \in Codes THEN removed \cup {e} ELSE removed
  /\ UNCHANGED <<attempts, wait>>
  /\ Proceed(s)

\* Variant: a failed attempt is not counted.
RecordUncounted(s) ==
  /\ answer[s] # Null /\ ~ answer[s].ok
  /\ LET e == answer[s].claim[1] IN
     /\ wait' = [wait EXCEPT ![e] = Backoff[1]]
     /\ lease' = [lease EXCEPT ![e] = 0]
  /\ UNCHANGED <<status, attempts, removed>>
  /\ Proceed(s)

\* Variant: after the last wait, further attempts follow.
RecordWithoutEnd(s) ==
  /\ answer[s] # Null /\ ~ answer[s].ok
  /\ LET e == answer[s].claim[1]
         tries == answer[s].claim[2] + 1 IN
     /\ attempts' = [attempts EXCEPT ![e] = tries]
     /\ lease' = [lease EXCEPT ![e] = 0]
     /\ wait' = [wait EXCEPT ![e] = Backoff[Min({tries, Len(Backoff)})]]
  /\ UNCHANGED <<status, removed>>
  /\ Proceed(s)

\* One attempt more than the sender has read, and the wait that follows it, or
\* the end after the last.
RecordFailure(s) ==
  /\ answer[s] # Null /\ ~ answer[s].ok
  /\ LET e == answer[s].claim[1]
         tries == answer[s].claim[2] + 1 IN
     /\ attempts' = [attempts EXCEPT ![e] = tries]
     /\ lease' = [lease EXCEPT ![e] = 0]
     /\ IF tries \in DOMAIN Backoff
        THEN wait' = [wait EXCEPT ![e] = Backoff[tries]] /\ UNCHANGED status
        ELSE status' = [status EXCEPT ![e] = "failed"] /\ UNCHANGED wait
  /\ UNCHANGED removed
  /\ Proceed(s)

-----------------------------------------------------------------------------
InHand == {claim[1] : claim \in UNION {batch[s] : s \in Sender}}

\* The nightly cleanup: a code nobody needs any more, sent or not, ...
RemoveCode(e) ==
  /\ e \in Codes \ removed /\ status[e] # "none" /\ keep[e] = 0
  /\ removed' = removed \cup {e}
  /\ status' = [status EXCEPT ![e] = IF @ = "queued" THEN "failed" ELSE @]
  /\ UNCHANGED <<attempts, wait, lease, keep, senders, delivered, excused,
                 crashes, retries>>

\* ... and the bodies of emails done with 90 days ago.
RemoveOld(e) ==
  /\ e \notin removed /\ status[e] \in {"sent", "failed"} /\ e \notin InHand
  /\ removed' = removed \cup {e}
  /\ UNCHANGED <<status, attempts, wait, lease, keep, senders, delivered,
                 excused, crashes, retries>>

\* The recipient deletes their account.
Erase(e) ==
  /\ status[e] # "none"
  /\ removed' = removed \cup {e}
  /\ status' = [status EXCEPT ![e] = IF @ = "queued" THEN "failed" ELSE @]
  /\ UNCHANGED <<attempts, wait, lease, keep, senders, delivered, excused,
                 crashes, retries>>

\* An admin retries a failed email whose content is still there.
Retry(e) ==
  /\ status[e] = "failed" /\ e \notin removed /\ retries < MaxRetries
  /\ retries' = retries + 1
  /\ status' = [status EXCEPT ![e] = "queued"]
  /\ attempts' = [attempts EXCEPT ![e] = 0]
  /\ wait' = [wait EXCEPT ![e] = 0] /\ lease' = [lease EXCEPT ![e] = 0]
  /\ UNCHANGED <<keep, removed, senders, delivered, excused, crashes>>

-----------------------------------------------------------------------------
CountDown(timer) == [e \in Email |-> Max({0, timer[e] - 1})]

\* Time passes, while a sender waits for the mail service too.
Tick ==
  /\ \E e \in Email : wait[e] + lease[e] + keep[e] > 0
  /\ wait' = CountDown(wait) /\ lease' = CountDown(lease)
  /\ keep' = CountDown(keep)
  /\ excused' = excused \cup {e \in InHand : lease'[e] = 0}
  /\ UNCHANGED <<status, attempts, removed, senders, delivered, crashes,
                 retries>>

\* Every sender stops; what it handed over and did not write down is unknown.
Crash ==
  /\ crashes < MaxCrashes
  /\ crashes' = crashes + 1
  /\ batch' = [s \in Sender |-> {}] /\ answer' = [s \in Sender |-> Null]
  /\ excused' = excused \cup
       {answer[s].claim[1] : s \in {t \in Sender : answer[t] # Null}}
  /\ UNCHANGED <<table, delivered, retries>>

Sending(s) ==
  \/ \E urgentOnly \in BOOLEAN : Claim(s, urgentOnly)
  \/ Deliver(s) \/ RecordSent(s) \/ RecordFailure(s)

Next ==
  \/ \E e \in Email : \/ Enqueue(e) \/ RemoveCode(e) \/ RemoveOld(e)
                      \/ Erase(e) \/ Retry(e)
  \/ \E s \in Sender : Sending(s)
  \/ Tick \/ Crash

Spec == Init /\ [][Next]_vars

\* Time passes, the scheduler keeps calling the tick, and a sender that has
\* claimed a batch works on: the mail service answers or the call times out.
FairSpec ==
  /\ Spec /\ WF_vars(Tick)
  /\ WF_vars(\E s \in Sender : Claim(s, FALSE))
  /\ \A s \in Sender :
       WF_vars(Deliver(s)) /\ WF_vars(RecordSent(s)) /\ WF_vars(RecordFailure(s))

-----------------------------------------------------------------------------
(* Properties. *)

\* The reader of an email gets it twice only when a sender has lost its hold on
\* it: the lease ran out under it, the mail service did not answer in time, or
\* the process crashed between handing it over and writing that down.  Neither
\* overlapping claims nor retries nor the cleanup send one twice.
TwiceOnlyIfExcused == \A e \in Email : delivered[e] > 1 => e \in excused

\* An email whose content was removed is not sent in its place, although it may
\* have been queued, claimed or failed when that happened.
RemovedIsNotQueued == \A e \in removed : status[e] # "queued"

\* The outbox an admin looks at tells what happened: a sent email was delivered,
\* a failed one whose content is still there (and which can be retried) was not,
\* and a queued one has its content.
OutboxIsHonest ==
  /\ \A e \in Email :
       /\ status[e] = "sent" => delivered[e] > 0
       /\ status[e] = "failed" /\ e \notin removed =>
            delivered[e] = 0 \/ e \in excused
  /\ RemovedIsNotQueued

\* Every queued email is sent or given up, also when senders crash or are so
\* slow that stale ones write old attempt counts over newer ones.
QueuedEnds == \A e \in Email : status[e] = "queued" ~> status[e] # "queued"
=============================================================================
