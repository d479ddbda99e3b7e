-------------------------------- MODULE Jobs --------------------------------
(***************************************************************************)
(* The scheduled jobs: calls of a tick or of the nightly run, each of which*)
(* runs its jobs one after the other and writes a row of job_runs for each.*)
(* Calls overlap (the scheduler retries, an admin presses the button), a   *)
(* job can fail, the database can refuse the statement that writes a row   *)
(* and the process can stop.  What expiring, sending, reminding and        *)
(* reconciling do is in Bookings, Outbox, Notices, Payments and Diagnosis. *)
(***************************************************************************)
EXTENDS Naturals, Sequences, FiniteSetsExt, Folds

CONSTANTS Call,      \* the calls there are, each made once
          Finding,   \* per nightly check, what it can find: `what` is wrong
                     \* of what row, and a `detail` of it, as an amount
          Shown,     \* how many rows of one of its queries the consistency
                     \* check makes lines of: 10
          Listed,    \* how many lines of a check its email lists: 50
          Null

VARIABLES
  ops,      \* whether OPS_EMAIL is set: it is not by default
  runs,     \* job_runs: per call and job, the status of its row or "none"
  call,     \* per call: its trigger, the number of the job it is at and
            \* whether it is at work on it, or how it was answered
  mails,    \* today's review emails: their checks, dedupe keys and lines
  reported  \* history: what a check went through with today

vars == <<ops, runs, call, mails, reported>>

Jobs == [tick    |-> <<"expire_holds", "process_webhooks", "send_reminders",
                       "send_outbox">>,
         nightly |-> <<"reconcile_payments", "cleanup", "consistency_check">>]
Triggers == DOMAIN Jobs
Checks == {"reconcile_payments", "consistency_check"}
Busy == {"inserting", "working", "recording"}
Names == UNION {Range(Jobs[t]) : t \in Triggers}

Init ==
  /\ ops \in BOOLEAN
  /\ runs = [c \in Call |-> [j \in Names |-> "none"]]
  /\ call = [c \in Call |-> [trigger |-> Null, at |-> 1, state |-> "waiting"]]
  /\ mails = {} /\ reported = {}

JobOf(c) == Jobs[call[c].trigger][call[c].at]

\* runTick, runNightly: the endpoint is called.
Start(c, t) ==
  /\ call[c].state = "waiting" /\ call[c].trigger = Null
  /\ call' = [call EXCEPT ![c].trigger = t, ![c].state = "inserting"]
  /\ UNCHANGED <<ops, runs, mails, reported>>

\* run: the row is written before the work begins.
Begin(c) ==
  /\ call[c].state = "inserting"
  /\ runs' = [runs EXCEPT ![c][JobOf(c)] = "running"]
  /\ call' = [call EXCEPT ![c].state = "working"]
  /\ UNCHANGED <<ops, mails, reported>>

\* The next job, or the answer: ok when every job was.
Onward(c) ==
  call' = [call EXCEPT
    ![c].at = IF @ < Len(Jobs[call[c].trigger]) THEN @ + 1 ELSE @,
    ![c].state =
      IF call[c].at < Len(Jobs[call[c].trigger]) THEN "inserting"
      ELSE IF \A j \in Range(Jobs[call[c].trigger]) : runs'[c][j] = "ok"
           THEN "ok" ELSE "not ok"]

\* What a check may find: each row wrong in one way.  Things go wrong, are put
\* right, or are wrong in another detail, at any time.
Wrong(check) == {F \in SUBSET Finding[check] :
                   \A f, g \in F : f.what = g.what => f = g}

\* The lines of what a check found: all differences of reconcile; of the queries
\* of the consistency check, here one, the first rows of each.
Lines(check, F) ==
  IF check = "reconcile_payments" THEN {F}
  ELSE kSubset(Min({Shown, Cardinality(F)}), F)

Of(lines) == {l.what : l \in lines}

\* findingsKey: the day (see NextDay) and what is wrong.  Reconcile leaves the
\* detail out; a line of the consistency check has none.
Key(check, lines) == [check |-> check, of |-> Of(lines)]

\* notifyReview: without OPS_EMAIL a line of the log and no email; else an email
\* of the first lines, unless there is one with the key.
Mailed(check, lines) ==
  IF ~ops \/ \E m \in mails : m.key = Key(check, lines) THEN {mails}
  ELSE {mails \cup {[check |-> check, key |-> Key(check, lines), lines |-> cut]} :
          cut \in kSubset(Min({Listed, Cardinality(lines)}), lines)}

\* The work is done.  A check has queued an email about what it found, or has not.
Work(c) ==
  /\ call[c].state = "working"
  /\ call' = [call EXCEPT ![c].state = "recording"]
  /\ \/ UNCHANGED <<mails, reported>>
     \/ /\ JobOf(c) \in Checks
        /\ \E F \in Wrong(JobOf(c)) \ {{}} : \E lines \in Lines(JobOf(c), F) :
             /\ mails' \in Mailed(JobOf(c), lines)
             /\ reported' = reported \cup {[check |-> JobOf(c), found |-> F]}
  /\ UNCHANGED <<ops, runs>>

Done(c) ==
  /\ call[c].state = "recording"
  /\ runs' = [runs EXCEPT ![c][JobOf(c)] = "ok"]
  /\ Onward(c)
  /\ UNCHANGED <<ops, mails, reported>>

\* Variant: a failed job ends the call.
FailedAndOver(c) ==
  /\ call[c].state \in {"working", "recording"}
  /\ runs' = [runs EXCEPT ![c][JobOf(c)] = "failed"]
  /\ call' = [call EXCEPT ![c].state = "not ok"]
  /\ UNCHANGED <<ops, mails, reported>>

\* It fails: that is written down, and the next job begins all the same.
Failed(c) ==
  /\ call[c].state \in {"working", "recording"}
  /\ runs' = [runs EXCEPT ![c][JobOf(c)] = "failed"]
  /\ Onward(c)
  /\ UNCHANGED <<ops, mails, reported>>

\* The statement that writes the row fails, or the process stops: the call ends
\* with an error, its other jobs do not run, and a row may stay "running".
Aborted(c) ==
  /\ call[c].state \in Busy
  /\ call' = [call EXCEPT ![c].state = "error"]
  /\ UNCHANGED <<ops, runs, mails, reported>>

\* The keys hold the date: yesterday's emails do not matter today.
NextDay ==
  /\ reported # {}
  /\ mails' = {} /\ reported' = {}
  /\ UNCHANGED <<ops, runs, call>>

Next ==
  \/ \E c \in Call : \/ \E t \in Triggers : Start(c, t)
                     \/ Begin(c) \/ Work(c) \/ Done(c) \/ Failed(c) \/ Aborted(c)
  \/ NextDay

Spec == Init /\ [][Next]_vars

-----------------------------------------------------------------------------
(* Types. *)
TypeOK ==
  /\ ops \in BOOLEAN
  /\ runs \in [Call -> [Names -> {"none", "running", "ok", "failed"}]]
  /\ \A c \in Call : /\ call[c].trigger \in Triggers \cup {Null}
                     /\ call[c].at \in 1..4
                     /\ call[c].state \in Busy \cup
                          {"waiting", "ok", "not ok", "error"}
  /\ \A m \in mails : m.lines \subseteq Finding[m.check]

\* One failing job never stops the others of the same call (jobs.ts:39): a call
\* that was answered ran every job to an end, and it says ok when all were.
AnswersForAll ==
  \A c \in Call : call[c].state \in {"ok", "not ok"} =>
    /\ \A j \in Range(Jobs[call[c].trigger]) : runs[c][j] \in {"ok", "failed"}
    /\ call[c].state = "ok" <=>
         \A j \in Range(Jobs[call[c].trigger]) : runs[c][j] = "ok"

\* How many findings of a check its email has room for.
Room(check) ==
  IF check = "reconcile_payments" THEN Listed ELSE Min({Shown, Listed})

\* With OPS_EMAIL set, what a check found is in an email of that day, however
\* often the check runs and the findings change during the day: the email names
\* nothing that was not found and, unless there was no room (booking-mail.ts:66,
\* jobs.ts:129), all that was.  Its details are those of the run that queued it:
\* one that finds the same with other details mails nothing (jobs.ts:98).
FindingsAreMailed ==
  ops => \A r \in reported : \E m \in mails :
    /\ m.check = r.check /\ Of(m.lines) \subseteq Of(r.found)
    /\ Cardinality(r.found) <= Room(r.check) => Of(m.lines) = Of(r.found)
    /\ \E e \in reported : e.check = m.check /\ m.lines \subseteq e.found
=============================================================================
