-------------------------------- MODULE Waking --------------------------------
(***************************************************************************)
(* A visitor while the API sleeps: every page calls it through api.ts,     *)
(* which sends the browser to /waking when the host answers for it, or     *)
(* when the first call of a loaded page takes too long; /waking asks for   *)
(* the API's health until it is there and goes back to the page.  The host *)
(* is external: a request wakes it, and it sleeps a bounded number of      *)
(* times.                                                                  *)
(***************************************************************************)
EXTENDS Naturals

CONSTANT MaxSleeps  \* bound on how often the host goes to sleep or is slow

VARIABLES host,      \* the process behind the API
          pauses,    \* how often it went to sleep or was slow
          page,      \* what the visitor sees
          apiAwake,  \* a call was answered since the page was loaded
          calling    \* the page waits for an answer

vars == <<host, pauses, page, apiAwake, calling>>

\* The page asks for what it shows as soon as it is loaded.
Init ==
  /\ host \in {"up", "asleep"} /\ pauses = 0
  /\ page = "loading" /\ apiAwake = FALSE /\ calling = TRUE

\* A visitor clicks, or tries again after an error.
Ask ==
  /\ page \in {"shown", "error"} /\ ~ calling
  /\ calling' = TRUE
  /\ UNCHANGED <<host, pauses, page, apiAwake>>

\* The API's own answer, an error of its own included.
Answered ==
  /\ calling /\ host = "up"
  /\ page' = "shown" /\ apiAwake' = TRUE /\ calling' = FALSE
  /\ UNCHANGED <<host, pauses>>

\* The browser leaves the page, and forgets with it that the API was awake.
ToWaking ==
  page' = "waking" /\ apiAwake' = FALSE /\ calling' = FALSE

\* 502 or 503 from the host, without the API's error.
HostAnswers ==
  /\ calling /\ host # "up"
  /\ ToWaking
  /\ UNCHANGED <<host, pauses>>

\* Only the first call is given up, also when an API that is up was slow.
FirstCallTakesTooLong ==
  /\ calling /\ ~ apiAwake
  /\ host = "up" => pauses < MaxSleeps
  /\ pauses' = IF host = "up" THEN pauses + 1 ELSE pauses
  /\ ToWaking
  /\ UNCHANGED host

Unreachable ==
  /\ calling
  /\ page' = "error" /\ calling' = FALSE
  /\ UNCHANGED <<host, pauses, apiAwake>>

\* An answer of /health; anything else waits for the next round.
Poll ==
  /\ page = "waking" /\ host = "up"
  /\ page' = "loading" /\ calling' = TRUE
  /\ UNCHANGED <<host, pauses, apiAwake>>

Sleep ==
  /\ host = "up" /\ pauses < MaxSleeps
  /\ host' = "asleep" /\ pauses' = pauses + 1
  /\ UNCHANGED <<page, apiAwake, calling>>

\* A call that waits, or the next poll, wakes it.
Wake ==
  /\ host = "asleep" /\ (calling \/ page = "waking")
  /\ host' = "up"
  /\ UNCHANGED <<pauses, page, apiAwake, calling>>

Next == \/ Ask \/ Answered \/ HostAnswers \/ FirstCallTakesTooLong
        \/ Unreachable \/ Poll \/ Sleep \/ Wake

\* The host wakes and answers, and /waking goes on asking.
FairSpec == /\ Init /\ [][Next]_vars
            /\ WF_vars(Wake) /\ WF_vars(Answered) /\ WF_vars(Poll)

\* A visitor who waits, for a call or at /waking, sees the page in the end or is
\* told that it cannot be reached, whatever the host does meanwhile (SPEC 16.6).
ComesBack ==
  (calling \/ page = "waking") ~> (~ calling /\ page \in {"shown", "error"})
=============================================================================
