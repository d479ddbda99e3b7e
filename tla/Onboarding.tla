------------------------------ MODULE Onboarding ------------------------------
(***************************************************************************)
(* The wizard a new vendor sets a page up with (onboarding-wizard.tsx):    *)
(* business, first service, hours, publish.  It loads the profile and the  *)
(* checklist when it opens and again after every step, in two requests     *)
(* served apart; while it does, the step that was saved can still be used. *)
(* Any call can be lost, before or after the API acts on it.  Another      *)
(* window may finish steps too, all but publishing.  The policies are      *)
(* filled in, and the session lasts.                                       *)
(***************************************************************************)
EXTENDS Naturals

CONSTANTS MaxCalls,  \* bound on the calls of one visit
          Null

VARIABLES stored,   \* what the vendor has: "profile", "service", "hours", "published"
          step,     \* the step shown, Null while loading
          profile,  \* the profile the wizard keeps: Null, "draft" or "live"
          busy,     \* the call that disables the form
          missing,  \* the steps the last refusal to publish leads back to
          net, sent,  \* calls under way, and how many were sent
          asked, taken,  \* the newest load, and the one whose answer is shown
          skipped,  \* history: the steps that were skipped
          failed    \* history: a call failed or its answer was lost

vars == <<stored, step, profile, busy, missing, net, sent, asked, taken, skipped, failed>>

Unfinished == {k \in 1..2 : (k = 1 /\ "service" \notin stored)
                            \/ (k = 2 /\ "hours" \notin stored)}

\* Promise.all of both requests; to: the step that follows, Null for none.
Refresh(to) ==
  [id |-> sent + 1, kind |-> "refresh", to |-> to, me |-> Null, list |-> Null]

Init ==
  /\ stored \in SUBSET {"profile", "service", "hours", "published"}
  /\ stored # {} => "profile" \in stored
  /\ "published" \in stored => Unfinished = {}
  /\ step = Null /\ profile = Null /\ busy = Null /\ missing = {}
  /\ sent = 1 /\ asked = 1 /\ taken = 0 /\ skipped = {} /\ failed = FALSE
  /\ net = {[id |-> 1, kind |-> "refresh", to |-> Null, me |-> Null, list |-> Null]}

\* Another step is another form.
Show(k) ==
  /\ step' = k
  /\ busy' = IF k = step THEN busy ELSE Null
  /\ missing' = IF k = step THEN missing ELSE {}

-----------------------------------------------------------------------------
ServeMe(c) ==
  /\ c \in net /\ c.kind = "refresh" /\ c.me = Null /\ "profile" \in stored
  /\ net' = (net \ {c}) \cup
       {[c EXCEPT !.me = IF "published" \in stored THEN "live" ELSE "draft"]}
  /\ UNCHANGED <<stored, step, profile, busy, missing, sent, asked, taken, skipped, failed>>

ServeChecklist(c) ==
  /\ c \in net /\ c.kind = "refresh" /\ c.list = Null /\ "profile" \in stored
  /\ net' = (net \ {c}) \cup {[c EXCEPT !.list = Unfinished]}
  /\ UNCHANGED <<stored, step, profile, busy, missing, sent, asked, taken, skipped, failed>>

FirstOf(list) == IF 1 \in list THEN 1 ELSE IF 2 \in list THEN 2 ELSE 3

Refreshed(c) ==
  /\ c \in net /\ c.kind = "refresh" /\ c.me # Null /\ c.list # Null
  /\ profile' = c.me /\ taken' = c.id
  /\ Show(IF c.to # Null THEN c.to ELSE IF step = Null THEN FirstOf(c.list) ELSE step)
  /\ net' = net \ {c}
  /\ UNCHANGED <<stored, sent, asked, skipped, failed>>

\* 404 without a profile, or no answer: the wizard begins at the business.
RefreshFails(c) ==
  /\ c \in net /\ c.kind = "refresh"
  /\ failed' = (failed \/ "profile" \in stored)
  /\ Show(IF c.to # Null THEN c.to ELSE 0)
  /\ net' = net \ {c}
  /\ UNCHANGED <<stored, profile, sent, asked, taken, skipped>>

\* The form of a step is sent, unless it is under way.
Submit ==
  /\ busy = Null /\ sent < MaxCalls
  /\ net' = net \cup {[id |-> sent + 1, kind |-> "save", of |-> step]}
  /\ sent' = sent + 1 /\ busy' = sent + 1 /\ missing' = {}
  /\ UNCHANGED <<stored, step, profile, asked, taken, skipped, failed>>

SubmitBusiness == step = 0 /\ Submit
SubmitService  == step = 1 /\ Submit
SubmitHours    == step = 2 /\ Submit
\* Two calls in one: the policies are saved, then the page is published.
Publish        == step = 3 /\ profile = "draft" /\ Submit

Skip ==
  /\ step \in {1, 2}
  /\ Show(step + 1)
  /\ skipped' = skipped \cup {step}
  /\ UNCHANGED <<stored, profile, net, sent, asked, taken, failed>>

Back(k) ==
  /\ step = 3 /\ profile = "draft" /\ k \in missing
  /\ Show(k)
  /\ UNCHANGED <<stored, profile, net, sent, asked, taken, skipped, failed>>

\* What the API makes of a step; it publishes a finished checklist only.
Save(c) ==
  /\ c \in net /\ c.kind = "save"
  /\ LET part == <<"profile", "service", "hours", "published">>[c.of + 1]
         fits == /\ c.of = 0 => "profile" \notin stored
                 /\ c.of > 0 => "profile" \in stored
                 /\ c.of = 3 => Unfinished = {}
     IN  /\ stored' = IF fits THEN stored \cup {part} ELSE stored
         /\ net' = (net \ {c}) \cup
              {[id |-> c.id, kind |-> IF fits THEN "saved" ELSE "refused", of |-> c.of,
                back |-> IF c.of = 3 THEN Unfinished ELSE {}]}
  /\ UNCHANGED <<step, profile, busy, missing, sent, asked, taken, skipped, failed>>

\* The form can be used again before the load that follows is answered.
Saved(c) ==
  /\ c \in net /\ c.kind = "saved" /\ sent < MaxCalls
  /\ net' = (net \ {c}) \cup {Refresh(IF c.of = 3 THEN Null ELSE c.of + 1)}
  /\ sent' = sent + 1 /\ asked' = sent + 1
  /\ busy' = IF busy = c.id THEN Null ELSE busy
  /\ UNCHANGED <<stored, step, profile, missing, taken, skipped, failed>>

Refused(c) ==
  /\ c \in net /\ c.kind = "refused"
  /\ net' = net \ {c}
  /\ busy' = IF busy = c.id THEN Null ELSE busy
  /\ missing' = IF busy = c.id THEN c.back ELSE missing
  /\ UNCHANGED <<stored, step, profile, sent, asked, taken, skipped, failed>>

Lost(c) ==
  /\ c \in net /\ c.kind \in {"save", "saved"}
  /\ net' = (net \ {c}) \cup {[id |-> c.id, kind |-> "refused", of |-> c.of, back |-> {}]}
  /\ failed' = TRUE
  /\ UNCHANGED <<stored, step, profile, busy, missing, sent, asked, taken, skipped>>

Elsewhere ==
  /\ \E part \in {"profile", "service", "hours"} :
       /\ stored' = stored \cup {"profile", part} /\ stored' # stored
  /\ UNCHANGED <<step, profile, busy, missing, net, sent, asked, taken, skipped, failed>>

Next ==
  \/ SubmitBusiness \/ SubmitService \/ SubmitHours \/ Publish
  \/ Skip \/ Elsewhere \/ \E k \in 1..2 : Back(k)
  \/ \E c \in net : \/ ServeMe(c) \/ ServeChecklist(c) \/ Refreshed(c) \/ RefreshFails(c)
                    \/ Save(c) \/ Saved(c) \/ Refused(c) \/ Lost(c)

-----------------------------------------------------------------------------
TypeOK ==
  /\ stored \subseteq {"profile", "service", "hours", "published"}
  /\ step \in 0..3 \cup {Null} /\ profile \in {Null, "draft", "live"}
  /\ sent \in 1..MaxCalls /\ {asked, taken} \subseteq 0..sent
  /\ busy \in {Null} \cup 1..sent /\ missing \subseteq 1..2 /\ skipped \subseteq 1..2

\* While every call is answered: past the business the wizard knows the profile,
\* so that no step is blank; no step is passed over that was not skipped or done;
\* and once it rests on its newest load, it says live of a page that is
\* published and of no other.
LeadsOn ==
  ~ failed =>
    /\ step \in 1..3 => profile # Null /\ "profile" \in stored
    /\ step \in 1..3 => \A k \in Unfinished : k < step => k \in skipped
    /\ step = 3 /\ net = {} /\ taken = asked
         => (profile = "live" <=> "published" \in stored)
=============================================================================
