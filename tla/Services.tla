------------------------------ MODULE Services ------------------------------
(***************************************************************************)
(* The services a vendor sells, and their order on the page.               *)
(*                                                                         *)
(* A change of a service reads the whole row, merges the fields it was     *)
(* sent, checks the result and writes the whole row in a second statement; *)
(* others write in between.  A reorder updates one row after another in a   *)
(* transaction and keeps each locked until it commits.                     *)
(***************************************************************************)
EXTENDS Naturals, FiniteSets

CONSTANTS Service, Request, Null,
          Gone,         \* the row of a service that was deleted
          Patch,        \* what a request sends: some of the fields, Null for
                        \* one that is to have its default
          Count,        \* numbers of minutes, sessions, days, paise
          DayMinutes,   \* minutes of a day
          MaxBlocks, MaxDays,
          Percent       \* the values of an advance in percent

CountsAreNumbers == Count \subseteq Nat /\ 1 \in Count
LimitsAreNumbers == {DayMinutes, MaxBlocks, MaxDays} \subseteq Nat \ {0}

VARIABLES
  row,      \* services: each row, Null before it is created
  order,    \* services.sort_order
  locked,   \* the rows a reorder has updated, by its request
  request,  \* what each request has read and wants
  asked,    \* history: the orders asked for
  mended    \* history: created, deleted or ordered in part since the last order of all

vars == <<row, order, locked, request, asked, mended>>

Hourly == {"minutes", "min_blocks", "max_blocks"}
Daily == {"min_days", "max_days"}
Fields == Hourly \cup Daily \cup {"mode", "price", "type", "value"}

\* services_mode_fields and services_blocks.
ModeOK(r) ==
  IF r.mode = "hourly"
    THEN /\ Null \notin {r[f] : f \in Hourly} /\ \A f \in Daily : r[f] = Null
         /\ 1 <= r.min_blocks /\ r.min_blocks <= r.max_blocks /\ r.max_blocks <= MaxBlocks
         /\ r.minutes * r.max_blocks <= DayMinutes
    ELSE /\ Null \notin {r[f] : f \in Daily} /\ \A f \in Hourly : r[f] = Null
         /\ 1 <= r.min_days /\ r.min_days <= r.max_days /\ r.max_days <= MaxDays

\* advanceRuleProblem finds none.
AdvanceOK(r) ==
  CASE r.type = "NONE" -> r.value = 0
    [] r.type = "PERCENT" -> r.value \in Percent
    [] r.type = "FIXED" -> 1 <= r.value /\ r.value <= r.price

\* serviceCreateSchema.
Valid(r) == ModeOK(r) /\ r.price >= 1 /\ (r.mode = "hourly" => r.minutes >= 1) /\ AdvanceOK(r)

Amount == Count \cup {Null}

Row == [mode : {"hourly", "daily"}, price : Count,
        minutes : Amount, min_blocks : Amount, max_blocks : Amount,
        min_days : Amount, max_days : Amount,
        type : {"NONE", "PERCENT", "FIXED"}, value : Count \cup {0}]

\* What a request may send of each field (serviceUpdateSchema).
Sent(f) ==
  CASE f = "mode" -> {"hourly", "daily"} [] f = "price" -> Count
    [] f = "type" -> {"NONE", "PERCENT", "FIXED"} [] f = "value" -> Count \cup {0}
    [] OTHER -> Amount

PatchesAreTyped ==
  \A p \in Patch : DOMAIN p \subseteq Fields /\ \A f \in DOMAIN p : p[f] \in Sent(f)

(***************************************************************************)
(* Merging.                                                                *)
(***************************************************************************)
\* What is not given: limits are 1, and minutes must be given.
Default(f, mode) ==
  IF f \in (IF mode = "hourly" THEN {"min_blocks", "max_blocks"} ELSE Daily) THEN 1 ELSE Null

\* The fields of the old mode are dropped when the mode changes.
Kept(f, old, patch) ==
  IF "mode" \in DOMAIN patch /\ patch.mode # old.mode /\ f \in Hourly \cup Daily
    THEN Null ELSE old[f]

\* What is sent goes over what is stored, a null included, which then asks for the default.
Merged(old, patch) ==
  LET mode == IF "mode" \in DOMAIN patch THEN patch.mode ELSE old.mode
  IN [f \in Fields |->
       LET value == IF f \in DOMAIN patch THEN patch[f] ELSE Kept(f, old, patch)
       IN IF value # Null THEN value ELSE Default(f, mode)]

\* Variant: only the fields that were sent are written.
ColumnsSent(now, read, patch) ==
  IF "mode" \in DOMAIN patch THEN Merged(read, patch)
  ELSE [f \in Fields |-> IF f \in DOMAIN patch THEN patch[f] ELSE now[f]]

\* What the update makes of a row: every column, as merged with what was read.
Written(now, read, patch) == Merged(read, patch)

(***************************************************************************)
(* Creating, changing and deleting.                                        *)
(***************************************************************************)
Present == {s \in Service : row[s] \notin {Null, Gone}}
LastPlace == CHOOSE n \in {order[s] : s \in Present} : \A s \in Present : order[s] <= n

New == [f \in Fields |->
  CASE f = "mode" -> "hourly" [] f \in Hourly -> 1 [] f \in Daily -> Null
    [] f = "price" -> 1 [] f = "type" -> "NONE" [] f = "value" -> 0]

\* Those that were deleted before are Gone.
Init ==
  /\ row \in [Service -> {Null, Gone}] /\ order = [s \in Service |-> 0]
  /\ locked = [s \in Service |-> Null]
  /\ request = [r \in Request |-> Null]
  /\ asked = {} /\ mended = TRUE

Create(s) ==
  /\ row[s] = Null
  /\ row' = [row EXCEPT ![s] = New]
  /\ order' = [order EXCEPT ![s] = IF Present = {} THEN 0 ELSE LastPlace + 1]
  /\ mended' = TRUE
  /\ UNCHANGED <<locked, request, asked>>

\* A service without bookings.
Delete(s) ==
  /\ s \in Present /\ locked[s] = Null
  /\ row' = [row EXCEPT ![s] = Gone]
  /\ mended' = TRUE
  /\ UNCHANGED <<order, locked, request, asked>>

ReadRow(r, s, patch) ==
  /\ request[r] = Null /\ s \in Present
  /\ Valid(Merged(row[s], patch))
  /\ request' = [request EXCEPT ![r] = [kind |-> "patch", of |-> s, read |-> row[s], patch |-> patch]]
  /\ UNCHANGED <<row, order, locked, asked, mended>>

\* An update that finds the row gone changes nothing; one that finds it locked waits.
WriteRow(r) ==
  LET q == request[r]
  IN /\ q # Null /\ q.kind = "patch" /\ locked[q.of] = Null
     /\ row' = IF q.of \notin Present THEN row
               ELSE [row EXCEPT ![q.of] = Written(@, q.read, q.patch)]
     /\ request' = [request EXCEPT ![r] = Null]
     /\ UNCHANGED <<order, locked, asked, mended>>

(***************************************************************************)
(* Reordering.                                                             *)
(***************************************************************************)
\* ids gives each service its place.
StartReorder(r, ids) ==
  /\ request[r] = Null /\ DOMAIN ids \subseteq Present
  /\ request' = [request EXCEPT ![r] = [kind |-> "order", ids |-> ids, done |-> {}]]
  /\ asked' = asked \cup {ids}
  /\ UNCHANGED <<row, order, locked, mended>>

Ordering(r) == request[r] # Null /\ request[r].kind = "order"

\* The next row to update, the one of the lowest place not yet done.
Turn(r) ==
  LET q == request[r]
  IN CHOOSE s \in DOMAIN q.ids \ q.done : \A o \in DOMAIN q.ids \ q.done : q.ids[s] <= q.ids[o]

UpdatePlace(r) ==
  LET q == request[r]
  IN /\ Ordering(r) /\ q.done # DOMAIN q.ids
     /\ locked[Turn(r)] = Null
     /\ locked' = IF Turn(r) \notin Present THEN locked ELSE [locked EXCEPT ![Turn(r)] = r]
     /\ request' = [request EXCEPT ![r].done = @ \cup {Turn(r)}]
     /\ UNCHANGED <<row, order, asked, mended>>

Unlocked(r) == [s \in Service |-> IF locked[s] = r THEN Null ELSE locked[s]]

CommitOrder(r) ==
  LET q == request[r]
  IN /\ Ordering(r) /\ q.done = DOMAIN q.ids
     /\ order' = [s \in Service |-> IF locked[s] = r THEN q.ids[s] ELSE order[s]]
     /\ mended' = (DOMAIN q.ids # Present)
     /\ locked' = Unlocked(r)
     /\ request' = [request EXCEPT ![r] = Null]
     /\ UNCHANGED <<row, asked>>

\* A request is refused or dies, or the database ends a circular wait.
Abort(r) ==
  /\ request[r] # Null
  /\ locked' = Unlocked(r)
  /\ request' = [request EXCEPT ![r] = Null]
  /\ UNCHANGED <<row, order, asked, mended>>

Places(S) == {f \in [S -> 0..(Cardinality(S) - 1)] : \A a, b \in S : a # b => f[a] # f[b]}

Arrange(r) ==
  \/ \E S \in SUBSET Service \ {{}} : \E ids \in Places(S) : StartReorder(r, ids)
  \/ UpdatePlace(r) \/ CommitOrder(r) \/ Abort(r)

Next ==
  \/ \E s \in Service : Create(s) \/ Delete(s)
  \/ \E r \in Request :
       \/ \E s \in Service, patch \in Patch : ReadRow(r, s, patch)
       \/ WriteRow(r)
       \/ Arrange(r)

Spec == Init /\ [][Next]_vars

(***************************************************************************)
(* Properties.                                                             *)
(***************************************************************************)
TypeOK ==
  /\ row \in [Service -> Row \cup {Null, Gone}]
  /\ order \in [Service -> Nat] /\ locked \in [Service -> Request \cup {Null}]
  /\ \A r \in Request : request[r] # Null => request[r].kind \in {"patch", "order"}
  /\ mended \in BOOLEAN
  \* a locked row is one its request has come to
  /\ \A s \in Service : locked[s] # Null => Ordering(locked[s]) /\ s \in request[locked[s]].done

\* Changes that were each checked against an older row never make a row together
\* that no check has seen: limits that contradict each other, a day that is too
\* short, an advance above the price, or columns of both modes (PATCH
\* /services/:id, api/vendor-routes.ts:121: read, merge and write are apart).
StoredIsValid == \A s \in Present : Valid(row[s])

\* When the last word on the order was one for all services, the order is one
\* that was asked for, not a mixture of two (POST /services/reorder,
\* api/vendor-routes.ts:148).
OrderWasAsked ==
  ~mended => \E ids \in asked : Present \subseteq DOMAIN ids /\ \A s \in Present : ids[s] = order[s]
=============================================================================
