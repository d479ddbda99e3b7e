-------------------------------- MODULE Pages --------------------------------
(***************************************************************************)
(* Addresses of booking pages: vendors.slug, and vendor_slug_history, which *)
(* keeps the former ones so that old links go on leading to their vendor.  *)
(*                                                                         *)
(* A handler reads the vendor when it comes in, looks in a statement of its *)
(* own whether the wanted address is free, and writes in later statements  *)
(* of that transaction, which is READ COMMITTED and locks no row before:   *)
(* other handlers come between any two of the three.  The writes and the   *)
(* commit are one step, for the unique index makes a second writer of the  *)
(* same address wait, and then fail.                                       *)
(***************************************************************************)
EXTENDS Naturals, FiniteSets

CONSTANTS Vendor, Slug,
          Request,      \* handlers that may run at once
          Null

VARIABLES
  slug,     \* vendors.slug; Null before the vendor has a profile
  former,   \* vendor_slug_history, by its primary key
  request,  \* how far each handler is, and what it has read
  used,     \* history: the addresses each vendor has had
  raced     \* history: addresses taken, or left, on a read that had become stale

vars == <<slug, former, request, used, raced>>

\* A handler has read its vendor's address, and then found wanted free; stale
\* notes that somebody else took wanted since.
Progress == [vendor : Vendor, read : Slug \cup {Null}, wanted : Slug \cup {Null},
             stale : BOOLEAN]

TypeOK ==
  /\ slug \in [Vendor -> Slug \cup {Null}]
  /\ former \in [Slug -> Vendor \cup {Null}]
  /\ request \in [Request -> Progress \cup {Null}]
  /\ used \in [Vendor -> SUBSET Slug]
  /\ raced \subseteq Slug

Init ==
  /\ slug = [v \in Vendor |-> Null] /\ former = [s \in Slug |-> Null]
  /\ request = [r \in Request |-> Null]
  /\ used = [v \in Vendor |-> {}]
  /\ raced = {}

(***************************************************************************)
(* Looking an address up.                                                  *)
(***************************************************************************)
\* Those a visitor of an address may be led to: publishedVendorId.
Owners(s) == {v \in Vendor : slug[v] = s \/ former[s] = v}

\* Variant: only the addresses in use are taken.
FreeNow(s, v) == \A w \in Vendor \ {v} : slug[w] # s

\* assertSlugFree; a vendor that is being created is no other's.
Free(s, v) == Owners(s) \subseteq {v}

(***************************************************************************)
(* Creating a profile, and changing its address.                           *)
(***************************************************************************)
\* requireVendor, or requireVendorUser for a vendor without a profile.
Enter(r, v) ==
  /\ request[r] = Null
  /\ request' = [request EXCEPT ![r] =
       [vendor |-> v, read |-> slug[v], wanted |-> Null, stale |-> FALSE]]
  /\ UNCHANGED <<slug, former, used, raced>>

Check(r, s) ==
  LET q == request[r]
  IN /\ q # Null /\ q.wanted = Null /\ s # q.read
     /\ Free(s, q.vendor)
     /\ request' = [request EXCEPT ![r].wanted = s]
     /\ UNCHANGED <<slug, former, used, raced>>

Ready(r) == request[r] # Null /\ request[r].wanted # Null

\* The unique index on vendors.slug.
Unique(s, v) == \A w \in Vendor \ {v} : slug[w] # s

\* The handler ends with s the vendor's address, and leaves the one it had read;
\* other vendors' handlers that have checked one of them are stale from now on.
Takes(r, s) ==
  LET v == request[r].vendor
      left == {slug[v]} \ {request[r].read}
  IN /\ Unique(s, v)
     /\ slug' = [slug EXCEPT ![v] = s]
     /\ used' = [used EXCEPT ![v] = @ \cup {s}]
     /\ raced' = raced \cup left \cup (IF request[r].stale THEN {s} ELSE {})
     /\ request' = [q \in Request |->
          IF q = r \/ request[q] = Null THEN Null
          ELSE [request[q] EXCEPT !.stale = @ \/
                  (/\ request[q].vendor # v
                   /\ request[q].wanted \in {s, request[r].read} \ {Null})]]

\* The second of two requests to create a profile finds it there.
Create(r) ==
  /\ Ready(r) /\ request[r].read = Null /\ slug[request[r].vendor] = Null
  /\ Takes(r, request[r].wanted)
  /\ UNCHANGED former

\* The address that was read is kept, whatever the vendor's address is by now,
\* unless it is kept for somebody already.
Rename(r) ==
  LET v == request[r].vendor
      old == request[r].read
  IN /\ Ready(r) /\ old # Null
     /\ Takes(r, request[r].wanted)
     /\ former' = IF former[old] = Null THEN [former EXCEPT ![old] = v] ELSE former

\* The address that was read is sent again: it is neither looked for nor kept,
\* and written whatever the vendor's address is by now.
Keep(r) ==
  /\ request[r] # Null /\ request[r].wanted = Null /\ request[r].read # Null
  /\ Takes(r, request[r].read)
  /\ UNCHANGED former

GiveUp(r) ==
  /\ request[r] # Null
  /\ request' = [request EXCEPT ![r] = Null]
  /\ UNCHANGED <<slug, former, used, raced>>

Step(r) ==
  \/ \E v \in Vendor : Enter(r, v)
  \/ \E s \in Slug : Check(r, s)
  \/ Create(r) \/ Rename(r) \/ Keep(r) \/ GiveUp(r)

Next == \E r \in Request : Step(r)

Spec == Init /\ [][Next]_vars

(***************************************************************************)
(* Properties.                                                             *)
(***************************************************************************)
\* An address leads to one vendor, whatever is renamed, unless its second owner
\* had found it free before the first one took it, or a save that had read an
\* older one had left it to nobody (assertSlugFree, api/vendor-routes.ts:59:
\* the check and the write are apart, and the index does not look at the history).
OneOwner == \A s \in Slug \ raced : Cardinality(Owners(s)) <= 1

\* An address a vendor has had leads to it for ever, unless it was left by a
\* save that had read an older one, or taken on a stale check (PATCH /me,
\* api/vendor-routes.ts:88: a rename keeps the address read before, and a save
\* that sends that one again writes it over a rename made since, and keeps none).
OldLinksLead ==
  \A v \in Vendor : \A s \in used[v] : v \in Owners(s) \/ s \in raced
=============================================================================
