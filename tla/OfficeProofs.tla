---------------------------- MODULE OfficeProofs ----------------------------
(***************************************************************************)
(* Theorems of Office, each part by an invariant of its own: a step of one  *)
(* part keeps the invariant of that part, and no step picks another part.  *)
(***************************************************************************)
EXTENDS Office, OutboxProofs, FiniteSetTheorems, WellFoundedInduction


-----------------------------------------------------------------------------
(* The parts.                                                              *)

\* A part runs alone.
LEMMA Alone ==
  ASSUME [Step]_all
  PROVE  /\ part' = part
         /\ part = "outbox" => [Next]_vars
         /\ part = "pages" => [Naming!Next]_pageVars
         /\ part \in {"services", "order"} => [Offering!Next]_serviceVars
         /\ part = "accounts" => [Closing!Next]_accountVars
         /\ part = "notices" => [Telling!Next]_noticeVars
         /\ part = "slots" => [Scheduling!Next]_slotVars
         /\ part = "jobs" => [Ticking!Next]_jobVars
         /\ part = "migrations" => [Deploying!Next]_migrationVars
         /\ part # "outbox" => UNCHANGED vars
<1>1. CASE UNCHANGED all
  BY <1>1 DEF all
<1>2. CASE Step
  <2>1. ASSUME part \in {"services", "order"}, Selling \/ Ordering
        PROVE  Offering!Next
    BY <2>1 DEF Selling, Ordering, Offering!Next
  <2> QED
    BY <1>2, <2>1 DEF Step, Outboxing, Paging, Selling, Ordering, Leaving, Reminding,
      Offers, Runs, Migrates
<1> QED BY <1>1, <1>2

-----------------------------------------------------------------------------
(* The outbox, which the other parts leave alone.                          *)

LEMMA OutboxKept == OfficeSpec => []Inv
<1>1. Start => Inv
  BY InvInit DEF Start
<1>2. Inv /\ [Step]_all => Inv'
  <2> SUFFICES ASSUME Inv, [Step]_all PROVE Inv'
    OBVIOUS
  <2>1. [Next]_vars
    BY Alone
  <2> QED BY <2>1, NextStep
<1> QED BY <1>1, <1>2, PTL DEF OfficeSpec

\* Nobody gets an email twice but for what excuses it, whatever the other parts do.
THEOREM SentOnce == OfficeSpec => []TwiceOnlyIfExcused
<1>1. Inv => TwiceOnlyIfExcused
  BY DEF Inv, Kept, TwiceOnlyIfExcused
<1> QED BY <1>1, OutboxKept, PTL

\* Nor does the outbox say of an email what did not become of it.
THEOREM OutboxTellsTruth == OfficeSpec => []OutboxIsHonest
BY RowsAreHonest, OutboxKept, PTL

-----------------------------------------------------------------------------
(* Addresses of pages.                                                     *)

\* A handler that found its address free, and has not become stale, still finds
\* it so; what a vendor reads or has is what it has had.
PagesInv ==
  /\ Naming!TypeOK /\ Naming!OldLinksLead
  /\ \A s \in Slug \ raced : \A v, w \in Naming!Owners(s) : v = w
  /\ \A v \in Vendor : slug[v] # Null => slug[v] \in used[v]
  /\ \A r \in Handler :
       LET q == renaming[r] IN
       q # Null =>
         /\ q.read # Null => q.read \in used[q.vendor] /\ slug[q.vendor] # Null
         /\ q.wanted # Null /\ ~q.stale => Naming!Owners(q.wanted) \subseteq {q.vendor}

LEMMA PagesInit == Start => PagesInv
  BY PagesAssumption DEF Start, Naming!Init, PagesInv, Naming!TypeOK,
    Naming!OldLinksLead, Naming!Owners

LEMMA EnterStep ==
  ASSUME PagesInv, NEW r \in Handler, NEW v \in Vendor, Naming!Enter(r, v)
  PROVE  PagesInv'
<1> DEFINE q == [vendor |-> v, read |-> slug[v], wanted |-> Null, stale |-> FALSE]
<1>1. q \in Naming!Progress /\ q # Null
  <2>1. slug[v] \in Slug \cup {Null}
    BY DEF PagesInv, Naming!TypeOK
  <2>2. q \in Naming!Progress
    BY <2>1 DEF Naming!Progress
  <2> QED BY <2>2, PagesAssumption
<1>2. renaming' = [renaming EXCEPT ![r] = q] /\ UNCHANGED <<slug, former, used, raced>>
  BY DEF Naming!Enter
<1>3. q.vendor = v /\ q.read = slug[v] /\ q.wanted = Null
  OBVIOUS
<1> HIDE DEF q
<1> QED
  BY <1>1, <1>2, <1>3 DEF PagesInv, Naming!TypeOK, Naming!OldLinksLead, Naming!Owners

LEMMA CheckStep ==
  ASSUME PagesInv, NEW r \in Handler, NEW s \in Slug, Naming!Check(r, s)
  PROVE  PagesInv'
<1>1. /\ renaming[r] \in Naming!Progress /\ renaming[r] # Null
      /\ Naming!Owners(s) \subseteq {renaming[r].vendor}
      /\ renaming' = [renaming EXCEPT ![r].wanted = s]
      /\ UNCHANGED <<slug, former, used, raced>>
  BY DEF Naming!Check, Naming!Free, PagesInv, Naming!TypeOK
<1>2. PICK q \in Naming!Progress : q = [renaming[r] EXCEPT !.wanted = s]
  BY <1>1 DEF Naming!Progress
<1>3. /\ q.vendor = renaming[r].vendor /\ q.read = renaming[r].read /\ q.wanted = s
      /\ q # Null
  BY <1>1, <1>2, PagesAssumption DEF Naming!Progress
<1>4. renaming' = [renaming EXCEPT ![r] = q]
  BY <1>1, <1>2
<1> QED
  BY <1>1, <1>3, <1>4 DEF PagesInv, Naming!TypeOK, Naming!OldLinksLead, Naming!Owners

LEMMA GiveUpNameStep ==
  ASSUME PagesInv, NEW r \in Handler, Naming!GiveUp(r)
  PROVE  PagesInv'
  BY DEF PagesInv, Naming!TypeOK, Naming!OldLinksLead, Naming!Owners, Naming!GiveUp

\* What both writers do to the requests: their own ends, and those of others that
\* have checked an address which is taken or left now are stale.
LEMMA OthersGoStale ==
  ASSUME PagesInv, NEW r \in Handler, NEW s \in Slug, Naming!Takes(r, s),
         NEW q \in Handler, renaming'[q] # Null
  PROVE  /\ q # r /\ renaming[q] # Null /\ renaming'[q] \in Naming!Progress
         /\ renaming'[q].vendor = renaming[q].vendor
         /\ renaming'[q].read = renaming[q].read
         /\ renaming'[q].wanted = renaming[q].wanted
         /\ ~renaming'[q].stale =>
              /\ ~renaming[q].stale
              /\ \/ renaming[q].vendor = renaming[r].vendor
                 \/ renaming[q].wanted \notin {s, renaming[r].read} \ {Null}
<1> DEFINE late == renaming[q].stale \/
                     (/\ renaming[q].vendor # renaming[r].vendor
                      /\ renaming[q].wanted \in {s, renaming[r].read} \ {Null})
<1>1. renaming'[q] = IF q = r \/ renaming[q] = Null THEN Null
                     ELSE [renaming[q] EXCEPT !.stale = late]
  BY DEF Naming!Takes
<1>2. renaming[q] \in Naming!Progress
  BY <1>1 DEF PagesInv, Naming!TypeOK
<1>3. renaming'[q] = [renaming[q] EXCEPT !.stale = late]
  BY <1>1
<1>4. late \in BOOLEAN
  BY <1>2 DEF Naming!Progress
<1> HIDE DEF late
<1>5. /\ renaming'[q] \in Naming!Progress /\ renaming'[q].stale = late
      /\ renaming'[q].vendor = renaming[q].vendor /\ renaming'[q].read = renaming[q].read
      /\ renaming'[q].wanted = renaming[q].wanted
  BY <1>2, <1>3, <1>4 DEF Naming!Progress
<1> QED BY <1>1, <1>5 DEF late

\* A vendor takes an address it found free, and its former one, if it is still
\* what it was read to be, is kept for it; or it takes the one it had read again.
LEMMA TakesStep ==
  ASSUME PagesInv, NEW r \in Handler, renaming[r] # Null,
         NEW s \in Slug, Naming!Takes(r, s),
         \/ s = renaming[r].wanted /\ (Naming!Create(r) \/ Naming!Rename(r))
         \/ s = renaming[r].read /\ former' = former
  PROVE  PagesInv'
<1> DEFINE v == renaming[r].vendor  old == renaming[r].read
<1>1. /\ renaming[r] \in Naming!Progress /\ v \in Vendor
      /\ old \in Slug \cup {Null}
  BY DEF PagesInv, Naming!TypeOK, Naming!Progress
<1>2. /\ \A w \in Vendor \ {v} : slug[w] # s
      /\ slug' = [slug EXCEPT ![v] = s]
      /\ used' = [used EXCEPT ![v] = @ \cup {s}]
      /\ raced' = raced \cup ({slug[v]} \ {old}) \cup (IF renaming[r].stale THEN {s} ELSE {})
  BY DEF Naming!Takes, Naming!Unique
<1>3. \/ old = Null /\ slug[v] = Null /\ former' = former
      \/ old # Null /\ former' = IF former[old] = Null THEN [former EXCEPT ![old] = v] ELSE former
      \/ old # Null /\ s = old /\ former' = former
  BY PagesAssumption DEF Naming!Create, Naming!Rename
<1>4. old # Null => old \in used[v] /\ slug[v] # Null
  BY DEF PagesInv
<1>5. s = old \/ (~renaming[r].stale => Naming!Owners(s) \subseteq {v})
  BY PagesAssumption DEF PagesInv
<1>6. \A q \in Handler : renaming'[q] # Null =>
        /\ renaming[q] # Null /\ renaming'[q] \in Naming!Progress
        /\ renaming'[q].vendor = renaming[q].vendor
        /\ renaming'[q].read = renaming[q].read
        /\ renaming'[q].wanted = renaming[q].wanted
        /\ ~renaming'[q].stale =>
             ~renaming[q].stale /\ (renaming[q].vendor = v \/ renaming[q].wanted \notin {s, old} \ {Null})
  BY <1>1, OthersGoStale
<1>7. \E f : renaming' = [q \in Handler |-> f[q]]
  <2> DEFINE f == [q \in Handler |-> renaming'[q]]
  <2>1. renaming' = f
    BY DEF Naming!Takes
  <2> QED BY <2>1
<1>8. slug \in [Vendor -> Slug \cup {Null}] /\ former \in [Slug -> Vendor \cup {Null}]
      /\ used \in [Vendor -> SUBSET Slug] /\ raced \subseteq Slug
  BY DEF PagesInv, Naming!TypeOK
<1> HIDE DEF v, old
<1>9. former' \in [Slug -> Vendor \cup {Null}]
  BY <1>1, <1>3, <1>8
<1>10. Naming!TypeOK'
  <2>1. slug' \in [Vendor -> Slug \cup {Null}] /\ used' \in [Vendor -> SUBSET Slug]
    BY <1>1, <1>2, <1>8
  <2>2. raced' \subseteq Slug
    <3>1. {slug[v]} \ {old} \subseteq Slug
      BY <1>1, <1>3, <1>4, <1>8
    <3> QED BY <1>1, <1>2, <1>8, <3>1
  <2>3. renaming' \in [Handler -> Naming!Progress \cup {Null}]
    BY <1>6, <1>7
  <2> QED BY <1>9, <2>1, <2>2, <2>3 DEF Naming!TypeOK
<1>11. \A w \in Vendor : \A t \in Slug : w \in Naming!Owners(t) \equiv slug[w] = t \/ former[t] = w
  BY DEF Naming!Owners
<1>12. \A w \in Vendor : \A t \in Slug :
         w \in Naming!Owners(t)' \equiv slug'[w] = t \/ former'[t] = w
  BY DEF Naming!Owners
<1>13. \A w \in Vendor \ {v} : \A t \in Slug : w \in Naming!Owners(t)' => w \in Naming!Owners(t)
  BY <1>1, <1>2, <1>3, <1>8, <1>11, <1>12
<1>14. \A t \in Slug : v \in Naming!Owners(t)' => v \in Naming!Owners(t) \/ t = s \/ t = old
  BY <1>1, <1>2, <1>3, <1>8, <1>11, <1>12
<1>15. \A w \in Vendor : \A t \in used[w] : w \in Naming!Owners(t) \/ t \in raced
  BY DEF PagesInv, Naming!OldLinksLead
<1>16. \A t \in Slug \ raced : \A u, w \in Naming!Owners(t) : u = w
  BY DEF PagesInv
<1>17. \A t \in Slug : Naming!Owners(t) \subseteq Vendor /\ Naming!Owners(t)' \subseteq Vendor
  BY DEF Naming!Owners
<1>18. \A t \in Slug \ raced' : \A u, w \in Naming!Owners(t)' : u = w
  <2> SUFFICES ASSUME NEW t \in Slug \ raced', NEW w \in Naming!Owners(t)' \ {v}
               PROVE  Naming!Owners(t)' \subseteq {w}
    BY <1>17
  <2>1. t \notin raced /\ w \in Naming!Owners(t) /\ w \in Vendor
    BY <1>2, <1>13, <1>17
  <2>2. Naming!Owners(t) \subseteq {w}
    BY <1>16, <2>1
  <2>3. v \notin Naming!Owners(t)
    BY <2>2
  <2>4. t # old
    BY <1>1, <1>4, <1>15, <2>1, <2>3, PagesAssumption
  <2>5. t # s
    <3>1. CASE renaming[r].stale
      BY <1>2, <3>1
    <3>2. CASE ~renaming[r].stale
      BY <1>5, <2>1, <2>4, <3>2
    <3> QED BY <3>1, <3>2
  <2>6. v \notin Naming!Owners(t)'
    BY <1>14, <2>3, <2>4, <2>5
  <2> QED BY <1>13, <1>17, <2>2, <2>6
<1>19. Naming!OldLinksLead'
  <2> SUFFICES ASSUME NEW w \in Vendor, NEW t \in used'[w], t \notin raced'
               PROVE  w \in Naming!Owners(t)'
    BY DEF Naming!OldLinksLead
  <2>1. t \in Slug /\ t \notin raced
    BY <1>1, <1>2, <1>8
  <2>2. CASE t = s /\ w = v
    BY <1>1, <1>2, <1>8, <1>12, <2>2
  <2>3. CASE t # s \/ w # v
    <3>1. t \in used[w] /\ w \in Naming!Owners(t)
      BY <1>1, <1>2, <1>8, <1>15, <2>1, <2>3
    <3>2. CASE former[t] = w
      BY <1>1, <1>3, <1>8, <1>12, <2>1, <3>2, PagesAssumption
    <3>3. CASE slug[w] = t /\ former[t] # w
      <4>1. CASE w # v
        BY <1>1, <1>2, <1>8, <1>12, <2>1, <3>3, <4>1
      <4>2. CASE w = v
        <5>1. t = old /\ t # Null
          BY <1>2, <2>1, <3>3, <4>2, PagesAssumption
        <5>2. former[t] = Null
          BY <1>8, <1>11, <1>16, <2>1, <3>1, <3>3, <4>2
        <5>3. former' = [former EXCEPT ![old] = v]
          BY <1>3, <2>3, <4>2, <5>1, <5>2
        <5> QED BY <1>1, <1>8, <1>12, <2>1, <4>2, <5>1, <5>3
      <4> QED BY <4>1, <4>2
    <3> QED BY <1>11, <2>1, <3>1, <3>2, <3>3
  <2> QED BY <2>2, <2>3
<1>20. \A w \in Vendor : slug'[w] # Null => slug'[w] \in used'[w]
  BY <1>1, <1>2, <1>8 DEF PagesInv
<1>21. \A q \in Handler : renaming'[q] # Null /\ renaming'[q].read # Null =>
         renaming'[q].read \in used'[renaming'[q].vendor] /\ slug'[renaming'[q].vendor] # Null
  <2> SUFFICES ASSUME NEW q \in Handler, renaming'[q] # Null, renaming'[q].read # Null
               PROVE  renaming'[q].read \in used'[renaming'[q].vendor]
                      /\ slug'[renaming'[q].vendor] # Null
    OBVIOUS
  <2>1. /\ renaming[q] # Null /\ renaming'[q].vendor = renaming[q].vendor
        /\ renaming'[q].read = renaming[q].read
    BY <1>6
  <2>2. renaming[q].read \in used[renaming[q].vendor] /\ slug[renaming[q].vendor] # Null
    BY <2>1 DEF PagesInv
  <2>3. renaming[q].vendor \in Vendor
    BY <2>1 DEF PagesInv, Naming!TypeOK, Naming!Progress
  <2> QED BY <1>1, <1>2, <1>8, <2>1, <2>2, <2>3, PagesAssumption
<1>22. (\A q \in Handler :
          renaming[q] # Null /\ renaming[q].wanted # Null /\ ~renaming[q].stale =>
            Naming!Owners(renaming[q].wanted) \subseteq {renaming[q].vendor})'
  <2> SUFFICES ASSUME NEW q \in Handler, renaming'[q] # Null, renaming'[q].wanted # Null,
                      ~renaming'[q].stale
               PROVE  (Naming!Owners(renaming[q].wanted) \subseteq {renaming[q].vendor})'
    OBVIOUS
  <2>1. /\ renaming[q] # Null /\ renaming'[q].vendor = renaming[q].vendor
        /\ renaming'[q].wanted = renaming[q].wanted /\ ~renaming[q].stale
        /\ renaming[q].vendor = v \/ renaming[q].wanted \notin {s, old}
    BY <1>6, PagesAssumption
  <2>2. PICK t \in Slug : t = renaming[q].wanted
    BY <2>1 DEF PagesInv, Naming!TypeOK, Naming!Progress
  <2>3. Naming!Owners(t) \subseteq {renaming[q].vendor}
    BY <2>1, <2>2 DEF PagesInv
  <2>4. Naming!Owners(t)' \subseteq {renaming[q].vendor}
    BY <1>13, <1>14, <1>17, <2>1, <2>2, <2>3
  <2>5. renaming'[q].wanted = t
    BY <2>1, <2>2
  <2>6. (Naming!Owners(renaming[q].wanted))' = Naming!Owners(t)'
    BY <2>5 DEF Naming!Owners
  <2> QED BY <2>1, <2>4, <2>6
<1>23. (\A q \in Handler : renaming[q] # Null /\ renaming[q].read # Null =>
          renaming[q].read \in used[renaming[q].vendor] /\ slug[renaming[q].vendor] # Null)'
  BY <1>21
<1> QED
  BY <1>10, <1>18, <1>19, <1>20, <1>22, <1>23 DEF PagesInv

LEMMA PagesNext == PagesInv /\ [Naming!Next]_pageVars => PagesInv'
<1> SUFFICES ASSUME PagesInv, [Naming!Next]_pageVars PROVE PagesInv'
  OBVIOUS
<1>1. CASE UNCHANGED pageVars
  BY <1>1 DEF pageVars, PagesInv, Naming!TypeOK, Naming!OldLinksLead, Naming!Owners
<1>2. CASE Naming!Next
  <2>1. PICK r \in Handler : Naming!Step(r)
    BY <1>2 DEF Naming!Next
  <2>2. ASSUME Naming!Create(r) \/ Naming!Rename(r) PROVE PagesInv'
    <3>1. /\ renaming[r] # Null /\ renaming[r].wanted # Null
          /\ Naming!Takes(r, renaming[r].wanted)
      BY <2>2 DEF Naming!Create, Naming!Rename, Naming!Ready
    <3>2. renaming[r].wanted \in Slug
      BY <3>1 DEF PagesInv, Naming!TypeOK, Naming!Progress
    <3> QED BY <2>2, <3>1, <3>2, TakesStep
  <2>3. ASSUME Naming!Keep(r) PROVE PagesInv'
    <3>1. /\ renaming[r] # Null /\ renaming[r].read # Null /\ former' = former
          /\ Naming!Takes(r, renaming[r].read)
      BY <2>3 DEF Naming!Keep
    <3>2. renaming[r].read \in Slug
      BY <3>1 DEF PagesInv, Naming!TypeOK, Naming!Progress
    <3> QED BY <3>1, <3>2, TakesStep
  <2> QED
    BY <2>1, <2>2, <2>3, EnterStep, CheckStep, GiveUpNameStep DEF Naming!Step
<1> QED BY <1>1, <1>2

LEMMA SamePageSize == \A S : Naming!Cardinality(S) = Cardinality(S)
  BY DEF Naming!Cardinality, Cardinality

LEMMA OwnersAgree ==
  ASSUME PagesInv
  PROVE  Naming!OneOwner
<1> SUFFICES ASSUME NEW s \in Slug \ raced PROVE Cardinality(Naming!Owners(s)) <= 1
  BY SamePageSize DEF Naming!OneOwner
<1>1. CASE Naming!Owners(s) = {}
  BY <1>1, FS_EmptySet
<1>2. CASE Naming!Owners(s) # {}
  <2>1. PICK v \in Naming!Owners(s) : Naming!Owners(s) = {v}
    BY <1>2 DEF PagesInv
  <2>2. Cardinality({v}) = 1
    BY FS_Singleton
  <2> QED BY <2>1, <2>2
<1> QED BY <1>1, <1>2

\* An address leads to one vendor, and a former one still to whoever left it,
\* unless two handlers raced for it or a save that had read an older one left it:
\* any number of vendors, addresses and handlers (vendor-routes.ts:58-95).
THEOREM LinksLead == OfficeSpec => []AddressesLead
<1> DEFINE I == part = "pages" => PagesInv
<1>1. Start => I
  BY PagesInit
<1>2. I /\ [Step]_all => I'
  BY Alone, PagesNext
<1>3. I => AddressesLead
  BY OwnersAgree DEF AddressesLead, PagesInv
<1> QED BY <1>1, <1>2, <1>3, PTL DEF OfficeSpec

-----------------------------------------------------------------------------
(* The least and the greatest of numbers, by least counterexamples.        *)

LEMMA Smallest ==
  ASSUME NEW S, S \subseteq Nat, S # {}
  PROVE  \E n \in S : \A m \in S : n <= m
<1>1. PICK n \in S : \A m \in S : ~(<<m, n>> \in OpToRel(<, Nat))
  BY NatLessThanWellFounded, WFMin
<1>2. \A m \in S : ~(m < n)
  BY <1>1 DEF OpToRel
<1> QED BY <1>2

LEMMA Highest ==
  ASSUME NEW S, IsFiniteSet(S), S # {}, NEW f \in [S -> Nat]
  PROVE  \E x \in S : \A y \in S : f[y] <= f[x]
<1> DEFINE Bad(T) == T # {} /\ ~\E x \in T : \A y \in T : f[y] <= f[x]
           K == {n \in Nat : \E T \in SUBSET S : Cardinality(T) = n /\ Bad(T)}
<1>1. \A T \in SUBSET S : IsFiniteSet(T) /\ Cardinality(T) \in Nat
  BY FS_Subset, FS_CardinalityType
<1>2. ASSUME K # {} PROVE FALSE
  <2>1. PICK n \in K : \A m \in K : n <= m
    BY <1>2, Smallest
  <2>2. PICK T \in SUBSET S : Cardinality(T) = n /\ Bad(T)
    BY <2>1
  <2>3. PICK x \in T : TRUE
    BY <2>2
  <2>4. /\ T \ {x} \in SUBSET S /\ Cardinality(T \ {x}) = n - 1
    BY <1>1, <2>2, <2>3, FS_RemoveElement
  <2>5. n \in Nat /\ n - 1 \in Nat
    BY <1>1, <2>4
  <2>6. ~Bad(T \ {x})
    <3>1. n - 1 \notin K
      BY <2>1, <2>5
    <3> QED BY <2>4, <2>5, <3>1
  <2>7. \A y \in T : f[y] \in Nat
    OBVIOUS
  <2>8. CASE T = {x}
    <3>1. \A y \in T : f[y] <= f[x]
      BY <2>7, <2>8
    <3> QED BY <2>2, <3>1
  <2>9. CASE T # {x}
    <3>1. T \ {x} # {}
      BY <2>3, <2>9
    <3>2. PICK z \in T \ {x} : \A y \in T \ {x} : f[y] <= f[z]
      BY <2>6, <3>1
    <3>3. CASE f[x] <= f[z]
      <4>1. \A y \in T : f[y] <= f[z]
        BY <3>2, <3>3
      <4> QED BY <2>2, <4>1
    <3>4. CASE ~(f[x] <= f[z])
      <4>1. \A y \in T : f[y] <= f[x]
        BY <2>7, <3>2, <3>4
      <4> QED BY <2>2, <4>1
    <3> QED BY <3>3, <3>4
  <2> QED BY <2>8, <2>9
<1>3. ~Bad(S)
  <2>1. S \in SUBSET S
    OBVIOUS
  <2> QED BY <1>1, <1>2, <2>1
<1> QED BY <1>3

-----------------------------------------------------------------------------
(* Services of a vendor.                                                   *)

Rows == Offering!Row \cup {Null, Gone}
Requests == Changes \cup Orders \cup {Null}

\* A change was checked against the row it read.
Checked(q) == q \in Changes => Offering!Valid(Offering!Merged(q.read, q.patch))

\* A reorder was asked for and comes to rows that were there; it holds the locks
\* of those it has come to that still are.
Stands(r, q) ==
  q \in Orders =>
    /\ q.ids \in asked /\ q.done \subseteq DOMAIN q.ids
    /\ \A s \in DOMAIN q.ids : row[s] # Null
    /\ \A s \in q.done : row[s] \in Offering!Row => locked[s] = r

\* Nobody holds a lock but a reorder that has come to the row.
LocksHeld ==
  \A s \in Service : locked[s] # Null =>
    change[locked[s]] \in Orders /\ s \in change[locked[s]].done

ServicesInv ==
  /\ row \in [Service -> Rows] /\ order \in [Service -> Nat]
  /\ locked \in [Service -> Handler \cup {Null}] /\ mended \in BOOLEAN
  /\ change \in [Handler -> Requests]
  /\ LocksHeld /\ Offering!StoredIsValid /\ Offering!OrderWasAsked
  /\ \A r \in Handler : Checked(change[r]) /\ Stands(r, change[r])

LEMMA PresentRows ==
  ASSUME row \in [Service -> Rows]
  PROVE  Offering!Present = {s \in Service : row[s] \in Offering!Row}
BY ServicesAssumption DEF Offering!Present, Rows

LEMMA Kinds ==
  /\ \A q \in Changes : /\ q.kind = "patch" /\ q.of \in Service /\ q.read \in Offering!Row
                        /\ q.patch \in Patch /\ q \notin Orders /\ q # Null
  /\ \A q \in Orders : /\ q.kind = "order" /\ q.done \in SUBSET Service
                       /\ q.ids \in UNION {Offering!Places(S) : S \in SUBSET Service}
                       /\ q \notin Changes /\ q # Null
BY ServicesAssumption DEF Changes, Orders

\* The places of a reorder are numbers.
LEMMA PlacesAreNumbers ==
  ASSUME NEW ids \in UNION {Offering!Places(S) : S \in SUBSET Service}
  PROVE  DOMAIN ids \subseteq Service /\ ids \in [DOMAIN ids -> Nat]
<1>1. PICK S \in SUBSET Service : ids \in Offering!Places(S)
  OBVIOUS
<1>2. \A T : Offering!Cardinality(T) = Cardinality(T)
  BY DEF Offering!Cardinality, Cardinality
<1>3. Offering!Cardinality(S) \in Nat
  BY <1>2, ServicesAssumption, FS_Subset, FS_CardinalityType
<1>4. PICK n \in Nat : n = Offering!Cardinality(S)
  BY <1>3
<1>5. ids \in [S -> 0..(n - 1)]
  BY <1>1, <1>4 DEF Offering!Places
<1>6. 0..(n - 1) \subseteq Nat
  OBVIOUS
<1> QED BY <1>5, <1>6

(* What is merged is a row again. *)

LEMMA FieldNames ==
  Offering!Fields = {"minutes", "min_blocks", "max_blocks", "min_days", "max_days", "mode",
                     "price", "type", "value"}
BY DEF Offering!Fields, Offering!Hourly, Offering!Daily

LEMMA FieldsOfRow ==
  ASSUME NEW g, g = [f \in Offering!Fields |-> g[f]],
         \A f \in Offering!Fields : g[f] \in Offering!Sent(f)
  PROVE  g \in Offering!Row
<1>1. g = [f \in {"minutes", "min_blocks", "max_blocks", "min_days", "max_days", "mode",
                  "price", "type", "value"} |-> g[f]]
  BY FieldNames
<1>2. /\ g["mode"] \in {"hourly", "daily"} /\ g["price"] \in Count
      /\ g["type"] \in {"NONE", "PERCENT", "FIXED"} /\ g["value"] \in Count \cup {0}
      /\ \A f \in {"minutes", "min_blocks", "max_blocks", "min_days", "max_days"} :
           g[f] \in Offering!Amount
  BY FieldNames DEF Offering!Sent
<1>3. g = [mode |-> g["mode"], price |-> g["price"], minutes |-> g["minutes"],
           min_blocks |-> g["min_blocks"], max_blocks |-> g["max_blocks"],
           min_days |-> g["min_days"], max_days |-> g["max_days"],
           type |-> g["type"], value |-> g["value"]]
  BY <1>1
<1> QED BY <1>2, <1>3 DEF Offering!Row

LEMMA RowFields ==
  ASSUME NEW g \in Offering!Row, NEW f \in Offering!Fields
  PROVE  g[f] \in Offering!Sent(f)
<1>1. /\ g["mode"] \in {"hourly", "daily"} /\ g["price"] \in Count
      /\ g["type"] \in {"NONE", "PERCENT", "FIXED"} /\ g["value"] \in Count \cup {0}
      /\ \A x \in {"minutes", "min_blocks", "max_blocks", "min_days", "max_days"} :
           g[x] \in Offering!Amount
  BY DEF Offering!Row
<1> QED BY <1>1, FieldNames DEF Offering!Sent

LEMMA MergedIsRow ==
  ASSUME NEW old \in Offering!Row, NEW patch \in Patch
  PROVE  Offering!Merged(old, patch) \in Offering!Row
<1> DEFINE g == Offering!Merged(old, patch)
<1>1. /\ DOMAIN patch \subseteq Offering!Fields
      /\ \A f \in DOMAIN patch : patch[f] \in Offering!Sent(f)
  BY ServicesAssumption DEF Offering!PatchesAreTyped
<1>2. PICK mode : g = [f \in Offering!Fields |->
          LET value == IF f \in DOMAIN patch THEN patch[f] ELSE Offering!Kept(f, old, patch)
          IN IF value # Null THEN value ELSE Offering!Default(f, mode)]
  BY DEF Offering!Merged
<1> HIDE DEF g
<1>3. ASSUME NEW f \in Offering!Fields PROVE g[f] \in Offering!Sent(f)
  <2>1. old[f] \in Offering!Sent(f)
    BY RowFields
  <2> DEFINE value == IF f \in DOMAIN patch THEN patch[f] ELSE Offering!Kept(f, old, patch)
  <2>2. CASE value # Null
    <3>1. value \in Offering!Sent(f)
      BY <1>1, <2>1, <2>2 DEF Offering!Kept
    <3> QED BY <1>2, <2>2, <3>1
  <2>3. CASE value = Null
    <3>1. g[f] = Offering!Default(f, mode)
      BY <1>2, <2>3
    <3>2. CASE f \in Offering!Hourly \cup Offering!Daily
      <4>1. g[f] \in {1, Null}
        BY <3>1 DEF Offering!Default
      <4>2. Offering!Sent(f) = Offering!Amount
        BY <3>2 DEF Offering!Sent, Offering!Hourly, Offering!Daily
      <4> QED BY <4>1, <4>2, ServicesAssumption DEF Offering!Amount, Offering!CountsAreNumbers
    <3>3. CASE f \notin Offering!Hourly \cup Offering!Daily
      <4>1. g[f] = Null
        BY <3>1, <3>3 DEF Offering!Default, Offering!Hourly, Offering!Daily
      <4>2. Null \in Offering!Sent(f)
        BY <1>1, <2>1, <2>3, <3>3 DEF Offering!Kept
      <4> QED BY <4>1, <4>2
    <3> QED BY <3>2, <3>3
  <2> QED BY <2>2, <2>3
<1>4. g = [f \in Offering!Fields |-> g[f]]
  BY <1>2
<1> QED BY <1>3, <1>4, FieldsOfRow DEF g

LEMMA NewIsRow == Offering!New \in Offering!Row /\ Offering!Valid(Offering!New)
<1> DEFINE g == Offering!New
<1>1. /\ g = [f \in Offering!Fields |-> g[f]]
      /\ g["mode"] = "hourly" /\ g["price"] = 1 /\ g["type"] = "NONE" /\ g["value"] = 0
      /\ g["minutes"] = 1 /\ g["min_blocks"] = 1 /\ g["max_blocks"] = 1
      /\ g["min_days"] = Null /\ g["max_days"] = Null
  BY FieldNames DEF Offering!New, Offering!Hourly, Offering!Daily
<1> HIDE DEF g
<1>2. 1 \in Count /\ 1 \in Nat /\ Null \notin Count
  BY ServicesAssumption DEF Offering!CountsAreNumbers
<1>3. \A f \in Offering!Fields : g[f] \in Offering!Sent(f)
  BY <1>1, <1>2, FieldNames DEF Offering!Sent, Offering!Amount
<1>4. g \in Offering!Row
  BY <1>1, <1>3, FieldsOfRow
<1>5. /\ g.mode = "hourly" /\ g.price = 1 /\ g.type = "NONE" /\ g.value = 0
      /\ g.minutes = 1 /\ g.min_blocks = 1 /\ g.max_blocks = 1
  BY <1>1
<1>6. Offering!ModeOK(g)
  <2>1. Null \notin {g[f] : f \in Offering!Hourly}
    BY <1>1, <1>2 DEF Offering!Hourly
  <2>2. \A f \in Offering!Daily : g[f] = Null
    BY <1>1 DEF Offering!Daily
  <2>3. g.minutes * g.max_blocks <= DayMinutes /\ 1 <= MaxBlocks
    BY <1>5, ServicesAssumption DEF Offering!LimitsAreNumbers
  <2> QED BY <1>5, <2>1, <2>2, <2>3 DEF Offering!ModeOK
<1>7. Offering!AdvanceOK(g)
  BY <1>5 DEF Offering!AdvanceOK
<1>8. Offering!Valid(g)
  BY <1>5, <1>6, <1>7 DEF Offering!Valid
<1> QED BY <1>4, <1>8 DEF g

(* The steps.                                                              *)

LEMMA ServicesInit == Start => ServicesInv
<1> SUFFICES ASSUME Start PROVE ServicesInv
  OBVIOUS
<1>1. /\ row \in [Service -> {Null, Gone}] /\ order = [s \in Service |-> 0]
      /\ locked = [s \in Service |-> Null] /\ change = [r \in Handler |-> Null]
      /\ asked = {} /\ mended = TRUE
  BY DEF Start, Offering!Init
<1>2. row \in [Service -> Rows] /\ \A s \in Service : row[s] \notin Offering!Row
  BY <1>1, ServicesAssumption DEF Rows
<1>3. Offering!StoredIsValid
  BY <1>2, PresentRows DEF Offering!StoredIsValid
<1>4. \A r \in Handler : Checked(change[r]) /\ Stands(r, change[r])
  BY <1>1, Kinds DEF Checked, Stands
<1> QED
  BY <1>1, <1>2, <1>3, <1>4 DEF ServicesInv, LocksHeld, Requests, Offering!OrderWasAsked

\* A request that is to be q from now on.
LEMMA OneRequest ==
  ASSUME ServicesInv, NEW r \in Handler, NEW q \in Requests,
         change' = [change EXCEPT ![r] = q]
  PROVE  /\ change' \in [Handler -> Requests] /\ change'[r] = q
         /\ \A o \in Handler \ {r} : change'[o] = change[o]
         /\ \A o \in Handler : change[o] \in Requests
BY DEF ServicesInv

\* What holds of the rows that are there after a step that keeps the orders.
LEMMA StillAsked ==
  ASSUME ServicesInv, UNCHANGED <<order, mended>>, asked \subseteq asked',
         Offering!Present' = Offering!Present
  PROVE  Offering!OrderWasAsked'
BY DEF ServicesInv, Offering!OrderWasAsked

LEMMA CreateServiceStep ==
  ASSUME ServicesInv, NEW s \in Service, Offering!Create(s)
  PROVE  ServicesInv'
<1>1. /\ row[s] = Null /\ row' = [row EXCEPT ![s] = Offering!New] /\ mended' = TRUE
      /\ order' = [order EXCEPT ![s] =
           IF Offering!Present = {} THEN 0 ELSE Offering!LastPlace + 1]
      /\ UNCHANGED <<locked, change, asked>>
  BY DEF Offering!Create
<1>2. /\ row \in [Service -> Rows] /\ order \in [Service -> Nat]
  BY DEF ServicesInv
<1>3. /\ row' \in [Service -> Rows] /\ row'[s] = Offering!New
      /\ \A t \in Service \ {s} : row'[t] = row[t]
  BY <1>1, <1>2, NewIsRow DEF Rows
<1>4. Offering!Present = {} \/ Offering!LastPlace \in Nat
  <2> SUFFICES ASSUME Offering!Present # {} PROVE Offering!LastPlace \in Nat
    OBVIOUS
  <2>1. Offering!Present \subseteq Service /\ IsFiniteSet(Offering!Present)
    BY ServicesAssumption, FS_Subset DEF Offering!Present
  <2>2. PICK f : f = [t \in Offering!Present |-> order[t]]
    OBVIOUS
  <2>3. f \in [Offering!Present -> Nat]
    BY <1>2, <2>1, <2>2
  <2>4. PICK x \in Offering!Present : \A y \in Offering!Present : f[y] <= f[x]
    BY <2>1, <2>3, Highest
  <2>5. \E n \in {order[t] : t \in Offering!Present} : \A t \in Offering!Present : order[t] <= n
    BY <2>2, <2>4
  <2>6. Offering!LastPlace \in {order[t] : t \in Offering!Present}
    BY <2>5 DEF Offering!LastPlace
  <2> QED BY <1>2, <2>1, <2>6
<1>5. order' \in [Service -> Nat]
  BY <1>1, <1>2, <1>4
<1>6. Offering!StoredIsValid'
  <2> SUFFICES ASSUME NEW t \in Offering!Present' PROVE Offering!Valid(row'[t])
    BY DEF Offering!StoredIsValid
  <2>1. t \in Service /\ row'[t] \notin {Null, Gone}
    BY DEF Offering!Present
  <2>2. CASE t = s
    BY <1>3, <2>2, NewIsRow
  <2>3. CASE t # s
    BY <1>3, <2>1, <2>3 DEF ServicesInv, Offering!StoredIsValid, Offering!Present
  <2> QED BY <2>2, <2>3
<1>7. ASSUME NEW r \in Handler PROVE (Checked(change[r]) /\ Stands(r, change[r]))'
  <2>1. Checked(change[r]) /\ Stands(r, change[r])
    BY DEF ServicesInv
  <2>2. PICK q : q = change[r]
    OBVIOUS
  <2>3. change'[r] = q
    BY <1>1, <2>2
  <2>4. q \in Orders => s \notin DOMAIN q.ids /\ q.done \subseteq DOMAIN q.ids
                        /\ DOMAIN q.ids \subseteq Service
    BY <1>1, <2>1, <2>2, Kinds, PlacesAreNumbers DEF Stands
  <2>5. Checked(q)' /\ Stands(r, q)'
    BY <1>1, <1>3, <2>1, <2>2, <2>4 DEF Checked, Stands
  <2> QED BY <2>3, <2>5 DEF Checked, Stands
<1>8. LocksHeld'
  BY <1>1 DEF ServicesInv, LocksHeld
<1> QED
  BY <1>1, <1>3, <1>5, <1>6, <1>7, <1>8 DEF ServicesInv, Offering!OrderWasAsked

LEMMA DeleteServiceStep ==
  ASSUME ServicesInv, NEW s \in Service, Offering!Delete(s)
  PROVE  ServicesInv'
<1>1. /\ row' = [row EXCEPT ![s] = Gone] /\ mended' = TRUE
      /\ UNCHANGED <<order, locked, change, asked>>
  BY DEF Offering!Delete
<1>2. row \in [Service -> Rows] /\ Gone # Null
  BY ServicesAssumption DEF ServicesInv
<1>3. /\ row' \in [Service -> Rows] /\ row'[s] = Gone /\ Gone \notin Offering!Row
      /\ \A t \in Service \ {s} : row'[t] = row[t]
  BY <1>1, <1>2, ServicesAssumption DEF Rows
<1>4. Offering!StoredIsValid'
  <2> SUFFICES ASSUME NEW t \in Offering!Present' PROVE Offering!Valid(row'[t])
    BY DEF Offering!StoredIsValid
  <2>1. t \in Service /\ row'[t] \notin {Null, Gone}
    BY DEF Offering!Present
  <2> QED BY <1>3, <2>1 DEF ServicesInv, Offering!StoredIsValid, Offering!Present
<1>5. ASSUME NEW r \in Handler PROVE (Checked(change[r]) /\ Stands(r, change[r]))'
  <2>1. Checked(change[r]) /\ Stands(r, change[r])
    BY DEF ServicesInv
  <2>2. PICK q : q = change[r]
    OBVIOUS
  <2>3. change'[r] = q
    BY <1>1, <2>2
  <2>4. q \in Orders => q.done \subseteq DOMAIN q.ids /\ DOMAIN q.ids \subseteq Service
    BY <2>1, <2>2, Kinds, PlacesAreNumbers DEF Stands
  <2>5. Checked(q)' /\ Stands(r, q)'
    BY <1>1, <1>2, <1>3, <2>1, <2>2, <2>4 DEF Checked, Stands
  <2> QED BY <2>3, <2>5 DEF Checked, Stands
<1>6. LocksHeld'
  BY <1>1 DEF ServicesInv, LocksHeld
<1> QED
  BY <1>1, <1>3, <1>4, <1>5, <1>6 DEF ServicesInv, Offering!OrderWasAsked

\* A request that has come to hold no lock, and what it does to the others.
LEMMA RequestStep ==
  ASSUME ServicesInv, NEW r \in Handler, NEW q \in Requests,
         change' = [change EXCEPT ![r] = q], UNCHANGED <<row, locked>>,
         asked \subseteq asked', change[r] \notin Orders, Checked(q), Stands(r, q)'
  PROVE  /\ change' \in [Handler -> Requests] /\ LocksHeld'
         /\ \A o \in Handler : (Checked(change[o]) /\ Stands(o, change[o]))'
<1>1. /\ change' \in [Handler -> Requests] /\ change'[r] = q
      /\ \A o \in Handler \ {r} : change'[o] = change[o]
  BY OneRequest
<1>2. LocksHeld'
  <2>1. \A s \in Service : locked[s] # Null => locked[s] \in Handler /\ locked[s] # r
    BY DEF ServicesInv, LocksHeld
  <2> QED BY <1>1, <2>1 DEF ServicesInv, LocksHeld
<1>3. ASSUME NEW o \in Handler PROVE (Checked(change[o]) /\ Stands(o, change[o]))'
  <2>1. CASE o = r
    <3>1. Checked(q)' /\ Stands(r, q)'
      BY DEF Checked
    <3> QED BY <1>1, <2>1, <3>1 DEF Checked, Stands
  <2>2. CASE o # r
    <3>1. Checked(change[o]) /\ Stands(o, change[o]) /\ change'[o] = change[o]
      BY <1>1, <2>2 DEF ServicesInv
    <3> QED BY <3>1 DEF Checked, Stands
  <2> QED BY <2>1, <2>2
<1> QED BY <1>1, <1>2, <1>3

LEMMA ReadRowStep ==
  ASSUME ServicesInv, NEW r \in Handler, NEW s \in Service, NEW patch \in Patch,
         Offering!ReadRow(r, s, patch)
  PROVE  ServicesInv'
<1>1. /\ change[r] = Null /\ s \in Offering!Present
      /\ Offering!Valid(Offering!Merged(row[s], patch))
      /\ UNCHANGED <<row, order, locked, asked, mended>>
  BY DEF Offering!ReadRow
<1>2. PICK q : q = [kind |-> "patch", of |-> s, read |-> row[s], patch |-> patch]
  OBVIOUS
<1>3. change' = [change EXCEPT ![r] = q]
  BY <1>2 DEF Offering!ReadRow
<1>4. row[s] \in Offering!Row
  BY <1>1, PresentRows DEF ServicesInv
<1>5. q \in Changes /\ q.read = row[s] /\ q.patch = patch
  BY <1>2, <1>4 DEF Changes
<1>6. q \in Requests /\ Checked(q) /\ Stands(r, q)' /\ change[r] \notin Orders
  BY <1>1, <1>5, Kinds DEF Requests, Checked, Stands
<1>7. /\ change' \in [Handler -> Requests] /\ LocksHeld'
      /\ \A o \in Handler : (Checked(change[o]) /\ Stands(o, change[o]))'
  BY <1>1, <1>3, <1>6, RequestStep
<1>8. Offering!StoredIsValid' /\ Offering!OrderWasAsked'
  BY <1>1 DEF ServicesInv, Offering!StoredIsValid, Offering!OrderWasAsked, Offering!Present
<1> QED BY <1>1, <1>7, <1>8 DEF ServicesInv

LEMMA StartReorderStep ==
  ASSUME ServicesInv, NEW r \in Handler, NEW S \in SUBSET Service,
         NEW ids \in Offering!Places(S), Offering!StartReorder(r, ids)
  PROVE  ServicesInv'
<1>1. /\ change[r] = Null /\ DOMAIN ids \subseteq Offering!Present /\ asked' = asked \cup {ids}
      /\ UNCHANGED <<row, order, locked, mended>>
  BY DEF Offering!StartReorder
<1>2. PICK q : q = [kind |-> "order", ids |-> ids, done |-> {}]
  OBVIOUS
<1>3. change' = [change EXCEPT ![r] = q]
  BY <1>2 DEF Offering!StartReorder
<1>4. q \in Orders /\ q.ids = ids /\ q.done = {}
  BY <1>2 DEF Orders
<1>5. \A s \in DOMAIN ids : row[s] # Null
  BY <1>1 DEF Offering!Present
<1>6. Stands(r, q)'
  BY <1>1, <1>4, <1>5 DEF Stands
<1>7. q \in Requests /\ Checked(q) /\ change[r] \notin Orders
  BY <1>1, <1>4, Kinds DEF Requests, Checked
<1>8. /\ change' \in [Handler -> Requests] /\ LocksHeld'
      /\ \A o \in Handler : (Checked(change[o]) /\ Stands(o, change[o]))'
  BY <1>1, <1>3, <1>6, <1>7, RequestStep
<1>9. Offering!StoredIsValid' /\ Offering!OrderWasAsked'
  BY <1>1 DEF ServicesInv, Offering!StoredIsValid, Offering!OrderWasAsked, Offering!Present
<1> QED BY <1>1, <1>8, <1>9 DEF ServicesInv

LEMMA WriteRowStep ==
  ASSUME ServicesInv, NEW r \in Handler, Offering!WriteRow(r)
  PROVE  ServicesInv'
<1>1. PICK q : q = change[r]
  OBVIOUS
<1>2. /\ q # Null /\ q.kind = "patch"
      /\ row' = IF q.of \notin Offering!Present THEN row
                ELSE [row EXCEPT ![q.of] = Offering!Written(@, q.read, q.patch)]
      /\ change' = [change EXCEPT ![r] = Null]
      /\ UNCHANGED <<order, locked, asked, mended>>
  BY <1>1 DEF Offering!WriteRow
<1>3. q \in Requests /\ Checked(q)
  BY <1>1 DEF ServicesInv
<1>4. q \in Changes /\ q \notin Orders
  BY <1>2, <1>3, Kinds DEF Requests
<1>5. PICK m : m = Offering!Merged(q.read, q.patch)
  OBVIOUS
<1>6. m \in Offering!Row /\ Offering!Valid(m) /\ m \notin {Null, Gone}
  BY <1>3, <1>4, <1>5, Kinds, MergedIsRow, ServicesAssumption DEF Checked
<1>7. row \in [Service -> Rows] /\ q.of \in Service
  BY <1>4, Kinds DEF ServicesInv
<1>8. /\ row' \in [Service -> Rows]
      /\ \A s \in Service : row'[s] = row[s] \/ (row[s] \in Offering!Row /\ row'[s] = m)
  <2>1. CASE q.of \notin Offering!Present
    BY <1>2, <1>7, <2>1
  <2>2. CASE q.of \in Offering!Present
    <3>1. row' = [row EXCEPT ![q.of] = m]
      BY <1>2, <1>5, <2>2 DEF Offering!Written
    <3>2. row[q.of] \in Offering!Row
      BY <1>7, <2>2, PresentRows
    <3> QED BY <1>6, <1>7, <3>1, <3>2 DEF Rows
  <2> QED BY <2>1, <2>2
<1>9. Offering!Present' = Offering!Present
  BY <1>6, <1>8, ServicesAssumption DEF Offering!Present
<1>10. Offering!StoredIsValid'
  BY <1>6, <1>8, <1>9 DEF ServicesInv, Offering!StoredIsValid, Offering!Present
<1>11. Offering!OrderWasAsked'
  BY <1>2, <1>9, StillAsked
<1>12. /\ change' \in [Handler -> Requests] /\ change'[r] = Null
       /\ \A o \in Handler \ {r} : change'[o] = change[o]
  BY <1>2, OneRequest DEF Requests
<1>13. LocksHeld'
  <2>1. \A s \in Service : locked[s] # Null => locked[s] \in Handler /\ locked[s] # r
    BY <1>1, <1>4 DEF ServicesInv, LocksHeld
  <2> QED BY <1>2, <1>12, <2>1 DEF ServicesInv, LocksHeld
<1>14. ASSUME NEW o \in Handler PROVE (Checked(change[o]) /\ Stands(o, change[o]))'
  <2>1. CASE o = r
    BY <1>12, <2>1, Kinds DEF Checked, Stands
  <2>2. CASE o # r
    <3>1. PICK p : p = change[o]
      OBVIOUS
    <3>2. Checked(p) /\ Stands(o, p) /\ change'[o] = p
      BY <1>12, <2>2, <3>1 DEF ServicesInv
    <3>3. p \in Orders => p.done \subseteq DOMAIN p.ids /\ DOMAIN p.ids \subseteq Service
      BY <3>2, Kinds, PlacesAreNumbers DEF Stands
    <3>4. Checked(p)' /\ Stands(o, p)'
      BY <1>2, <1>6, <1>8, <3>2, <3>3 DEF Checked, Stands
    <3> QED BY <3>2, <3>4 DEF Checked, Stands
  <2> QED BY <2>1, <2>2
<1> QED
  BY <1>2, <1>8, <1>10, <1>11, <1>12, <1>13, <1>14 DEF ServicesInv

\* A reorder that is under way.
LEMMA Underway ==
  ASSUME ServicesInv, NEW r \in Handler, Offering!Ordering(r)
  PROVE  LET q == change[r] IN
         /\ q \in Orders /\ Stands(r, q) /\ q.done \in SUBSET Service
         /\ DOMAIN q.ids \subseteq Service /\ q.ids \in [DOMAIN q.ids -> Nat]
         /\ q = [kind |-> "order", ids |-> q.ids, done |-> q.done]
<1>1. change[r] \in Requests /\ change[r] # Null /\ change[r].kind = "order" /\ Stands(r, change[r])
  BY DEF ServicesInv, Offering!Ordering
<1>2. change[r] \in Orders
  BY <1>1, Kinds DEF Requests
<1>3. change[r] = [kind |-> "order", ids |-> change[r].ids, done |-> change[r].done]
  BY <1>2 DEF Orders
<1> QED BY <1>1, <1>2, <1>3, Kinds, PlacesAreNumbers

LEMMA UpdatePlaceStep ==
  ASSUME ServicesInv, NEW r \in Handler, Offering!UpdatePlace(r)
  PROVE  ServicesInv'
<1>1. PICK q : q = change[r]
  OBVIOUS
<1>2. PICK s : s = Offering!Turn(r)
  OBVIOUS
<1>3. /\ Offering!Ordering(r) /\ q.done # DOMAIN q.ids /\ locked[s] = Null
      /\ locked' = IF s \notin Offering!Present THEN locked ELSE [locked EXCEPT ![s] = r]
      /\ change' = [change EXCEPT ![r].done = @ \cup {s}]
      /\ UNCHANGED <<row, order, asked, mended>>
  BY <1>1, <1>2 DEF Offering!UpdatePlace
<1>4. /\ q \in Orders /\ Stands(r, q) /\ q.done \in SUBSET Service
      /\ DOMAIN q.ids \subseteq Service /\ q.ids \in [DOMAIN q.ids -> Nat]
      /\ q = [kind |-> "order", ids |-> q.ids, done |-> q.done]
      /\ q.done \subseteq DOMAIN q.ids
  BY <1>1, <1>3, Underway DEF Stands
<1>5. s \in DOMAIN q.ids \ q.done
  <2>1. PICK rest : rest = DOMAIN q.ids \ q.done
    OBVIOUS
  <2>2. PICK S : S = {q.ids[t] : t \in rest}
    OBVIOUS
  <2>3. S \subseteq Nat /\ S # {}
    BY <1>3, <1>4, <2>1, <2>2
  <2>4. PICK n \in S : \A m \in S : n <= m
    BY <2>3, Smallest
  <2>5. \E t \in rest : \A o \in rest : q.ids[t] <= q.ids[o]
    BY <2>2, <2>4
  <2> QED BY <1>1, <1>2, <2>1, <2>5 DEF Offering!Turn
<1>6. s \in Service /\ row[s] # Null
  BY <1>4, <1>5 DEF Stands
<1>7. PICK p : p = [kind |-> "order", ids |-> q.ids, done |-> q.done \cup {s}]
  OBVIOUS
<1>8. p \in Orders /\ p.ids = q.ids /\ p.done = q.done \cup {s}
  BY <1>4, <1>6, <1>7, Kinds DEF Orders
<1>9. change' = [change EXCEPT ![r] = p]
  <2>1. [q EXCEPT !.done = @ \cup {s}] = p
    BY <1>4, <1>7
  <2> QED BY <1>1, <1>3, <2>1
<1>10. /\ change' \in [Handler -> Requests] /\ change'[r] = p
       /\ \A o \in Handler \ {r} : change'[o] = change[o]
  BY <1>8, <1>9, OneRequest DEF Requests
<1>11. /\ locked' \in [Service -> Handler \cup {Null}]
       /\ row[s] \in Offering!Row => locked'[s] = r
       /\ locked'[s] \in {r, Null}
       /\ \A t \in Service \ {s} : locked'[t] = locked[t]
  BY <1>3, <1>6, PresentRows DEF ServicesInv
<1>12. Null \notin Handler
  BY ServicesAssumption
<1>13. LocksHeld'
  <2> SUFFICES ASSUME NEW t \in Service, locked'[t] # Null
               PROVE  change'[locked'[t]] \in Orders /\ t \in change'[locked'[t]].done
    BY DEF LocksHeld
  <2>1. CASE t = s
    BY <1>8, <1>10, <1>11, <2>1
  <2>2. CASE t # s
    <3>1. PICK o \in Handler : o = locked[t] /\ o = locked'[t]
      BY <1>11, <2>2 DEF ServicesInv
    <3>2. change[o] \in Orders /\ t \in change[o].done
      BY <2>2, <3>1 DEF ServicesInv, LocksHeld
    <3>3. CASE o = r
      BY <1>1, <1>8, <1>10, <3>1, <3>2, <3>3
    <3>4. CASE o # r
      BY <1>10, <3>1, <3>2, <3>4
    <3> QED BY <3>3, <3>4
  <2> QED BY <2>1, <2>2
<1>14. ASSUME NEW o \in Handler PROVE (Checked(change[o]) /\ Stands(o, change[o]))'
  <2>1. CASE o = r
    <3>1. Checked(p)' /\ Stands(r, p)'
      BY <1>3, <1>4, <1>5, <1>8, <1>11, Kinds DEF Checked, Stands
    <3> QED BY <1>10, <2>1, <3>1 DEF Checked, Stands
  <2>2. CASE o # r
    <3>1. PICK a : a = change[o]
      OBVIOUS
    <3>2. Checked(a) /\ Stands(o, a) /\ change'[o] = a
      BY <1>10, <2>2, <3>1 DEF ServicesInv
    <3>3. a \in Orders => a.done \subseteq DOMAIN a.ids /\ DOMAIN a.ids \subseteq Service
      BY <3>2, Kinds, PlacesAreNumbers DEF Stands
    <3>4. ASSUME a \in Orders, NEW t \in a.done, row[t] \in Offering!Row PROVE locked'[t] = o
      <4>1. locked[t] = o /\ t \in Service
        BY <3>2, <3>3, <3>4 DEF Stands
      <4>2. t # s
        BY <1>3, <1>12, <4>1
      <4> QED BY <1>11, <4>1, <4>2
    <3>5. Checked(a)' /\ Stands(o, a)'
      BY <1>3, <3>2, <3>4 DEF Checked, Stands
    <3> QED BY <3>2, <3>5 DEF Checked, Stands
  <2> QED BY <2>1, <2>2
<1>15. Offering!StoredIsValid' /\ Offering!OrderWasAsked'
  BY <1>3 DEF ServicesInv, Offering!StoredIsValid, Offering!OrderWasAsked, Offering!Present
<1> QED
  BY <1>3, <1>10, <1>11, <1>13, <1>14, <1>15 DEF ServicesInv

\* A request that ends without its locks leaves those of the others.
LEMMA RequestEnds ==
  ASSUME ServicesInv, NEW r \in Handler, locked' = Offering!Unlocked(r),
         change' = [change EXCEPT ![r] = Null], UNCHANGED <<row, asked>>
  PROVE  /\ change' \in [Handler -> Requests] /\ LocksHeld'
         /\ locked' \in [Service -> Handler \cup {Null}] /\ Offering!StoredIsValid'
         /\ \A o \in Handler : (Checked(change[o]) /\ Stands(o, change[o]))'
<1>1. /\ change' \in [Handler -> Requests] /\ change'[r] = Null
      /\ \A o \in Handler \ {r} : change'[o] = change[o]
  BY OneRequest DEF Requests
<1>2. /\ locked' \in [Service -> Handler \cup {Null}]
      /\ \A s \in Service : locked'[s] = IF locked[s] = r THEN Null ELSE locked[s]
  BY DEF ServicesInv, Offering!Unlocked
<1>3. LocksHeld'
  <2> SUFFICES ASSUME NEW t \in Service, locked'[t] # Null
               PROVE  change'[locked'[t]] \in Orders /\ t \in change'[locked'[t]].done
    BY DEF LocksHeld
  <2>1. locked[t] # r /\ locked'[t] = locked[t] /\ locked[t] \in Handler
    BY <1>2
  <2> QED BY <1>1, <2>1 DEF ServicesInv, LocksHeld
<1>4. ASSUME NEW o \in Handler PROVE (Checked(change[o]) /\ Stands(o, change[o]))'
  <2>1. CASE o = r
    BY <1>1, <2>1, Kinds DEF Checked, Stands
  <2>2. CASE o # r
    <3>1. PICK a : a = change[o]
      OBVIOUS
    <3>2. Checked(a) /\ Stands(o, a) /\ change'[o] = a
      BY <1>1, <2>2, <3>1 DEF ServicesInv
    <3>3. a \in Orders => a.done \subseteq DOMAIN a.ids /\ DOMAIN a.ids \subseteq Service
      BY <3>2, Kinds, PlacesAreNumbers DEF Stands
    <3>4. Checked(a)' /\ Stands(o, a)'
      BY <1>2, <2>2, <3>2, <3>3 DEF Checked, Stands
    <3> QED BY <3>2, <3>4 DEF Checked, Stands
  <2> QED BY <2>1, <2>2
<1>5. Offering!StoredIsValid'
  BY DEF ServicesInv, Offering!StoredIsValid, Offering!Present
<1> QED BY <1>1, <1>2, <1>3, <1>4, <1>5

LEMMA CommitOrderStep ==
  ASSUME ServicesInv, NEW r \in Handler, Offering!CommitOrder(r)
  PROVE  ServicesInv'
<1>1. PICK q : q = change[r]
  OBVIOUS
<1>2. /\ Offering!Ordering(r) /\ q.done = DOMAIN q.ids
      /\ order' = [s \in Service |-> IF locked[s] = r THEN q.ids[s] ELSE order[s]]
      /\ mended' = (DOMAIN q.ids # Offering!Present)
      /\ locked' = Offering!Unlocked(r) /\ change' = [change EXCEPT ![r] = Null]
      /\ UNCHANGED <<row, asked>>
  BY <1>1 DEF Offering!CommitOrder
<1>3. /\ q \in Orders /\ Stands(r, q) /\ DOMAIN q.ids \subseteq Service
      /\ q.ids \in [DOMAIN q.ids -> Nat]
  BY <1>1, <1>2, Underway
<1>4. \A s \in Service : locked[s] = r => s \in DOMAIN q.ids
  BY <1>1, <1>2, ServicesAssumption DEF ServicesInv, LocksHeld
<1>5. order' \in [Service -> Nat]
  BY <1>2, <1>3, <1>4 DEF ServicesInv
<1>6. Offering!OrderWasAsked'
  <2>1. CASE DOMAIN q.ids = Offering!Present
    <3>1. \A s \in Offering!Present : s \in Service /\ locked[s] = r
      BY <1>2, <1>3, <2>1, PresentRows DEF Stands, ServicesInv
    <3>2. \A s \in Offering!Present : q.ids[s] = order'[s]
      BY <1>2, <3>1
    <3>3. q.ids \in asked' /\ Offering!Present' = Offering!Present
      BY <1>2, <1>3 DEF Stands, Offering!Present
    <3> QED BY <2>1, <3>2, <3>3 DEF Offering!OrderWasAsked
  <2>2. CASE DOMAIN q.ids # Offering!Present
    BY <1>2, <2>2 DEF Offering!OrderWasAsked
  <2> QED BY <2>1, <2>2
<1>7. /\ change' \in [Handler -> Requests] /\ LocksHeld'
      /\ locked' \in [Service -> Handler \cup {Null}] /\ Offering!StoredIsValid'
      /\ \A o \in Handler : (Checked(change[o]) /\ Stands(o, change[o]))'
  BY <1>2, RequestEnds
<1>8. mended' \in BOOLEAN /\ row' \in [Service -> Rows]
  BY <1>2 DEF ServicesInv
<1> QED BY <1>5, <1>6, <1>7, <1>8 DEF ServicesInv

LEMMA AbortStep ==
  ASSUME ServicesInv, NEW r \in Handler, Offering!Abort(r)
  PROVE  ServicesInv'
<1>1. /\ locked' = Offering!Unlocked(r) /\ change' = [change EXCEPT ![r] = Null]
      /\ UNCHANGED <<row, order, asked, mended>>
  BY DEF Offering!Abort
<1>2. /\ change' \in [Handler -> Requests] /\ LocksHeld'
      /\ locked' \in [Service -> Handler \cup {Null}] /\ Offering!StoredIsValid'
      /\ \A o \in Handler : (Checked(change[o]) /\ Stands(o, change[o]))'
  BY <1>1, RequestEnds
<1>3. Offering!OrderWasAsked'
  <2>1. Offering!Present' = Offering!Present
    BY <1>1 DEF Offering!Present
  <2> QED BY <1>1, <2>1, StillAsked
<1> QED BY <1>1, <1>2, <1>3 DEF ServicesInv

LEMMA ServicesNext ==
  ASSUME ServicesInv, [Offering!Next]_serviceVars
  PROVE  ServicesInv'
<1>1. CASE UNCHANGED serviceVars
  <2>1. UNCHANGED <<row, order, locked, change, asked, mended>>
    BY <1>1 DEF serviceVars
  <2>2. LocksHeld' /\ Offering!StoredIsValid' /\ Offering!OrderWasAsked'
    BY <2>1 DEF ServicesInv, LocksHeld, Offering!StoredIsValid, Offering!OrderWasAsked,
      Offering!Present
  <2>3. \A o \in Handler : (Checked(change[o]) /\ Stands(o, change[o]))'
    BY <2>1 DEF ServicesInv, Checked, Stands
  <2> QED BY <2>1, <2>2, <2>3 DEF ServicesInv
<1>2. ASSUME NEW r \in Handler, Offering!Arrange(r) PROVE ServicesInv'
  <2>1. ASSUME NEW S \in SUBSET Service \ {{}}, NEW ids \in Offering!Places(S),
               Offering!StartReorder(r, ids)
        PROVE  ServicesInv'
    <3>1. S \in SUBSET Service
      OBVIOUS
    <3> QED BY <2>1, <3>1, StartReorderStep
  <2> QED
    BY <1>2, <2>1, UpdatePlaceStep, CommitOrderStep, AbortStep DEF Offering!Arrange
<1>3. ASSUME Offering!Next PROVE ServicesInv'
  BY <1>2, <1>3, CreateServiceStep, DeleteServiceStep, ReadRowStep, WriteRowStep
    DEF Offering!Next
<1> QED BY <1>1, <1>3

\* Whatever changes and reorders overlap, and however many there are of them, what
\* is stored of a service fits together and the order of all is one that was asked
\* for (vendor-routes.ts:119-154).
THEOREM ServicesStayValid == OfficeSpec => []ServicesFit
<1> DEFINE I == part \in {"services", "order"} => ServicesInv
<1>1. Start => I
  BY ServicesInit
<1>2. I /\ [Step]_all => I'
  BY Alone, ServicesNext
<1>3. I => ServicesFit
  BY DEF ServicesFit, ServicesInv
<1> QED BY <1>1, <1>2, <1>3, PTL DEF OfficeSpec
-----------------------------------------------------------------------------
(* Closing an account.                                                     *)

\* What a closing must know of, and whether it has begun or is done.
Closes == closed \/ Closing!Checked("close")
Erases == erased \/ Closing!Checked("erase")
Lasting == {"HELD", "PENDING", "LAPSED", "CONFIRMED", "EXPIRED"}

AccountsInv ==
  /\ Closing!TypeOK /\ Closing!ClosedStaysOff /\ Closing!NothingLeft
  /\ published \/ <<"publish", "page">> \in begun => (service /\ profile) \/ spoilt
  /\ closed => ~Closing!Checked("close")
  /\ erased => ~Closing!Checked("erase")
  /\ \A b \in anonymous : erased /\ booking[b] # "NONE"
  /\ Closes =>
       /\ begun \cap ({"publish", "feed"} \X {"page"}) \subseteq unseen["close"]
       /\ \A b \in Booking :
            /\ <<"manual", b>> \in begun => <<"manual", b>> \in unseen["close"]
            /\ <<"hold", b>> \in begun =>
                 unseen["close"] \cap {<<"hold", b>>, <<"publish", "page">>} # {}
            /\ booking[b] \in Lasting =>
                 unseen["close"] \cap {b, <<"hold", b>>, <<"manual", b>>, <<"publish", "page">>} # {}
  /\ Erases => \A b \in Booking : <<"hold", b>> \in begun => <<"hold", b>> \in unseen["erase"]
  /\ Closing!Checked("erase") => \A b \in Booking :
       /\ <<"manual", b>> \in begun => <<"manual", b>> \in unseen["erase"]
       /\ booking[b] \in Lasting => unseen["erase"] \cap {b, <<"manual", b>>} # {}
  /\ \A b \in anonymous : booking[b] \in Lasting => unseen["erase"] \cap {b, <<"manual", b>>} # {}

LEMMA AccountsInit == Start => AccountsInv
  BY DEF Start, Closing!Init, AccountsInv, Closing!TypeOK, Closing!ClosedStaysOff,
    Closing!NothingLeft, Closing!Checked, Closes, Erases, Lasting, Closing!Statuses

LEMMA AccountsNext == AccountsInv /\ [Closing!Next]_accountVars => AccountsInv'
<1> SUFFICES ASSUME AccountsInv, [Closing!Next]_accountVars PROVE AccountsInv'
  OBVIOUS
<1> USE DEF AccountsInv, Closing!TypeOK, Closing!ClosedStaysOff, Closing!NothingLeft,
  Closing!Checked, Closes, Erases, Lasting, Closing!Statuses, Closing!Requests,
  Closing!Begin, Closing!End, Closing!Becomes, Closing!bookings, Closing!page, Closing!Matters,
  Closing!CheckClosing, Closing!Ahead
<1>1. CASE UNCHANGED accountVars
  BY <1>1 DEF accountVars
<1>2. ASSUME NEW has \in BOOLEAN, NEW fits \in BOOLEAN, Closing!Edit(has, fits) PROVE AccountsInv'
  BY <1>2 DEF Closing!Edit
<1>3. CASE Closing!ReadChecklist
  BY <1>3 DEF Closing!ReadChecklist
<1>4. CASE Closing!Publish
  BY <1>4 DEF Closing!Publish
<1>5. CASE Closing!Unpublish
  <2>1. /\ published' = FALSE /\ spoilt' \in BOOLEAN
        /\ spoilt' = TRUE <=> <<"publish", "page">> \in begun
        /\ UNCHANGED <<feed, service, profile, closed, begun, unseen, booking, anonymous, erased>>
    BY <1>5 DEF Closing!Unpublish
  <2> QED BY <2>1
<1>6. CASE Closing!AskForFeed
  BY <1>6 DEF Closing!AskForFeed
<1>7. CASE Closing!SetFeed
  BY <1>7 DEF Closing!SetFeed
<1>8. CASE Closing!CheckVendor
  BY <1>8 DEF Closing!CheckVendor
<1>9. CASE Closing!CloseVendor
  BY <1>9 DEF Closing!CloseVendor
<1>10. CASE Closing!CheckCustomer
  BY <1>10 DEF Closing!CheckCustomer
<1>11. CASE Closing!EraseCustomer
  BY <1>11 DEF Closing!EraseCustomer
<1>12. ASSUME NEW b \in Booking, Closing!FindPage(b) PROVE AccountsInv'
  BY <1>12 DEF Closing!FindPage
<1>13. ASSUME NEW b \in Booking, Closing!Hold(b) PROVE AccountsInv'
  <2>1. /\ begun' \subseteq begun /\ begun' \subseteq Closing!Requests
        /\ UNCHANGED <<published, feed, service, profile, closed, spoilt, unseen, anonymous, erased>>
        /\ booking[b] = "NONE" /\ booking' \in [Booking -> Closing!Statuses]
        /\ \A c \in Booking : c # b => booking'[c] = booking[c]
    BY <1>13 DEF Closing!Hold
  <2>2. <<"hold", b>> \in begun /\ ~Closing!Checked("erase") /\ booking'[b] = "HELD"
    BY <1>13 DEF Closing!Hold
  <2>3. Closing!TypeOK' /\ Closing!ClosedStaysOff' /\ Closing!NothingLeft'
    BY <2>1, <2>2
  <2>4. b \notin anonymous
    BY <2>1
  <2> QED BY <2>1, <2>2, <2>3, <2>4
<1>14. ASSUME NEW b \in Booking, Closing!AskForManual(b) PROVE AccountsInv'
  BY <1>14 DEF Closing!AskForManual
<1>15. ASSUME NEW b \in Booking, Closing!Manual(b) PROVE AccountsInv'
  <2>1. /\ begun' \subseteq begun /\ begun' \subseteq Closing!Requests
        /\ UNCHANGED <<published, feed, service, profile, closed, spoilt, unseen, anonymous, erased>>
        /\ booking[b] = "NONE" /\ booking' \in [Booking -> Closing!Statuses]
        /\ \A c \in Booking : c # b => booking'[c] = booking[c]
    BY <1>15 DEF Closing!Manual
  <2>2. <<"manual", b>> \in begun /\ booking'[b] = "CONFIRMED"
    BY <1>15 DEF Closing!Manual
  <2>3. Closing!TypeOK' /\ Closing!ClosedStaysOff' /\ Closing!NothingLeft'
    BY <2>1, <2>2
  <2>4. b \notin anonymous
    BY <2>1
  <2> QED BY <2>1, <2>2, <2>3, <2>4
<1>16. ASSUME NEW b \in Booking, Closing!Accept(b) PROVE AccountsInv'
  BY <1>16 DEF Closing!Accept
<1>17. ASSUME NEW b \in Booking, Closing!Pay(b) PROVE AccountsInv'
  BY <1>17 DEF Closing!Pay
<1>18. ASSUME NEW b \in Booking, Closing!Lapse(b) PROVE AccountsInv'
  BY <1>18 DEF Closing!Lapse
<1>19. ASSUME NEW q \in Closing!Requests, Closing!GiveUp(q) PROVE AccountsInv'
  BY <1>19 DEF Closing!GiveUp
<1> QED
  BY <1>1, <1>2, <1>3, <1>4, <1>5, <1>6, <1>7, <1>8, <1>9, <1>10, <1>11, <1>12, <1>13, <1>14, <1>15, <1>16, <1>17, <1>18, <1>19 DEF Closing!Next

LEMMA AccountsAgree ==
  ASSUME AccountsInv
  PROVE  /\ Closing!OnlineIsComplete /\ Closing!ClosedStaysOff
         /\ Closing!ClosedHasServed /\ Closing!ErasedIsOver /\ Closing!NothingLeft
<1>1. Closing!ClosedHasServed
  BY DEF AccountsInv, Closing!ClosedHasServed, Closing!Ahead, Closes, Lasting
<1>2. Closing!ErasedIsOver
  BY DEF AccountsInv, Closing!ErasedIsOver, Closing!Ahead, Lasting
<1> QED BY <1>1, <1>2 DEF AccountsInv, Closing!OnlineIsComplete

\* A page goes online complete; an account closes when what it had was over, and
\* then stays off and keeps no contact, but for what a request had begun before:
\* any number of bookings (POST /publish, POST /account/delete, POST /delete).
THEOREM ClosingIsOver == OfficeSpec => []ClosedIsOver
<1> DEFINE I == part = "accounts" => AccountsInv
<1>1. Start => I
  BY AccountsInit
<1>2. I /\ [Step]_all => I'
  BY Alone, AccountsNext
<1>3. I => ClosedIsOver
  BY AccountsAgree DEF ClosedIsOver
<1> QED BY <1>1, <1>2, <1>3, PTL DEF OfficeSpec

-----------------------------------------------------------------------------
(* Emails about a booking.                                                 *)

\* Nobody is told twice that a booking is confirmed, and a job that has a booking
\* on its list found it due.
NoticesInv ==
  /\ Telling!TypeOK /\ Telling!CustomerKnowsTheTime
  /\ visit.status \in {"NEW", "PENDING"} => <<"confirmed", "customer">> \notin mailed
  /\ \A j \in Job : reminding[j] # Null =>
       reminding[j].at < reminding[j].of /\ reminding[j].of <= reminding[j].at + Before

Visits == [status : {"NEW", "PENDING", "CONFIRMED", "CANCELLED"}, start : Moments,
           made : Telling!Times, reminded : BOOLEAN]

LEMMA NoticesInit == Start => NoticesInv
<1> SUFFICES ASSUME Start PROVE NoticesInv
  OBVIOUS
<1>1. Telling!Init /\ Telling!TimesAreNumbers
  BY NoticesAssumption DEF Start
<1>2. PICK s \in Moments : visit = [status |-> "NEW", start |-> s, made |-> 0, reminded |-> FALSE]
  BY <1>1 DEF Telling!Init
<1>3. 0 \in Telling!Times
  BY <1>1 DEF Telling!TimesAreNumbers, Telling!Times
<1>4. visit \in Visits /\ visit.status = "NEW"
  BY <1>2, <1>3 DEF Visits
<1>5. Telling!TypeOK
  BY <1>1, <1>3, <1>4 DEF Telling!Init, Telling!TypeOK, Visits
<1> QED
  BY <1>1, <1>4, <1>5 DEF Telling!Init, NoticesInv, Telling!CustomerKnowsTheTime

\* A booking keeps its type in every change.
LEMMA VisitType ==
  ASSUME NoticesInv
  PROVE  /\ visit.status \in {"NEW", "PENDING", "CONFIRMED", "CANCELLED"}
         /\ visit.start \in Moments /\ visit.made \in Telling!Times /\ visit.reminded \in BOOLEAN
         /\ now \in Nat /\ Before \in Nat /\ now \in Telling!Times /\ Moments \subseteq Nat
  BY NoticesAssumption DEF NoticesInv, Telling!TypeOK, Telling!TimesAreNumbers, Telling!Times

LEMMA NoticesNext == NoticesInv /\ [Telling!Next]_noticeVars => NoticesInv'
<1> SUFFICES ASSUME NoticesInv, [Telling!Next]_noticeVars PROVE NoticesInv'
  OBVIOUS
<1> USE VisitType DEF NoticesInv, Telling!TypeOK, Telling!CustomerKnowsTheTime
<1>1. CASE UNCHANGED noticeVars
  BY <1>1 DEF noticeVars
<1>2. CASE Telling!Request
  <2>1. visit' \in Visits /\ visit'.status = "PENDING"
    BY <1>2 DEF Telling!Request, Visits
  <2>2. mailed' \subseteq Telling!Keys /\ <<"confirmed", "customer">> \notin mailed'
    BY <1>2 DEF Telling!Request, Telling!Keys
  <2> QED BY <1>2, <2>1, <2>2 DEF Telling!Request, Visits
<1>3. CASE Telling!Confirm
  <2>1. visit' \in Visits /\ visit'.status = "CONFIRMED" /\ visit'.start = visit.start
    BY <1>3 DEF Telling!Confirm, Visits
  <2>2. mailed' \subseteq Telling!Keys
    BY <1>3 DEF Telling!Confirm, Telling!Queue, Telling!Keys
  <2>3. told' = visit'.start
    BY <1>3 DEF Telling!Confirm, Telling!Told
  <2> QED BY <1>3, <2>1, <2>2, <2>3 DEF Telling!Confirm, Visits
<1>4. CASE Telling!Cancel
  BY <1>4 DEF Telling!Cancel, Telling!Queue, Telling!Keys
<1>5. CASE Telling!SetPreferences
  BY <1>5 DEF Telling!SetPreferences
<1>6. CASE Telling!Tick
  BY <1>6, NoticesAssumption DEF Telling!Tick, Telling!Times, Telling!TimesAreNumbers
<1>7. ASSUME NEW s \in Moments, Telling!Move(s) PROVE NoticesInv'
  <2>1. visit' \in Visits /\ visit'.status = visit.status /\ visit'.start = s
    BY <1>7 DEF Telling!Move, Visits
  <2>2. /\ mailed' = mailed \cup {<<"moved", s>>}
        /\ told' = s \/ (told' = told /\ twice')
        /\ twice' \in BOOLEAN
    BY <1>7, <2>1 DEF Telling!Move, Telling!Told
  <2>3. mailed' \subseteq Telling!Keys
    BY <2>2 DEF Telling!Keys
  <2>4. visit'.status \in {"NEW", "PENDING"} => <<"confirmed", "customer">> \notin mailed'
    BY <2>1, <2>2
  <2>5. UNCHANGED <<now, reminded, wants, reminding>>
    BY <1>7 DEF Telling!Move
  <2> QED BY <2>1, <2>2, <2>3, <2>4, <2>5 DEF Visits
<1>8. ASSUME NEW j \in Job, Telling!ReadDue(j) PROVE NoticesInv'
  BY <1>8 DEF Telling!ReadDue, Telling!Due
<1>9. ASSUME NEW j \in Job, Telling!Claim(j) PROVE NoticesInv'
  <2>1. /\ reminding' = [reminding EXCEPT ![j] = Null]
        /\ UNCHANGED <<now, wants, twice>>
    BY <1>9 DEF Telling!Claim
  <2>2. /\ reminding' \in [Job -> [of : Moments, at : Telling!Times] \cup {Null}]
        /\ \A k \in Job : reminding'[k] # Null => reminding'[k] = reminding[k]
    BY <2>1
  <2>3. CASE ~Telling!Claimable
    BY <1>9, <2>1, <2>2, <2>3 DEF Telling!Claim
  <2>4. CASE Telling!Claimable
    <3>1. /\ visit' = [visit EXCEPT !.reminded = TRUE] /\ visit.status = "CONFIRMED"
          /\ Telling!Queue("reminder") /\ Telling!Told(<<"reminder", "customer">>)
          /\ reminded' = IF <<"reminder", "customer">> \in mailed THEN reminded
                         ELSE [of |-> visit.start, at |-> now]
      BY <1>9, <2>4 DEF Telling!Claim, Telling!Claimable
    <3>2. visit' \in Visits /\ visit'.status = "CONFIRMED" /\ visit'.start = visit.start
      BY <3>1 DEF Visits
    <3>3. mailed' \subseteq Telling!Keys
      BY <3>1 DEF Telling!Queue, Telling!Keys
    <3>4. told' \in {told, visit.start}
      BY <3>1, <3>2 DEF Telling!Told
    <3>5. [of |-> visit.start, at |-> now] \in [of : Moments, at : Telling!Times]
      OBVIOUS
    <3>6. reminded' \in [of : Moments, at : Telling!Times] \cup {Null}
      BY <3>1, <3>5
    <3>7. Telling!CustomerKnowsTheTime'
      BY <2>1, <3>1, <3>2, <3>4
    <3>8. \A k \in Job : reminding'[k] # Null =>
            reminding'[k].at < reminding'[k].of /\ reminding'[k].of <= reminding'[k].at + Before
      BY <2>2
    <3>9. Telling!TypeOK'
      BY <2>1, <2>2, <3>2, <3>3, <3>4, <3>6 DEF Visits
    <3> QED BY <3>2, <3>7, <3>8, <3>9
  <2> QED BY <2>3, <2>4
<1>10. ASSUME NEW j \in Job, Telling!Stop(j) PROVE NoticesInv'
  BY <1>10 DEF Telling!Stop
<1> QED
  BY <1>1, <1>2, <1>3, <1>4, <1>5, <1>6, <1>7, <1>8, <1>9, <1>10 DEF Telling!Next

\* The last email a customer has names the time of the booking, and a reminder
\* goes out on the last day before: any number of jobs, times and moves (jobs.ts:58-79).
THEOREM CustomersKnow == OfficeSpec => CustomersAreTold
<1> DEFINE I == part = "notices" => NoticesInv
           Reminds == part = "notices" => Telling!RemindsThen /\ Telling!RemindsInTime
<1>1. Start => I
  BY NoticesInit
<1>2. I /\ [Step]_all => I'
  BY Alone, NoticesNext
<1>3. I => (part = "notices" => Telling!CustomerKnowsTheTime)
  BY DEF NoticesInv
<1>4. I /\ [Step]_all => [Reminds]_all
  <2> SUFFICES ASSUME I, Step, part = "notices"
               PROVE  Telling!RemindsThen /\ Telling!RemindsInTime
    OBVIOUS
  <2>1. [Telling!Next]_noticeVars
    BY Alone
  <2>2. Telling!RemindsThen
    <3> SUFFICES ASSUME reminded' # reminded
                 PROVE  visit.status = "CONFIRMED" /\ reminded'.of = visit.start
      BY DEF Telling!RemindsThen
    <3>1. \E j \in Job : Telling!Claim(j)
      BY <2>1 DEF Telling!Next, noticeVars, Telling!Request, Telling!Confirm,
        Telling!Cancel, Telling!SetPreferences, Telling!Tick, Telling!Move, Telling!ReadDue,
        Telling!Stop
    <3>2. /\ visit.status = "CONFIRMED"
          /\ reminded' = [of |-> visit.start, at |-> now]
      BY <3>1 DEF Telling!Claim, Telling!Claimable
    <3> QED BY <3>2
  <2>3. Telling!RemindsInTime
    <3> SUFFICES ASSUME NEW j \in Job, reminding[j] = [of |-> visit.start, at |-> now],
                        reminded' # reminded
                 PROVE  now < reminded'.of /\ reminded'.of <= now + Before
      BY DEF Telling!RemindsInTime
    <3>1. reminding[j].at = now /\ reminding[j].of = visit.start
      OBVIOUS
    <3>2. now < visit.start /\ visit.start <= now + Before
      BY <3>1, NoticesAssumption DEF NoticesInv, Telling!TypeOK
    <3> QED BY <2>2, <3>2 DEF Telling!RemindsThen
  <2> QED BY <2>2, <2>3
<1> QED BY <1>1, <1>2, <1>3, <1>4, PTL DEF OfficeSpec, CustomersAreTold

-----------------------------------------------------------------------------
(* Calls of the scheduler.                                                 *)

States == Ticking!Busy \cup {"waiting", "ok", "not ok", "error"}
CallRows == [trigger : Ticking!Triggers \cup {Null}, at : 1..4, state : States]

\* The jobs a call has passed have ended, here of the row k of the call and
\* the rows R of its jobs.
Passed(k, R) ==
  k.state \in Ticking!Busy =>
    /\ k.trigger \in Ticking!Triggers /\ k.at \in 1..Len(Ticking!Jobs[k.trigger])
    /\ \A i \in 1..(k.at - 1) : R[Ticking!Jobs[k.trigger][i]] \in {"ok", "failed"}

\* A call that was answered has passed all of them, and tells whether all were ok.
Settled(k, R) ==
  k.state \in {"ok", "not ok"} =>
    /\ k.trigger \in Ticking!Triggers
    /\ \A i \in 1..Len(Ticking!Jobs[k.trigger]) :
         R[Ticking!Jobs[k.trigger][i]] \in {"ok", "failed"}
    /\ k.state = "ok" <=>
         \A i \in 1..Len(Ticking!Jobs[k.trigger]) : R[Ticking!Jobs[k.trigger][i]] = "ok"

\* What is known of a call and its jobs.
Known(k, R) ==
  /\ Passed(k, R) /\ Settled(k, R)
  /\ k.state = "waiting" => k.at = 1

RunRows == [Ticking!Names -> {"none", "running", "ok", "failed"}]

\* An email M lists some of what its key says, all of it where there is room, as
\* a run of R has found it.
Right(M, R) ==
  /\ M.check \in Ticking!Checks /\ M.lines \subseteq Finding[M.check]
  /\ M.key.check = M.check /\ Ticking!Of(M.lines) \subseteq M.key.of
  /\ Cardinality(M.key.of) <= Listed => Ticking!Of(M.lines) = M.key.of
  /\ \E e \in R : e.check = M.check /\ M.lines \subseteq e.found

JobsInv ==
  /\ Ticking!TypeOK /\ Ticking!FindingsAreMailed
  /\ call \in [Call -> CallRows]
  /\ \A c \in Call : Known(call[c], runs[c])
  /\ \A m \in mails : Right(m, reported)

\* The jobs of a call are different, and there are three or four.
LEMMA JobLists ==
  /\ Ticking!Triggers = {"tick", "nightly"}
  /\ \A t \in Ticking!Triggers :
       LET J == Ticking!Jobs[t] IN
       /\ DOMAIN J = 1..Len(J) /\ Len(J) \in 3..4
       /\ \A i, j \in 1..Len(J) : J[i] = J[j] => i = j
       /\ \A i \in 1..Len(J) : J[i] \in Ticking!Names
       /\ Ticking!Range(J) = {J[i] : i \in 1..Len(J)}
<1>1. Ticking!Triggers = {"tick", "nightly"}
  BY DEF Ticking!Triggers, Ticking!Jobs
<1>2. ASSUME NEW t \in Ticking!Triggers
      PROVE  LET J == Ticking!Jobs[t] IN
             /\ DOMAIN J = 1..Len(J) /\ Len(J) \in 3..4
             /\ \A i, j \in 1..Len(J) : J[i] = J[j] => i = j
  <2>1. CASE t = "tick"
    <3> DEFINE J == Ticking!Jobs[t]
    <3>1. J = <<"expire_holds", "process_webhooks", "send_reminders", "send_outbox">>
      BY <2>1 DEF Ticking!Jobs
    <3> HIDE DEF J
    <3>2. DOMAIN J = 1..4 /\ Len(J) = 4
      BY <3>1
    <3>3. J[1] = "expire_holds" /\ J[2] = "process_webhooks" /\ J[3] = "send_reminders" /\ J[4] = "send_outbox"
      BY <3>1
    <3>4. \A i, j \in 1..4 : J[i] = J[j] => i = j
      BY <3>3
    <3> QED BY <3>2, <3>4 DEF J
  <2>2. CASE t = "nightly"
    <3> DEFINE J == Ticking!Jobs[t]
    <3>1. J = <<"reconcile_payments", "cleanup", "consistency_check">>
      BY <2>2 DEF Ticking!Jobs
    <3> HIDE DEF J
    <3>2. DOMAIN J = 1..3 /\ Len(J) = 3
      BY <3>1
    <3>3. J[1] = "reconcile_payments" /\ J[2] = "cleanup" /\ J[3] = "consistency_check"
      BY <3>1
    <3>4. \A i, j \in 1..3 : J[i] = J[j] => i = j
      BY <3>3
    <3> QED BY <3>2, <3>4 DEF J
  <2> QED BY <1>1, <2>1, <2>2
<1>3. ASSUME NEW t \in Ticking!Triggers
      PROVE  Ticking!Range(Ticking!Jobs[t]) = {Ticking!Jobs[t][i] : i \in 1..Len(Ticking!Jobs[t])}
  BY <1>2 DEF Ticking!Range
<1>4. ASSUME NEW t \in Ticking!Triggers, NEW i \in 1..Len(Ticking!Jobs[t])
      PROVE  Ticking!Jobs[t][i] \in Ticking!Names
  <2>1. Ticking!Jobs[t][i] \in Ticking!Range(Ticking!Jobs[t])
    BY <1>3
  <2> QED BY <2>1 DEF Ticking!Names
<1> QED BY <1>1, <1>2, <1>3, <1>4

LEMMA JobsInit == Start => JobsInv
<1> SUFFICES ASSUME Start PROVE JobsInv
  OBVIOUS
<1>1. Ticking!Init
  BY DEF Start
<1>2. /\ call \in [Call -> CallRows]
      /\ \A c \in Call : call[c].trigger = Null /\ call[c].at = 1 /\ call[c].state = "waiting"
  BY <1>1 DEF Ticking!Init, CallRows, States
<1>3. /\ runs \in [Call -> RunRows]
      /\ mails = {} /\ reported = {} /\ ops \in BOOLEAN
  BY <1>1 DEF Ticking!Init, RunRows
<1>4. Ticking!TypeOK
  <2>1. \A c \in Call : /\ call[c].trigger \in Ticking!Triggers \cup {Null}
                        /\ call[c].at \in 1..4
                        /\ call[c].state \in States
    BY <1>2 DEF CallRows
  <2> QED BY <1>3, <2>1 DEF Ticking!TypeOK, States, RunRows
<1>5. \A c \in Call : Known(call[c], runs[c])
  BY <1>2 DEF Known, Passed, Settled, Ticking!Busy
<1> QED
  BY <1>2, <1>3, <1>4, <1>5 DEF JobsInv, Ticking!FindingsAreMailed

\* What a step changes of one call it may say of that call.
LEMMA OneCall ==
  ASSUME JobsInv, NEW c \in Call, NEW k \in CallRows, NEW R \in RunRows,
         call' = [call EXCEPT ![c] = k], runs' = [runs EXCEPT ![c] = R],
         Known(k, R)
  PROVE  /\ call' \in [Call -> CallRows] /\ runs' \in [Call -> RunRows]
         /\ \A d \in Call : Known(call'[d], runs'[d])
         /\ \A d \in Call : /\ call'[d].trigger \in Ticking!Triggers \cup {Null}
                            /\ call'[d].at \in 1..4 /\ call'[d].state \in States
<1>1. call \in [Call -> CallRows] /\ runs \in [Call -> RunRows]
  BY DEF JobsInv, Ticking!TypeOK, RunRows
<1>2. /\ call' \in [Call -> CallRows] /\ runs' \in [Call -> RunRows]
      /\ call'[c] = k /\ runs'[c] = R
      /\ \A d \in Call \ {c} : call'[d] = call[d] /\ runs'[d] = runs[d]
  BY <1>1
<1>3. \A d \in Call : Known(call[d], runs[d])
  BY DEF JobsInv
<1>4. \A d \in Call : Known(call'[d], runs'[d])
  BY <1>2, <1>3
<1>5. \A d \in Call : /\ call'[d].trigger \in Ticking!Triggers \cup {Null}
                      /\ call'[d].at \in 1..4 /\ call'[d].state \in States
  BY <1>2 DEF CallRows
<1> QED BY <1>2, <1>4, <1>5

LEMMA CallAlone ==
  ASSUME JobsInv, NEW c \in Call, NEW k \in CallRows, NEW R \in RunRows,
         call' = [call EXCEPT ![c] = k], runs' = [runs EXCEPT ![c] = R],
         Known(k, R), UNCHANGED <<ops, mails, reported>>
  PROVE  JobsInv'
<1>1. /\ call' \in [Call -> CallRows] /\ runs' \in [Call -> RunRows]
      /\ \A d \in Call : Known(call'[d], runs'[d])
      /\ \A d \in Call : /\ call'[d].trigger \in Ticking!Triggers \cup {Null}
                         /\ call'[d].at \in 1..4 /\ call'[d].state \in States
  BY OneCall
<1>2. Ticking!TypeOK'
  BY <1>1 DEF JobsInv, Ticking!TypeOK, States, RunRows
<1>3. Ticking!FindingsAreMailed'
  BY DEF JobsInv, Ticking!FindingsAreMailed
<1>4. (\A m \in mails : Right(m, reported))'
  BY DEF JobsInv
<1> QED
  BY <1>1, <1>2, <1>3, <1>4 DEF JobsInv

\* The rows of a call.
LEMMA ItsRows ==
  ASSUME JobsInv, NEW c \in Call
  PROVE  /\ call \in [Call -> CallRows] /\ runs \in [Call -> RunRows]
         /\ call[c] \in CallRows /\ runs[c] \in RunRows /\ Known(call[c], runs[c])
         /\ runs = [runs EXCEPT ![c] = runs[c]]
<1>1. call \in [Call -> CallRows] /\ runs \in [Call -> RunRows]
  BY DEF JobsInv, Ticking!TypeOK, RunRows
<1> QED BY <1>1 DEF JobsInv

LEMMA StartCallStep ==
  ASSUME JobsInv, NEW c \in Call, NEW t \in Ticking!Triggers, Ticking!Start(c, t)
  PROVE  JobsInv'
<1>1. /\ call[c] \in CallRows /\ call[c].state = "waiting" /\ call[c].at = 1
      /\ runs[c] \in RunRows
  BY ItsRows DEF Known, Ticking!Start
<1>2. PICK k : k = [call[c] EXCEPT !.trigger = t, !.state = "inserting"]
  OBVIOUS
<1>3. k \in CallRows /\ k.trigger = t /\ k.state = "inserting" /\ k.at = 1
  BY <1>1, <1>2 DEF CallRows, States, Ticking!Busy
<1>4. /\ call' = [call EXCEPT ![c] = k] /\ UNCHANGED <<ops, runs, mails, reported>>
  BY <1>2 DEF Ticking!Start
<1>5. runs' = [runs EXCEPT ![c] = runs[c]]
  BY <1>4, ItsRows
<1>6. Len(Ticking!Jobs[t]) \in 3..4
  BY JobLists
<1>7. Known(k, runs[c])
  <2>1. 1 \in 1..Len(Ticking!Jobs[t])
    BY <1>6
  <2>2. 1..(k.at - 1) = {}
    BY <1>3
  <2>3. Passed(k, runs[c])
    BY <1>3, <2>1, <2>2 DEF Passed
  <2> QED BY <1>3, <2>3 DEF Known, Settled
<1> QED
  BY <1>1, <1>3, <1>4, <1>5, <1>7, CallAlone

\* A call at work is at one of its jobs.
LEMMA AtWork ==
  ASSUME JobsInv, NEW c \in Call, call[c].state \in Ticking!Busy
  PROVE  LET k == call[c] IN
         /\ k.trigger \in Ticking!Triggers /\ k.at \in 1..Len(Ticking!Jobs[k.trigger])
         /\ Len(Ticking!Jobs[k.trigger]) \in 3..4
         /\ \A i \in 1..(k.at - 1) : runs[c][Ticking!Jobs[k.trigger][i]] \in {"ok", "failed"}
         /\ Ticking!JobOf(c) = Ticking!Jobs[k.trigger][k.at] /\ Ticking!JobOf(c) \in Ticking!Names
<1>1. Passed(call[c], runs[c])
  BY ItsRows DEF Known
<1>2. /\ call[c].trigger \in Ticking!Triggers
      /\ call[c].at \in 1..Len(Ticking!Jobs[call[c].trigger])
      /\ \A i \in 1..(call[c].at - 1) :
           runs[c][Ticking!Jobs[call[c].trigger][i]] \in {"ok", "failed"}
  BY <1>1 DEF Passed
<1>3. Ticking!JobOf(c) = Ticking!Jobs[call[c].trigger][call[c].at]
  BY DEF Ticking!JobOf
<1> QED BY <1>2, <1>3, JobLists

\* The row of the job it is at, with nothing else of the job rows.
LEMMA WrittenRow ==
  ASSUME JobsInv, NEW c \in Call, call[c].state \in Ticking!Busy,
         NEW x, x \in {"none", "running", "ok", "failed"},
         runs' = [runs EXCEPT ![c][Ticking!JobOf(c)] = x]
  PROVE  \E R \in RunRows : R = [runs[c] EXCEPT ![Ticking!JobOf(c)] = x]
                          /\ runs' = [runs EXCEPT ![c] = R]
<1>1. runs[c] \in RunRows /\ runs \in [Call -> RunRows]
  BY ItsRows
<1>2. PICK R : R = [runs[c] EXCEPT ![Ticking!JobOf(c)] = x]
  OBVIOUS
<1>3. R \in RunRows
  BY <1>1, <1>2 DEF RunRows
<1> QED BY <1>2, <1>3

LEMMA BeginCallStep ==
  ASSUME JobsInv, NEW c \in Call, Ticking!Begin(c)
  PROVE  JobsInv'
<1>1. call[c].state \in Ticking!Busy /\ call[c].state = "inserting"
  BY DEF Ticking!Begin, Ticking!Busy
<1>2. PICK R \in RunRows : /\ R = [runs[c] EXCEPT ![Ticking!JobOf(c)] = "running"]
                          /\ runs' = [runs EXCEPT ![c] = R]
  BY <1>1, WrittenRow DEF Ticking!Begin
<1>3. PICK k : k = [call[c] EXCEPT !.state = "working"]
  OBVIOUS
<1>4. /\ k \in CallRows /\ k.trigger = call[c].trigger /\ k.at = call[c].at
      /\ k.state = "working"
  BY <1>3, ItsRows DEF CallRows, States, Ticking!Busy
<1>5. PICK t \in Ticking!Triggers : t = call[c].trigger
  BY <1>1, AtWork
<1>6. PICK n \in 1..Len(Ticking!Jobs[t]) : n = call[c].at
  BY <1>1, <1>5, AtWork
<1>7. /\ Len(Ticking!Jobs[t]) \in 3..4 /\ Ticking!JobOf(c) = Ticking!Jobs[t][n]
      /\ \A i \in 1..(n - 1) : runs[c][Ticking!Jobs[t][i]] \in {"ok", "failed"}
  BY <1>1, <1>5, <1>6, AtWork
<1>8. ASSUME NEW i \in 1..(n - 1)
      PROVE  R[Ticking!Jobs[t][i]] \in {"ok", "failed"}
  <2>1. /\ i \in 1..Len(Ticking!Jobs[t]) /\ i # n
        /\ \A p, q \in 1..Len(Ticking!Jobs[t]) : Ticking!Jobs[t][p] = Ticking!Jobs[t][q] => p = q
        /\ Ticking!Jobs[t][i] \in Ticking!Names
    BY <1>7, JobLists
  <2>2. Ticking!Jobs[t][i] # Ticking!Jobs[t][n]
    BY <2>1
  <2>3. R[Ticking!Jobs[t][i]] = runs[c][Ticking!Jobs[t][i]]
    BY <1>2, <1>7, <2>1, <2>2, ItsRows DEF RunRows
  <2> QED BY <1>7, <2>3
<1>9. Known(k, R)
  BY <1>4, <1>5, <1>6, <1>8 DEF Known, Passed, Settled
<1>10. call' = [call EXCEPT ![c] = k] /\ UNCHANGED <<ops, mails, reported>>
  BY <1>3 DEF Ticking!Begin
<1> QED
  BY <1>2, <1>4, <1>9, <1>10, CallAlone


\* What a job that ended leaves: the next one, or the answer.
LEMMA EndedRow ==
  ASSUME JobsInv, NEW c \in Call, call[c].state \in Ticking!Busy,
         NEW x, x \in {"ok", "failed"},
         runs' = [runs EXCEPT ![c][Ticking!JobOf(c)] = x], Ticking!Onward(c),
         UNCHANGED <<ops, mails, reported>>
  PROVE  JobsInv'
<1>1. PICK R \in RunRows : /\ R = [runs[c] EXCEPT ![Ticking!JobOf(c)] = x]
                          /\ runs' = [runs EXCEPT ![c] = R]
  <2>1. CASE x = "ok"
    BY <2>1, WrittenRow, ZenonT(30)
  <2>2. CASE x = "failed"
    BY <2>2, WrittenRow, ZenonT(30)
  <2> QED BY <2>1, <2>2
<1>2. PICK t \in Ticking!Triggers : t = call[c].trigger
  BY AtWork
<1>4. PICK m \in 3..4 : m = Len(Ticking!Jobs[t])
  BY JobLists
<1>3. PICK n \in 1..m : n = call[c].at
  BY <1>2, <1>4, AtWork
<1>5. /\ Ticking!JobOf(c) = Ticking!Jobs[t][n]
      /\ \A i \in 1..(n - 1) : runs[c][Ticking!Jobs[t][i]] \in {"ok", "failed"}
  BY <1>2, <1>3, AtWork
<1>6. /\ R[Ticking!Jobs[t][n]] = x
      /\ \A i \in 1..(n - 1) : R[Ticking!Jobs[t][i]] \in {"ok", "failed"}
  <2>1. /\ \A p, q \in 1..m : Ticking!Jobs[t][p] = Ticking!Jobs[t][q] => p = q
        /\ \A p \in 1..m : Ticking!Jobs[t][p] \in Ticking!Names
    BY <1>4, JobLists
  <2>2. runs[c] \in RunRows /\ n \in 1..m
    BY <1>3, <1>4, ItsRows
  <2>3. R[Ticking!Jobs[t][n]] = x
    BY <1>1, <1>5, <2>1, <2>2 DEF RunRows
  <2>4. ASSUME NEW i \in 1..(n - 1) PROVE R[Ticking!Jobs[t][i]] \in {"ok", "failed"}
    <3>1. i \in 1..m /\ i # n
      BY <1>4, <2>2
    <3>2. Ticking!Jobs[t][i] # Ticking!Jobs[t][n] /\ Ticking!Jobs[t][i] \in Ticking!Names
      BY <2>1, <2>2, <3>1
    <3>3. R[Ticking!Jobs[t][i]] = runs[c][Ticking!Jobs[t][i]]
      BY <1>1, <1>5, <2>2, <3>2 DEF RunRows
    <3> QED BY <1>5, <3>3
  <2> QED BY <2>3, <2>4
<1>7. /\ call[c] \in CallRows /\ runs[c] \in RunRows /\ runs'[c] = R
  BY <1>1, ItsRows
<1>8. CASE n < m
  <2>1. PICK k : k = [call[c] EXCEPT !.at = n + 1, !.state = "inserting"]
    OBVIOUS
  <2>2. call' = [call EXCEPT ![c] = k]
    <3>1. call' = [call EXCEPT ![c].at = n + 1, ![c].state = "inserting"]
      BY <1>2, <1>3, <1>4, <1>8 DEF Ticking!Onward
    <3> QED BY <2>1, <3>1
  <2>3. k \in CallRows /\ k.trigger = t /\ k.at = n + 1 /\ k.state = "inserting"
    <3>1. n + 1 \in 1..4
      BY <1>8
    <3> QED BY <1>2, <1>7, <2>1, <3>1 DEF CallRows, States, Ticking!Busy
  <2>4. \A i \in 1..(k.at - 1) : R[Ticking!Jobs[t][i]] \in {"ok", "failed"}
    BY <1>3, <1>4, <1>6, <2>3
  <2>5. k.at \in 1..Len(Ticking!Jobs[t])
    BY <1>3, <1>4, <1>8, <2>3
  <2>6. Known(k, R)
    BY <2>3, <2>4, <2>5 DEF Known, Passed, Settled
  <2> QED BY <1>1, <2>2, <2>3, <2>6, CallAlone
<1>9. CASE n = m
  <2>1. PICK a : /\ a \in {"ok", "not ok"}
                 /\ a = "ok" <=> \A j \in Ticking!Range(Ticking!Jobs[t]) : runs'[c][j] = "ok"
    OBVIOUS
  <2>2. PICK k : k = [call[c] EXCEPT !.state = a]
    OBVIOUS
  <2>3. call' = [call EXCEPT ![c] = k]
    <3>1. /\ call[c].at = n /\ ~(call[c].at < Len(Ticking!Jobs[call[c].trigger]))
          /\ call[c].trigger = t
      BY <1>2, <1>3, <1>4, <1>9
    <3>2. ASSUME \A j \in Ticking!Range(Ticking!Jobs[t]) : runs'[c][j] = "ok"
          PROVE  call' = [call EXCEPT ![c] = [call[c] EXCEPT !.at = n, !.state = a]]
      BY <2>1, <3>1, <3>2 DEF Ticking!Onward
    <3>3. ASSUME ~\A j \in Ticking!Range(Ticking!Jobs[t]) : runs'[c][j] = "ok"
          PROVE  call' = [call EXCEPT ![c] = [call[c] EXCEPT !.at = n, !.state = a]]
      BY <2>1, <3>1, <3>3 DEF Ticking!Onward
    <3>5. call' = [call EXCEPT ![c] = [call[c] EXCEPT !.at = n, !.state = a]]
      BY <3>2, <3>3
    <3>4. [call[c] EXCEPT !.at = n, !.state = a] = k
      BY <1>3, <1>7, <2>2 DEF CallRows
    <3> QED BY <3>4, <3>5
  <2>4. k \in CallRows /\ k.trigger = t /\ k.at = n /\ k.state = a
    <3>1. a \in States /\ call[c].trigger = t /\ call[c].at = n
      BY <1>2, <1>3, <2>1 DEF States
    <3> QED BY <1>7, <2>2, <3>1 DEF CallRows
  <2>5. \A i \in 1..m : R[Ticking!Jobs[t][i]] \in {"ok", "failed"}
    <3>1. ASSUME NEW i \in 1..m PROVE i = n \/ i \in 1..(n - 1)
      BY <1>9
    <3> QED BY <1>6, <3>1
  <2>6. a = "ok" <=> \A i \in 1..m : R[Ticking!Jobs[t][i]] = "ok"
    <3>1. Ticking!Range(Ticking!Jobs[t]) = {Ticking!Jobs[t][i] : i \in 1..m}
      BY <1>4, JobLists
    <3> QED BY <1>7, <2>1, <3>1
  <2>7. Known(k, R)
    <3>1. Passed(k, R)
      BY <2>1, <2>4 DEF Passed, Ticking!Busy
    <3>2. Settled(k, R)
      BY <1>4, <2>4, <2>5, <2>6 DEF Settled
    <3> QED BY <2>1, <2>4, <3>1, <3>2 DEF Known
  <2> QED BY <1>1, <2>3, <2>4, <2>7, CallAlone
<1> QED BY <1>3, <1>4, <1>8, <1>9

LEMMA AbortedStep ==
  ASSUME JobsInv, NEW c \in Call, Ticking!Aborted(c)
  PROVE  JobsInv'
<1>1. PICK k : k = [call[c] EXCEPT !.state = "error"]
  OBVIOUS
<1>2. k \in CallRows /\ k.state = "error" /\ runs[c] \in RunRows
  BY <1>1, ItsRows DEF CallRows, States
<1>3. Known(k, runs[c])
  BY <1>2 DEF Known, Passed, Settled, Ticking!Busy
<1>4. /\ call' = [call EXCEPT ![c] = k] /\ runs' = [runs EXCEPT ![c] = runs[c]]
      /\ UNCHANGED <<ops, mails, reported>>
  BY <1>1, ItsRows DEF Ticking!Aborted
<1> QED BY <1>2, <1>3, <1>4, CallAlone

\* A number of findings is what it is elsewhere.
LEMMA SameNumber == \A S : Ticking!Cardinality(S) = Cardinality(S)
  BY DEF Ticking!Cardinality, Cardinality

\* The first so many of a set are all of it when there are not more.
LEMMA FirstOf ==
  ASSUME NEW S, IsFiniteSet(S), NEW limit \in Nat,
         NEW T \in Ticking!kSubset(Ticking!Min({limit, Ticking!Cardinality(S)}), S)
  PROVE  T \subseteq S /\ (Cardinality(S) <= limit => T = S)
<1>1. PICK n \in Nat : n = Cardinality(S)
  BY FS_CardinalityType
<1>2. T \in Ticking!kSubset(Ticking!Min({limit, n}), S)
  BY <1>1, SameNumber
<1>3. T \subseteq S /\ Cardinality(T) = Ticking!Min({limit, n})
  BY <1>2, SameNumber DEF Ticking!kSubset
<1>4. ASSUME n <= limit PROVE T = S
  <2>1. Ticking!Min({limit, n}) = n
    BY <1>4 DEF Ticking!Min
  <2> QED BY <1>1, <1>3, <2>1, FS_Subset
<1> QED BY <1>1, <1>3, <1>4

\* A check finds finitely much, as much as there are rows that are wrong.
LEMMA OneEach ==
  ASSUME NEW check \in Ticking!Checks, NEW F \in Ticking!Wrong(check), NEW G \in SUBSET F
  PROVE  /\ IsFiniteSet(G) /\ Cardinality(G) \in Nat
         /\ Cardinality(Ticking!Of(G)) = Cardinality(G)
<1>1. /\ G \subseteq Finding[check] /\ IsFiniteSet(Finding[check])
      /\ \A f, g \in G : f.what = g.what => f = g
  BY JobsAssumption DEF Ticking!Wrong
<1>2. IsFiniteSet(G) /\ Cardinality(G) \in Nat
  BY <1>1, FS_Subset, FS_CardinalityType
<1>3. PICK h : h = [f \in G |-> f.what]
  OBVIOUS
<1>4. h \in Bijection(G, Ticking!Of(G))
  <2>1. h \in [G -> Ticking!Of(G)]
    BY <1>3 DEF Ticking!Of
  <2>2. \A f, g \in G : h[f] = h[g] => f = g
    BY <1>1, <1>3
  <2>3. \A w \in Ticking!Of(G) : \E f \in G : h[f] = w
    BY <1>3 DEF Ticking!Of
  <2> QED BY <2>1, <2>2, <2>3 DEF Bijection, Injection, Surjection, IsInjective
<1>5. ExistsBijection(G, Ticking!Of(G))
  BY <1>4 DEF ExistsBijection
<1> QED BY <1>2, <1>5, FS_Bijection

\* The lines of what was found are of it, and all of it where it fits.
LEMMA LinesOfFindings ==
  ASSUME NEW check \in Ticking!Checks, NEW F \in Ticking!Wrong(check),
         NEW lines \in Ticking!Lines(check, F)
  PROVE  /\ lines \subseteq F /\ IsFiniteSet(lines)
         /\ Cardinality(Ticking!Of(lines)) = Cardinality(lines)
         /\ Cardinality(F) <= Ticking!Room(check) =>
              lines = F /\ Cardinality(F) <= Listed
<1>1. IsFiniteSet(F) /\ Cardinality(F) \in Nat
  BY OneEach
<1>2. CASE check = "reconcile_payments"
  BY <1>1, <1>2, OneEach DEF Ticking!Lines, Ticking!Room
<1>3. CASE check # "reconcile_payments"
  <2>1. lines \in Ticking!kSubset(Ticking!Min({Shown, Ticking!Cardinality(F)}), F)
    BY <1>3 DEF Ticking!Lines
  <2>2. lines \subseteq F /\ (Cardinality(F) <= Shown => lines = F)
    BY <1>1, <2>1, FirstOf, JobsAssumption
  <2>3. Ticking!Room(check) <= Shown /\ Ticking!Room(check) <= Listed /\ Ticking!Room(check) \in Nat
    BY <1>3, JobsAssumption DEF Ticking!Room, Ticking!Min
  <2>4. Cardinality(F) <= Ticking!Room(check) => Cardinality(F) <= Shown /\ Cardinality(F) <= Listed
    BY <1>1, <2>3, JobsAssumption
  <2> QED BY <2>2, <2>4, OneEach
<1> QED BY <1>2, <1>3

\* What is reported of what was found, and the email about it.
LEMMA FindingsMailed ==
  ASSUME JobsInv, NEW check \in Ticking!Checks, NEW F \in Ticking!Wrong(check),
         NEW lines \in Ticking!Lines(check, F), mails' \in Ticking!Mailed(check, lines),
         reported' = reported \cup {[check |-> check, found |-> F]}, ops' = ops
  PROVE  Ticking!FindingsAreMailed' /\ (\A m \in mails : Right(m, reported))'
<1>1. PICK report : report = [check |-> check, found |-> F]
  OBVIOUS
<1>2. /\ report.check = check /\ report.found = F
      /\ reported' = reported \cup {report}
  BY <1>1
<1>3. \A m \in mails : Right(m, reported) /\ Right(m, reported')
  <2> SUFFICES ASSUME NEW m \in mails
               PROVE  Right(m, reported) /\ Right(m, reported')
    OBVIOUS
  <2>1. Right(m, reported)
    BY DEF JobsInv
  <2> QED BY <1>2, <2>1 DEF Right
<1>4. /\ lines \subseteq F /\ F \subseteq Finding[check] /\ IsFiniteSet(lines)
      /\ Cardinality(Ticking!Of(lines)) = Cardinality(lines)
      /\ Cardinality(F) <= Ticking!Room(check) => lines = F /\ Cardinality(F) <= Listed
  BY LinesOfFindings DEF Ticking!Wrong
<1>5. PICK key : key = Ticking!Key(check, lines)
  OBVIOUS
<1>6. key.check = check /\ key.of = Ticking!Of(lines)
  BY <1>5 DEF Ticking!Key
\* An email with the key says what was found.
<1>7. ASSUME NEW m \in mails', m.key = key, Right(m, reported')
      PROVE  /\ m.check = check /\ Ticking!Of(m.lines) \subseteq Ticking!Of(F)
             /\ Cardinality(F) <= Ticking!Room(check) => Ticking!Of(m.lines) = Ticking!Of(F)
             /\ \E e \in reported' : e.check = m.check /\ m.lines \subseteq e.found
  <2>1. /\ m.check = check /\ Ticking!Of(m.lines) \subseteq key.of
        /\ Cardinality(key.of) <= Listed => Ticking!Of(m.lines) = key.of
        /\ \E e \in reported' : e.check = m.check /\ m.lines \subseteq e.found
    BY <1>6, <1>7 DEF Right
  <2>2. key.of \subseteq Ticking!Of(F)
    BY <1>4, <1>6 DEF Ticking!Of
  <2>3. ASSUME Cardinality(F) <= Ticking!Room(check)
        PROVE  Ticking!Of(m.lines) = Ticking!Of(F)
    BY <1>4, <1>6, <2>1, <2>3
  <2> QED BY <2>1, <2>2, <2>3
\* A new email is right.
<1>8. ASSUME NEW cut \in Ticking!kSubset(Ticking!Min({Listed, Ticking!Cardinality(lines)}), lines),
             NEW mail, mail = [check |-> check, key |-> key, lines |-> cut]
      PROVE  Right(mail, reported')
  <2>1. cut \subseteq lines /\ (Cardinality(lines) <= Listed => cut = lines)
    BY <1>4, FirstOf, JobsAssumption
  <2>2. Ticking!Of(cut) \subseteq key.of
    BY <1>6, <2>1 DEF Ticking!Of
  <2>3. mail.check = check /\ mail.key = key /\ mail.lines = cut
    BY <1>8
  <2>4. Cardinality(key.of) <= Listed => Ticking!Of(cut) = key.of
    BY <1>4, <1>6, <2>1
  <2>5. report \in reported' /\ report.check = mail.check /\ mail.lines \subseteq report.found
    BY <1>2, <1>4, <2>1, <2>3
  <2> QED BY <1>4, <1>6, <2>1, <2>2, <2>3, <2>4, <2>5 DEF Right
<1>9. \/ mails' = mails /\ (ops => \E m \in mails : m.key = key)
      \/ \E cut \in Ticking!kSubset(Ticking!Min({Listed, Ticking!Cardinality(lines)}), lines) :
           mails' = mails \cup {[check |-> check, key |-> key, lines |-> cut]}
  BY <1>5 DEF Ticking!Mailed, JobsInv, Ticking!TypeOK
<1>10. /\ mails \subseteq mails' /\ \A m \in mails' : Right(m, reported')
       /\ ops => \E m \in mails' : m.key = key
  <2>1. CASE mails' = mails /\ (ops => \E m \in mails : m.key = key)
    BY <1>3, <2>1
  <2>2. ASSUME NEW cut \in Ticking!kSubset(Ticking!Min({Listed, Ticking!Cardinality(lines)}), lines),
               mails' = mails \cup {[check |-> check, key |-> key, lines |-> cut]}
        PROVE  /\ mails \subseteq mails' /\ \A m \in mails' : Right(m, reported')
               /\ \E m \in mails' : m.key = key
    <3>1. PICK mail : mail = [check |-> check, key |-> key, lines |-> cut]
      OBVIOUS
    <3>2. Right(mail, reported') /\ mail.key = key /\ mails' = mails \cup {mail}
      BY <1>8, <2>2, <3>1
    <3> QED BY <1>3, <3>2
  <2> QED BY <1>9, <2>1, <2>2
<1>11. ASSUME ops, NEW r \in reported'
       PROVE  \E m \in mails' :
                /\ m.check = r.check /\ Ticking!Of(m.lines) \subseteq Ticking!Of(r.found)
                /\ Ticking!Cardinality(r.found) <= Ticking!Room(r.check) =>
                     Ticking!Of(m.lines) = Ticking!Of(r.found)
                /\ \E e \in reported' : e.check = m.check /\ m.lines \subseteq e.found
  <2>1. CASE r = report
    BY <1>2, <1>7, <1>10, <1>11, <2>1, SameNumber
  <2>2. CASE r \in reported
    <3>1. PICK m \in mails :
            /\ m.check = r.check /\ Ticking!Of(m.lines) \subseteq Ticking!Of(r.found)
            /\ Ticking!Cardinality(r.found) <= Ticking!Room(r.check) =>
                 Ticking!Of(m.lines) = Ticking!Of(r.found)
            /\ \E e \in reported : e.check = m.check /\ m.lines \subseteq e.found
      BY <1>11, <2>2 DEF JobsInv, Ticking!FindingsAreMailed
    <3> QED BY <1>2, <1>10, <3>1
  <2> QED BY <1>2, <2>1, <2>2
<1>12. Ticking!FindingsAreMailed'
  BY <1>11 DEF Ticking!FindingsAreMailed, Ticking!Room
<1> QED BY <1>10, <1>12

LEMMA WorkStep ==
  ASSUME JobsInv, NEW c \in Call, Ticking!Work(c)
  PROVE  JobsInv'
<1>1. PICK k : k = [call[c] EXCEPT !.state = "recording"]
  OBVIOUS
<1>2. /\ call[c].state = "working" /\ call[c].state \in Ticking!Busy
      /\ call' = [call EXCEPT ![c] = k] /\ runs' = [runs EXCEPT ![c] = runs[c]]
      /\ UNCHANGED <<ops, runs>>
  BY <1>1, ItsRows DEF Ticking!Work, Ticking!Busy
<1>3. /\ k \in CallRows /\ k.trigger = call[c].trigger /\ k.at = call[c].at
      /\ k.state = "recording" /\ runs[c] \in RunRows
  BY <1>1, ItsRows DEF CallRows, States, Ticking!Busy
<1>4. Known(k, runs[c])
  <2>1. Passed(call[c], runs[c])
    BY ItsRows DEF Known
  <2>2. Passed(k, runs[c])
    BY <1>2, <1>3, <2>1 DEF Passed
  <2> QED BY <1>3, <2>2 DEF Known, Settled
<1>5. /\ call' \in [Call -> CallRows] /\ runs' \in [Call -> RunRows]
      /\ \A d \in Call : Known(call'[d], runs'[d])
      /\ \A d \in Call : /\ call'[d].trigger \in Ticking!Triggers \cup {Null}
                         /\ call'[d].at \in 1..4 /\ call'[d].state \in States
  BY <1>2, <1>3, <1>4, OneCall
<1>6. Ticking!FindingsAreMailed' /\ (\A m \in mails : Right(m, reported))'
  <2>1. CASE UNCHANGED <<mails, reported>>
    BY <1>2, <2>1 DEF JobsInv, Ticking!FindingsAreMailed
  <2>2. CASE ~UNCHANGED <<mails, reported>>
    <3>1. PICK check \in Ticking!Checks : check = Ticking!JobOf(c)
      BY <2>2 DEF Ticking!Work
    <3>2. PICK F \in Ticking!Wrong(check) : \E lines \in Ticking!Lines(check, F) :
            /\ mails' \in Ticking!Mailed(check, lines)
            /\ reported' = reported \cup {[check |-> check, found |-> F]}
      BY <2>2, <3>1 DEF Ticking!Work
    <3>3. PICK lines \in Ticking!Lines(check, F) :
            /\ mails' \in Ticking!Mailed(check, lines)
            /\ reported' = reported \cup {[check |-> check, found |-> F]}
      BY <3>2
    <3> QED BY <1>2, <3>3, FindingsMailed
  <2> QED BY <2>1, <2>2
<1>7. Ticking!TypeOK'
  BY <1>2, <1>5, <1>6 DEF JobsInv, Ticking!TypeOK, States, RunRows, Right
<1> QED
  BY <1>5, <1>6, <1>7 DEF JobsInv

\* The rest of the invariant is about the calls and the job rows alone.
LEMMA CallsKept ==
  ASSUME JobsInv, UNCHANGED <<runs, call>>
  PROVE  /\ call' \in [Call -> CallRows] /\ runs' \in [Call -> RunRows]
         /\ (\A d \in Call : Known(call[d], runs[d]))'
         /\ \A d \in Call : /\ call'[d].trigger \in Ticking!Triggers \cup {Null}
                            /\ call'[d].at \in 1..4 /\ call'[d].state \in States
<1>1. call \in [Call -> CallRows] /\ runs \in [Call -> RunRows]
  BY DEF JobsInv, Ticking!TypeOK, RunRows
<1>2. (\A d \in Call : Known(call[d], runs[d]))'
  BY DEF JobsInv
<1> QED BY <1>1, <1>2 DEF CallRows

LEMMA JobsNext ==
  ASSUME JobsInv, [Ticking!Next]_jobVars
  PROVE  JobsInv'
<1>1. CASE UNCHANGED jobVars
  <2>1. /\ call' \in [Call -> CallRows] /\ runs' \in [Call -> RunRows]
        /\ (\A d \in Call : Known(call[d], runs[d]))'
        /\ UNCHANGED <<ops, mails, reported>>
    BY <1>1, CallsKept DEF jobVars
  <2>2. Ticking!TypeOK'
    BY <1>1 DEF jobVars, JobsInv, Ticking!TypeOK
  <2>3. Ticking!FindingsAreMailed'
    BY <2>1 DEF JobsInv, Ticking!FindingsAreMailed
  <2>4. (\A m \in mails : Right(m, reported))'
    BY <2>1 DEF JobsInv
  <2> QED BY <2>1, <2>2, <2>3, <2>4 DEF JobsInv
<1>2. ASSUME NEW c \in Call, NEW t \in Ticking!Triggers, Ticking!Start(c, t) PROVE JobsInv'
  BY <1>2, StartCallStep
<1>3. ASSUME NEW c \in Call, Ticking!Begin(c) PROVE JobsInv'
  BY <1>3, BeginCallStep
<1>4. ASSUME NEW c \in Call, Ticking!Work(c) PROVE JobsInv'
  BY <1>4, WorkStep
<1>5. ASSUME NEW c \in Call, Ticking!Done(c) PROVE JobsInv'
  <2>1. /\ call[c].state \in Ticking!Busy /\ Ticking!Onward(c)
        /\ runs' = [runs EXCEPT ![c][Ticking!JobOf(c)] = "ok"]
        /\ UNCHANGED <<ops, mails, reported>>
    BY <1>5 DEF Ticking!Done, Ticking!Busy
  <2>2. "ok" \in {"ok", "failed"}
    OBVIOUS
  <2> QED BY <2>1, <2>2, EndedRow
<1>6. ASSUME NEW c \in Call, Ticking!Failed(c) PROVE JobsInv'
  <2>1. /\ call[c].state \in Ticking!Busy /\ Ticking!Onward(c)
        /\ runs' = [runs EXCEPT ![c][Ticking!JobOf(c)] = "failed"]
        /\ UNCHANGED <<ops, mails, reported>>
    BY <1>6 DEF Ticking!Failed, Ticking!Busy
  <2>2. "failed" \in {"ok", "failed"}
    OBVIOUS
  <2> QED BY <2>1, <2>2, EndedRow
<1>7. ASSUME NEW c \in Call, Ticking!Aborted(c) PROVE JobsInv'
  BY <1>7, AbortedStep
<1>8. CASE Ticking!NextDay
  <2>1. /\ call' \in [Call -> CallRows] /\ runs' \in [Call -> RunRows]
        /\ (\A d \in Call : Known(call[d], runs[d]))'
        /\ \A d \in Call : /\ call'[d].trigger \in Ticking!Triggers \cup {Null}
                           /\ call'[d].at \in 1..4 /\ call'[d].state \in States
        /\ mails' = {} /\ reported' = {} /\ ops' = ops
    BY <1>8, CallsKept DEF Ticking!NextDay
  <2>2. Ticking!TypeOK'
    BY <2>1 DEF JobsInv, Ticking!TypeOK, States, RunRows
  <2> QED BY <2>1, <2>2 DEF JobsInv, Ticking!FindingsAreMailed
<1> QED
  BY <1>1, <1>2, <1>3, <1>4, <1>5, <1>6, <1>7, <1>8 DEF Ticking!Next

\* A call that was answered has answered for all.
LEMMA ForAll == JobsInv => Ticking!AnswersForAll
<1> SUFFICES ASSUME JobsInv, NEW c \in Call, call[c].state \in {"ok", "not ok"}
             PROVE  /\ \A j \in Ticking!Range(Ticking!Jobs[call[c].trigger]) :
                         runs[c][j] \in {"ok", "failed"}
                    /\ call[c].state = "ok" <=>
                         \A j \in Ticking!Range(Ticking!Jobs[call[c].trigger]) : runs[c][j] = "ok"
  BY DEF Ticking!AnswersForAll
<1>1. Settled(call[c], runs[c])
  BY ItsRows DEF Known
<1>2. PICK t \in Ticking!Triggers : t = call[c].trigger
  BY <1>1 DEF Settled
<1>3. /\ \A i \in 1..Len(Ticking!Jobs[t]) : runs[c][Ticking!Jobs[t][i]] \in {"ok", "failed"}
      /\ call[c].state = "ok" <=>
           \A i \in 1..Len(Ticking!Jobs[t]) : runs[c][Ticking!Jobs[t][i]] = "ok"
  BY <1>1, <1>2 DEF Settled
<1>4. Ticking!Range(Ticking!Jobs[t]) = {Ticking!Jobs[t][i] : i \in 1..Len(Ticking!Jobs[t])}
  BY JobLists
<1>5. \A j \in Ticking!Range(Ticking!Jobs[t]) : runs[c][j] \in {"ok", "failed"}
  BY <1>3, <1>4
<1>6. call[c].state = "ok" <=> \A j \in Ticking!Range(Ticking!Jobs[t]) : runs[c][j] = "ok"
  BY <1>3, <1>4
<1> QED BY <1>2, <1>5, <1>6
-----------------------------------------------------------------------------
(* Migrations.                                                             *)

\* What a run remembers.
Running == [read : [Deploying!Name -> Content \cup {Null, Unknown}], next : 1..(Files + 1)]

\* The one that runs has the lock, and only it has changed the rows since it
\* read them.
MigrationsInv ==
  /\ Deploying!TypeOK /\ migrating \in [Deploy -> Running \cup {Null}]
  /\ \A d \in Deploy : migrating[d] # Null =>
       /\ holder = d
       /\ \A n \in Deploying!Has(d) :
            Deploying!Matches(d, n) /\ (n < migrating[d].next => applied[n] # Null)
       /\ \A n \in Deploying!Name : n >= migrating[d].next => applied[n] = migrating[d].read[n]

LEMMA MigrationsInit == Start => MigrationsInv
  BY DEF Start, Deploying!Init, MigrationsInv, Deploying!TypeOK, Deploying!Name

LEMMA MigrationsNext == MigrationsInv /\ [Deploying!Next]_migrationVars => MigrationsInv'
<1> SUFFICES ASSUME MigrationsInv, [Deploying!Next]_migrationVars PROVE MigrationsInv'
  OBVIOUS
<1>1. CASE UNCHANGED migrationVars
  BY <1>1 DEF migrationVars, MigrationsInv, Deploying!TypeOK, Deploying!Name, Deploying!Has,
    Deploying!Matches
<1>2. ASSUME NEW d \in Deploy, Deploying!Start(d) PROVE MigrationsInv'
  <2>1. CASE ~Deploying!AllMatch(d)
    BY <1>2, <2>1 DEF Deploying!Start, MigrationsInv, Deploying!TypeOK, Deploying!Name,
      Deploying!Has, Deploying!Matches
  <2>2. CASE Deploying!AllMatch(d)
    <3> DEFINE begun0 == [read |-> applied, next |-> 1]
    <3>1. /\ holder = Null /\ holder' = d /\ migrating' = [migrating EXCEPT ![d] = begun0]
          /\ UNCHANGED <<file, applied>>
      BY <1>2, <2>2 DEF Deploying!Start, Deploying!Free
    <3>2. begun0 \in Running /\ begun0.read = applied /\ begun0.next = 1
      BY MigrationsAssumption DEF MigrationsInv, Deploying!TypeOK, Running, Deploying!Name
    <3> HIDE DEF begun0
    <3>3. \A e \in Deploy : migrating'[e] # Null => e = d
      BY <3>1, MigrationsAssumption DEF MigrationsInv
    <3>4. /\ migrating' \in [Deploy -> Running \cup {Null}] /\ migrating'[d] = begun0
      BY <3>1, <3>2 DEF MigrationsInv
    <3>5. Deploying!TypeOK'
      BY <3>1, <3>2, <3>3, <3>4 DEF MigrationsInv, Deploying!TypeOK, Running, Deploying!Name
    <3>6. \A n \in Deploying!Has(d)' :
            Deploying!Matches(d, n)' /\ (n < migrating'[d].next => applied'[n] # Null)
      BY <2>2, <3>1, <3>2, <3>4 DEF Deploying!AllMatch, Deploying!Has, Deploying!Matches,
        Deploying!Name
    <3> QED BY <3>1, <3>2, <3>3, <3>4, <3>5, <3>6 DEF MigrationsInv, Deploying!Name
  <2> QED BY <2>1, <2>2
<1>3. ASSUME NEW d \in Deploy, Deploying!Pass(d) \/ Deploying!Apply(d) PROVE MigrationsInv'
  <2> DEFINE on == [migrating[d] EXCEPT !.next = @ + 1]
  <2>0. PICK n \in Deploying!Name : n = migrating[d].next
    BY <1>3 DEF Deploying!Pass, Deploying!Apply, Deploying!ToApply, Deploying!Coming
  <2>1. /\ migrating[d] # Null /\ n = migrating[d].next /\ UNCHANGED <<file, holder>>
        /\ migrating' = [migrating EXCEPT ![d].next = @ + 1]
    BY <1>3, <2>0 DEF Deploying!Pass, Deploying!Apply, Deploying!ToApply, Deploying!Coming,
      Deploying!Onward
  <2>2. migrating[d] \in Running /\ holder = d
    BY <2>1 DEF MigrationsInv
  <2>3. /\ on \in Running /\ on.read = migrating[d].read /\ on.next = n + 1
        /\ n \in 1..Files
    BY <2>1, <2>2, MigrationsAssumption DEF Running, Deploying!Name
  <2>4. migrating' = [migrating EXCEPT ![d] = on]
    BY <2>1
  <2>5. migrating[d].read[n] = applied[n]
    BY <2>1, <2>3 DEF MigrationsInv
  <2>6. /\ applied' = IF n \in Deploying!Has(d) /\ applied[n] \in {Unknown, Null}
                      THEN [applied EXCEPT ![n] = file[d][n]] ELSE applied
    BY <1>3, <2>1, <2>3, <2>5, MigrationsAssumption DEF Deploying!Pass, Deploying!Apply,
      Deploying!ToApply, Deploying!Coming
  <2>7. n \in Deploying!Has(d) => file[d][n] \in Content
    BY <2>1 DEF Deploying!Has, MigrationsInv, Deploying!TypeOK
  <2>8. \A e \in Deploy : e # d => migrating[e] = Null
    BY <2>2 DEF MigrationsInv
  <2>9. applied \in [Deploying!Name -> Content \cup {Null, Unknown}]
    BY DEF MigrationsInv, Deploying!TypeOK
  <2> HIDE DEF on
  <2>10. applied' \in [Deploying!Name -> Content \cup {Null, Unknown}]
    BY <2>1, <2>6, <2>7, <2>9
  <2>11. /\ migrating' \in [Deploy -> Running \cup {Null}] /\ migrating'[d] = on
         /\ \A e \in Deploy : e # d => migrating'[e] = Null
    BY <2>3, <2>4, <2>8 DEF MigrationsInv
  <2>12. Deploying!TypeOK'
    BY <2>1, <2>3, <2>10, <2>11 DEF MigrationsInv, Deploying!TypeOK, Running, Deploying!Name
  <2>13. \A m \in Deploying!Name : m # n => applied'[m] = applied[m]
    BY <2>6, <2>9
  <2>14. n \in Deploying!Has(d) => applied'[n] # Null /\ Deploying!Matches(d, n)'
    <3> SUFFICES ASSUME n \in Deploying!Has(d)
                 PROVE  applied'[n] # Null /\ Deploying!Matches(d, n)'
      OBVIOUS
    <3>1. CASE applied[n] \in {Unknown, Null}
      <4>1. applied'[n] = file[d][n]
        BY <2>1, <2>6, <2>9, <3>1
      <4> QED BY <2>1, <2>7, <4>1, MigrationsAssumption DEF Deploying!Matches
    <3>2. CASE applied[n] \notin {Unknown, Null}
      <4>1. applied' = applied
        BY <2>6, <3>2
      <4>2. Deploying!Matches(d, n)
        BY <2>1 DEF MigrationsInv
      <4> QED BY <2>1, <3>2, <4>1, <4>2 DEF Deploying!Matches
    <3> QED BY <3>1, <3>2
  <2>15. \A m \in Deploying!Has(d)' :
           Deploying!Matches(d, m)' /\ (m < on.next => applied'[m] # Null)
    <3> SUFFICES ASSUME NEW m \in Deploying!Name, m \in Deploying!Has(d)
                 PROVE  Deploying!Matches(d, m)' /\ (m < on.next => applied'[m] # Null)
      BY <2>1 DEF Deploying!Has
    <3>1. CASE m = n
      BY <2>14, <3>1
    <3>2. CASE m # n
      <4>1. Deploying!Matches(d, m) /\ (m < n => applied[m] # Null)
        BY <2>1, <3>2 DEF MigrationsInv
      <4>2. m < on.next => m < n
        BY <2>3, <3>2 DEF Deploying!Name
      <4> QED BY <2>1, <2>13, <3>2, <4>1, <4>2 DEF Deploying!Matches
    <3> QED BY <3>1, <3>2
  <2>16. \A m \in Deploying!Name : m >= on.next => applied'[m] = on.read[m]
    <3> SUFFICES ASSUME NEW m \in Deploying!Name, m >= on.next
                 PROVE  applied'[m] = on.read[m]
      OBVIOUS
    <3>1. m >= n /\ m # n
      BY <2>3 DEF Deploying!Name
    <3>2. applied[m] = migrating[d].read[m]
      BY <2>1, <3>1 DEF MigrationsInv
    <3> QED BY <2>3, <2>13, <3>1, <3>2
  <2> QED BY <2>1, <2>2, <2>11, <2>12, <2>15, <2>16 DEF MigrationsInv, Deploying!Name
<1>4. ASSUME NEW d \in Deploy, Deploying!ApplyFails(d) \/ Deploying!Finish(d)
      PROVE  MigrationsInv'
  <2>1. /\ migrating[d] # Null /\ holder' = Null /\ migrating' = [migrating EXCEPT ![d] = Null]
        /\ UNCHANGED <<file, applied>>
    BY <1>4 DEF Deploying!ApplyFails, Deploying!ToApply, Deploying!Coming, Deploying!Fails,
      Deploying!Finish, Deploying!End
  <2>2. migrating' = [e \in Deploy |-> Null]
    BY <2>1 DEF MigrationsInv
  <2> QED BY <2>1, <2>2 DEF MigrationsInv, Deploying!TypeOK
<1> QED
  BY <1>1, <1>2, <1>3, <1>4 DEF Deploying!Next

LEMMA RightlyApplied == MigrationsInv => Deploying!AppliesRightly
  BY DEF MigrationsInv, Deploying!AppliesRightly, Deploying!ToApply, Deploying!Coming


\* A call that is answered has run all of its jobs, whichever of them failed and
\* however many calls run at once; with OPS_EMAIL set, what a check found is in an
\* email of that day as far as it has room, with the details of the run that queued
\* it; and no migration is applied over changed files or before those it follows:
\* any number of calls, findings, lines, deployments and files (jobs.ts:25-42,
\* 95-134, booking-mail.ts:64-67, migration-runner.ts:39-57).
THEOREM RunsEndComplete == OfficeSpec => []RunsAreComplete
<1> DEFINE I == /\ part = "jobs" => JobsInv
                /\ part = "migrations" => MigrationsInv
<1>1. Start => I
  BY JobsInit, MigrationsInit
<1>2. I /\ [Step]_all => I'
  BY Alone, JobsNext, MigrationsNext
<1>3. I => RunsAreComplete
  BY ForAll, RightlyApplied DEF RunsAreComplete, JobsInv
<1> QED BY <1>1, <1>2, <1>3, PTL DEF OfficeSpec

-----------------------------------------------------------------------------
(* The slots.                                                              *)

LEMMA Division ==
  ASSUME NEW x \in Int, NEW d \in Int, NEW D \in Nat \ {0}
  PROVE  /\ x \div D \in Int /\ x % D \in 0..(D - 1)
         /\ x = D * (x \div D) + (x % D)
         /\ x \div D >= d <=> x >= d * D
         /\ d * D \in Int /\ (d + 1) * D = d * D + D
<1>1. PICK q \in Int : q = x \div D
  OBVIOUS
<1>2. PICK r \in 0..(D - 1) : x = D * q + r /\ r = x % D
  BY <1>1
<1>3. CASE q >= d
  <2>1. D * q >= D * d
    BY <1>3
  <2> QED BY <1>1, <1>2, <1>3, <2>1
<1>4. CASE q < d
  <2>1. q + 1 <= d
    BY <1>4
  <2>2. D * d >= D * (q + 1)
    BY <2>1
  <2>3. D * (q + 1) = D * q + D
    OBVIOUS
  <2> QED BY <1>1, <1>2, <1>4, <2>2, <2>3
<1> QED BY <1>3, <1>4

\* The greatest of numbers up to N.
LEMMA Greatest ==
  ASSUME NEW N \in Nat, NEW S, S \subseteq 0..N, S # {}
  PROVE  /\ Scheduling!Max(S) \in S
         /\ \A m \in S : m <= Scheduling!Max(S)
<1> DEFINE R == {N - m : m \in S}
<1>1. R \subseteq Nat /\ R # {}
  <2>1. \A m \in S : m \in Int /\ 0 <= m /\ m <= N
    OBVIOUS
  <2>2. \A m \in S : N - m \in Nat
    BY <2>1
  <2> QED BY <2>2
<1>2. PICK n \in R : \A m \in R : n <= m
  BY <1>1, Smallest
<1>3. PICK x \in S : n = N - x
  OBVIOUS
<1>4. \A m \in S : x >= m
  <2>1. \A m \in S : m \in Int /\ n <= N - m
    BY <1>2
  <2> QED BY <1>3, <2>1
<1> QED BY <1>4 DEF Scheduling!Max

\* Clocks.
LEMMA Clock ==
  ASSUME NEW z \in Zones
  PROVE  /\ Day \in Nat \ {0} /\ Hour \in Nat \ {0} /\ NoTime \notin Int
         /\ z.base \in Int /\ z.from \in Int /\ z.shift \in Int
         /\ \/ z.shift \in 0..(Day - 1)
            \/ /\ z.shift = -Hour
               /\ Scheduling!DateOf(z, z.from - 1) <= Scheduling!DateOf(z, z.from)
         /\ \A t \in Int :
              /\ Scheduling!Local(z, t) \in Int
              /\ t < z.from => Scheduling!Local(z, t) = t + z.base
              /\ t >= z.from => Scheduling!Local(z, t) = t + z.base + z.shift
<1>1. /\ z \in Scheduling!Zone /\ Scheduling!UsualChange(z)
      /\ Day \in Nat \ {0} /\ Hour \in Nat \ {0} /\ NoTime \notin Int
  BY SlotsAssumption DEF Scheduling!SettingsAreValid, Scheduling!ClockAssumption
<1>2. z.base \in Int /\ z.from \in Int /\ z.shift \in Int
  BY <1>1 DEF Scheduling!Zone
<1>3. \A t \in Int :
        /\ Scheduling!Local(z, t) \in Int
        /\ t < z.from => Scheduling!Local(z, t) = t + z.base
        /\ t >= z.from => Scheduling!Local(z, t) = t + z.base + z.shift
  BY <1>2 DEF Scheduling!Local, Scheduling!Offset
<1> QED BY <1>1, <1>2, <1>3 DEF Scheduling!UsualChange

\* An instant's date and minute.
LEMMA DateAndMinute ==
  ASSUME NEW z \in Zones, NEW t \in Int, NEW d \in Int
  PROVE  /\ Scheduling!DateOf(z, t) \in Int
         /\ Scheduling!MinuteOf(z, t) \in 0..(Day - 1)
         /\ Scheduling!DateOf(z, t) >= d <=> Scheduling!Local(z, t) >= d * Day
         /\ Scheduling!DateOf(z, t) = d
              => Scheduling!Local(z, t) = d * Day + Scheduling!MinuteOf(z, t)
<1>1. Day \in Nat \ {0} /\ Scheduling!Local(z, t) \in Int
  BY Clock
<1>2. PICK l \in Int : l = Scheduling!Local(z, t)
  BY <1>1
<1>3. /\ l \div Day \in Int /\ l % Day \in 0..(Day - 1)
      /\ l = Day * (l \div Day) + (l % Day)
      /\ l \div Day >= d <=> l >= d * Day
  BY <1>1, Division
<1>4. ASSUME l \div Day = d
      PROVE  l = d * Day + (l % Day)
  BY <1>1, <1>3, <1>4
<1> QED BY <1>2, <1>3, <1>4 DEF Scheduling!DateOf, Scheduling!MinuteOf

\* One round of the search jumps to one of the two instants that a local time may have.
LEMMA Nudged ==
  ASSUME NEW z \in Zones, NEW l \in Int, NEW t \in Int
  PROVE  /\ t < z.from => Scheduling!Nudge(z, l, t) = l - z.base
         /\ t >= z.from => Scheduling!Nudge(z, l, t) = l - z.base - z.shift
  BY Clock DEF Scheduling!Nudge

\* The conversion finds the earliest instant of a local time, or that it has none.
LEMMA Looked ==
  ASSUME NEW z \in Zones, NEW l \in Int
  PROVE  \/ /\ Scheduling!LocalToUtc(z, l) = NoTime
            /\ \A u \in Int : Scheduling!Local(z, u) # l
         \/ /\ Scheduling!LocalToUtc(z, l) \in Int
            /\ Scheduling!Local(z, Scheduling!LocalToUtc(z, l)) = l
            /\ \A u \in Int : Scheduling!Local(z, u) = l => Scheduling!LocalToUtc(z, l) <= u
<1> DEFINE first == l - z.base
           second == l - z.base - z.shift
<1>1. /\ z.base \in Int /\ z.from \in Int /\ z.shift \in Int
      /\ Hour \in Nat \ {0} /\ (z.shift >= 0 \/ z.shift = -Hour)
  BY Clock
<1>2. /\ first \in Int /\ second \in Int
      /\ \A t \in Int : /\ t < z.from => Scheduling!Nudge(z, l, t) = first
                        /\ t >= z.from => Scheduling!Nudge(z, l, t) = second
  BY <1>1, Nudged
<1>3. PICK a \in {first, second} : a = Scheduling!Nudge(z, l, l)
  BY <1>2, <1>1
<1>4. PICK b \in {first, second} : b = Scheduling!Nudge(z, l, a)
  BY <1>2, <1>1, <1>3
<1>5. PICK c \in {first, second} : c = Scheduling!Nudge(z, l, b)
  BY <1>2, <1>1, <1>4
<1>6. c = Scheduling!Candidate(z, l)
  BY <1>3, <1>4, <1>5 DEF Scheduling!Candidate
<1>7. \A u \in Int :
        /\ Scheduling!Local(z, u) \in Int
        /\ Scheduling!Local(z, u) = l <=> \/ u = first /\ first < z.from
                                          \/ u = second /\ second >= z.from
  BY <1>1, Clock
<1> HIDE DEF first, second
<1>8. /\ second = first - z.shift /\ first - Hour \in Int /\ second - Hour \in Int
  BY <1>1 DEF first, second
<1>9. /\ a < z.from => b = first
      /\ a >= z.from => b = second
      /\ b < z.from => c = first
      /\ b >= z.from => c = second
  BY <1>1, <1>2, <1>3, <1>4, <1>5
<1>10. c \in Int /\ c - Hour \in Int
  BY <1>2, <1>5, <1>8
<1>11. CASE Scheduling!Local(z, c) # l
  <2>1. Scheduling!LocalToUtc(z, l) = NoTime
    BY <1>6, <1>11 DEF Scheduling!LocalToUtc
  <2>2. ~(first < z.from) /\ ~(second >= z.from)
    <3>1. ~(c = first /\ first < z.from) /\ ~(c = second /\ second >= z.from)
      BY <1>7, <1>10, <1>11
    <3>2. /\ a = first \/ a = second
          /\ b = first \/ b = second
          /\ c = first \/ c = second
      BY <1>3, <1>4, <1>5
    <3>3. first \in Int /\ second \in Int /\ z.from \in Int
      BY <1>1, <1>2
    <3>4. z.shift >= 0 => second <= first
      BY <1>1, <1>8, <3>3
    <3>5. z.shift < 0 => second > first
      BY <1>1, <1>8, <3>3
    <3>6. CASE second <= first
      BY <1>9, <3>1, <3>2, <3>3, <3>6
    <3>7. CASE second > first
      BY <1>9, <3>1, <3>2, <3>3, <3>7
    <3> QED BY <3>3, <3>6, <3>7
  <2> QED BY <1>7, <2>1, <2>2
<1>12. CASE Scheduling!Local(z, c) = l /\ Scheduling!Local(z, c - Hour) = l
  <2>1. Scheduling!LocalToUtc(z, l) = c - Hour
    BY <1>6, <1>12 DEF Scheduling!LocalToUtc
  <2>2. c - Hour = first /\ first < z.from /\ second >= first
    BY <1>1, <1>2, <1>7, <1>8, <1>10, <1>12
  <2>3. \A u \in Int : Scheduling!Local(z, u) = l => c - Hour <= u
    BY <1>2, <1>7, <2>2
  <2> QED BY <1>10, <1>12, <2>1, <2>3
<1>13. CASE Scheduling!Local(z, c) = l /\ Scheduling!Local(z, c - Hour) # l
  <2>1. Scheduling!LocalToUtc(z, l) = c
    BY <1>6, <1>13 DEF Scheduling!LocalToUtc
  <2>2. \A u \in Int : Scheduling!Local(z, u) = l => c <= u
    BY <1>1, <1>2, <1>7, <1>8, <1>10, <1>13
  <2> QED BY <1>10, <1>13, <2>1, <2>2
<1> QED BY <1>11, <1>12, <1>13

\* Dates never go back.
LEMMA DatesInOrder ==
  ASSUME NEW z \in Zones, NEW t \in Int, NEW u \in Int, t <= u
  PROVE  Scheduling!DateOf(z, t) <= Scheduling!DateOf(z, u)
<1> DEFINE L(v) == Scheduling!Local(z, v)
           D(v) == Scheduling!DateOf(z, v)
<1>1. \A v \in Int : D(v) \in Int
  BY DateAndMinute, 0 \in Int
<1>2. ASSUME NEW v \in Int, NEW w \in Int, L(v) <= L(w)
      PROVE  D(v) <= D(w)
  <2>1. PICK d \in Int : d = D(v)
    BY <1>1
  <2>2. Day \in Nat \ {0} /\ d * Day \in Int /\ L(v) \in Int /\ L(w) \in Int
    BY Clock
  <2>3. L(v) >= d * Day
    BY <1>1, <2>1, DateAndMinute
  <2>4. L(w) >= d * Day
    BY <1>2, <2>2, <2>3
  <2> QED BY <2>1, <2>4, DateAndMinute
<1>3. CASE L(t) <= L(u)
  BY <1>2, <1>3
<1>4. CASE ~(L(t) <= L(u))
  <2>1. t < z.from /\ u >= z.from /\ D(z.from - 1) <= D(z.from)
    BY <1>4, Clock
  <2>2. /\ z.from \in Int /\ z.from - 1 \in Int
        /\ L(t) <= L(z.from - 1) /\ L(z.from) <= L(u)
    BY <2>1, Clock
  <2>3. D(t) <= D(z.from - 1) /\ D(z.from) <= D(u)
    BY <1>2, <2>2
  <2>4. /\ D(t) \in Int /\ D(u) \in Int
        /\ D(z.from - 1) \in Int /\ D(z.from) \in Int
    BY <1>1, <2>2
  <2> QED BY <2>1, <2>3, <2>4
<1> QED BY <1>3, <1>4

\* Every date has an instant.
LEMMA DatesExist ==
  ASSUME NEW z \in Zones, NEW d \in Int
  PROVE  \E m \in 0..(Day - 1), u \in Int : Scheduling!Local(z, u) = d * Day + m
<1>1. PICK l \in Int : l = d * Day
  BY Clock
<1>2. CASE l - z.base < z.from
  <2>1. Scheduling!Local(z, l - z.base) = l + 0
    BY <1>2, Clock
  <2> QED BY <1>1, <2>1, Clock
<1>3. CASE l - z.base >= z.from /\ z.shift = -Hour
  <2>1. /\ l - z.base + Hour \in Int
        /\ Scheduling!Local(z, l - z.base + Hour) = l + 0
    BY <1>3, Clock
  <2> QED BY <1>1, <2>1, Clock
<1>4. CASE l - z.base >= z.from /\ z.shift \in 0..(Day - 1)
  <2>1. /\ l - z.base - z.shift + (Day - 1) \in Int /\ Day - 1 \in 0..(Day - 1)
        /\ Scheduling!Local(z, l - z.base - z.shift + (Day - 1)) = l + (Day - 1)
    BY <1>4, Clock
  <2> QED BY <1>1, <2>1
<1> QED BY <1>2, <1>3, <1>4, Clock

\* A day starts at the first instant of its date or of a later one.
LEMMA DayStarts ==
  ASSUME NEW z \in Zones, NEW d \in Int
  PROVE  /\ Scheduling!StartOfDay(z, d) \in Int
         /\ Scheduling!DateOf(z, Scheduling!StartOfDay(z, d)) = d
         /\ \A u \in Int : Scheduling!DateOf(z, u) >= d <=> u >= Scheduling!StartOfDay(z, d)
<1> DEFINE L(u) == Scheduling!Local(z, u)
           D(u) == Scheduling!DateOf(z, u)
           exists == {m \in 0..(Day - 1) : Scheduling!LocalToUtc(z, d * Day + m) # NoTime}
           first == CHOOSE m \in exists : \A n \in exists : m <= n
<1>1. /\ Day \in Nat \ {0} /\ Hour \in Nat \ {0} /\ NoTime \notin Int
      /\ z.base \in Int /\ z.from \in Int /\ z.shift \in Int
      /\ z.shift \in 0..(Day - 1) \/ z.shift = -Hour
  BY Clock
<1>2. PICK day \in Int : day = d * Day
  BY <1>1
<1>3. \A m \in 0..(Day - 1) : m \in exists <=> \E u \in Int : L(u) = day + m
  <2>1. SUFFICES ASSUME NEW m \in 0..(Day - 1)
                 PROVE  m \in exists <=> \E u \in Int : L(u) = day + m
    OBVIOUS
  <2>2. d * Day + m = day + m /\ day + m \in Int
    BY <1>1, <1>2
  <2> QED BY <1>1, <2>2, Looked
<1>4. first \in exists /\ \A n \in exists : first <= n
  <2>1. exists # {}
    BY <1>2, <1>3, DatesExist
  <2>2. exists \subseteq Nat
    BY <1>1
  <2> HIDE DEF exists
  <2>3. \E m \in exists : \A n \in exists : m <= n
    BY <2>1, <2>2, Smallest
  <2> QED BY <2>3
<1>5. PICK m \in 0..(Day - 1) : m = first
  BY <1>4
<1> HIDE DEF exists, first
<1>6. PICK s \in Int : s = Scheduling!StartOfDay(z, d) /\ L(s) = day + m
                       /\ \A u \in Int : L(u) = day + m => s <= u
  <2>1. Scheduling!StartOfDay(z, d) = Scheduling!LocalToUtc(z, d * Day + first)
    BY DEF Scheduling!StartOfDay, first, exists
  <2>2. PICK l \in Int : l = day + m /\ l = d * Day + first
    BY <1>1, <1>2, <1>5
  <2>3. \E u \in Int : L(u) = l
    BY <1>3, <1>4, <1>5, <2>2
  <2>4. /\ Scheduling!LocalToUtc(z, l) \in Int
        /\ L(Scheduling!LocalToUtc(z, l)) = l
        /\ \A u \in Int : L(u) = l => Scheduling!LocalToUtc(z, l) <= u
    BY <2>3, Looked
  <2>5. Scheduling!LocalToUtc(z, l) = Scheduling!StartOfDay(z, d)
    BY <2>1, <2>2
  <2> QED BY <2>2, <2>4, <2>5
<1>7. \A u \in Int :
        /\ D(u) \in Int /\ L(u) \in Int
        /\ D(u) = d <=> L(u) >= day /\ L(u) < day + Day
        /\ D(u) = d => L(u) - day \in exists /\ L(u) - day >= m
  <2>1. SUFFICES ASSUME NEW u \in Int
                 PROVE  /\ D(u) \in Int /\ L(u) \in Int
                        /\ D(u) = d <=> L(u) >= day /\ L(u) < day + Day
                        /\ D(u) = d => L(u) - day \in exists /\ L(u) - day >= m
    OBVIOUS
  <2>2. D(u) \in Int /\ L(u) \in Int
    BY DateAndMinute, Clock
  <2>3. D(u) >= d <=> L(u) >= day
    BY <1>2, DateAndMinute
  <2>4. D(u) >= d + 1 <=> L(u) >= day + Day
    <3>1. (d + 1) * Day = day + Day
      BY <1>1, <1>2, Division
    <3>2. d + 1 \in Int
      OBVIOUS
    <3>3. D(u) >= d + 1 <=> L(u) >= (d + 1) * Day
      BY <3>2, DateAndMinute
    <3> QED BY <3>1, <3>3
  <2> HIDE DEF L, D
  <2>5. D(u) = d <=> L(u) >= day /\ L(u) < day + Day
    BY <1>1, <2>2, <2>3, <2>4
  <2>6. ASSUME D(u) = d PROVE L(u) - day \in exists /\ L(u) - day >= m
    <3>1. L(u) - day \in 0..(Day - 1) /\ L(u) = day + (L(u) - day)
      BY <1>1, <2>2, <2>5, <2>6
    <3> QED BY <1>3, <1>4, <1>5, <3>1
  <2> QED BY <2>2, <2>5, <2>6
<1>8. \A u, v \in Int : u <= v => D(u) <= D(v)
  BY DatesInOrder
<1>9. \A u \in Int : /\ u < z.from => L(u) = u + z.base
                     /\ u >= z.from => L(u) = u + z.base + z.shift
  BY Clock
<1> HIDE DEF L, D
<1>10. D(s) = d
  BY <1>1, <1>6, <1>7
<1>11. ASSUME NEW u \in Int, D(u) >= d, u < s
       PROVE  FALSE
  <2>1. D(u) = d /\ L(u) >= day + m
    <3>1. D(u) <= D(s)
      BY <1>8, <1>11
    <3>2. D(u) \in Int /\ D(s) \in Int /\ L(u) \in Int
      BY <1>7
    <3>3. D(u) = d
      BY <1>10, <1>11, <3>1, <3>2
    <3>4. L(u) - day >= m
      BY <1>7, <3>3
    <3> QED BY <3>2, <3>3, <3>4
  <2>2. L(u) > L(s)
    BY <1>6, <1>7, <1>11, <2>1
  <2>3. z.shift = -Hour /\ u < z.from /\ s >= z.from
    BY <1>1, <1>9, <1>11, <2>2
  <2>4. s - Hour >= z.from
    <3>1. CASE s - Hour < z.from
      <4>1. s - Hour \in Int /\ s - Hour < s /\ L(s - Hour) = L(s)
        BY <1>1, <1>9, <2>3, <3>1
      <4> QED BY <1>1, <1>6, <4>1
    <3> QED BY <1>1, <3>1
  <2>5. L(z.from) < L(s)
    BY <1>1, <1>9, <2>3, <2>4
  <2>6. D(z.from) = d
    <3>1. D(u) <= D(z.from) /\ D(z.from) <= D(s)
      BY <1>1, <1>8, <2>3
    <3> QED BY <1>1, <1>7, <1>10, <2>1, <3>1
  <2> QED BY <1>1, <1>6, <1>7, <2>5, <2>6
<1>12. \A u \in Int : D(u) >= d <=> u >= s
  <2>1. ASSUME NEW u \in Int, u >= s
        PROVE  D(u) >= d
    <3>1. D(s) <= D(u)
      BY <1>8, <2>1
    <3> QED BY <1>7, <1>10, <3>1
  <2>2. ASSUME NEW u \in Int, D(u) >= d
        PROVE  u >= s
    BY <1>11, <2>2
  <2> QED BY <2>1, <2>2
<1> QED BY <1>6, <1>10, <1>12 DEF D

\* Days follow one upon another.
LEMMA DaysInOrder ==
  ASSUME NEW z \in Zones, NEW d \in Int, NEW e \in Int
  PROVE  /\ d <= e => Scheduling!StartOfDay(z, d) <= Scheduling!StartOfDay(z, e)
         /\ d < e => Scheduling!StartOfDay(z, d) < Scheduling!StartOfDay(z, e)
<1>1. PICK s \in Int : s = Scheduling!StartOfDay(z, d)
  BY DayStarts
<1>2. PICK t \in Int : t = Scheduling!StartOfDay(z, e)
  BY DayStarts
<1>3. /\ Scheduling!DateOf(z, s) = d /\ Scheduling!DateOf(z, t) = e
      /\ \A u \in Int : Scheduling!DateOf(z, u) >= d <=> u >= s
  BY <1>1, <1>2, DayStarts
<1> QED BY <1>1, <1>2, <1>3

\* The two services.
LEMMA Lengths ==
  /\ Sessions.session \in Nat \ {0} /\ Sessions.minBlocks \in Nat \ {0}
  /\ Sessions.maxBlocks \in Nat /\ Sessions.before \in Nat /\ Sessions.after \in Nat
  /\ WholeDays.minDays \in Nat \ {0} /\ WholeDays.maxDays \in Nat
  /\ WholeDays.buffer \in Nat /\ Notice \in Nat /\ Horizon \in Nat
  /\ Dates \subseteq Int /\ Periods \subseteq Int \X Int
BY SlotsAssumption DEF Scheduling!SettingsAreValid

LEMMA Multiples ==
  ASSUME NEW k \in Nat, NEW n \in Nat, k <= n, NEW s \in Nat \ {0}
  PROVE  /\ k * s \in Nat /\ n * s \in Nat /\ k * s <= n * s
         /\ k > 0 => k * s > 0
<1>1. PICK d \in Nat : n = k + d
  <2>1. n - k \in Nat /\ n = k + (n - k)
    OBVIOUS
  <2> QED BY <2>1
<1>2. k * s \in Nat /\ d * s \in Nat /\ n * s = k * s + d * s
  BY <1>1
<1>3. ASSUME k > 0 PROVE k * s > 0
  <2>1. PICK j \in Nat : k = j + 1
    <3>1. k - 1 \in Nat /\ k = (k - 1) + 1
      BY <1>3
    <3> QED BY <3>1
  <2>2. k * s = j * s + s /\ j * s \in Nat
    BY <2>1
  <2> QED BY <2>2
<1> QED BY <1>2, <1>3

\* A stored booking.
Stored ==
  {b \in [start : Int, end : Int, from : Int, to : Int, daily : BOOLEAN,
          length : Nat \ {0}, zone : Zones, overdue : BOOLEAN] :
     b.from <= b.start /\ b.start < b.end /\ b.end <= b.to}

SlotsInv ==
  /\ instant \in Int /\ zone \in Zones /\ weekly \in Windows
  /\ overrides \subseteq Overrides /\ off \subseteq Periods
  /\ bookings \subseteq Stored /\ IsFiniteSet(bookings)

LEMMA SlotsTyped == SlotsInv => Scheduling!TypeOK
BY DEF SlotsInv, Stored, Scheduling!TypeOK

LEMMA Tile == SlotsInv => Scheduling!DaysTile
<1> SUFFICES ASSUME SlotsInv, NEW date \in Dates
             PROVE  LET r == Scheduling!DayRange(zone, date, 1) IN
                    /\ r.start < r.end
                    /\ \A t \in (r.start - Hour)..(r.end + Hour) :
                         Scheduling!DateOf(zone, t) = date <=> r.start <= t /\ t < r.end
  BY DEF Scheduling!DaysTile
<1>1. zone \in Zones /\ date \in Int /\ date + 1 \in Int /\ Hour \in Nat
  BY Lengths, SlotsAssumption DEF SlotsInv, Scheduling!ClockAssumption
<1>2. PICK s \in Int : s = Scheduling!StartOfDay(zone, date)
  BY <1>1, DayStarts
<1>3. PICK e \in Int : e = Scheduling!StartOfDay(zone, date + 1)
  BY <1>1, DayStarts
<1>4. s < e
  BY <1>1, <1>2, <1>3, DaysInOrder
<1>5. ASSUME NEW t \in Int
      PROVE  Scheduling!DateOf(zone, t) = date <=> s <= t /\ t < e
  <2>1. Scheduling!DateOf(zone, t) \in Int
    BY <1>1, DateAndMinute
  <2>2. Scheduling!DateOf(zone, t) >= date <=> t >= s
    BY <1>1, <1>2, DayStarts
  <2>3. Scheduling!DateOf(zone, t) >= date + 1 <=> t >= e
    BY <1>1, <1>3, DayStarts
  <2> QED BY <1>1, <2>1, <2>2, <2>3
<1>6. Scheduling!DayRange(zone, date, 1) = [start |-> s, end |-> e]
  BY <1>2, <1>3 DEF Scheduling!DayRange
<1>7. (s - Hour)..(e + Hour) \subseteq Int
  BY <1>1
<1> QED BY <1>4, <1>5, <1>6, <1>7

LEMMA Earlier == SlotsInv => Scheduling!EarlierWins
<1> SUFFICES ASSUME SlotsInv, NEW date \in Dates, NEW m \in Scheduling!Minutes,
                    NEW t, t = Scheduling!LocalToUtc(zone, date * Day + m), t # NoTime,
                    NEW k \in 1..Day
             PROVE  Scheduling!Local(zone, t - k) # Scheduling!Local(zone, t)
  BY DEF Scheduling!EarlierWins
<1>1. zone \in Zones /\ date \in Int /\ Day \in Nat \ {0}
  BY Lengths, SlotsAssumption DEF SlotsInv, Scheduling!ClockAssumption
<1>2. PICK l \in Int : l = date * Day + m
  BY <1>1 DEF Scheduling!Minutes
<1>3. /\ t \in Int /\ Scheduling!Local(zone, t) = l
      /\ \A u \in Int : Scheduling!Local(zone, u) = l => t <= u
  BY <1>1, <1>2, Looked
<1>4. t - k \in Int /\ t - k < t
  BY <1>1, <1>3
<1> QED BY <1>3, <1>4

\* What is open of a day.
LEMMA OpenInDay ==
  ASSUME SlotsInv, NEW date \in Int
  PROVE  Scheduling!OpenMinutes(date) \subseteq 0..(Day - 1)
<1>1. Day \in Nat \ {0} /\ NoTime \notin Int
  BY SlotsAssumption DEF Scheduling!ClockAssumption
<1>2. \A a, b \in 0..Day : Scheduling!Span(a, b) \subseteq 0..(Day - 1)
  BY <1>1 DEF Scheduling!Span
<1>3. \A o \in overrides : o.from # NoTime => o.from \in 0..Day /\ o.to \in 0..Day
  BY SlotsAssumption DEF SlotsInv, Scheduling!SettingsAreValid
<1>4. \A w \in weekly[Scheduling!Weekday(date)] : w[1] \in 0..Day /\ w[2] \in 0..Day
  <2>1. Week \in Nat \ {0}
    BY SlotsAssumption DEF Scheduling!SettingsAreValid
  <2>2. PICK d \in 0..(Week - 1) : d = Scheduling!Weekday(date)
    BY <2>1, Division DEF Scheduling!Weekday
  <2>3. weekly[d] \subseteq (0..Day) \X (0..Day)
    BY SlotsAssumption DEF SlotsInv, Scheduling!SettingsAreValid
  <2> QED BY <2>2, <2>3
<1> DEFINE here == {o \in overrides : o.date = date}
           opened == UNION {Scheduling!Span(o.from, o.to) :
                              o \in {p \in here : p.kind = "open" /\ p.from # NoTime}}
           usual == UNION {Scheduling!Span(w[1], w[2]) : w \in weekly[Scheduling!Weekday(date)]}
<1>5. opened \subseteq 0..(Day - 1)
  BY <1>2, <1>3
<1>6. usual \subseteq 0..(Day - 1)
  BY <1>2, <1>4
<1>7. Scheduling!OpenMinutes(date) \subseteq usual \cup opened
  BY DEF Scheduling!OpenMinutes
<1> QED BY <1>5, <1>6, <1>7

LEMMA SpanReaches ==
  ASSUME NEW open, open \subseteq 0..(Day - 1), NEW m \in open
  PROVE  /\ m \in 0..(Day - 1)
         /\ Scheduling!SpanEnd(m, open) \in 1..Day /\ m < Scheduling!SpanEnd(m, open)
         /\ \A k \in Int : m <= k /\ k < Scheduling!SpanEnd(m, open) => k \in open
<1> DEFINE S == {b \in 1..Day : m < b /\ Scheduling!Span(m, b) \subseteq open}
<1>1. Day \in Nat \ {0} /\ m \in 0..(Day - 1)
  BY SlotsAssumption DEF Scheduling!ClockAssumption
<1>2. m + 1 \in S
  BY <1>1 DEF Scheduling!Span
<1>3. S \subseteq 0..Day
  BY <1>1
<1>4. Scheduling!SpanEnd(m, open) = Scheduling!Max(S)
  BY DEF Scheduling!SpanEnd
<1> HIDE DEF S
<1>5. PICK e \in S : e = Scheduling!SpanEnd(m, open)
  BY <1>1, <1>2, <1>3, <1>4, Greatest
<1>6. e \in 1..Day /\ m < e /\ Scheduling!Span(m, e) \subseteq open
  BY DEF S
<1>7. \A k \in Int : m <= k /\ k < e => k \in open
  BY <1>1, <1>6 DEF Scheduling!Span
<1> QED BY <1>1, <1>5, <1>6, <1>7


\* A start that the page lays out.
LEMMA StartsAreOpen ==
  ASSUME SlotsInv, NEW date \in Int, NEW s \in Scheduling!Starts(date)
  PROVE  /\ s.at \in Int /\ s.minute \in 0..(Day - 1)
         /\ s.spanEnd \in 1..Day /\ s.minute < s.spanEnd
         /\ Scheduling!Local(zone, s.at) = date * Day + s.minute
         /\ \A k \in Int : s.minute <= k /\ k < s.spanEnd => k \in Scheduling!OpenMinutes(date)
         /\ s = [at |-> Scheduling!LocalToUtc(zone, date * Day + s.minute), minute |-> s.minute,
                 spanEnd |-> Scheduling!SpanEnd(s.minute, Scheduling!OpenMinutes(date))]
<1>1. PICK open : open = Scheduling!OpenMinutes(date)
  OBVIOUS
<1>2. PICK m \in open :
        /\ s = [at |-> Scheduling!LocalToUtc(zone, date * Day + m), minute |-> m,
                spanEnd |-> Scheduling!SpanEnd(m, open)]
        /\ s.at # NoTime
  BY <1>1 DEF Scheduling!Starts
<1>3. s.at = Scheduling!LocalToUtc(zone, date * Day + m) /\ s.minute = m
      /\ s.spanEnd = Scheduling!SpanEnd(m, open)
  BY <1>2
<1>4. open \subseteq 0..(Day - 1)
  BY <1>1, OpenInDay
<1>5. PICK l \in Int : l = date * Day + m
  BY <1>4, SlotsAssumption DEF Scheduling!ClockAssumption
<1>6. zone \in Zones
  BY DEF SlotsInv
<1>7. s.at \in Int /\ Scheduling!Local(zone, s.at) = l
  BY <1>2, <1>3, <1>5, <1>6, Looked
<1>8. /\ m \in 0..(Day - 1) /\ s.spanEnd \in 1..Day /\ m < s.spanEnd
      /\ \A k \in Int : m <= k /\ k < s.spanEnd => k \in open
  BY <1>3, <1>4, SpanReaches
<1> QED BY <1>1, <1>2, <1>3, <1>5, <1>7, <1>8

LEMMA StartsDiffer ==
  ASSUME SlotsInv, NEW date \in Int,
         NEW s \in Scheduling!Starts(date), NEW t \in Scheduling!Starts(date), s.at = t.at
  PROVE  s = t
<1>1. /\ s.minute \in Int /\ Scheduling!Local(zone, s.at) = date * Day + s.minute
      /\ s = [at |-> Scheduling!LocalToUtc(zone, date * Day + s.minute), minute |-> s.minute,
              spanEnd |-> Scheduling!SpanEnd(s.minute, Scheduling!OpenMinutes(date))]
  BY StartsAreOpen
<1>2. /\ t.minute \in Int /\ Scheduling!Local(zone, t.at) = date * Day + t.minute
      /\ t = [at |-> Scheduling!LocalToUtc(zone, date * Day + t.minute), minute |-> t.minute,
              spanEnd |-> Scheduling!SpanEnd(t.minute, Scheduling!OpenMinutes(date))]
  BY StartsAreOpen
<1>3. PICK day \in Int : day = date * Day
  BY SlotsAssumption DEF Scheduling!ClockAssumption
<1>4. s.minute = t.minute
  <2>1. day + s.minute = day + t.minute
    BY <1>1, <1>2, <1>3
  <2>2. s.minute \in Int /\ t.minute \in Int
    BY <1>1, <1>2
  <2> QED BY <2>1, <2>2
<1> QED BY <1>1, <1>2, <1>4

\* EndMinute counts from the start of the date, up to the next midnight.
LEMMA Ends ==
  ASSUME SlotsInv, NEW date \in Int, NEW u \in Int,
         NEW day \in Int, day = date * Day, NEW l \in Int, l = Scheduling!Local(zone, u)
  PROVE  /\ Scheduling!EndMinute(date, u) # NoTime
              => day <= l /\ l <= day + Day /\ Scheduling!EndMinute(date, u) = l - day
         /\ day <= l /\ l <= day + Day => Scheduling!EndMinute(date, u) = l - day
<1>1. Day \in Nat \ {0}
  BY SlotsAssumption DEF Scheduling!ClockAssumption
<1>2. PICK e \in Int : e = day + Day /\ e = (date + 1) * Day
  BY <1>1, Division
<1>3. Scheduling!EndMinute(date, u) =
        IF l \div Day = date THEN l % Day ELSE IF l = e THEN Day ELSE NoTime
  BY <1>2 DEF Scheduling!EndMinute
<1>4. /\ l \div Day \in Int /\ l % Day \in 0..(Day - 1)
      /\ l = Day * (l \div Day) + (l % Day)
      /\ l \div Day >= date <=> l >= date * Day
      /\ l \div Day >= date + 1 <=> l >= (date + 1) * Day
  <2>1. /\ l \div Day \in Int /\ l % Day \in 0..(Day - 1)
        /\ l = Day * (l \div Day) + (l % Day)
        /\ l \div Day >= date <=> l >= date * Day
    BY <1>1, Division
  <2>2. PICK next \in Int : next = date + 1
    OBVIOUS
  <2>3. l \div Day >= next <=> l >= next * Day
    BY <1>1, Division
  <2> QED BY <2>1, <2>2, <2>3
<1>5. PICK q \in Int, r \in 0..(Day - 1) : /\ q = l \div Day /\ r = l % Day
                                         /\ l = Day * q + r
  BY <1>4
<1>6. /\ q >= date <=> l >= day
      /\ q >= date + 1 <=> l >= e
  BY <1>2, <1>4, <1>5
<1>7. q = date => r = l - day
  BY <1>1, <1>5
<1>8. q = date <=> day <= l /\ l < day + Day
  BY <1>1, <1>2, <1>6
<1>9. Scheduling!EndMinute(date, u) = IF q = date THEN r ELSE IF l = e THEN Day ELSE NoTime
  BY <1>3, <1>5
<1>10. CASE q = date
  BY <1>1, <1>7, <1>8, <1>9, <1>10
<1>11. CASE q # date /\ l = e
  BY <1>1, <1>2, <1>9, <1>11
<1>12. CASE q # date /\ l # e
  BY <1>1, <1>2, <1>8, <1>9, <1>12
<1> QED BY <1>10, <1>11, <1>12

\* Between the start and the end of sessions that fit the clock stays in the span.
LEMMA FitsInSpan ==
  ASSUME SlotsInv, NEW date \in Int, NEW s \in Scheduling!Starts(date), NEW n \in Nat,
         Scheduling!Fits(date, s, n), NEW day \in Int, day = date * Day,
         NEW u \in Int, s.at <= u, u <= s.at + n * Sessions.session
  PROVE  day <= Scheduling!Local(zone, u) /\ Scheduling!Local(zone, u) <= day + s.spanEnd
<1>1. /\ s.at \in Int /\ s.minute \in 0..(Day - 1) /\ s.spanEnd \in 1..Day
      /\ Scheduling!Local(zone, s.at) = day + s.minute
  BY StartsAreOpen
<1>2. PICK e \in Int : e = s.at + n * Sessions.session
  BY <1>1, Lengths
<1>3. PICK w \in Int : w = n * Sessions.session
  BY Lengths
<1>4. zone \in Zones /\ Day \in Nat \ {0}
  BY SlotsAssumption DEF SlotsInv, Scheduling!ClockAssumption
<1>5. s.minute + w <= s.spanEnd
  BY <1>3 DEF Scheduling!Fits
<1>6. PICK f \in Int : f = Scheduling!Local(zone, e)
  BY <1>4, Clock
<1>7. f <= day + s.spanEnd
  <2>1. Scheduling!EndMinute(date, e) # NoTime /\ Scheduling!EndMinute(date, e) <= s.spanEnd
    BY <1>2 DEF Scheduling!Fits
  <2>2. Scheduling!EndMinute(date, e) = f - day
    BY <1>6, <2>1, Ends
  <2> QED BY <1>1, <2>1, <2>2
<1>8. PICK l \in Int : l = Scheduling!Local(zone, u)
  BY <1>4, Clock
<1>9. day <= l
  <2>1. Scheduling!DateOf(zone, s.at) >= date
    <3>1. Scheduling!Local(zone, s.at) >= date * Day
      BY <1>1
    <3> QED BY <1>1, <1>4, <3>1, DateAndMinute
  <2>2. Scheduling!DateOf(zone, s.at) <= Scheduling!DateOf(zone, u)
    BY <1>1, <1>4, DatesInOrder
  <2>3. Scheduling!DateOf(zone, s.at) \in Int /\ Scheduling!DateOf(zone, u) \in Int
    BY <1>1, <1>4, DateAndMinute
  <2>4. Scheduling!DateOf(zone, u) >= date
    BY <2>1, <2>2, <2>3
  <2> QED BY <1>4, <1>8, <2>4, DateAndMinute
<1>10. l <= day + s.spanEnd
  <2>1. s.at <= u /\ u <= e /\ e = s.at + w
    BY <1>2, <1>3
  <2>2. CASE zone.shift >= 0
    <3>1. PICK base, shift \in Int : base = zone.base /\ shift = zone.shift /\ shift >= 0
      BY <1>4, <2>2, Clock
    <3>2. CASE e < zone.from
      <4>1. l = u + base /\ f = e + base
        BY <1>4, <1>6, <1>8, <2>1, <3>1, <3>2, Clock
      <4> QED BY <1>1, <1>7, <2>1, <4>1
    <3>3. CASE e >= zone.from
      <4>1. f = e + base + shift /\ (l = u + base \/ l = u + base + shift)
        BY <1>4, <1>6, <1>8, <2>1, <3>1, <3>3, Clock
      <4> QED BY <1>1, <1>7, <2>1, <3>1, <4>1
    <3> QED BY <1>4, <3>2, <3>3, Clock
  <2>3. CASE zone.shift = -Hour
    <3>1. l <= day + s.minute + (u - s.at)
      <4>1. CASE u < zone.from
        <5>1. /\ l = u + zone.base /\ day + s.minute = s.at + zone.base
              /\ zone.base \in Int
          BY <1>1, <1>4, <1>8, <2>1, <4>1, Clock
        <5> QED BY <1>1, <2>1, <5>1
      <4>2. CASE s.at >= zone.from
        <5>1. /\ l = u + zone.base + zone.shift
              /\ day + s.minute = s.at + zone.base + zone.shift
              /\ zone.base \in Int /\ zone.shift \in Int
          BY <1>1, <1>4, <1>8, <2>1, <4>2, Clock
        <5> QED BY <1>1, <2>1, <5>1
      <4>3. CASE s.at < zone.from /\ u >= zone.from
        <5>1. l = u + zone.base + zone.shift /\ day + s.minute = s.at + zone.base
          BY <1>1, <1>4, <1>8, <4>3, Clock
        <5>2. zone.base \in Int /\ zone.shift < 0
          BY <1>4, <2>3, Clock
        <5> QED BY <1>1, <1>4, <2>3, <5>1, <5>2, Clock
      <4> QED BY <1>1, <1>4, <4>1, <4>2, <4>3, Clock
    <3> QED BY <1>1, <1>5, <2>1, <3>1
  <2> QED BY <1>4, <2>2, <2>3, Clock
<1> QED BY <1>8, <1>9, <1>10

\* What is free is free for fewer sessions.
LEMMA FreeShorter ==
  ASSUME SlotsInv, NEW date \in Int, NEW s \in Scheduling!Starts(date),
         NEW k \in Nat, NEW n \in Nat, k <= n, Scheduling!Free(date, s, n)
  PROVE  Scheduling!Free(date, s, k)
<1>1. /\ s.at \in Int /\ s.minute \in 0..(Day - 1) /\ s.spanEnd \in 1..Day
  BY StartsAreOpen
<1>2. PICK v \in Nat : v = k * Sessions.session
  BY Lengths, Multiples
<1>3. PICK w \in Nat : w = n * Sessions.session
  BY Lengths, Multiples
<1>4. v <= w
  BY <1>2, <1>3, Lengths, Multiples
<1>5. zone \in Zones /\ Day \in Nat \ {0} /\ NoTime \notin Int
  BY SlotsAssumption DEF SlotsInv, Scheduling!ClockAssumption
<1>6. PICK day \in Int : day = date * Day
  BY <1>5
<1>7. PICK u \in Int : u = s.at + v
  BY <1>1
<1>8. PICK l \in Int : l = Scheduling!Local(zone, u)
  BY <1>5, Clock
<1>9. day <= l /\ l <= day + s.spanEnd
  <2>1. Scheduling!Fits(date, s, n)
    BY DEF Scheduling!Free
  <2>2. s.at <= u /\ u <= s.at + n * Sessions.session
    BY <1>1, <1>2, <1>3, <1>4, <1>7
  <2> QED BY <1>6, <1>8, <2>1, <2>2, FitsInSpan
<1>10. Scheduling!EndMinute(date, u) = l - day
  BY <1>1, <1>5, <1>6, <1>8, <1>9, Ends
<1>11. Scheduling!Fits(date, s, k)
  <2>1. s.minute + w <= s.spanEnd
    BY <1>3 DEF Scheduling!Free, Scheduling!Fits
  <2>2. s.minute + v <= s.spanEnd
    BY <1>1, <1>4, <2>1
  <2>3. l - day \in Int /\ l - day <= s.spanEnd
    BY <1>1, <1>9
  <2> QED BY <1>2, <1>5, <1>7, <1>10, <2>2, <2>3 DEF Scheduling!Fits
<1>12. \A p \in Scheduling!Off \cup Scheduling!Booked : p[1] \in Int /\ p[2] \in Int
  BY Lengths DEF SlotsInv, Stored, Scheduling!Booked, Scheduling!Off
<1>13. PICK from \in Int : from = s.at - Sessions.before
  BY <1>1, Lengths
<1>14. PICK to \in Int : to = s.at + w + Sessions.after
  BY <1>1, Lengths
<1>15. PICK sooner \in Int : sooner = s.at + v + Sessions.after
  BY <1>1, Lengths
<1>16. ~Scheduling!Busy(from, to, Scheduling!Off \cup Scheduling!Booked)
  BY <1>3, <1>13, <1>14 DEF Scheduling!Free, Scheduling!RangeOf
<1>17. sooner <= to
  BY <1>1, <1>4, <1>14, <1>15, Lengths
<1>18. ~Scheduling!Busy(from, sooner, Scheduling!Off \cup Scheduling!Booked)
  BY <1>12, <1>16, <1>17 DEF Scheduling!Busy, Scheduling!Overlap
<1>19. s.at >= instant + Notice
  BY DEF Scheduling!Free
<1> QED BY <1>2, <1>11, <1>13, <1>15, <1>18, <1>19 DEF Scheduling!Free, Scheduling!RangeOf

\* The search for the most sessions finds just those lengths that are free.
LEMMA MostSessions ==
  ASSUME SlotsInv, NEW date \in Int, NEW s \in Scheduling!Starts(date),
         NEW n \in 1..Sessions.maxBlocks
  PROVE  /\ Scheduling!MaxBlocksAt(date, s) \in 0..Sessions.maxBlocks
         /\ n <= Scheduling!MaxBlocksAt(date, s) <=> Scheduling!Free(date, s, n)
<1> DEFINE S == {0} \cup {k \in 1..Sessions.maxBlocks : \A j \in 1..k : Scheduling!Free(date, s, j)}
<1>1. Sessions.maxBlocks \in Nat
  BY Lengths
<1>2. S \subseteq 0..Sessions.maxBlocks /\ S # {}
  BY <1>1
<1>3. Scheduling!MaxBlocksAt(date, s) = Scheduling!Max(S)
  BY DEF Scheduling!MaxBlocksAt
<1>4. ASSUME Scheduling!Free(date, s, n) PROVE n \in S
  <2>1. \A j \in 1..n : j \in Nat /\ j <= n
    BY <1>1
  <2>2. n \in Nat
    BY <1>1
  <2>3. \A j \in 1..n : Scheduling!Free(date, s, j)
    BY <1>4, <2>1, <2>2, FreeShorter
  <2> QED BY <2>3
<1>5. \A k \in S : n <= k => Scheduling!Free(date, s, n)
  BY <1>1
<1> HIDE DEF S
<1>6. /\ Scheduling!MaxBlocksAt(date, s) \in S
      /\ \A k \in S : k <= Scheduling!MaxBlocksAt(date, s)
  BY <1>1, <1>2, <1>3, Greatest
<1> QED BY <1>2, <1>4, <1>5, <1>6

LEMMA SayHours == SlotsInv => Scheduling!SlotsSayHowLong
<1> SUFFICES ASSUME SlotsInv, NEW date \in Dates, NEW s \in Scheduling!Slots(date),
                    NEW n \in Sessions.minBlocks..Sessions.maxBlocks
             PROVE  n <= s.maxBlocks <=> Scheduling!HourlyRanges(date, s.at, n) # {}
  BY DEF Scheduling!SlotsSayHowLong
<1>1. date \in Int /\ n \in 1..Sessions.maxBlocks
  BY Lengths
<1>2. PICK t \in Scheduling!Starts(date) :
        s = [at |-> t.at, maxBlocks |-> Scheduling!MaxBlocksAt(date, t)]
  BY DEF Scheduling!Slots
<1>3. n <= s.maxBlocks <=> Scheduling!Free(date, t, n)
  BY <1>1, <1>2, MostSessions
<1>4. Scheduling!HourlyRanges(date, s.at, n) =
        {Scheduling!RangeOf(date, x, n) :
           x \in {y \in Scheduling!Starts(date) : y.at = s.at /\ Scheduling!Free(date, y, n)}}
  BY DEF Scheduling!HourlyRanges
<1>5. \A y \in Scheduling!Starts(date) : y.at = s.at => y = t
  BY <1>1, <1>2, StartsDiffer
<1>6. t.at = s.at
  BY <1>2
<1> QED BY <1>3, <1>4, <1>5, <1>6

\* What a booking occupies that is not over and whose hold has not run out.
LEMMA Occupied ==
  ASSUME SlotsInv
  PROVE  /\ \A p \in Scheduling!Booked : p[1] \in Int /\ p[2] \in Int /\ p[1] < p[2]
         /\ \A b \in bookings : ~b.overdue /\ b.to > instant => <<b.from, b.to>> \in Scheduling!Booked
<1>1. \A b \in bookings : b.from \in Int /\ b.to \in Int /\ b.from < b.to
  <2>1. \A b \in bookings : /\ b.from \in Int /\ b.to \in Int
                            /\ b.start \in Int /\ b.end \in Int
                            /\ b.from <= b.start /\ b.start < b.end /\ b.end <= b.to
    BY DEF SlotsInv, Stored
  <2> QED BY <2>1
<1> QED BY <1>1 DEF Scheduling!Booked

\* Whole days and the days around them.
LEMMA DaysAround ==
  ASSUME zone \in Zones, NEW date \in Int, NEW days \in Int, NEW buffer \in Int,
         NEW r, r = Scheduling!Buffered(date, days, buffer)
  PROVE  \E e, f, t \in Int :
           /\ e = date + days /\ f = date - buffer /\ t = e + buffer
           /\ r.start = Scheduling!StartOfDay(zone, date)
           /\ r.end = Scheduling!StartOfDay(zone, e)
           /\ r.from = Scheduling!StartOfDay(zone, f)
           /\ r.to = Scheduling!StartOfDay(zone, t)
           /\ r.start \in Int /\ r.end \in Int /\ r.from \in Int /\ r.to \in Int
           /\ buffer >= 0 => r.from <= r.start /\ r.end <= r.to
           /\ days > 0 => r.start < r.end
<1>1. PICK e \in Int, f \in Int, t \in Int :
        e = date + days /\ f = date - buffer /\ t = e + buffer
  OBVIOUS
<1>2. buffer >= 0 => f <= date /\ e <= t
  BY <1>1
<1>3. days > 0 => date < e
  BY <1>1
<1>4. f + (days + 2 * buffer) = t
  BY <1>1
<1>5. r = [start |-> Scheduling!StartOfDay(zone, date),
           end |-> Scheduling!StartOfDay(zone, date + days),
           from |-> Scheduling!StartOfDay(zone, date - buffer),
           to |-> Scheduling!StartOfDay(zone, (date - buffer) + (days + 2 * buffer))]
  BY DEF Scheduling!Buffered, Scheduling!DayRange
<1>6. /\ r.start = Scheduling!StartOfDay(zone, date)
      /\ r.end = Scheduling!StartOfDay(zone, e)
      /\ r.from = Scheduling!StartOfDay(zone, f)
      /\ r.to = Scheduling!StartOfDay(zone, t)
  BY <1>1, <1>4, <1>5
<1> QED BY <1>1, <1>2, <1>3, <1>6, DayStarts, DaysInOrder

AllAvailable(date, days) ==
  \A i \in 0..(days - 1) : Scheduling!DayStatus(date + i) = "available"

\* No booking the engine sees meets days that are all available.
LEMMA NoneAmong ==
  ASSUME SlotsInv, NEW date \in Int, NEW days \in Nat, AllAvailable(date, days),
         NEW first \in Int, NEW last \in Int,
         date <= first, first < last, last <= date + days,
         NEW p \in Scheduling!Booked, p[1] < Scheduling!StartOfDay(zone, last)
  PROVE  p[2] <= Scheduling!StartOfDay(zone, first)
<1> DEFINE Opens(d) == Scheduling!StartOfDay(zone, d)
           K == {k \in Nat : first + k < last /\ p[1] < Opens(first + k + 1)}
<1>1. zone \in Zones /\ p[1] \in Int /\ p[2] \in Int /\ p[1] < p[2]
  BY Occupied DEF SlotsInv
<1>2. \A d \in Int : Opens(d) \in Int
  BY <1>1, DayStarts
<1>3. ASSUME NEW d \in Int, first <= d, d < last
      PROVE  ~(p[1] < Opens(d + 1) /\ p[2] > Opens(d))
  <2>1. PICK i \in 0..(days - 1) : d = date + i
    <3>1. d - date \in 0..(days - 1) /\ d = date + (d - date)
      BY <1>3
    <3> QED BY <3>1
  <2>2. Scheduling!DayStatus(d) = "available"
    BY <2>1 DEF AllAvailable
  <2>3. ~Scheduling!Busy(Scheduling!StartOfDay(zone, d), Scheduling!StartOfDay(zone, d + 1),
                         Scheduling!Booked)
    BY <2>2 DEF Scheduling!DayStatus
  <2>4. ~(Scheduling!StartOfDay(zone, d) < p[2] /\ Scheduling!StartOfDay(zone, d + 1) > p[1])
    BY <2>3 DEF Scheduling!Busy, Scheduling!Overlap
  <2>5. Scheduling!StartOfDay(zone, d) \in Int /\ Scheduling!StartOfDay(zone, d + 1) \in Int
    BY <1>1, DayStarts
  <2> QED BY <1>1, <2>4, <2>5
<1>4. PICK k \in K : \A j \in K : k <= j
  <2>1. (last - 1) - first \in K
    <3>1. (last - 1) - first \in Nat /\ first + ((last - 1) - first) + 1 = last
      OBVIOUS
    <3> QED BY <3>1
  <2>2. K \subseteq Nat
    OBVIOUS
  <2> HIDE DEF K
  <2> QED BY <2>1, <2>2, Smallest
<1>5. PICK d \in Int : d = first + k
  OBVIOUS
<1>6. first <= d /\ d < last /\ p[1] < Opens(d + 1)
  BY <1>5
<1>7. p[2] <= Opens(d)
  BY <1>1, <1>2, <1>3, <1>6
<1>8. CASE k = 0
  <2>1. d = first
    BY <1>5, <1>8
  <2> QED BY <1>7, <2>1
<1>9. CASE k # 0
  <2>1. PICK j \in Nat : j = k - 1
    BY <1>9
  <2>2. j \notin K
    BY <1>4, <2>1
  <2>3. first + j < last /\ first + j + 1 = d
    BY <1>5, <1>6, <2>1
  <2>4. p[1] >= Opens(d)
    BY <1>1, <1>2, <2>2, <2>3
  <2>5. FALSE
    BY <1>1, <1>2, <1>7, <2>4
  <2> QED BY <2>5
<1> QED BY <1>8, <1>9

\* Neither days that are free nor the days around them meet a booking it sees.
LEMMA FreeDaysMeetNone ==
  ASSUME SlotsInv, NEW date \in Int, NEW days \in Nat,
         Scheduling!DaysFree(date, days), NEW p \in Scheduling!Booked,
         NEW r, r = Scheduling!Buffered(date, days, WholeDays.buffer)
  PROVE  ~Scheduling!Overlap(r.from, r.to, p[1], p[2])
<1>0. zone \in Zones
  BY DEF SlotsInv
<1>1. p[1] \in Int /\ p[2] \in Int /\ p[1] < p[2]
  BY Occupied
<1>2. days > 0 /\ WholeDays.buffer \in Nat
  BY Lengths DEF Scheduling!DaysFree
<1>a. PICK buffer \in Nat : buffer = WholeDays.buffer
  BY <1>2
<1>3. PICK e \in Int :
        /\ e = date + days
        /\ r.start = Scheduling!StartOfDay(zone, date) /\ r.end = Scheduling!StartOfDay(zone, e)
        /\ r.start \in Int /\ r.end \in Int /\ r.from \in Int /\ r.to \in Int
        /\ r.from <= r.start /\ r.start < r.end /\ r.end <= r.to
  <2>1. r = Scheduling!Buffered(date, days, buffer) /\ buffer \in Int /\ days \in Int
    BY <1>a
  <2>2. PICK e \in Int : e = date + days
    BY <2>1
  <2>3. r.start = Scheduling!StartOfDay(zone, date) /\ r.end = Scheduling!StartOfDay(zone, e)
    BY <1>0, <2>1, <2>2, DaysAround
  <2>4. r.start \in Int /\ r.end \in Int
    BY <1>0, <2>1, DaysAround
  <2>5. r.from \in Int /\ r.to \in Int
    BY <1>0, <2>1, DaysAround
  <2>6. r.from <= r.start
    BY <1>0, <2>1, DaysAround
  <2>7. r.start < r.end
    BY <1>0, <1>2, <2>1, DaysAround, SMTT(30)
  <2>8. r.end <= r.to
    BY <1>0, <2>1, DaysAround
  <2> QED BY <2>2, <2>3, <2>4, <2>5, <2>6, <2>7, <2>8
<1>4. /\ ~(r.from < p[2] /\ r.start > p[1])
      /\ ~(r.end < p[2] /\ r.to > p[1])
  BY DEF Scheduling!DaysFree, Scheduling!BuffersFree, Scheduling!Busy, Scheduling!Overlap
<1>5. p[1] < r.end => p[2] <= r.start
  <2>1. AllAvailable(date, days)
    BY DEF Scheduling!DaysFree, AllAvailable
  <2>2. PICK last \in Int : last = date + days /\ r.end = Scheduling!StartOfDay(zone, last)
    BY <1>3
  <2>3. date < last
    BY <1>2, <2>2
  <2> QED BY <1>3, <2>1, <2>2, <2>3, NoneAmong
<1>6. ~(r.from < p[2] /\ r.to > p[1])
  BY <1>1, <1>3, <1>4, <1>5
<1> QED BY <1>6 DEF Scheduling!Overlap

\* What is free for whole days is free for fewer.
LEMMA FreeFewerDays ==
  ASSUME SlotsInv, NEW date \in Int,
         NEW many \in Nat, Scheduling!DaysFree(date, many),
         NEW few \in WholeDays.minDays..WholeDays.maxDays, few <= many
  PROVE  Scheduling!DaysFree(date, few)
<1>0. zone \in Zones
  BY DEF SlotsInv
<1>1. WholeDays.buffer \in Nat /\ few \in Nat \ {0}
  BY Lengths
<1>2. AllAvailable(date, many)
  BY DEF Scheduling!DaysFree, AllAvailable
<1>3. \A i \in 0..(few - 1) : Scheduling!DayStatus(date + i) = "available"
  BY <1>1, <1>2 DEF AllAvailable
<1>4. PICK r : r = Scheduling!Buffered(date, few, WholeDays.buffer)
  OBVIOUS
<1>5. PICK q : q = Scheduling!Buffered(date, many, WholeDays.buffer)
  OBVIOUS
<1>a. PICK buffer \in Nat : buffer = WholeDays.buffer
  BY <1>1
<1>6. PICK e, f, t \in Int :
        /\ e = date + few /\ f = date - buffer /\ t = e + buffer
        /\ r.start = Scheduling!StartOfDay(zone, date) /\ r.end = Scheduling!StartOfDay(zone, e)
        /\ r.from = Scheduling!StartOfDay(zone, f) /\ r.to = Scheduling!StartOfDay(zone, t)
        /\ r.end \in Int /\ r.to \in Int
  <2>1. r = Scheduling!Buffered(date, few, buffer) /\ buffer \in Int /\ few \in Int
    BY <1>1, <1>4, <1>a
  <2>2. PICK e, f, t \in Int : e = date + few /\ f = date - buffer /\ t = e + buffer
    BY <2>1
  <2>3. r.start = Scheduling!StartOfDay(zone, date) /\ r.end = Scheduling!StartOfDay(zone, e)
    BY <1>0, <2>1, <2>2, DaysAround
  <2>4. r.from = Scheduling!StartOfDay(zone, f)
    BY <1>0, <2>1, <2>2, DaysAround
  <2>5. r.to = Scheduling!StartOfDay(zone, t)
    BY <1>0, <2>1, <2>2, DaysAround
  <2>6. r.end \in Int /\ r.to \in Int
    BY <1>0, <2>1, DaysAround
  <2> QED BY <2>2, <2>3, <2>4, <2>5, <2>6
<1>7. PICK h, g, u \in Int :
        /\ h = date + many /\ g = date - buffer /\ u = h + buffer
        /\ q.start = Scheduling!StartOfDay(zone, date) /\ q.end = Scheduling!StartOfDay(zone, h)
        /\ q.from = Scheduling!StartOfDay(zone, g) /\ q.to = Scheduling!StartOfDay(zone, u)
        /\ q.end \in Int /\ q.to \in Int
  <2>1. q = Scheduling!Buffered(date, many, buffer) /\ buffer \in Int /\ many \in Int
    BY <1>5, <1>a
  <2>2. PICK h, g, u \in Int : h = date + many /\ g = date - buffer /\ u = h + buffer
    BY <2>1
  <2>3. q.start = Scheduling!StartOfDay(zone, date)
    BY <1>0, <2>1, DaysAround
  <2>4. q.end = Scheduling!StartOfDay(zone, h)
    BY <1>0, <2>1, <2>2, DaysAround
  <2>5. q.from = Scheduling!StartOfDay(zone, g)
    BY <1>0, <2>1, <2>2, DaysAround
  <2>6. q.to = Scheduling!StartOfDay(zone, u)
    BY <1>0, <2>1, <2>2, DaysAround
  <2>7. q.end \in Int /\ q.to \in Int
    BY <1>0, <2>1, DaysAround
  <2> QED BY <2>2, <2>3, <2>4, <2>5, <2>6, <2>7
<1>8. r.to <= q.to /\ f = g
  <2>1. t <= u /\ f = g
    BY <1>1, <1>6, <1>7
  <2> QED BY <1>0, <1>6, <1>7, <2>1, DaysInOrder
<1>9. ASSUME NEW p \in Scheduling!Booked
      PROVE  ~(r.end < p[2] /\ r.to > p[1])
  <2>1. p[1] \in Int /\ p[2] \in Int /\ p[1] < p[2]
    BY Occupied
  <2>2. ~(q.end < p[2] /\ q.to > p[1])
    BY <1>5 DEF Scheduling!DaysFree, Scheduling!BuffersFree, Scheduling!Busy, Scheduling!Overlap
  <2>3. CASE few = many
    <3>1. e = h
      BY <1>6, <1>7, <2>3
    <3> QED BY <1>6, <1>7, <1>8, <2>1, <2>2, <3>1
  <2>4. CASE few < many /\ p[1] < q.end
    <3>1. p[2] <= r.end
      <4>1. date <= e /\ e < h /\ h <= date + many
        BY <1>1, <1>6, <1>7, <2>4
      <4> QED BY <1>2, <1>6, <1>7, <2>4, <4>1, NoneAmong
    <3> QED BY <1>6, <2>1, <3>1
  <2>5. CASE ~(p[1] < q.end)
    BY <1>6, <1>7, <1>8, <2>1, <2>2, <2>5
  <2> QED BY <1>1, <2>3, <2>4, <2>5
<1>10. \A p \in Scheduling!Booked : ~(r.from < p[2] /\ r.start > p[1])
  <2>1. \A p \in Scheduling!Booked : ~(q.from < p[2] /\ q.start > p[1])
    BY <1>5 DEF Scheduling!DaysFree, Scheduling!BuffersFree, Scheduling!Busy, Scheduling!Overlap
  <2> QED BY <1>6, <1>7, <1>8, <2>1
<1>11. Scheduling!BuffersFree(r)
  BY <1>9, <1>10 DEF Scheduling!BuffersFree, Scheduling!Busy, Scheduling!Overlap
<1> QED BY <1>3, <1>4, <1>11 DEF Scheduling!DaysFree

LEMMA MostDays ==
  ASSUME SlotsInv, NEW date \in Int
  PROVE  /\ Scheduling!MaxDaysFrom(date) \in 0..WholeDays.maxDays
         /\ \A d \in WholeDays.minDays..WholeDays.maxDays :
              d <= Scheduling!MaxDaysFrom(date) <=> Scheduling!DaysFree(date, d)
<1> DEFINE S == {d \in 1..WholeDays.maxDays : Scheduling!DaysFree(date, d)} \cup {0}
<1>1. WholeDays.maxDays \in Nat /\ WholeDays.minDays \in Nat \ {0}
  BY Lengths
<1>2. S \subseteq 0..WholeDays.maxDays /\ S # {}
  BY <1>1
<1>3. Scheduling!MaxDaysFrom(date) = Scheduling!Max(S)
  BY DEF Scheduling!MaxDaysFrom
<1>4. ASSUME NEW d \in WholeDays.minDays..WholeDays.maxDays
      PROVE  /\ Scheduling!DaysFree(date, d) => d \in S
             /\ \A m \in S : d <= m => Scheduling!DaysFree(date, d)
  <2>1. d \in 1..WholeDays.maxDays
    BY <1>1
  <2>2. ASSUME NEW m \in S, d <= m PROVE Scheduling!DaysFree(date, d)
    <3>1. m \in Nat /\ Scheduling!DaysFree(date, m)
      BY <1>1, <2>1, <2>2
    <3> QED BY <2>2, <3>1, FreeFewerDays
  <2> QED BY <2>1, <2>2
<1> HIDE DEF S
<1>5. /\ Scheduling!MaxDaysFrom(date) \in S
      /\ \A m \in S : m <= Scheduling!MaxDaysFrom(date)
  BY <1>1, <1>2, <1>3, Greatest
<1> QED BY <1>2, <1>4, <1>5

LEMMA SayDays == SlotsInv => Scheduling!DaysSayHowLong
BY Lengths, MostDays DEF Scheduling!DaysSayHowLong

LEMMA UnseenOnly == SlotsInv => Scheduling!RefusedByTheUnseenOnly
<1> SUFFICES ASSUME SlotsInv, NEW date \in Dates, NEW b \in bookings, ~b.overdue, b.to > instant
             PROVE  /\ \A s \in Scheduling!Slots(date) : \A n \in Sessions.minBlocks..s.maxBlocks :
                         \A r \in Scheduling!HourlyRanges(date, s.at, n) :
                           ~Scheduling!Overlap(r.from, r.to, b.from, b.to)
                    /\ \A d \in WholeDays.minDays..Scheduling!MaxDaysFrom(date) :
                         LET r == Scheduling!Buffered(date, d, WholeDays.buffer)
                         IN  ~Scheduling!Overlap(r.from, r.to, b.from, b.to)
  BY DEF Scheduling!RefusedByTheUnseenOnly, Scheduling!Fit
<1>1. date \in Int
  BY Lengths
<1>2. PICK p \in Scheduling!Booked : p = <<b.from, b.to>> /\ p[1] = b.from /\ p[2] = b.to
  BY Occupied
<1>3. ASSUME NEW s \in Scheduling!Slots(date), NEW n \in Sessions.minBlocks..s.maxBlocks,
             NEW r \in Scheduling!HourlyRanges(date, s.at, n)
      PROVE  ~Scheduling!Overlap(r.from, r.to, b.from, b.to)
  <2>1. PICK t \in Scheduling!Starts(date) :
          Scheduling!Free(date, t, n) /\ r = Scheduling!RangeOf(date, t, n)
    BY DEF Scheduling!HourlyRanges
  <2>2. ~Scheduling!Busy(r.from, r.to, Scheduling!Off \cup Scheduling!Booked)
    BY <2>1 DEF Scheduling!Free
  <2> QED BY <1>2, <2>2 DEF Scheduling!Busy
<1>4. ASSUME NEW d \in WholeDays.minDays..Scheduling!MaxDaysFrom(date), NEW r,
             r = Scheduling!Buffered(date, d, WholeDays.buffer)
      PROVE  ~Scheduling!Overlap(r.from, r.to, b.from, b.to)
  <2>1. d \in Nat /\ d \in WholeDays.minDays..WholeDays.maxDays
        /\ d <= Scheduling!MaxDaysFrom(date)
    BY <1>1, Lengths, MostDays
  <2>2. Scheduling!DaysFree(date, d)
    BY <1>1, <2>1, MostDays
  <2> QED BY <1>1, <1>2, <1>4, <2>1, <2>2, FreeDaysMeetNone
<1> QED BY <1>3, <1>4

(* Steps.                                                                  *)
LEMMA SlotsInit == Start => SlotsInv
<1> SUFFICES ASSUME Scheduling!Init PROVE SlotsInv
  BY DEF Start
<1> QED BY FS_EmptySet DEF Scheduling!Init, SlotsInv

\* What a booking of free time occupies.
LEMMA RowsAreStored ==
  ASSUME zone \in Zones, NEW r, r.start \in Int, r.end \in Int, r.from \in Int, r.to \in Int,
         r.from <= r.start, r.start < r.end, r.end <= r.to,
         NEW daily \in BOOLEAN, NEW length \in Nat \ {0}
  PROVE  Scheduling!Row(r, daily, length) \in Stored
BY DEF Scheduling!Row, Stored

LEMMA HoursHeld ==
  ASSUME SlotsInv, NEW date \in Dates, NEW at, NEW n \in 1..Sessions.maxBlocks,
         Scheduling!HoldHours(date, at, n)
  PROVE  \E b \in Stored : bookings' \subseteq bookings \cup {b}
<1>1. PICK r \in Scheduling!HourlyRanges(date, at, n) :
        bookings' \subseteq bookings \cup {Scheduling!Row(r, FALSE, n)}
  BY DEF Scheduling!HoldHours, Scheduling!Expired
<1>2. PICK s \in Scheduling!Starts(date) :
        Scheduling!Free(date, s, n) /\ r = Scheduling!RangeOf(date, s, n)
  BY DEF Scheduling!HourlyRanges
<1>3. date \in Int /\ n \in Nat \ {0} /\ Sessions.session \in Nat \ {0}
      /\ Sessions.before \in Nat /\ Sessions.after \in Nat
  BY Lengths
<1>4. s.at \in Int
  BY <1>3, StartsAreOpen
<1>5. PICK w \in Nat : w = n * Sessions.session /\ w > 0
  BY <1>3, Multiples
<1>6. /\ r.start = s.at /\ r.end = s.at + w
      /\ r.from = s.at - Sessions.before /\ r.to = s.at + w + Sessions.after
  BY <1>2, <1>5 DEF Scheduling!RangeOf
<1>7. /\ r.start \in Int /\ r.end \in Int /\ r.from \in Int /\ r.to \in Int
      /\ r.from <= r.start /\ r.start < r.end /\ r.end <= r.to
  BY <1>3, <1>4, <1>5, <1>6
<1>8. Scheduling!Row(r, FALSE, n) \in Stored
  <2>1. zone \in Zones /\ FALSE \in BOOLEAN
    BY DEF SlotsInv
  <2> QED BY <1>3, <1>7, <2>1, RowsAreStored
<1> QED BY <1>1, <1>8

LEMMA DaysHeld ==
  ASSUME SlotsInv, NEW date \in Dates, NEW days \in 1..WholeDays.maxDays,
         Scheduling!HoldDays(date, days)
  PROVE  \E b \in Stored : bookings' \subseteq bookings \cup {b}
<1>0. zone \in Zones
  BY DEF SlotsInv
<1>1. date \in Int /\ days \in Int /\ WholeDays.maxDays \in Nat
  BY Lengths
<1>2. PICK buffer \in Nat : buffer = WholeDays.buffer
  BY Lengths
<1>3. PICK r : r = Scheduling!Buffered(date, days, buffer)
  OBVIOUS
<1>4. buffer \in Int /\ days > 0 /\ days \in Nat \ {0}
  BY <1>1
<1>5. r.start \in Int /\ r.end \in Int
  BY <1>0, <1>1, <1>3, <1>4, DaysAround
<1>6. r.from \in Int /\ r.to \in Int
  BY <1>0, <1>1, <1>3, <1>4, DaysAround
<1>7. r.from <= r.start
  BY <1>0, <1>1, <1>3, <1>4, DaysAround
<1>8. r.start < r.end
  BY <1>0, <1>1, <1>3, <1>4, DaysAround
<1>9. r.end <= r.to
  BY <1>0, <1>1, <1>3, <1>4, DaysAround, SMTT(30)
<1>10. bookings' \subseteq bookings \cup {Scheduling!Row(r, TRUE, days)}
  BY <1>2, <1>3 DEF Scheduling!HoldDays, Scheduling!Expired
<1>11. Scheduling!Row(r, TRUE, days) \in Stored
  BY <1>0, <1>4, <1>5, <1>6, <1>7, <1>8, <1>9, RowsAreStored
<1> QED BY <1>10, <1>11

\* A move leaves each booking well formed.
LEMMA Moved ==
  ASSUME SlotsInv, NEW b \in bookings, NEW r, Scheduling!Replace(b, r),
         r.start \in Int, r.end \in Int, r.from \in Int, r.to \in Int,
         r.from <= r.start, r.start < r.end, r.end <= r.to
  PROVE  \E c \in Stored : bookings' \subseteq bookings \cup {c}
<1> DEFINE c == [b EXCEPT !.start = r.start, !.end = r.end, !.from = r.from, !.to = r.to]
<1>1. b \in Stored
  BY DEF SlotsInv
<1>2. c \in Stored
  BY <1>1 DEF Stored
<1>3. bookings' \subseteq bookings \cup {c}
  BY DEF Scheduling!Replace, Scheduling!Expired
<1> QED BY <1>2, <1>3

LEMMA HoursMoved ==
  ASSUME SlotsInv, NEW b \in bookings, NEW date \in Dates, NEW m \in Scheduling!Minutes,
         Scheduling!MoveHours(b, date, m)
  PROVE  \E c \in Stored : bookings' \subseteq bookings \cup {c}
<1>1. /\ b.start \in Int /\ b.end \in Int /\ b.from \in Int /\ b.to \in Int
      /\ b.from <= b.start /\ b.start < b.end /\ b.end <= b.to
  BY DEF SlotsInv, Stored
<1>2. zone \in Zones /\ date \in Int /\ Day \in Nat \ {0}
  BY Lengths, SlotsAssumption DEF SlotsInv, Scheduling!ClockAssumption
<1>3. PICK l \in Int : l = date * Day + m
  BY <1>2 DEF Scheduling!Minutes
<1>4. PICK s : s = Scheduling!LocalToUtc(zone, l)
  OBVIOUS
<1>5. s # NoTime
      /\ Scheduling!Replace(b, [start |-> s, end |-> s + (b.end - b.start),
                                from |-> s - (b.start - b.from),
                                to |-> (s + (b.end - b.start)) + (b.to - b.end)])
  BY <1>3, <1>4 DEF Scheduling!MoveHours
<1>6. s \in Int
  BY <1>2, <1>3, <1>4, <1>5, Looked
<1>7. PICK r : r = [start |-> s, end |-> s + (b.end - b.start),
                    from |-> s - (b.start - b.from),
                    to |-> (s + (b.end - b.start)) + (b.to - b.end)]
  OBVIOUS
<1>8. /\ r.start \in Int /\ r.end \in Int /\ r.from \in Int /\ r.to \in Int
      /\ r.from <= r.start /\ r.start < r.end /\ r.end <= r.to
  BY <1>1, <1>6, <1>7
<1>9. Scheduling!Replace(b, r)
  BY <1>5, <1>7
<1> QED BY <1>8, <1>9, Moved

LEMMA DaysMoved ==
  ASSUME SlotsInv, NEW b \in bookings, NEW date \in Dates, Scheduling!MoveDays(b, date)
  PROVE  \E c \in Stored : bookings' \subseteq bookings \cup {c}
<1>0. zone \in Zones
  BY DEF SlotsInv
<1>1. /\ b.start \in Int /\ b.from \in Int /\ b.from <= b.start /\ b.length \in Nat \ {0}
  BY DEF SlotsInv, Stored
<1>2. PICK days \in Int : days = b.length /\ days > 0
  BY <1>1
<1>3. PICK buffer \in Int :
        /\ buffer = Scheduling!DateOf(zone, b.start) - Scheduling!DateOf(zone, b.from)
        /\ buffer >= 0
  <2>1. /\ Scheduling!DateOf(zone, b.start) \in Int /\ Scheduling!DateOf(zone, b.from) \in Int
        /\ Scheduling!DateOf(zone, b.from) <= Scheduling!DateOf(zone, b.start)
    BY <1>0, <1>1, DatesInOrder, DateAndMinute
  <2> QED BY <2>1
<1>4. PICK r : r = Scheduling!Buffered(date, days, buffer)
  OBVIOUS
<1>5. date \in Int
  BY Lengths
<1>6. r.start \in Int /\ r.end \in Int
  BY <1>0, <1>4, <1>5, DaysAround
<1>7. r.from \in Int /\ r.to \in Int
  BY <1>0, <1>4, <1>5, DaysAround
<1>8. r.from <= r.start
  BY <1>0, <1>3, <1>4, <1>5, DaysAround
<1>9. r.start < r.end
  BY <1>0, <1>2, <1>4, <1>5, DaysAround
<1>10. r.end <= r.to
  BY <1>0, <1>3, <1>4, <1>5, DaysAround
<1>11. Scheduling!Replace(b, r)
  BY <1>2, <1>3, <1>4 DEF Scheduling!MoveDays
<1> QED BY <1>6, <1>7, <1>8, <1>9, <1>10, <1>11, Moved

\* A local time within the day of a date is of that date.
LEMMA OpenThen ==
  ASSUME NEW z \in Zones, NEW date \in Int, NEW day \in Int, day = date * Day,
         NEW from \in 0..(Day - 1), NEW to \in 1..Day, NEW t \in Int,
         NEW l \in Int, l = Scheduling!Local(z, t), day + from <= l, l < day + to,
         \A k \in Int : from <= k /\ k < to => k \in Scheduling!OpenMinutes(date)
  PROVE  Scheduling!MinuteOf(z, t) \in Scheduling!OpenMinutes(Scheduling!DateOf(z, t))
<1>1. Day \in Nat \ {0}
  BY Clock
<1>2. PICK d \in Int : d = Scheduling!DateOf(z, t)
  BY DateAndMinute
<1>3. PICK m \in 0..(Day - 1) : m = Scheduling!MinuteOf(z, t)
  BY DateAndMinute
<1>4. d >= date
  BY <1>1, <1>2, DateAndMinute
<1>5. ~(d >= date + 1)
  <2>1. PICK next \in Int : next = (date + 1) * Day /\ next = day + Day
    BY <1>1, Division
  <2>2. date + 1 \in Int
    OBVIOUS
  <2>3. d >= date + 1 <=> l >= next
    BY <1>2, <2>1, <2>2, DateAndMinute
  <2> QED BY <1>1, <2>1, <2>3
<1>6. d = date
  BY <1>4, <1>5
<1>7. l = day + m
  BY <1>2, <1>3, <1>6, DateAndMinute
<1>8. from <= m /\ m < to
  BY <1>1, <1>7
<1> QED BY <1>2, <1>3, <1>6, <1>8

\* Sessions that fit lie in open time, unless the clock goes through an hour twice.
LEMMA OpenAllAlong ==
  ASSUME SlotsInv, NEW date \in Int, NEW s \in Scheduling!Starts(date), NEW n \in Nat,
         Scheduling!Fits(date, s, n), NEW b, b.start = s.at,
         b.end = s.at + n * Sessions.session, ~Scheduling!Passed(b),
         NEW t \in b.start..(b.end - 1)
  PROVE  Scheduling!MinuteOf(zone, t) \in Scheduling!OpenMinutes(Scheduling!DateOf(zone, t))
<1>1. zone \in Zones /\ Day \in Nat \ {0}
  BY SlotsAssumption DEF SlotsInv, Scheduling!ClockAssumption
<1>2. PICK day \in Int : day = date * Day
  BY <1>1
<1>3. /\ s.at \in Int /\ s.minute \in 0..(Day - 1) /\ s.spanEnd \in 1..Day
      /\ Scheduling!Local(zone, s.at) = day + s.minute
      /\ \A k \in Int : s.minute <= k /\ k < s.spanEnd => k \in Scheduling!OpenMinutes(date)
  BY <1>2, StartsAreOpen
<1>4. PICK w \in Int : w = n * Sessions.session
  BY Lengths
<1>5. PICK e \in Int : e = s.at + w /\ e = b.end /\ e = s.at + n * Sessions.session
  BY <1>3, <1>4
<1>6. t \in Int /\ s.at <= t /\ t < e
  BY <1>3, <1>5
<1>7. PICK l \in Int : l = Scheduling!Local(zone, t)
  BY <1>1, <1>6, Clock
<1>8. s.minute + w <= s.spanEnd
  BY <1>4 DEF Scheduling!Fits
<1>9. CASE zone.shift >= 0
  <2>1. PICK f \in Int : f = Scheduling!Local(zone, e)
    BY <1>1, Clock
  <2>2. f <= day + s.spanEnd
    <3>1. s.at <= e
      BY <1>3, <1>6
    <3> QED BY <1>2, <1>5, <2>1, <3>1, FitsInSpan
  <2>3. l < f
    BY <1>1, <1>6, <1>7, <1>9, <2>1, Clock
  <2>4. day + s.minute <= l
    <3>1. PICK a \in Int : a = s.at
      BY <1>3
    <3>2. PICK m \in Int : m = s.minute
      BY <1>3
    <3>3. Scheduling!Local(zone, a) = day + m
      BY <1>3, <3>1, <3>2
    <3>4. day + m <= l
      <4>1. PICK base, shift \in Int : base = zone.base /\ shift = zone.shift /\ shift >= 0
        BY <1>1, <1>9, Clock
      <4>2. CASE t < zone.from
        <5>1. l = t + base /\ day + m = a + base
          BY <1>1, <1>6, <1>7, <3>1, <3>3, <4>1, <4>2, Clock
        <5> QED BY <1>6, <3>1, <5>1
      <4>3. CASE t >= zone.from
        <5>1. l = t + base + shift /\ (day + m = a + base \/ day + m = a + base + shift)
          BY <1>1, <1>6, <1>7, <3>1, <3>3, <4>1, <4>3, Clock
        <5> QED BY <1>6, <3>1, <4>1, <5>1
      <4> QED BY <1>1, <1>6, <4>2, <4>3, Clock
    <3> QED BY <3>2, <3>4
  <2>5. day + s.minute <= l /\ l < day + s.spanEnd
    BY <1>3, <2>2, <2>3, <2>4
  <2> QED BY <1>1, <1>2, <1>3, <1>6, <1>7, <2>5, OpenThen
<1>10. CASE zone.shift = -Hour
  <2>1. l <= day + s.minute + (t - s.at)
    <3>1. CASE t < zone.from
      <4>1. /\ l = t + zone.base /\ day + s.minute = s.at + zone.base
            /\ zone.base \in Int
        BY <1>1, <1>3, <1>6, <1>7, <3>1, Clock
      <4> QED BY <1>3, <1>6, <4>1
    <3>2. CASE s.at >= zone.from
      <4>1. /\ l = t + zone.base + zone.shift
            /\ day + s.minute = s.at + zone.base + zone.shift
            /\ zone.base \in Int /\ zone.shift \in Int
        BY <1>1, <1>3, <1>6, <1>7, <3>2, Clock
      <4> QED BY <1>3, <1>6, <4>1
    <3>3. CASE s.at < zone.from /\ t >= zone.from
      <4>1. /\ l = t + zone.base + zone.shift /\ day + s.minute = s.at + zone.base
        BY <1>1, <1>3, <1>6, <1>7, <3>3, Clock
      <4>2. zone.base \in Int /\ zone.shift < 0 /\ zone.shift \in Int
        BY <1>1, <1>10, Clock
      <4> QED BY <1>3, <1>6, <4>1, <4>2
    <3> QED BY <1>1, <1>3, <1>6, <3>1, <3>2, <3>3, Clock
  <2>2. day + s.minute <= l
    <3>1. CASE t < zone.from
      <4>1. /\ l = t + zone.base /\ day + s.minute = s.at + zone.base
            /\ zone.base \in Int
        BY <1>1, <1>3, <1>6, <1>7, <3>1, Clock
      <4> QED BY <1>3, <1>6, <4>1
    <3>2. CASE s.at >= zone.from
      <4>1. /\ l = t + zone.base + zone.shift
            /\ day + s.minute = s.at + zone.base + zone.shift
            /\ zone.base \in Int /\ zone.shift \in Int
        BY <1>1, <1>3, <1>6, <1>7, <3>2, Clock
      <4> QED BY <1>3, <1>6, <4>1
    <3>3. CASE s.at < zone.from /\ t >= zone.from
      <4>1. PICK u \in Int : u = zone.from - 1 /\ u + 1 = zone.from
        BY <1>1, Clock
      <4>2. u \in b.start..(b.end - 1)
        BY <1>3, <1>5, <1>6, <3>3, <4>1
      <4>3. ~(Scheduling!Local(zone, u + 1) < Scheduling!Local(zone, u))
        BY <4>2 DEF Scheduling!Passed
      <4>4. /\ Scheduling!Local(zone, u) = u + zone.base
            /\ Scheduling!Local(zone, u + 1) = u + 1 + zone.base + zone.shift
            /\ zone.base \in Int /\ zone.shift \in Int
        BY <1>1, <4>1, Clock
      <4>5. zone.shift >= -1
        BY <4>1, <4>3, <4>4
      <4>6. l = t + zone.base + zone.shift /\ day + s.minute = s.at + zone.base
        BY <1>1, <1>3, <1>6, <1>7, <3>3, Clock
      <4> QED BY <1>1, <1>3, <1>6, <3>3, <4>4, <4>5, <4>6, Clock
    <3> QED BY <1>1, <1>3, <1>6, <3>1, <3>2, <3>3, Clock
  <2>3. day + s.minute <= l /\ l < day + s.spanEnd
    BY <1>3, <1>5, <1>6, <1>8, <2>1, <2>2
  <2> QED BY <1>1, <1>2, <1>3, <1>6, <1>7, <2>3, OpenThen
<1> QED BY <1>1, <1>9, <1>10, Clock

\* A step makes one booking at most, and it is well formed.
LEMMA SlotsSteps ==
  ASSUME SlotsInv, Scheduling!Next
  PROVE  bookings' \subseteq bookings \/ \E c \in Stored : bookings' \subseteq bookings \cup {c}
<1>1. CASE \E date \in Dates : \E b \in bookings :
             Scheduling!MoveDays(b, date)
               \/ \E m \in Scheduling!Minutes : Scheduling!MoveHours(b, date, m)
  BY <1>1, DaysMoved, HoursMoved
<1>2. CASE \E date \in Dates : \E s \in Scheduling!Slots(date), n \in 1..Sessions.maxBlocks :
             Scheduling!HoldHours(date, s.at, n)
  BY <1>2, HoursHeld
<1>3. CASE \E date \in Dates : \E days \in 1..WholeDays.maxDays : Scheduling!HoldDays(date, days)
  BY <1>3, DaysHeld
<1>4. CASE \E b \in bookings : Scheduling!RunOut(b) \/ Scheduling!Settle(b)
  <2>1. PICK b \in bookings : Scheduling!Marked(b)
    BY <1>4 DEF Scheduling!RunOut, Scheduling!Settle
  <2>2. PICK c : c = [b EXCEPT !.overdue = ~b.overdue]
    OBVIOUS
  <2>3. b \in Stored
    BY DEF SlotsInv
  <2>4. PICK o \in BOOLEAN : o = ~b.overdue
    OBVIOUS
  <2>5. c \in Stored
    BY <2>2, <2>3, <2>4 DEF Stored
  <2>6. bookings' \subseteq bookings \cup {c}
    BY <2>1, <2>2 DEF Scheduling!Marked
  <2> QED BY <2>5, <2>6
<1>5. CASE \/ \E w \in Windows : Scheduling!SetHours(w)
           \/ \E o \in Overrides : Scheduling!AddOverride(o) \/ Scheduling!RemoveOverride(o)
           \/ \E p \in Periods : Scheduling!TakeTimeOff(p) \/ Scheduling!EndTimeOff(p)
           \/ \E z \in Zones : Scheduling!SetZone(z)
           \/ Scheduling!Expire
           \/ Scheduling!Tick
  BY <1>5 DEF Scheduling!SetHours, Scheduling!AddOverride, Scheduling!RemoveOverride,
     Scheduling!TakeTimeOff, Scheduling!EndTimeOff, Scheduling!SetZone, Scheduling!Expire,
     Scheduling!Expired, Scheduling!Tick
<1> QED BY <1>1, <1>2, <1>3, <1>4, <1>5 DEF Scheduling!Next

\* What a step does to the rest.
LEMMA SlotsSettings ==
  ASSUME SlotsInv, Scheduling!Next
  PROVE  /\ instant' \in Int /\ zone' \in Zones /\ weekly' \in Windows
         /\ overrides' \subseteq Overrides /\ off' \subseteq Periods
<1> USE DEF SlotsInv
<1>1. CASE \E date \in Dates : \E b \in bookings :
             Scheduling!MoveDays(b, date)
               \/ \E m \in Scheduling!Minutes : Scheduling!MoveHours(b, date, m)
  <2>1. PICK b, r : Scheduling!Replace(b, r)
    BY <1>1 DEF Scheduling!MoveDays, Scheduling!MoveHours
  <2> QED BY <2>1 DEF Scheduling!Replace
<1>2. CASE \E date \in Dates : \E s \in Scheduling!Slots(date), n \in 1..Sessions.maxBlocks :
             Scheduling!HoldHours(date, s.at, n)
  BY <1>2 DEF Scheduling!HoldHours
<1>3. CASE \E date \in Dates : \E days \in 1..WholeDays.maxDays : Scheduling!HoldDays(date, days)
  BY <1>3 DEF Scheduling!HoldDays
<1>4. CASE \E w \in Windows : Scheduling!SetHours(w)
  BY <1>4 DEF Scheduling!SetHours
<1>5. CASE \E o \in Overrides : Scheduling!AddOverride(o) \/ Scheduling!RemoveOverride(o)
  BY <1>5 DEF Scheduling!AddOverride, Scheduling!RemoveOverride
<1>6. CASE \E p \in Periods : Scheduling!TakeTimeOff(p) \/ Scheduling!EndTimeOff(p)
  BY <1>6 DEF Scheduling!TakeTimeOff, Scheduling!EndTimeOff
<1>7. CASE \E z \in Zones : Scheduling!SetZone(z)
  BY <1>7 DEF Scheduling!SetZone
<1>8. CASE Scheduling!Tick
  BY <1>8 DEF Scheduling!Tick
<1>9. CASE Scheduling!Expire \/ \E b \in bookings : Scheduling!RunOut(b) \/ Scheduling!Settle(b)
  BY <1>9 DEF Scheduling!Expire, Scheduling!RunOut, Scheduling!Settle, Scheduling!Marked
<1> QED BY <1>1, <1>2, <1>3, <1>4, <1>5, <1>6, <1>7, <1>8, <1>9 DEF Scheduling!Next

LEMMA SlotsNext == SlotsInv /\ [Scheduling!Next]_slotVars => SlotsInv'
<1> SUFFICES ASSUME SlotsInv, [Scheduling!Next]_slotVars PROVE SlotsInv'
  OBVIOUS
<1>1. CASE UNCHANGED slotVars
  BY <1>1 DEF SlotsInv, slotVars
<1>2. CASE Scheduling!Next
  <2>1. bookings \subseteq Stored /\ IsFiniteSet(bookings)
    BY DEF SlotsInv
  <2>2. \A c : IsFiniteSet(bookings \cup {c})
    BY <2>1, FS_AddElement
  <2>3. bookings' \subseteq Stored /\ IsFiniteSet(bookings')
    <3>1. CASE bookings' \subseteq bookings
      BY <2>1, <3>1, FS_Subset
    <3>2. ASSUME NEW c \in Stored, bookings' \subseteq bookings \cup {c}
          PROVE  bookings' \subseteq Stored /\ IsFiniteSet(bookings')
      BY <2>1, <2>2, <3>2, FS_Subset
    <3> QED BY <1>2, <3>1, <3>2, SlotsSteps
  <2> QED BY <1>2, <2>3, SlotsSettings DEF SlotsInv
<1> QED BY <1>1, <1>2

LEMMA OpenWhenHeld == SlotsInv => Scheduling!HoldsOpenTime
<1> SUFFICES ASSUME SlotsInv, NEW date \in Dates, NEW s \in Scheduling!Slots(date),
                    NEW n \in 1..Sessions.maxBlocks,
                    NEW r \in Scheduling!HourlyRanges(date, s.at, n),
                    ~Scheduling!Passed(r), NEW t \in r.start..(r.end - 1)
             PROVE  Scheduling!MinuteOf(zone, t)
                      \in Scheduling!OpenMinutes(Scheduling!DateOf(zone, t))
  BY DEF Scheduling!HoldsOpenTime
<1>1. PICK u \in Scheduling!Starts(date) :
        Scheduling!Free(date, u, n) /\ r = Scheduling!RangeOf(date, u, n)
  BY DEF Scheduling!HourlyRanges
<1>2. r.start = u.at /\ r.end = u.at + n * Sessions.session
  BY <1>1 DEF Scheduling!RangeOf
<1>3. Scheduling!Fits(date, u, n) /\ date \in Int /\ n \in Nat
  BY <1>1, Lengths DEF Scheduling!Free
<1> QED BY <1>2, <1>3, OpenAllAlong

\* Local days follow one upon another and the earlier of two equal times wins; the
\* times and days a page offers can be held for as long as it says and no longer,
\* lie in the opening hours, and are refused for a booking that is over or whose
\* hold has run out at most, for any schedules, overrides, periods off, lengths,
\* buffers, bookings and zones whose clock changes once, forward by less than a day
\* or back by an hour within a date (time.ts, days.ts, availability.ts,
\* slot-data.ts).
THEOREM CalendarHolds == OfficeSpec => []CalendarIsTrue
<1> DEFINE I == part = "slots" => SlotsInv
<1>1. Start => I
  BY SlotsInit
<1>2. I /\ [Step]_all => I'
  BY Alone, SlotsNext
<1>3. I => CalendarIsTrue
  BY Tile, Earlier, SayHours, SayDays, OpenWhenHeld, UnseenOnly DEF CalendarIsTrue
<1> QED BY <1>1, <1>2, <1>3, PTL DEF OfficeSpec

-----------------------------------------------------------------------------
(* All parts.                                                              *)

LEMMA ServicesTyped == ServicesInv => Offering!TypeOK
<1> SUFFICES ASSUME ServicesInv PROVE Offering!TypeOK
  OBVIOUS
<1>1. /\ row \in [Service -> Offering!Row \cup {Null, Gone}] /\ order \in [Service -> Nat]
      /\ locked \in [Service -> Handler \cup {Null}] /\ mended \in BOOLEAN
      /\ \A r \in Handler : change[r] \in Changes \cup Orders \cup {Null}
  BY DEF ServicesInv, Rows, Requests
<1>2. \A r \in Handler : change[r] # Null => change[r].kind \in {"patch", "order"}
  BY <1>1, Kinds
<1>3. \A s \in Service : locked[s] # Null =>
        Offering!Ordering(locked[s]) /\ s \in change[locked[s]].done
  BY Kinds DEF ServicesInv, LocksHeld, Offering!Ordering
<1> QED BY <1>1, <1>2, <1>3 DEF Offering!TypeOK

\* The states of each part are well typed, whatever the constants of the others.
THEOREM OfficeTyping == OfficeSpec => []TypesOK
<1> DEFINE I == /\ Inv
                /\ part = "pages" => PagesInv
                /\ part \in {"services", "order"} => ServicesInv
                /\ part = "accounts" => AccountsInv
                /\ part = "notices" => NoticesInv
                /\ part = "slots" => SlotsInv
                /\ part = "jobs" => JobsInv
                /\ part = "migrations" => MigrationsInv
<1>1. Start => I
  BY InvInit, PagesInit, ServicesInit, AccountsInit, NoticesInit, SlotsInit, JobsInit,
    MigrationsInit DEF Start
<1>2. I /\ [Step]_all => I'
  <2> SUFFICES ASSUME I, [Step]_all PROVE I'
    OBVIOUS
  <2>1. Inv'
    BY Alone, NextStep
  <2>2. /\ (part = "pages" => PagesInv)'
        /\ (part \in {"services", "order"} => ServicesInv)'
        /\ (part = "accounts" => AccountsInv)'
        /\ (part = "notices" => NoticesInv)'
    BY Alone, PagesNext, ServicesNext, AccountsNext, NoticesNext
  <2>3. /\ (part = "slots" => SlotsInv)'
        /\ (part = "jobs" => JobsInv)'
        /\ (part = "migrations" => MigrationsInv)'
    BY Alone, SlotsNext, JobsNext, MigrationsNext
  <2> QED BY <2>1, <2>2, <2>3
<1>3. I => TypesOK
  BY ServicesTyped, SlotsTyped DEF TypesOK, Inv, PagesInv, AccountsInv, NoticesInv, JobsInv,
    MigrationsInv
<1> QED BY <1>1, <1>2, <1>3, PTL DEF OfficeSpec
=============================================================================
