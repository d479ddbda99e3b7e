------------------------------- MODULE Claims -------------------------------
(***************************************************************************)
(* What a vendor's calendar promises: at any time each booking owns at     *)
(* most one range of the vendor's time, a range is granted only while it   *)
(* is free of every other owner, and time off is taken only where nobody   *)
(* owns the time.  Nothing is said of holds, payments or clocks: those are *)
(* the business of Bookings, which implements this specification.          *)
(***************************************************************************)
EXTENDS Integers

CONSTANTS Booking,  \* the bookings that may ever be made
          Span,     \* the ranges a booking may occupy
          Off,      \* the periods a vendor may block off
          Nobody    \* the value of a claim that owns nothing

VARIABLES claim,    \* claim[b]: the span b owns, or Nobody
          blocked   \* the periods the vendor has blocked off

claimVars == <<claim, blocked>>

\* Half-open ranges [from, to) share an instant.
Overlaps(x, y) == x.from < y.to /\ y.from < x.to

Init == claim = [b \in Booking |-> Nobody] /\ blocked = {}

(***************************************************************************)
(* One transaction of the vendor's calendar.  It may release any number of *)
(* claims (holds that ran out), and grants or moves at most one, which     *)
(* must be free of every claim that survives the transaction.              *)
(***************************************************************************)
Serve(b) ==
  /\ \A c \in Booking \ {b} : claim'[c] \in {claim[c], Nobody}
  /\ claim'[b] \in Span \cup {Nobody}
  /\ claim'[b] \notin {claim[b], Nobody} =>
       \A c \in Booking \ {b} :
          claim'[c] # Nobody => ~ Overlaps(claim'[b], claim'[c])
  /\ claim' = [c \in Booking |-> claim'[c]]
  /\ UNCHANGED blocked

\* The vendor blocks a period off that no surviving claim touches.
TakeOff(o) ==
  /\ \A c \in Booking : claim'[c] \in {claim[c], Nobody}
  /\ \A c \in Booking : claim'[c] # Nobody => ~ Overlaps(claim'[c], o)
  /\ claim' = [c \in Booking |-> claim'[c]]
  /\ blocked' = blocked \cup {o}

GiveBack(o) == blocked' = blocked \ {o} /\ UNCHANGED claim

Next == \/ \E b \in Booking : Serve(b)
        \/ \E o \in Off : TakeOff(o) \/ GiveBack(o)

Spec == Init /\ [][Next]_claimVars
=============================================================================
