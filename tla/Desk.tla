-------------------------------- MODULE Desk --------------------------------
(***************************************************************************)
(* The vendor's dashboard in the browser: every screen asks the API for    *)
(* what it shows, lets the vendor change it, and follows the change in one *)
(* of four ways.                                                           *)
(*   - Most screens load again once a change is answered.                  *)
(*   - The editors of the weekly hours and of the booking window keep a    *)
(*     copy of their own, made when their tab is opened; the page loads    *)
(*     again once a save is answered, the copy stays what was saved.       *)
(*   - The list of services shows a new order at once, and loads again     *)
(*     only when the API refuses it.                                       *)
(*   - The cards of the settings keep such a copy too: a switch flips at   *)
(*     once and flips back when the API refuses it, the calendar feed      *)
(*     follows the answer.                                                 *)
(* What is stored is a number for every item: 0 when it is absent or off.  *)
(* An item is a week day, a date, a booking, a service, a switch, a        *)
(* device; a service's number is its place in the list.  A path is the set *)
(* of items a load asks for.                                               *)
(* Calls are answered in any order, and any of them can be lost before or  *)
(* after the API acts on it.  A call is numbered by when it was sent.      *)
(***************************************************************************)
EXTENDS Naturals, FiniteSets, FiniteSetsExt, Functions

CONSTANTS Item,      \* what a screen lists
          MaxCalls,  \* bound: for each screen that is visited, the calls one visit makes
          Null       \* nothing shown, nobody busy

VARIABLES screen,  \* the screen that is open
          stored,  \* what the API holds: [Item -> Nat]
          path,    \* the items the screen asks for now
          data,    \* the last answer it keeps: [of, value], Null while loading or failed
          copy,    \* the open editor's or card's own state, Null when it is closed
          busy,    \* the button that is disabled: Null, "form" or an item
          net,     \* calls and answers under way
          sent,    \* how many calls were sent
          asked,   \* the newest load sent
          taken,   \* the load whose answer is shown
          edited,  \* the newest change sent
          soiled   \* history: loads up to this one may miss a change (see Soil)

vars == <<screen, stored, path, data, copy, busy, net, sent, asked, taken, edited, soiled>>

Cards   == {"settings", "feed"}  \* cards that are not loaded again
Copying == Cards \union {"hours"}  \* what is shown is a copy made when its tab was opened
Forgets == {"hours", "dates", "services", "sessions"}  \* no useVendorData: keep old data on a failed load

(* The paths of a screen: a calendar shows a range of days and a list the  *)
(* bookings or customers that match; a booking and a feed are one item.    *)
Paths == CASE screen \in {"calendar", "lists"} -> SUBSET Item \ {{}}
           [] screen \in {"booking", "feed"}   -> {{i} : i \in Item}
           [] OTHER                            -> {Item}

Answer(p) == Restrict(stored, p)

Shown == IF screen \in Copying THEN copy ELSE IF data = Null THEN Null ELSE data.value

Ready == data # Null

-----------------------------------------------------------------------------
(* Calls.  A load answers with what is stored when it is served.           *)

Load(p, calls) == /\ sent < MaxCalls[screen]
                  /\ net' = calls \union {[id |-> sent + 1, kind |-> "load", path |-> p]}
                  /\ sent' = sent + 1
                  /\ asked' = sent + 1

(* A change: set one item, put all of them, append a service, or touch     *)
(* nothing the screen lists.  by is the button it disables, was the copy   *)
(* of the render that sent it.                                             *)
Set(i, n)  == [op |-> "set", item |-> i, number |-> n]
Put(f)     == [op |-> "put", value |-> f]
Append(i)  == [op |-> "append", item |-> i]
Touch      == [op |-> "touch"]

Send(edit, by) ==
    /\ sent < MaxCalls[screen]
    /\ net' = net \union {[id |-> sent + 1, kind |-> "edit", edit |-> edit, by |-> by,
                           was |-> copy, mine |-> TRUE]}
    /\ sent' = sent + 1
    /\ edited' = sent + 1
    /\ busy' = IF by = Null THEN busy ELSE by
    /\ UNCHANGED <<screen, stored, path, asked, taken, soiled>>

(* The calls whose component is gone when they are answered.               *)
Orphaned(calls) == {IF c.kind \in {"edit", "done", "failed"} THEN [c EXCEPT !.mine = FALSE]
                                                             ELSE c : c \in calls}

-----------------------------------------------------------------------------
(* Loading, and moving to another range, filter, page or search.           *)

Init ==
    /\ screen \in DOMAIN MaxCalls
    /\ stored \in IF screen = "services" THEN {f \in [Item -> 0..Cardinality(Item)] :
                                                 IsInjective(Restrict(f, {i \in Item : f[i] # 0}))}
                                         ELSE [Item -> 0..1]
    /\ path \in Paths
    /\ data = Null /\ copy = Null /\ busy = Null
    /\ net = {[id |-> 1, kind |-> "load", path |-> path]}
    /\ sent = 1 /\ asked = 1 /\ taken = 0 /\ edited = 0 /\ soiled = 0

(* The data of the path before stays shown until the answer comes.         *)
Go(p) ==
    /\ screen \in {"calendar", "lists"} /\ p \in Paths \ {path}
    /\ path' = p
    /\ Load(p, net)
    /\ UNCHANGED <<screen, stored, data, copy, busy, taken, edited, soiled>>

(* Whatever answer arrives is shown, the newest load's or not.             *)
Loaded(c) ==
    /\ c \in net /\ c.kind = "answer"
    /\ data' = [of |-> c.path, value |-> c.value]
    /\ taken' = c.id
    /\ busy' = IF screen = "home" THEN Null ELSE busy
    /\ soiled' = IF \/ screen = "services" /\ edited > c.id
                    \/ copy # Null /\ soiled > 0
                 THEN sent ELSE soiled
    /\ net' = net \ {c}
    /\ UNCHANGED <<screen, stored, path, copy, sent, asked, edited>>

(* A failed load hides the data behind the error, or leaves it beside it.  *)
LoadFails(c) ==
    /\ c \in net /\ c.kind = "broken"
    /\ data' = IF screen \in Forgets THEN data ELSE Null
    /\ copy' = IF screen \in Forgets THEN copy ELSE Null
    /\ busy' = IF screen \in Forgets THEN busy ELSE Null
    /\ net' = IF screen \in Forgets THEN net \ {c} ELSE Orphaned(net \ {c})
    /\ UNCHANGED <<screen, stored, path, sent, asked, taken, edited, soiled>>

Retry ==
    /\ ~Ready /\ screen \notin Forgets
    /\ \A c \in net : c.kind \notin {"load", "answer", "broken"}
    /\ Load(path, net)
    /\ UNCHANGED <<screen, stored, path, data, copy, busy, taken, edited, soiled>>

-----------------------------------------------------------------------------
(* Changes on the screens that load again.                                 *)

Keep == UNCHANGED <<data, copy>>

(* The weekly hours and the booking window are saved as their editor has   *)
(* them, the whole of it.                                                  *)
SaveHours ==
    /\ screen = "hours" /\ copy # Null /\ busy = Null
    /\ \E f \in [Item -> 0..1] : copy' = f /\ Send(Put(f), "form")
    /\ UNCHANGED data

AddDate(i) ==
    /\ screen = "dates" /\ Ready /\ busy = Null /\ data.value[i] = 0
    /\ Send(Set(i, 1), "form")
    /\ Keep

RemoveDate(i) ==
    /\ screen = "dates" /\ Ready /\ data.value[i] # 0
    /\ Send(Set(i, 0), Null)
    /\ Keep

(* A day of the calendar that is open.  Its entries come from the data at  *)
(* hand, which may still be another range's.                               *)
OnDay(i) == i \in path /\ i \in DOMAIN data.value /\ data.value[i] # 0

Block(i) ==
    /\ screen = "calendar" /\ Ready /\ i \in path /\ ~OnDay(i) /\ busy # "form"
    /\ Send(Set(i, 1), "form")
    /\ Keep

Unblock(i) ==
    /\ screen = "calendar" /\ Ready /\ OnDay(i) /\ busy # i
    /\ Send(Set(i, 0), i)
    /\ Keep

(* A booking: 1 is confirmed, 2 confirmed at another time, 3 completed,    *)
(* 0 cancelled.  The dialogs are offered by what was loaded.               *)
Standing == 1..2

Decide(i, n) ==
    /\ screen = "booking" /\ Ready /\ busy = Null
    /\ i \in DOMAIN data.value /\ data.value[i] \in Standing
    /\ Send(Set(i, n), "form")
    /\ Keep

CancelBooking(i) == Decide(i, 0)
Reschedule(i)    == Decide(i, 2)
Complete(i)      == Decide(i, 3)

Revoke(i) ==
    /\ screen = "sessions" /\ Ready /\ data.value[i] # 0 /\ busy # i
    /\ Send(Set(i, 0), i)
    /\ Keep

TogglePublish(i) ==
    /\ screen = "home" /\ Ready /\ busy = Null
    /\ Send(Set(i, 1 - data.value[i]), "form")
    /\ Keep

-----------------------------------------------------------------------------
(* The services, in the order clients see them.                            *)

Listed == {i \in Item : data.value[i] # 0}

Place(f, i) == Cardinality({j \in Item : f[j] # 0 /\ f[j] <= f[i]})

Swapped(i, j) == [k \in Item |-> IF data.value[k] = 0 THEN 0
                                 ELSE Place(data.value, IF k = i THEN j ELSE IF k = j THEN i ELSE k)]

Move(i, j) ==
    /\ screen = "services" /\ Ready /\ {i, j} \subseteq Listed
    /\ Place(data.value, j) = Place(data.value, i) + 1
    /\ data' = [data EXCEPT !.value = Swapped(i, j)]
    /\ Send(Put(Swapped(i, j)), Null)
    /\ UNCHANGED copy

SaveService(i) ==
    /\ screen = "services" /\ Ready /\ busy = Null
    /\ IF i \in Listed THEN Send(Touch, "form") ELSE Send(Append(i), "form")
    /\ Keep

RemoveService(i) ==
    /\ screen = "services" /\ Ready /\ i \in Listed
    /\ Send(Set(i, 0), Null)
    /\ Keep

-----------------------------------------------------------------------------
(* Tabs.  The copy of an editor or a card is made from the page's data     *)
(* when its tab opens.  Whatever tab is left is gone with its button, and  *)
(* the answers of the calls it sent do not find it.                        *)

OpenTab ==
    /\ screen \in Copying /\ Ready /\ copy = Null /\ busy = Null
    /\ copy' = data.value
    /\ soiled' = IF edited > taken THEN sent ELSE soiled
    /\ UNCHANGED <<screen, stored, path, data, busy, net, sent, asked, taken, edited>>

LeaveTab ==
    /\ screen \in Copying \union {"dates"}
    /\ copy # Null \/ busy # Null
    /\ copy' = Null /\ busy' = Null
    /\ net' = Orphaned(net)
    /\ UNCHANGED <<screen, stored, path, data, sent, asked, taken, edited, soiled>>

(* Another tab of the page, the profile's among the settings: what is      *)
(* saved there loads the page again.                                       *)
SaveProfile ==
    /\ screen \in Copying /\ Ready /\ copy = Null /\ busy = Null
    /\ Send(Touch, "form")
    /\ Keep

Toggle(i) ==
    /\ screen = "settings" /\ copy # Null
    /\ copy' = [copy EXCEPT ![i] = 1 - @]
    /\ Send(Put(copy'), Null)
    /\ UNCHANGED data

CreateFeed(i) ==
    /\ screen = "feed" /\ copy # Null /\ i \in path /\ busy # "form"
    /\ \E n \in 1..2 \ {stored[i]} : Send(Set(i, n), "form")
    /\ Keep

DisableFeed(i) ==
    /\ screen = "feed" /\ copy # Null /\ i \in path /\ copy[i] # 0 /\ busy # i
    /\ Send(Set(i, 0), i)
    /\ Keep

-----------------------------------------------------------------------------
(* The API.                                                                *)

Applied(edit) ==
    CASE edit.op = "set"    -> [stored EXCEPT ![edit.item] = edit.number]
      [] edit.op = "put"    -> [i \in Item |-> IF screen = "services" /\ edit.value[i] = 0
                                               THEN stored[i] ELSE edit.value[i]]
      [] edit.op = "append" -> [stored EXCEPT ![edit.item] = 1 + Max(Range(stored))]
      [] OTHER              -> stored

Permitted(edit) ==
    CASE edit.op = "set" /\ screen = "booking" -> stored[edit.item] \in Standing
      [] edit.op = "put" /\ screen = "services" -> \A i \in Item : edit.value[i] # 0 => stored[i] # 0
      [] edit.op = "append" -> stored[edit.item] = 0
      [] OTHER -> TRUE

ServeLoad(c) ==
    /\ c \in net /\ c.kind = "load"
    /\ net' = (net \ {c}) \union {[id |-> c.id, kind |-> "answer", path |-> c.path,
                                   value |-> Answer(c.path)]}
    /\ UNCHANGED <<screen, stored, path, data, copy, busy, sent, asked, taken, edited, soiled>>

(* History.  An edit no later load is sure to show soils the loads sent so *)
(* far: one made elsewhere, one whose answer is lost, and where what is    *)
(* shown is not loaded again one that is served after a newer call of the  *)
(* screen's, or for a card that is gone.  So do a copy made while a change *)
(* is under way, and a save that is refused (OpenTab, Failed).             *)
Overtaken(c) == \/ asked > c.id
                \/ \E d \in net : d.kind = "edit" /\ d.id < c.id

Soil(c) == screen \in Copying \union {"services"} /\ (~c.mine \/ Overtaken(c))

Serve(c) ==
    /\ c \in net /\ c.kind = "edit" /\ Permitted(c.edit)
    /\ stored' = Applied(c.edit)
    /\ net' = (net \ {c}) \union {[c EXCEPT !.kind = "done"]}
    /\ soiled' = IF Soil(c) THEN sent ELSE soiled
    /\ UNCHANGED <<screen, path, data, copy, busy, sent, asked, taken, edited>>

(* A refusal, a call that never arrives, or an answer that never does.     *)
Fails(c) ==
    /\ c \in net /\ c.kind \in {"edit", "done", "load", "answer"}
    /\ net' = (net \ {c}) \union {IF c.kind \in {"edit", "done"} THEN [c EXCEPT !.kind = "failed"]
                                  ELSE [id |-> c.id, kind |-> "broken"]}
    /\ soiled' = IF c.kind = "done" THEN sent ELSE soiled
    /\ UNCHANGED <<screen, stored, path, data, copy, busy, sent, asked, taken, edited>>

(* Another window of the vendor's, or a customer; bounded to a screen that *)
(* nothing has soiled yet.                                                 *)
Elsewhere(i) ==
    /\ screen # "services" /\ soiled = 0
    /\ \E n \in 0..1 \ {stored[i]} : stored' = [stored EXCEPT ![i] = n]
    /\ soiled' = sent
    /\ UNCHANGED <<screen, path, data, copy, busy, net, sent, asked, taken, edited>>

-----------------------------------------------------------------------------
(* Answers to a change.                                                    *)

(* A variant: a deletion is toasted and the list left as it was.           *)
ReloadsUnlessDeleted(c) == ~(c.edit.op = "set" /\ c.edit.number = 0) /\ screen \notin Cards

Reloads(c) == CASE screen = "services" -> c.edit.op # "put"
                [] screen \in Cards    -> c.edit.op = "touch"
                [] OTHER               -> TRUE

Released(c) == IF c.mine /\ c.by # Null /\ screen # "home" THEN Null ELSE busy

Done(c) ==
    /\ c \in net /\ c.kind = "done"
    /\ IF Reloads(c)
       THEN Load(path, net \ {c})
       ELSE net' = net \ {c} /\ UNCHANGED <<sent, asked>>
    /\ copy' = IF screen = "feed" /\ c.mine /\ c.edit.op = "set"
               THEN [copy EXCEPT ![c.edit.item] = c.edit.number] ELSE copy
    /\ soiled' = IF screen = "feed" /\ edited > c.id THEN sent ELSE soiled
    /\ busy' = Released(c)
    /\ UNCHANGED <<screen, stored, path, data, taken, edited>>

(* An order that was refused is loaded again; a switch flips back to what  *)
(* it was when it was clicked, later clicks included.  An editor goes on   *)
(* with what was refused: what it shows beside the error is not saved.     *)
Failed(c) ==
    /\ c \in net /\ c.kind = "failed"
    /\ IF screen = "services" /\ c.edit.op = "put"
       THEN Load(path, net \ {c})
       ELSE net' = net \ {c} /\ UNCHANGED <<sent, asked>>
    /\ copy' = IF screen = "settings" /\ c.mine /\ c.edit.op = "put" THEN c.was ELSE copy
    /\ soiled' = IF screen = "hours" \/ (screen \in Cards /\ edited > c.id) THEN sent ELSE soiled
    /\ busy' = IF c.mine /\ c.by # Null THEN Null ELSE busy
    /\ UNCHANGED <<screen, stored, path, data, taken, edited>>

-----------------------------------------------------------------------------
Next ==
    \/ \E p \in SUBSET Item : Go(p)
    \/ Retry \/ SaveHours \/ OpenTab \/ LeaveTab \/ SaveProfile
    \/ \E i \in Item :
          \/ AddDate(i) \/ RemoveDate(i) \/ Block(i) \/ Unblock(i)
          \/ CancelBooking(i) \/ Reschedule(i) \/ Complete(i) \/ Revoke(i) \/ TogglePublish(i)
          \/ SaveService(i) \/ RemoveService(i) \/ Toggle(i) \/ CreateFeed(i) \/ DisableFeed(i)
          \/ Elsewhere(i)
          \/ \E j \in Item : Move(i, j)
    \/ \E c \in net : \/ Loaded(c) \/ LoadFails(c) \/ ServeLoad(c) \/ Serve(c) \/ Fails(c)
                      \/ Done(c) \/ Failed(c)

Spec == Init /\ [][Next]_vars

(* Types.                                                                  *)
TypeOK ==
    /\ screen \in DOMAIN MaxCalls
    /\ stored \in [Item -> Nat]
    /\ path \in Paths
    /\ data = Null \/ data.value \in [data.of -> Nat]
    /\ copy = Null \/ copy \in [path -> Nat]
    /\ busy \in {Null, "form"} \union Item
    /\ {asked, taken, edited, soiled} \subseteq 0..sent
    /\ sent \in 0..MaxCalls[screen]

(* Once nothing is under way, a screen shows what is stored, for the range *)
(* and the filter it is at (load.tsx, availability-manager.tsx,            *)
(* services-manager.tsx, settings-view.tsx): unless an older load's answer *)
(* came last, or something happened since the last load that soils it.     *)
(* Leaving the hours and coming back while they are saved is of that kind: *)
(* the editor has the hours of before then, whatever is loaded later.      *)
SettledScreenIsTrue ==
    /\ net = {} /\ Shown # Null /\ taken = asked
    /\ soiled = 0 \/ taken > soiled
    => Shown = Answer(path)
=============================================================================
