------------------------------ MODULE MCOffice -------------------------------
(* Office on small instances.                                              *)
EXTENDS Office, TLC

\* Two zones: in one the clock goes forward by an hour, in the other back.
Zone(base, from, shift) == [base |-> base, from |-> from, shift |-> shift]
ClockChanges == {Zone(1, 5, 2), Zone(2, 6, -2)}
Morning == [d \in 0..1 |-> {<<0, 2>>, <<2, 6>>}]
Schedules == {Morning, [d \in 0..1 |-> IF d = 0 THEN {<<4, 6>>} ELSE {<<1, 3>>}]}
Exceptions ==
  {[date |-> 1, kind |-> "block", from |-> NoTime, to |-> NoTime],
   [date |-> 0, kind |-> "open", from |-> 3, to |-> 4],
   [date |-> 1, kind |-> "block", from |-> 2, to |-> 4]}
BySession == [session |-> 2, minBlocks |-> 1, maxBlocks |-> 2, before |-> 1, after |-> 0]
ByDay == [minDays |-> 1, maxDays |-> 2, buffer |-> 1]
TwoDates == 0..1
Rests == {<<9, 11>>}

\* Changes of one field or two, some of which do not fit the other fields, and one
\* that asks for a default.
Patches ==
  {[price |-> 1], [price |-> 2], [type |-> "FIXED", value |-> 2],
   [max_blocks |-> 2], [minutes |-> 2], [mode |-> "hourly", minutes |-> 1],
   [mode |-> "daily", max_days |-> 2], [min_days |-> 2],
   [max_blocks |-> Null, max_days |-> Null]}

\* What each nightly check may find: two differences, one of which has two
\* details, and two rows.
Diff(what, detail) == [what |-> what, detail |-> detail]
Findings ==
  [reconcile_payments |-> {Diff("f", 1), Diff("f", 2), Diff("g", 1)},
   consistency_check |-> {Diff("f", 1), Diff("g", 1)}]

OneWait == <<1>>

Exchanges == Permutations(Handler)
==============================================================================
