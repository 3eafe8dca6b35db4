------------------------------- MODULE Planner ------------------------------
(***************************************************************************)
(* The planner: from a goal, a venue, a calendar and an instant to a plan  *)
(* and its hash.  An instant is a number; a second has Second of them, as  *)
(* the clock is finer than the ends of days.  A timezone is the instants   *)
(* at which its days begin, so days may differ in length, as they do when  *)
(* clocks change.  A time of day is <<minute, second>>.                    *)
(***************************************************************************)
EXTENDS Integers, Sequences, FiniteSets, SequencesExt

CONSTANTS
  Midnight,    \* Midnight[z][d]: when day d begins in zone z
  ProbeLead,   \* how long before the guessed drop the probe starts
  ProbeWidth,  \* how long the probe lasts
  SlotStep,    \* SlotStepV1
  Second       \* the instants of a second

UTC  == "UTC"
NoTZ == "nil"
Days == DOMAIN Midnight[UTC]

NoAccount == "none"   \* an account that is not given
NoTable   == "none"   \* the table type of a slot at any table

\* Days are numbered without a gap, and in every zone a later day begins later.
ASSUME ZonesAssumption ==
  /\ UTC \in DOMAIN Midnight /\ NoTZ \notin DOMAIN Midnight
  /\ Days \subseteq Int /\ \A d, e \in Days : d..e \subseteq Days
  /\ \A z \in DOMAIN Midnight :
       /\ Midnight[z] \in [Days -> Int]
       /\ \A d, e \in Days : d < e => Midnight[z][d] < Midnight[z][e]
ASSUME ProbeAssumption ==
  /\ ProbeLead \in Nat /\ ProbeWidth \in Nat /\ SlotStep \in Nat \ {0}
  /\ ProbeLead < ProbeWidth
  /\ Second \in Nat \ {0}

----------------------------------------------------------------------------
(* Days. *)

LocalDay(t, z) ==
  CHOOSE d \in Days : Midnight[z][d] <= t /\ (d + 1 \in Days => t < Midnight[z][d + 1])

startOfDayIn(t, z) == Midnight[z][LocalDay(t, z)]

\* The instant at which the last second of the day begins.
endOfDayIn(t, z)   == Midnight[z][LocalDay(t, z) + 1] - Second

----------------------------------------------------------------------------
(* The goal. *)

wallTimeAfter(a, b) == a[1] > b[1] \/ (a[1] = b[1] /\ a[2] > b[2])

\* The zero TimeWindow: midnight to midnight without a priority.
IsZero(g) == g.start = <<0, 0>> /\ g.end = <<0, 0>> /\ g.priority = "none"

\* Goal.Validate; today is the day in UTC.
Validate(g, now) ==
  /\ g.account # NoAccount
  /\ Midnight[UTC][g.date] >= startOfDayIn(now, UTC)
  /\ g.party > 0
  /\ ~IsZero(g)
  /\ ~wallTimeAfter(g.start, g.end)

----------------------------------------------------------------------------
(* The slots. *)

\* Mutant: the walk stops before the end of the window.
enumerateTimesOpen(g) ==
  LET n == ((g.end[1] - g.start[1] - 1) \div SlotStep) + 1
      asc == [i \in 1..n |-> <<g.start[1] + (i - 1) * SlotStep, g.start[2]>>]
  IN  IF g.priority = "later" THEN Reverse(asc) ELSE asc

\* Every SlotStep minutes, both ends included; the seconds are the start's.
enumerateTimes(g) ==
  LET n == ((g.end[1] - g.start[1]) \div SlotStep) + 1
      asc == [i \in 1..n |-> <<g.start[1] + (i - 1) * SlotStep, g.start[2]>>]
  IN  IF g.priority = "later" THEN Reverse(asc) ELSE asc

normalizeTables(g) == IF g.any \/ g.tables = <<>> THEN <<NoTable>> ELSE g.tables

\* Times by tables, a time's tables in the user's order.
ExpandSlots(g) ==
  LET times  == enumerateTimes(g)
      tables == normalizeTables(g)
      m      == Len(tables)
  IN  [i \in 1..(Len(times) * m) |->
         [time |-> times[((i - 1) \div m) + 1], table |-> tables[((i - 1) % m) + 1]]]

----------------------------------------------------------------------------
(* The strategy. *)

Continuous(until)       == [tag |-> "continuous", from |-> 0, until |-> until]
Discovered(from, until) == [tag |-> "discovered", from |-> from, until |-> until]

TargetInPast(g, tz, now) == Midnight[tz][g.date] < startOfDayIn(now, tz)

\* Mutant: a guess that has passed is kept.
dropGuessAnyTime(g, tz, now) == Midnight[tz][g.date - 1]

\* Midnight of the day before the target, or now when that has passed.
dropGuess(g, tz, now) ==
  LET guess == Midnight[tz][g.date - 1] IN IF guess < now THEN now ELSE guess

bestEffortDiscoveredProbe(g, tz, now) ==
  LET from == dropGuess(g, tz, now) - ProbeLead IN Discovered(from, from + ProbeWidth)

\* The calls of PlanQuest have no observed release and no release config, so
\* that rule 2 of SelectStrategy (Explicit) never applies.
SelectStrategy(g, tz, bookable, now) ==
  IF bookable THEN Continuous(endOfDayIn(now, tz))
  ELSE bestEffortDiscoveredProbe(g, tz, now)

----------------------------------------------------------------------------
(* The plan and its hash. *)

\* The instant that fireScheduleFor gives every slot.
FireAt(s, now) == IF s.tag = "continuous" THEN now ELSE s.from + ((s.until - s.from) \div 2)

\* The venue is [ref, tz].
BuildPlan(g, v, bookable, now) ==
  LET s == SelectStrategy(g, v.tz, bookable, now)
  IN  [goal |-> g, venue |-> v, strategy |-> s,
       drop |-> IF s.tag = "continuous" THEN now ELSE s.from,
       fire |-> [i \in 1..Len(ExpandSlots(g)) |-> FireAt(s, now)]]

\* The table types as sort.Strings leaves them: how often each occurs.
SortedTables(g) ==
  [t \in ToSet(g.tables) |-> Cardinality({i \in DOMAIN g.tables : g.tables[i] = t})]

canonicalGoal(g) == [g EXCEPT !.tables = SortedTables(g)]

\* Mutant: the venue is left out.
HashWithoutVenue(p) ==
  [goal |-> canonicalGoal(p.goal), venue |-> [ref |-> "none", tz |-> NoTZ], strategy |-> p.strategy,
   drop |-> p.drop, fire |-> p.fire]

\* SHA-256 has no collisions here: a hash is the canonical payload.
Hash(p) == [p EXCEPT !.goal = canonicalGoal(p.goal)]

\* intentFromPlan: the start of the window, at the table that comes first.
intentFromPlan(p) ==
  [venue |-> p.venue.ref, date |-> p.goal.date, party |-> p.goal.party,
   slot |-> [time |-> p.goal.start, table |-> normalizeTables(p.goal)[1]],
   release |-> p.strategy]
=============================================================================
