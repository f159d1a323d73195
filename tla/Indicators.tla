---------------------------- MODULE Indicators ----------------------------
(***************************************************************************)
(* What the dashboard counts (domain/paris-calendar.ts; periodStats,       *)
(* activityHeatmapDays and getDayDetail of domain/store.ts).               *)
(*                                                                         *)
(* A moment is a number of hours of UTC; Paris is one hour ahead, two in   *)
(* summer.  The events and the counters are those of the constants: an     *)
(* event is known from the moment it was detected on.                      *)
(***************************************************************************)
EXTENDS Integers, FiniteSetsExt

CONSTANTS
  Liaison,
  History,                \* events: [liaison, at, kind, delay], 0 is no known delay
  OnTime(_, _),           \* trains on time that day on that liaison
  SummerFrom, SummerTo,   \* summer time
  HeatHours               \* how far back the heatmap goes

Offset(t) == IF SummerFrom <= t /\ t < SummerTo THEN 2 ELSE 1
Local(t) == t + Offset(t)
DayOf(t) == Local(t) \div 24

\* The clocks change at 01:00 UTC; what is counted is numbers.
ASSUME ClockAssumption ==
  /\ SummerFrom \in Int /\ SummerTo \in Int /\ HeatHours \in Nat
  /\ SummerFrom % 24 = 1 /\ SummerTo % 24 = 1
ASSUME HistoryAssumption ==
  /\ IsFiniteSet(Liaison) /\ IsFiniteSet(History)
  /\ \A e \in History :
       /\ e.at \in Nat /\ e.delay \in Nat
       /\ \A l \in Liaison : OnTime(DayOf(e.at), l) \in Nat

\* Mutant: Paris is one hour ahead all year.
WinterMidnight(day) == 24 * day - 1

\* Midnight in Paris, by four corrections of midnight UTC.
Midnight(day) ==
  LET guess[i \in 0..4] ==
        IF i = 0 THEN 24 * day
        ELSE guess[i - 1] + 24 * day - Local(guess[i - 1])
  IN guess[4]

InScope(liaison, scope) == scope \in {"all", liaison}
Since(from, now, scope) ==
  {e \in History : from <= e.at /\ e.at <= now /\ InScope(e.liaison, scope)}

\* The counters of a period.
PeriodStats(from, now, scope) ==
  LET events == Since(from, now, scope)
      late == {e \in events : e.kind = "delay"}
      known == {e \in events : e.delay > 0}
  IN [events |-> Cardinality(events),
      delays |-> Cardinality(late),
      cancellations |-> Cardinality({e \in events : e.kind = "cancellation"}),
      totalDelay |-> MapThenSumSet(LAMBDA e : e.delay, known)]

Weight(e) ==
  IF e.kind = "delay" THEN (IF e.delay > 1 THEN e.delay ELSE 1)
  ELSE IF e.kind = "cancellation" THEN 60 ELSE 0

OnTimeTrains(day, scope) ==
  MapThenSumSet(LAMBDA l : IF InScope(l, scope) THEN OnTime(day, l) ELSE 0,
                Liaison)

\* Math.round(score / (1 + onTime / 2)), one at least when there is a score.
Diluted(score, onTime) ==
  LET rounded == (4 * score + 2 + onTime) \div (2 * (2 + onTime))
  IN IF score = 0 THEN 0 ELSE IF rounded = 0 THEN 1 ELSE rounded

\* A heatmap computed at now: the colour of a day.
HeatFrom(now) == now - HeatHours
Heat(day, now, scope) ==
  Diluted(MapThenSumSet(Weight,
            {e \in Since(HeatFrom(now), now, scope) : DayOf(e.at) = day}),
          OnTimeTrains(day, scope))
Level(count) ==
  CASE count = 0 -> 0 [] count \in 1..15 -> 1 [] count \in 16..40 -> 2
    [] count \in 41..90 -> 3 [] OTHER -> 4

\* What a click on a day lists (bound: a day has no more than 100 of them).
DayDetail(day, now, scope) ==
  {e \in Since(Midnight(day), now, scope) :
     e.at < Midnight(day + 1) /\ e.kind \in {"delay", "cancellation"}}
=============================================================================
