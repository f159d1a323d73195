---------------------------- MODULE WatchSchedule ---------------------------
(***************************************************************************)
(* When is a journey watched, and which departures of its board are        *)
(* followed (domain/matching.ts)?                                          *)
(*                                                                         *)
(* Time is a number of minutes since a Monday 00:00 in Paris.  The code    *)
(* works on a weekday, 1 for Monday, and on an "HH:mm" text whose order is *)
(* the order of the minutes of the day.                                    *)
(***************************************************************************)
EXTENDS Integers

DayMinutes == 24 * 60
NoTime == -1                    \* a time the board does not give
WatchLagHours == 2              \* DEFAULT_WATCH_LAG_HOURS
WatchLeadHoursMax == 12
StillDueSlack == 5              \* minutes
CancelledVisibleSlack == 3 * 60

\* journey.active, daysOfWeek, timeWindow, watchAlways, watchLeadHours
Journey == [active : BOOLEAN, days : SUBSET (1..7),
            start : 0..(DayMinutes - 1), end : 0..(DayMinutes - 1),
            always : BOOLEAN, lead : 0..WatchLeadHoursMax]

Hm(t) == t % DayMinutes
Weekday(t) == ((t \div DayMinutes) % 7) + 1
YesterdayWeekday(w) == IF w = 1 THEN 7 ELSE w - 1

InWindow(hm, start, end) ==
  IF start <= end THEN start <= hm /\ hm <= end ELSE start <= hm \/ hm <= end

AddHours(hm, hours) == (hm + 60 * hours) % DayMinutes
SubtractHours(hm, hours) == (hm - 60 * hours) % DayMinutes

\* From the lead before the travel window to its end.  A lead that crosses midnight
\* also counts at the end of the day after a travel day.
IsInCoreWatchSchedule(j, t) ==
  LET watchStart == SubtractHours(j.start, j.lead)
  IN IF j.always THEN Weekday(t) \in j.days
     ELSE \/ Weekday(t) \in j.days /\ InWindow(Hm(t), watchStart, j.end)
          \/ /\ watchStart > j.start
             /\ YesterdayWeekday(Weekday(t)) \in j.days
             /\ Hm(t) >= watchStart

\* Mutant: the lag does not go on after midnight.
LagWithinTheDay(j, t, hours) ==
  /\ hours > 0 /\ ~j.always
  /\ Weekday(t) \in j.days
  /\ j.end < Hm(t) /\ Hm(t) <= j.end + 60 * hours

IsInLagWindow(j, t, hours) ==
  LET lagEnd == AddHours(j.end, hours)
  IN /\ hours > 0 /\ ~j.always
     /\ IF lagEnd >= j.end
        THEN Weekday(t) \in j.days /\ j.end < Hm(t) /\ Hm(t) <= lagEnd
        ELSE \/ Weekday(t) \in j.days /\ j.end < Hm(t)
             \/ YesterdayWeekday(Weekday(t)) \in j.days /\ Hm(t) <= lagEnd

IsInWatchSchedule(j, t) ==
  IsInCoreWatchSchedule(j, t) \/ IsInLagWindow(j, t, WatchLagHours)

IsWithinWatchWindow(j, t) == j.active /\ IsInWatchSchedule(j, t)

-----------------------------------------------------------------------------
\* Mutant: no tolerance for a train that is leaving.
StillDueWithoutSlack(realtime, scheduled, now) ==
  LET t == IF realtime # NoTime THEN realtime ELSE scheduled
  IN t = NoTime \/ t >= now

IsDepartureStillDue(realtime, scheduled, now) ==
  LET t == IF realtime # NoTime THEN realtime ELSE scheduled
  IN t = NoTime \/ t >= now - StillDueSlack

IsScheduledInTravelWindow(j, scheduled) ==
  Weekday(scheduled) \in j.days /\ InWindow(Hm(scheduled), j.start, j.end)

\* Lead and lag never change the set of trains: the scheduled time decides.
IsWatchedDeparture(j, scheduled, realtime, now, cancelled) ==
  /\ j.active
  /\ IF cancelled
     THEN scheduled = NoTime \/ scheduled >= now - CancelledVisibleSlack
     ELSE IsDepartureStillDue(realtime, scheduled, now)
  /\ IsInWatchSchedule(j, now)
  /\ j.always \/ scheduled = NoTime \/ IsScheduledInTravelWindow(j, scheduled)
=============================================================================
