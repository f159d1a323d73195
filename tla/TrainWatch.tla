----------------------------- MODULE TrainWatch -----------------------------
(***************************************************************************)
(* One train of one journey's board, and the ingest loop that reads the    *)
(* board every Period minutes while the journey is watched.  The operator  *)
(* may announce a delay, shorten it or cancel the train at any moment      *)
(* until it leaves.                                                        *)
(***************************************************************************)
EXTENDS WatchSchedule

CONSTANTS
  Journeys,    \* the journeys a behaviour may be about
  Departures,  \* the scheduled times of the train
  Delays,      \* the delays the operator announces, in minutes
  Period,      \* minutes between two boards the loop reads
  Horizon      \* bound: the last instant

ASSUME JourneysAssumption == Journeys \subseteq Journey
ASSUME DeparturesAssumption == Departures \subseteq Nat
ASSUME DelaysAssumption == Delays \subseteq Nat /\ 0 \in Delays
\* The default interval of the poll, five minutes, is the slack of a departure.
ASSUME PeriodAssumption == Period \in 1..StillDueSlack
ASSUME HorizonAssumption == Horizon \in Nat

VARIABLES
  journey,    \* the journey's settings
  scheduled,  \* the train's base_departure_date_time
  now,
  delay,      \* departure_date_time is scheduled + delay
  cancelled,
  seen,       \* the last reading of the train the poll handled
  owed        \* the last reading a poll of the watch had to handle (history)

vars == <<journey, scheduled, now, delay, cancelled, seen, owed>>

Unseen == [cancelled |-> FALSE, delay |-> NoTime]
Reading == [cancelled |-> cancelled, delay |-> delay]

-----------------------------------------------------------------------------
(* What the ingest specification says of the watch, on the time line.      *)

DayStart(d) == d * DayMinutes
IsTravelDay(d) == (d % 7) + 1 \in journey.days

\* The watch of travel day d (openspec/specs/ingest/spec.md:62-63).
Opens(d) == IF journey.always THEN DayStart(d)
            ELSE DayStart(d) + journey.start - 60 * journey.lead
Closes(d) == IF journey.always THEN DayStart(d + 1) - 1
             ELSE DayStart(d) + journey.end + 60 * WatchLagHours

WatchIsOpen(t) ==
  \E d \in (t \div DayMinutes - 1)..(t \div DayMinutes + 1) :
    IsTravelDay(d) /\ Opens(d) <= t /\ t <= Closes(d)

\* The lead reaches back over midnight: the watch opens on the eve of the travel day.
OpensOnEve == Opens(0) < 0
\* It opens, for the day after, before the window of the day itself ends.
OpensDuringWindow == Opens(1) <= journey.end

\* The watch of travel day d then begins at midnight, or with the time of day of its
\* opening when that is before the end of the window; the hours of the eve are watched
\* at the end of the day itself and of the day after.
WatchedInstead(d, t) ==
  \/ /\ IF OpensDuringWindow THEN Opens(d + 1) <= t ELSE DayStart(d) <= t
     /\ t <= Closes(d)
  \/ ~OpensDuringWindow /\ Opens(d + 1) <= t /\ t < DayStart(d + 1)
  \/ Opens(d + 2) <= t /\ t < DayStart(d + 2)

\* At t, the first poll since the train was last in the station, its reading counts.
Owes(t) ==
  /\ journey.active /\ WatchIsOpen(t)
  /\ now <= scheduled + delay
  /\ cancelled => t <= scheduled + CancelledVisibleSlack

-----------------------------------------------------------------------------
Init ==
  /\ journey \in Journeys
  /\ scheduled \in Departures
  /\ now = 0
  /\ delay = 0 /\ cancelled = FALSE
  /\ seen = Unseen /\ owed = Unseen

\* The operator: a train that left, or that was cancelled, says nothing more, and
\* a departure is never announced in the past.
Announce ==
  /\ ~cancelled /\ now <= scheduled + delay
  /\ \/ cancelled' = TRUE /\ UNCHANGED delay
     \/ /\ UNCHANGED cancelled
        /\ delay' \in Delays \ {delay}
        /\ now <= scheduled + delay'
  /\ UNCHANGED <<journey, scheduled, now, seen, owed>>

\* Mutant: what is kept of a train is its time, not its delay.
PollKeepsTime ==
  /\ now + Period <= Horizon
  /\ now' = now + Period
  /\ seen' = IF /\ IsWithinWatchWindow(journey, now')
                /\ IsWatchedDeparture(journey, scheduled, scheduled + delay, now', cancelled)
             THEN [cancelled |-> cancelled, delay |-> scheduled + delay] ELSE seen
  /\ owed' = IF Owes(now') THEN Reading ELSE owed
  /\ UNCHANGED <<journey, scheduled, delay, cancelled>>

\* The journey is read when it is open, and the train handled when it is watched.
Poll ==
  /\ now + Period <= Horizon
  /\ now' = now + Period
  /\ seen' = IF /\ IsWithinWatchWindow(journey, now')
                /\ IsWatchedDeparture(journey, scheduled, scheduled + delay, now', cancelled)
             THEN Reading ELSE seen
  /\ owed' = IF Owes(now') THEN Reading ELSE owed
  /\ UNCHANGED <<journey, scheduled, delay, cancelled>>

Next == Announce \/ Poll

Spec == Init /\ [][Next]_vars

-----------------------------------------------------------------------------
(* Properties.                                                             *)

\* Every variable has its type.
TypeOK ==
  /\ journey \in Journeys /\ scheduled \in Departures
  /\ now \in 0..Horizon
  /\ delay \in Delays /\ cancelled \in BOOLEAN
  /\ {seen, owed} \subseteq [cancelled : BOOLEAN, delay : Delays \cup {NoTime}]

\* The travel windows the specification has a watch for: they do not wrap.
OrdinaryWindow == journey.start <= journey.end

\* What the ingest specification says of the watch, without more (violated: the run
\* watch_shrinks).
WatchAsSpecified == OrdinaryWindow => (IsInWatchSchedule(journey, now) <=> WatchIsOpen(now))

\* A journey whose lead stays on the travel day is watched exactly from its lead before
\* the travel window to two hours after it, also when those two hours go on after
\* midnight.  One whose lead reaches back over midnight is not: its eve is never watched
\* for it, WatchedInstead says which instants are (isInWatchSchedule compares times of
\* day and, for the eve, the weekday of yesterday; the specification says instants).
WatchFollowsSchedule ==
  OrdinaryWindow =>
    (IsInWatchSchedule(journey, now) <=>
       IF OpensOnEve
       THEN \E d \in (now \div DayMinutes - 1)..(now \div DayMinutes) :
              IsTravelDay(d) /\ WatchedInstead(d, now)
       ELSE WatchIsOpen(now))

\* Whatever the board last says of a train of the travel window reaches the ingest,
\* even a delay announced while the train is leaving: the poll that follows the
\* announcement handles it, unless the watch has closed or a cancellation is three
\* hours old (isWatchedDeparture and its two slacks).  For the journeys that are watched
\* as specified: those whose lead does not reach over midnight.
LastWordSeen ==
  OrdinaryWindow /\ ~OpensOnEve /\ IsScheduledInTravelWindow(journey, scheduled) =>
    seen \in {owed, Reading}
=============================================================================
