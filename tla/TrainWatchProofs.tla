-------------------------- MODULE TrainWatchProofs --------------------------
(***************************************************************************)
(* For every journey whose travel window does not wrap: what the           *)
(* arithmetic on times of day watches, on the time line.  It is the watch  *)
(* of the specification when the lead does not reach back over midnight,   *)
(* and then the last word of the board on a watched train is read.  When   *)
(* it does, the eve of the travel day is not watched for it (run           *)
(* watch_shrinks).                                                         *)
(***************************************************************************)
EXTENDS TrainWatch, TLAPS

-----------------------------------------------------------------------------
(* Types.                                                                  *)

LEMMA TypeInit == Init => TypeOK
<1>1. Unseen \in [cancelled : BOOLEAN, delay : Delays \cup {NoTime}]
  BY DEF Unseen
<1>2. 0 \in 0..Horizon /\ 0 \in Delays
  BY DelaysAssumption, HorizonAssumption
<1>. QED
  BY <1>1, <1>2 DEF Init, TypeOK

LEMMA TypeNext == TypeOK /\ [Next]_vars => TypeOK'
<1> SUFFICES ASSUME TypeOK, [Next]_vars
             PROVE  TypeOK'
  OBVIOUS
<1> USE DEF TypeOK
<1>1. CASE Announce
  BY <1>1, DelaysAssumption DEF Announce
<1>2. CASE Poll
  <2>1. Reading \in [cancelled : BOOLEAN, delay : Delays \cup {NoTime}]
    BY DEF Reading
  <2>2. now' \in 0..Horizon
    BY <1>2, PeriodAssumption, HorizonAssumption DEF Poll, StillDueSlack
  <2>3. /\ seen' \in {Reading, seen} /\ owed' \in {Reading, owed}
        /\ UNCHANGED <<journey, scheduled, delay, cancelled>>
    BY <1>2 DEF Poll
  <2>. QED
    BY <2>1, <2>2, <2>3
<1>3. CASE UNCHANGED vars
  BY <1>3 DEF vars
<1>. QED
  BY <1>1, <1>2, <1>3 DEF Next

\* Every variable has its type.
THEOREM TypeCorrect == Spec => []TypeOK
<1>. QED
  BY TypeInit, TypeNext, PTL DEF Spec

-----------------------------------------------------------------------------
(* Times of day.                                                           *)

\* A time is its day and its minute of the day.
LEMMA DayAndMinute ==
  ASSUME NEW t \in Nat
  PROVE  /\ t \div DayMinutes \in Nat
         /\ Hm(t) \in 0..(DayMinutes - 1)
         /\ t = DayMinutes * (t \div DayMinutes) + Hm(t)
  BY DEF DayMinutes, Hm

\* The weekday before is the weekday of the day before.
LEMMA YesterdayIsTheDayBefore ==
  ASSUME NEW d \in Nat
  PROVE  YesterdayWeekday((d % 7) + 1) = ((d - 1) % 7) + 1
  BY DEF YesterdayWeekday

\* Two hours after the window, on the same day or on the next.
LEMMA LagEnd ==
  ASSUME NEW hm \in 0..(DayMinutes - 1)
  PROVE  AddHours(hm, WatchLagHours) =
           IF hm + 120 < DayMinutes THEN hm + 120 ELSE hm + 120 - DayMinutes
  BY DEF AddHours, WatchLagHours, DayMinutes

LEMMA LeadStart ==
  ASSUME NEW hm \in 0..(DayMinutes - 1), NEW lead \in Nat, 60 * lead <= hm
  PROVE  SubtractHours(hm, lead) = hm - 60 * lead
  BY DEF SubtractHours, DayMinutes

-----------------------------------------------------------------------------
(* The watch.                                                              *)

\* The arithmetic of a lead.
LEMMA LeadOverMidnight ==
  ASSUME NEW a \in 0..(DayMinutes - 1), NEW l \in 0..12
  PROVE  /\ 0 * DayMinutes + a - 60 * l < 0 <=> a < 60 * l
         /\ 1 * DayMinutes + a - 60 * l = a - 60 * l + DayMinutes
         /\ a < 60 * l => a - 60 * l + DayMinutes \in 1..(DayMinutes - 1)
         /\ \A d \in Int : d * DayMinutes + a - 60 * l
                            = (a - 60 * l + DayMinutes) + (d - 1) * DayMinutes
  BY DEF DayMinutes

\* The numbers of a journey that is not watched all day.
LEMMA JourneyTimes ==
  ASSUME TypeOK, ~journey.always
  PROVE  /\ journey.start \in 0..(DayMinutes - 1) /\ journey.end \in 0..(DayMinutes - 1)
         /\ journey.lead \in 0..WatchLeadHoursMax /\ journey.lead \in Nat
         /\ OpensOnEve <=> journey.start < 60 * journey.lead
         /\ \A d \in Int : Opens(d) = d * DayMinutes + journey.start - 60 * journey.lead
         /\ \A d \in Int : Closes(d) = d * DayMinutes + journey.end + 120
<1>1. journey \in Journey
  BY JourneysAssumption DEF TypeOK
<1>2. /\ journey.start \in 0..(DayMinutes - 1) /\ journey.end \in 0..(DayMinutes - 1)
      /\ journey.lead \in 0..12
  BY <1>1 DEF Journey, WatchLeadHoursMax
<1>3. \A d \in Int : Opens(d) = d * DayMinutes + journey.start - 60 * journey.lead
  BY DEF Opens, DayStart
<1>4. \A d \in Int : Closes(d) = d * DayMinutes + journey.end + 120
  BY DEF Closes, DayStart, WatchLagHours
<1>5. OpensOnEve <=> journey.start < 60 * journey.lead
  <2>1. Opens(0) = 0 * DayMinutes + journey.start - 60 * journey.lead
    BY <1>3
  <2>2. 0 * DayMinutes + journey.start - 60 * journey.lead < 0
          <=> journey.start < 60 * journey.lead
    BY <1>2, LeadOverMidnight
  <2>. QED
    BY <2>1, <2>2 DEF OpensOnEve
<1>. QED
  BY <1>2, <1>3, <1>4, <1>5 DEF WatchLeadHoursMax

\* A lead over midnight is not of a journey watched all day.
LEMMA EveMeansLead == ASSUME TypeOK, OpensOnEve PROVE ~journey.always
  BY DEF OpensOnEve, Opens, DayStart, DayMinutes

\* The day of t opens its own watch and closes the one of the day before.
LEMMA WatchOfTheDay ==
  ASSUME TypeOK, OrdinaryWindow, ~OpensOnEve, NEW t \in Nat, ~journey.always,
         NEW q, q = t \div DayMinutes
  PROVE  WatchIsOpen(t) <=>
           \/ /\ IsTravelDay(q)
              /\ journey.start - 60 * journey.lead <= Hm(t)
              /\ Hm(t) <= journey.end + 120
           \/ IsTravelDay(q - 1) /\ Hm(t) <= journey.end + 120 - DayMinutes
<1> DEFINE h == Hm(t)
           a == journey.start
           b == journey.end
           l == journey.lead
<1>1. /\ a \in 0..(DayMinutes - 1) /\ b \in 0..(DayMinutes - 1) /\ l \in Nat
      /\ a <= b /\ 60 * l <= a
  BY JourneyTimes DEF OrdinaryWindow
<1>2. q \in Nat /\ h \in 0..(DayMinutes - 1) /\ t = DayMinutes * q + h
  BY DayAndMinute
<1>3. WatchIsOpen(t) <=> \E d \in (q - 1)..(q + 1) :
        IsTravelDay(d) /\ d * DayMinutes + a - 60 * l <= t /\ t <= d * DayMinutes + b + 120
  BY DEF WatchIsOpen, Opens, Closes, DayStart, WatchLagHours
<1> HIDE DEF h, a, b, l
<1>4. ASSUME NEW d \in (q - 1)..(q + 1)
      PROVE  /\ d = q => ( /\ (d * DayMinutes + a - 60 * l <= t <=> a - 60 * l <= h)
                           /\ (t <= d * DayMinutes + b + 120 <=> h <= b + 120) )
             /\ d = q - 1 => ( /\ d * DayMinutes + a - 60 * l <= t
                               /\ (t <= d * DayMinutes + b + 120 <=> h <= b + 120 - DayMinutes) )
             /\ d = q + 1 => ~(d * DayMinutes + a - 60 * l <= t)
             /\ d \in {q - 1, q, q + 1}
  BY <1>1, <1>2 DEF DayMinutes
<1>5. {q - 1, q, q + 1} \subseteq (q - 1)..(q + 1)
  BY <1>2
<1>. QED
  BY <1>3, <1>4, <1>5 DEF h, a, b, l

\* What the code computes from the time of day and the weekday.
LEMMA ScheduleOfTheDay ==
  ASSUME TypeOK, OrdinaryWindow, ~OpensOnEve, NEW t \in Nat, ~journey.always,
         NEW q, q = t \div DayMinutes
  PROVE  IsInWatchSchedule(journey, t) <=>
           \/ /\ IsTravelDay(q)
              /\ journey.start - 60 * journey.lead <= Hm(t)
              /\ Hm(t) <= journey.end + 120
           \/ IsTravelDay(q - 1) /\ Hm(t) <= journey.end + 120 - DayMinutes
<1> DEFINE h == Hm(t)
           a == journey.start
           b == journey.end
           l == journey.lead
           today == IsTravelDay(q)
           eve == IsTravelDay(q - 1)
<1>1. /\ a \in 0..(DayMinutes - 1) /\ b \in 0..(DayMinutes - 1) /\ l \in Nat
      /\ a <= b /\ 60 * l <= a
  BY JourneyTimes DEF OrdinaryWindow
<1>2. q \in Nat /\ h \in 0..(DayMinutes - 1)
  BY DayAndMinute
<1>3. /\ Weekday(t) \in journey.days <=> today
      /\ YesterdayWeekday(Weekday(t)) \in journey.days <=> eve
  BY <1>2, YesterdayIsTheDayBefore DEF Weekday, IsTravelDay
<1>4. IsInCoreWatchSchedule(journey, t) <=> today /\ a - 60 * l <= h /\ h <= b
  <2>1. SubtractHours(a, l) = a - 60 * l
    BY <1>1, LeadStart
  <2>3. IsInCoreWatchSchedule(journey, t) <=>
          \/ today /\ InWindow(h, a - 60 * l, b)
          \/ a - 60 * l > a /\ eve /\ h >= a - 60 * l
    BY <1>3, <2>1 DEF IsInCoreWatchSchedule
  <2> HIDE DEF h, a, b, l, today, eve
  <2>4. ~(a - 60 * l > a) /\ a - 60 * l <= b
    BY <1>1 DEF DayMinutes
  <2>. QED
    BY <2>3, <2>4 DEF InWindow
<1>5. IsInLagWindow(journey, t, WatchLagHours) <=>
        \/ today /\ b < h /\ h <= b + 120
        \/ eve /\ h <= b + 120 - DayMinutes
  <2>1. IsInLagWindow(journey, t, WatchLagHours) <=>
          IF AddHours(b, WatchLagHours) >= b
          THEN today /\ b < h /\ h <= AddHours(b, WatchLagHours)
          ELSE (today /\ b < h) \/ (eve /\ h <= AddHours(b, WatchLagHours))
    BY <1>3 DEF IsInLagWindow, WatchLagHours
  <2>2. AddHours(b, WatchLagHours) =
          IF b + 120 < DayMinutes THEN b + 120 ELSE b + 120 - DayMinutes
    BY <1>1, LagEnd
  <2> HIDE DEF h, a, b, l, today, eve
  <2>. QED
    BY <1>1, <1>2, <2>1, <2>2 DEF DayMinutes
<1> HIDE DEF h, a, b, l, today, eve
<1>6. IsInWatchSchedule(journey, t) <=>
        \/ today /\ a - 60 * l <= h /\ h <= b + 120
        \/ eve /\ h <= b + 120 - DayMinutes
  BY <1>1, <1>2, <1>4, <1>5 DEF IsInWatchSchedule, DayMinutes
<1>. QED
  BY <1>6 DEF h, a, b, l, today, eve

\* On such journeys the code's watch is the specification's, at every instant.
LEMMA WatchAgrees ==
  ASSUME TypeOK, OrdinaryWindow, ~OpensOnEve, NEW t \in Nat
  PROVE  IsInWatchSchedule(journey, t) <=> WatchIsOpen(t)
<1> DEFINE q == t \div DayMinutes
<1>1. CASE ~journey.always
  BY <1>1, WatchOfTheDay, ScheduleOfTheDay
<1>2. CASE journey.always
  <2>1. q \in Nat /\ Hm(t) \in 0..(DayMinutes - 1) /\ t = DayMinutes * q + Hm(t)
    BY DayAndMinute
  <2>2. IsInWatchSchedule(journey, t) <=> IsTravelDay(q)
    BY <1>2 DEF IsInWatchSchedule, IsInCoreWatchSchedule, IsInLagWindow, Weekday, IsTravelDay
  <2>3. WatchIsOpen(t) <=> \E d \in (q - 1)..(q + 1) :
          IsTravelDay(d) /\ d * DayMinutes <= t /\ t <= (d + 1) * DayMinutes - 1
    BY <1>2 DEF WatchIsOpen, Opens, Closes, DayStart
  <2> HIDE DEF q
  <2>4. ASSUME NEW d \in (q - 1)..(q + 1)
        PROVE  /\ d = q => d * DayMinutes <= t /\ t <= (d + 1) * DayMinutes - 1
               /\ d = q - 1 => ~(t <= (d + 1) * DayMinutes - 1)
               /\ d = q + 1 => ~(d * DayMinutes <= t)
               /\ d \in {q - 1, q, q + 1}
    BY <2>1, SMTT(30) DEF DayMinutes
  <2>5. q \in (q - 1)..(q + 1)
    BY <2>1
  <2>. QED
    BY <2>2, <2>3, <2>4, <2>5
<1>. QED
  BY <1>1, <1>2

\* A lead that reaches back over midnight opens at the same time of day on the eve.
LEMMA EveStart ==
  ASSUME NEW hm \in 0..(DayMinutes - 1), NEW lead \in 0..WatchLeadHoursMax, hm < 60 * lead
  PROVE  SubtractHours(hm, lead) = hm - 60 * lead + DayMinutes
  BY DEF SubtractHours, DayMinutes, WatchLeadHoursMax

\* What is watched on the day q of a journey whose lead reaches back over midnight.
WatchedOnTheDay(q, h) ==
  \/ /\ IsTravelDay(q)
     /\ \/ /\ OpensDuringWindow => Opens(1) <= h
           /\ h <= journey.end + 120
        \/ ~OpensDuringWindow /\ Opens(1) <= h
  \/ IsTravelDay(q - 1) /\ (h <= journey.end + 120 - DayMinutes \/ Opens(1) <= h)

LEMMA EveOfTheDay ==
  ASSUME TypeOK, OrdinaryWindow, OpensOnEve, NEW t \in Nat, NEW q, q = t \div DayMinutes
  PROVE  (\E d \in (q - 1)..q : IsTravelDay(d) /\ WatchedInstead(d, t))
           <=> WatchedOnTheDay(q, Hm(t))
<1> DEFINE h == Hm(t)
           b == journey.end
           o == Opens(1)
<1>1. /\ b \in 0..(DayMinutes - 1) /\ o \in 1..(DayMinutes - 1)
      /\ \A d \in Int : Opens(d) = o + (d - 1) * DayMinutes
      /\ \A d \in Int : Closes(d) = d * DayMinutes + b + 120
  <2>1. ~journey.always
    BY EveMeansLead
  <2>2. o = journey.start - 60 * journey.lead + DayMinutes
    BY <2>1, JourneyTimes, LeadOverMidnight DEF WatchLeadHoursMax
  <2>3. o \in 1..(DayMinutes - 1)
    BY <2>1, <2>2, JourneyTimes, LeadOverMidnight DEF WatchLeadHoursMax
  <2>4. \A d \in Int : Opens(d) = o + (d - 1) * DayMinutes
    BY <2>1, <2>2, JourneyTimes, LeadOverMidnight DEF WatchLeadHoursMax
  <2>. QED
    BY <2>1, <2>3, <2>4, JourneyTimes
<1>2. q \in Nat /\ h \in 0..(DayMinutes - 1) /\ t = DayMinutes * q + h
  BY DayAndMinute
<1>3. ASSUME NEW d \in (q - 1)..q
      PROVE  WatchedInstead(d, t) <=>
        \/ /\ IF OpensDuringWindow THEN o + d * DayMinutes <= t ELSE d * DayMinutes <= t
           /\ t <= d * DayMinutes + b + 120
        \/ ~OpensDuringWindow /\ o + d * DayMinutes <= t /\ t < (d + 1) * DayMinutes
        \/ o + (d + 1) * DayMinutes <= t /\ t < (d + 2) * DayMinutes
  <2>1. /\ d \in Int /\ d + 1 \in Int /\ d + 2 \in Int
        /\ (d + 1) - 1 = d /\ (d + 2) - 1 = d + 1
    BY <1>2
  <2>2. /\ Opens(d + 1) = o + d * DayMinutes
        /\ Opens(d + 2) = o + (d + 1) * DayMinutes
        /\ Closes(d) = d * DayMinutes + b + 120
    BY <1>1, <2>1
  <2>. QED
    BY <2>2 DEF WatchedInstead, DayStart
<1> HIDE DEF h, b, o
<1>4. WatchedInstead(q, t) <=>
        \/ /\ OpensDuringWindow => o <= h
           /\ h <= b + 120
        \/ ~OpensDuringWindow /\ o <= h
  <2>1. q \in (q - 1)..q
    BY <1>2
  <2>. QED
    BY <1>1, <1>2, <1>3, <2>1 DEF DayMinutes
<1>5. WatchedInstead(q - 1, t) <=> h <= b + 120 - DayMinutes \/ o <= h
  <2>1. q - 1 \in (q - 1)..q
    BY <1>2
  <2>. QED
    BY <1>1, <1>2, <1>3, <2>1 DEF DayMinutes
<1>6. (q - 1)..q = {q - 1, q}
  BY <1>2
<1>. QED
  BY <1>4, <1>5, <1>6 DEF h, b, o, WatchedOnTheDay

LEMMA ScheduleOverMidnight ==
  ASSUME TypeOK, OrdinaryWindow, OpensOnEve, NEW t \in Nat, NEW q, q = t \div DayMinutes
  PROVE  IsInWatchSchedule(journey, t) <=> WatchedOnTheDay(q, Hm(t))
<1> DEFINE h == Hm(t)
           a == journey.start
           b == journey.end
           l == journey.lead
           o == Opens(1)
           today == IsTravelDay(q)
           eve == IsTravelDay(q - 1)
<1>1. /\ ~journey.always
      /\ a \in 0..(DayMinutes - 1) /\ b \in 0..(DayMinutes - 1) /\ a <= b
      /\ o = a - 60 * l + DayMinutes /\ a < 60 * l /\ l \in 0..WatchLeadHoursMax
  <2>1. ~journey.always
    BY EveMeansLead
  <2>2. o = 1 * DayMinutes + a - 60 * l
    BY <2>1, JourneyTimes
  <2>. QED
    BY <2>1, <2>2, JourneyTimes, LeadOverMidnight DEF OrdinaryWindow, WatchLeadHoursMax
<1>2. q \in Nat /\ h \in 0..(DayMinutes - 1)
  BY DayAndMinute
<1>3. /\ Weekday(t) \in journey.days <=> today
      /\ YesterdayWeekday(Weekday(t)) \in journey.days <=> eve
  BY <1>2, YesterdayIsTheDayBefore DEF Weekday, IsTravelDay
<1>4. SubtractHours(a, l) = o
  BY <1>1, EveStart
<1>5. o > a /\ o \in 1..(DayMinutes - 1)
  <2> HIDE DEF o, a, l
  <2>. QED
    BY <1>1 DEF DayMinutes, WatchLeadHoursMax
<1>6. IsInCoreWatchSchedule(journey, t) <=>
        \/ today /\ IF o <= b THEN o <= h /\ h <= b ELSE o <= h \/ h <= b
        \/ eve /\ h >= o
  BY <1>1, <1>3, <1>4, <1>5 DEF IsInCoreWatchSchedule, InWindow
<1>7. IsInLagWindow(journey, t, WatchLagHours) <=>
        \/ today /\ b < h /\ h <= b + 120
        \/ eve /\ h <= b + 120 - DayMinutes
  <2>1. IsInLagWindow(journey, t, WatchLagHours) <=>
          IF AddHours(b, WatchLagHours) >= b
          THEN today /\ b < h /\ h <= AddHours(b, WatchLagHours)
          ELSE (today /\ b < h) \/ (eve /\ h <= AddHours(b, WatchLagHours))
    BY <1>1, <1>3 DEF IsInLagWindow, WatchLagHours
  <2>2. AddHours(b, WatchLagHours) =
          IF b + 120 < DayMinutes THEN b + 120 ELSE b + 120 - DayMinutes
    BY <1>1, LagEnd
  <2> HIDE DEF h, a, b, l, o, today, eve
  <2>. QED
    BY <1>1, <1>2, <2>1, <2>2 DEF DayMinutes
<1>8. /\ OpensDuringWindow <=> o <= b
      /\ WatchedOnTheDay(q, h) <=>
           \/ today /\ \/ (OpensDuringWindow => o <= h) /\ h <= b + 120
                       \/ ~OpensDuringWindow /\ o <= h
           \/ eve /\ (h <= b + 120 - DayMinutes \/ o <= h)
  BY DEF OpensDuringWindow, WatchedOnTheDay
<1>9. IsInWatchSchedule(journey, t) <=>
        IsInCoreWatchSchedule(journey, t) \/ IsInLagWindow(journey, t, WatchLagHours)
  BY DEF IsInWatchSchedule
<1> HIDE DEF h, a, b, l, o, today, eve
<1>10. CASE o <= b
  BY <1>1, <1>2, <1>5, <1>6, <1>7, <1>8, <1>9, <1>10 DEF h
<1>11. CASE ~(o <= b)
  BY <1>1, <1>2, <1>5, <1>6, <1>7, <1>8, <1>9, <1>11 DEF h
<1>. QED
  BY <1>10, <1>11

-----------------------------------------------------------------------------
(* The theorems.                                                           *)

\* The journey is watched as specified and the train is in its travel window.  The last
\* reading the watch owed is the one the ingest has, and the board can only
\* be ahead of it when it has nothing more to say.
Promised == OrdinaryWindow /\ ~OpensOnEve /\ IsScheduledInTravelWindow(journey, scheduled)

LastWordInv ==
  Promised =>
    \/ seen = owed
    \/ seen = Reading /\ (cancelled \/ now > scheduled + delay)

LEMMA LastWordNext ==
  ASSUME TypeOK, LastWordInv, [Next]_vars
  PROVE  LastWordInv'
<1> SUFFICES ASSUME Promised'
             PROVE  \/ seen' = owed'
                    \/ seen' = Reading' /\ (cancelled' \/ now' > scheduled' + delay')
  BY DEF LastWordInv
<1>0. UNCHANGED <<journey, scheduled>> => Promised /\ OrdinaryWindow /\ ~OpensOnEve
  BY DEF Promised, OrdinaryWindow, OpensOnEve, Opens, DayStart
<1>1. CASE Announce
  <2>1. now \in Nat /\ delay \in Nat /\ scheduled \in Nat
    BY DelaysAssumption, DeparturesAssumption, HorizonAssumption DEF TypeOK
  <2>2. /\ ~cancelled /\ ~(now > scheduled + delay)
        /\ UNCHANGED <<journey, scheduled, seen, owed>>
    BY <1>1, <2>1 DEF Announce
  <2>3. Promised
    BY <1>0, <2>2
  <2>. QED
    BY <2>2, <2>3 DEF LastWordInv
<1>2. CASE Poll
  <2>1. /\ now \in Nat /\ delay \in Nat /\ scheduled \in Nat /\ Period \in 1..StillDueSlack
        /\ now' = now + Period /\ now' \in Nat
        /\ cancelled \in BOOLEAN
        /\ UNCHANGED <<journey, scheduled, delay, cancelled>>
        /\ Reading' = Reading
    BY <1>2, DelaysAssumption, DeparturesAssumption, HorizonAssumption, PeriodAssumption
       DEF Poll, TypeOK, StillDueSlack, Reading
  <2>2. IsInWatchSchedule(journey, now') <=> WatchIsOpen(now')
    BY <1>0, <2>1, WatchAgrees
  <2>3. Promised /\ IsScheduledInTravelWindow(journey, scheduled)
    BY <1>0, <2>1 DEF Promised
  <2> DEFINE handled == /\ IsWithinWatchWindow(journey, now')
                        /\ IsWatchedDeparture(journey, scheduled, scheduled + delay, now',
                                              cancelled)
  <2>4. /\ seen' = IF handled THEN Reading ELSE seen
        /\ owed' = IF Owes(now') THEN Reading ELSE owed
    BY <1>2 DEF Poll
  <2>5. handled <=> /\ journey.active /\ WatchIsOpen(now')
                    /\ IF cancelled THEN scheduled >= now' - CancelledVisibleSlack
                       ELSE scheduled + delay >= now' - StillDueSlack
    BY <2>1, <2>2, <2>3 DEF IsWithinWatchWindow, IsWatchedDeparture, IsDepartureStillDue,
       NoTime
  <2>6. Owes(now') => handled
    BY <2>1, <2>5 DEF Owes, StillDueSlack, CancelledVisibleSlack
  <2>7. handled /\ ~Owes(now') => cancelled \/ now' > scheduled + delay
    BY <2>1, <2>5 DEF Owes, StillDueSlack, CancelledVisibleSlack
  <2> HIDE DEF handled
  <2>8. CASE handled
    BY <2>1, <2>4, <2>7, <2>8
  <2>9. CASE ~handled
    BY <2>1, <2>3, <2>4, <2>6, <2>9 DEF LastWordInv
  <2>. QED
    BY <2>8, <2>9
<1>3. CASE UNCHANGED vars
  BY <1>0, <1>3 DEF vars, LastWordInv, Reading
<1>. QED
  BY <1>1, <1>2, <1>3 DEF Next

\* The watch of a journey whose lead stays on the travel day is the specification's, and
\* that of a lead over midnight is WatchedInstead (isInWatchSchedule), for every journey,
\* at every instant.
THEOREM WatchFollows == Spec => []WatchFollowsSchedule
<1>1. TypeOK => WatchFollowsSchedule
  <2> SUFFICES ASSUME TypeOK, OrdinaryWindow
               PROVE  IsInWatchSchedule(journey, now) <=>
                        IF OpensOnEve
                        THEN \E d \in (now \div DayMinutes - 1)..(now \div DayMinutes) :
                               IsTravelDay(d) /\ WatchedInstead(d, now)
                        ELSE WatchIsOpen(now)
    BY DEF WatchFollowsSchedule
  <2>1. now \in Nat
    BY HorizonAssumption DEF TypeOK
  <2>2. CASE OpensOnEve
    BY <2>1, <2>2, EveOfTheDay, ScheduleOverMidnight
  <2>3. CASE ~OpensOnEve
    BY <2>1, <2>3, WatchAgrees
  <2>. QED
    BY <2>2, <2>3
<1>. QED
  BY <1>1, TypeCorrect, PTL

\* What the board last says of a watched train reaches the ingest, whatever the journey
\* that is watched as specified, the delays, the departure and the period of the poll up
\* to the slack (isWatchedDeparture).
THEOREM LastWordIsSeen == Spec => []LastWordSeen
<1>1. Init => LastWordInv
  BY DEF Init, LastWordInv
<1>2. TypeOK /\ LastWordInv /\ [Next]_vars => LastWordInv'
  BY LastWordNext
<1>3. LastWordInv => LastWordSeen
  BY DEF LastWordInv, LastWordSeen, Promised
<1>. QED
  BY <1>1, <1>2, <1>3, TypeCorrect, PTL DEF Spec

=============================================================================
