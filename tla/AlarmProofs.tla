---------------------------- MODULE AlarmProofs ----------------------------
(***************************************************************************)
(* A train is announced as suppressed only where it was, or where a        *)
(* disruption linked to its departure reads as a suppression, when no two  *)
(* trains leave one station at one time; every train that was suppressed   *)
(* is announced to who asks for it, when no journey ends where it begins;  *)
(* and the two readings of one board agree: for all trains, corridors,     *)
(* journeys, texts and ways of telling, with every fault between the steps.*)
(***************************************************************************)
EXTENDS IngestLoopProofs

\* No two trains leave a station at the same time.
Apart ==
  \A t, u \in Train, s \in Station :
    On(Calls[t], s) /\ On(Calls[u], s) /\ Time(t, s) = Time(u, s) => t = u

-----------------------------------------------------------------------------
(* What an answer tells was so when it was given.                          *)

Tells(a, o, sk) ==
  /\ DOMAIN a \subseteq Train
  /\ \A t \in DOMAIN a :
       /\ On(Calls[t], o)
       /\ a[t].delay # NoReal
       /\ a[t].how \notin {"runs", "part"} => <<t, o>> \in sk
       /\ \A s \in a[t].lost : <<t, s>> \in sk

\* A stop that a disruption shows as deleted was skipped by the disruption's train.
LEMMA StopTold ==
  ASSUME NEW a, NEW o, NEW sk, Tells(a, o, sk), NEW u, NEW stop \in DisruptionOf(a, u).stops
  PROVE  /\ u \in DOMAIN a /\ stop.station \in a[u].lost /\ On(Calls[u], stop.station)
         /\ stop.time = Time(u, stop.station)
<1>1. u \in DOMAIN a /\ stop \in StopsOf(a[u], u)
  BY DEF DisruptionOf
<1>2. PICK s \in {x \in a[u].lost : On(Calls[u], x)} :
        stop = [station |-> s, time |-> Time(u, s), deleted |-> TRUE]
  <2>1. stop.station = stop.station
    OBVIOUS
  <2>2. QED
    BY <1>1, <2>1 DEF StopsOf
<1>3. QED
  BY <1>1, <1>2

LEMMA CancellationTrue ==
  ASSUME Apart, NEW o \in Station, NEW a, NEW sk, Tells(a, o, sk), NEW t \in DOMAIN a, CancelledIn(a, t, o)
  PROVE  <<t, o>> \in sk \/ ReadsSuppressed(a, t)
<1>1. CASE a[t].how \notin {"runs", "part"}
  BY <1>1 DEF Tells
<1>2. CASE a[t].how \in {"runs", "part"}
  <2> DEFINE dep == DepartureOf(a, t)
             ds == Disruptions(a)
  <2>1. /\ dep.train = t /\ dep.links = LinksOf(a, t)
        /\ ~dep.deleted /\ ~dep.words /\ dep.real # NoReal
    BY <1>2 DEF DepartureOf, Tells
  <2>2. \A i \in DOMAIN ds : ds[i] = DisruptionOf(a, Order[i])
    BY DEF Disruptions
  <2>3. Cancelled(dep, ds, o)
    BY DEF CancelledIn
  <2> HIDE DEF dep, ds
  <2>4. \/ ImpactedCancelled(dep, ds, o)
        \/ \E i \in DOMAIN ds : Linked(ds[i], dep) /\ (ds[i].noService \/ ds[i].words)
    BY <2>1, <2>3 DEF Cancelled
  <2>5. CASE ImpactedCancelled(dep, ds, o)
    <3>1. PICK i \in DOMAIN ds : \E stop \in ds[i].stops : AtOrigin(stop, o, t)
      BY <2>1, <2>5 DEF ImpactedCancelled
    <3>2. PICK stop \in DisruptionOf(a, Order[i]).stops : AtOrigin(stop, o, t)
      BY <2>2, <3>1
    <3> DEFINE u == Order[i]
    <3>3. /\ u \in DOMAIN a /\ stop.station \in a[u].lost /\ On(Calls[u], stop.station)
          /\ stop.time = Time(u, stop.station)
      BY <3>2, StopTold
    <3>4. stop.station = o /\ stop.time \in {Untimed, Time(t, o)}
      BY <3>2 DEF AtOrigin
    <3>5. t \in Train /\ u \in Train /\ On(Calls[t], o)
      BY <3>3 DEF Tells
    <3>6. Time(u, o) \in Nat /\ Untimed \notin Nat
      BY <3>3, <3>4, <3>5, TimeIn DEF Untimed
    <3>7. Time(u, o) = Time(t, o)
      BY <3>3, <3>4, <3>6
    <3>8. t = u
      BY <3>3, <3>4, <3>5, <3>7 DEF Apart
    <3>9. QED
      BY <3>3, <3>4, <3>8 DEF Tells
  <2>6. CASE \E i \in DOMAIN ds : Linked(ds[i], dep) /\ (ds[i].noService \/ ds[i].words)
    <3>1. PICK i \in DOMAIN ds : Linked(ds[i], dep) /\ (ds[i].noService \/ ds[i].words)
      BY <2>6
    <3> DEFINE u == Order[i]
    <3>2. /\ ds[i].id = u
          /\ ds[i].noService = (u \in DOMAIN a /\ a[u].how = "noService")
          /\ ds[i].words = (u \in DOMAIN a /\ a[u].how \in {"message", "part"})
      BY <2>2 DEF DisruptionOf
    <3>3. u \in LinksOf(a, t)
      BY <2>1, <3>1, <3>2 DEF Linked
    <3>4. a[u].how \in {"noService", "message", "part"}
      BY <3>1, <3>2
    <3>5. QED
      BY <3>3, <3>4 DEF ReadsSuppressed
  <2>7. QED
    BY <2>4, <2>5, <2>6
<1>3. QED
  BY <1>1, <1>2

LEMMA OrphanTrue ==
  ASSUME NEW o, NEW a, NEW sk, Tells(a, o, sk), NEW t \in OrphansIn(a, o)
  PROVE  <<t, o>> \in sk
<1>1. PICK i \in DOMAIN Disruptions(a) :
        \E stop \in Disruptions(a)[i].stops : Disruptions(a)[i].trip = t /\ stop.station = o
  BY DEF OrphansIn, Orphans
<1>2. Disruptions(a)[i] = DisruptionOf(a, Order[i])
  BY <1>1 DEF Disruptions
<1>3. PICK stop \in DisruptionOf(a, Order[i]).stops : stop.station = o
  BY <1>1, <1>2
<1>4. Order[i] = t
  BY <1>1, <1>2 DEF DisruptionOf
<1>5. t \in DOMAIN a /\ o \in a[t].lost
  BY <1>3, <1>4, StopTold
<1>6. QED
  BY <1>5 DEF Tells

LEMMA TellsOn ==
  ASSUME NEW a, NEW o, NEW sk, NEW more, Tells(a, o, sk), sk \subseteq more
  PROVE  Tells(a, o, more)
  BY DEF Tells

LEMMA NothingTells ==
  ASSUME NEW o, NEW sk
  PROVE  Tells(NoAnswer, o, sk)
  BY DEF Tells, NoAnswer

\* An answer of the board tells what is.
LEMMA AnswerTells ==
  ASSUME NEW o, NEW a \in Answers(o), NEW sk,
         \A t \in Train : \A s \in world[t] : <<t, s>> \in sk
  PROVE  Tells(a, o, sk)
<1>1. DOMAIN a = Calling(o) /\ \A t \in Calling(o) : a[t] \in Reports(t, o)
  BY DEF Answers
<1>2. \A t \in Calling(o) : t \in Train /\ On(Calls[t], o)
  BY DEF Calling
<1>3. ASSUME NEW t \in Calling(o)
      PROVE  /\ a[t].delay # NoReal
             /\ a[t].how \notin {"runs", "part"} => <<t, o>> \in sk
             /\ \A s \in a[t].lost : <<t, s>> \in sk
  <2>1. CASE o \in world[t]
    <3>1. PICK h \in Forms : a[t] = [how |-> h, delay |-> 0, shared |-> FALSE, lost |-> world[t]]
      BY <1>1, <2>1 DEF Reports
    <3>2. a[t].delay = 0 /\ a[t].lost = world[t]
      BY <3>1
    <3>3. QED
      BY <1>2, <2>1, <3>2 DEF NoReal
  <2>2. CASE o \notin world[t]
    <3>1. PICK h \in {"runs", "part"}, d \in Delays, b \in BOOLEAN :
            a[t] = [how |-> h, delay |-> d, shared |-> b, lost |-> world[t]]
      BY <1>1, <2>2 DEF Reports
    <3>2. a[t].delay = d /\ a[t].how \in {"runs", "part"} /\ a[t].lost = world[t]
      BY <3>1
    <3>3. d \in Nat
      BY LoopBounds
    <3>4. QED
      BY <1>2, <3>2, <3>3 DEF NoReal
  <2>3. QED
    BY <2>1, <2>2
<1>4. QED
  BY <1>1, <1>2, <1>3 DEF Tells

-----------------------------------------------------------------------------
(* What the loop holds.                                                    *)

Held(l, sk) ==
  /\ {"at", "todo", "j", "answer", "left"} \subseteq DOMAIN l
  /\ l.todo \subseteq Journey
  /\ l.at \in Board \cup {"answered"} => l.j \in Journey
  /\ l.at \in Board => Tells(l.answer, l.j.origin, sk)
  /\ l.at \in {"match", "route"} => l.left \subseteq Listed(l.answer)
  /\ l.at = "orphans" => l.left \subseteq OrphansIn(l.answer, l.j.origin)

Cached == /\ DOMAIN cache = Station
          /\ \A s \in Station : Tells(cache[s].answer, s, skipped)

Sky == \A t \in Train : \A s \in world[t] : <<t, s>> \in skipped

\* The trains skip what they have skipped, and every answer in the cache or in the
\* loop's hands tells of no more.
AlarmInv == Sky /\ Cached /\ Held(loop, skipped)

LEMMA FreshHeld ==
  ASSUME NEW at, at \notin Board \cup {"answered"}, NEW sk
  PROVE  Held(Fresh(at), sk)
<1>1. /\ {"at", "todo", "j", "answer", "left"} \subseteq DOMAIN Fresh(at)
      /\ Fresh(at).at = at /\ Fresh(at).todo = {}
  BY DEF Fresh
<1>2. QED
  BY <1>1 DEF Held, Board

LEMMA ToHeld ==
  ASSUME NEW sk, Held(loop, sk), NEW at, To(at), at \notin Board \cup {"answered"}
  PROVE  Held(loop', sk)
<1>1. {"at", "todo", "j", "answer", "left"} \subseteq DOMAIN loop
  BY DEF Held
<1>2. /\ {"at", "todo", "j", "answer", "left"} \subseteq DOMAIN loop'
      /\ loop'.at = at /\ loop'.todo = loop.todo
  BY <1>1 DEF To
<1>3. QED
  BY <1>2 DEF Held, Board

LEMMA EndsHeld ==
  ASSUME NEW sk, Held(loop, sk), NEW end, Ends(end)
  PROVE  Held(loop', sk)
<1>1. {"at", "todo", "j", "answer", "left"} \subseteq DOMAIN loop
  BY DEF Held
<1>2. /\ {"at", "todo", "j", "answer", "left"} \subseteq DOMAIN loop'
      /\ loop'.at = "status" /\ loop'.todo = loop.todo
  BY <1>1 DEF Ends
<1>3. QED
  BY <1>2 DEF Held, Board

LEMMA ReadingHeld ==
  ASSUME NEW sk, Held(loop, sk), NEW j \in Journey, NEW a, Tells(a, j.origin, sk),
         loop' = Reading(j, a)
  PROVE  Held(loop', sk)
<1>1. {"at", "todo", "j", "answer", "left"} \subseteq DOMAIN loop
  BY DEF Held
<1>2. /\ {"at", "todo", "j", "answer", "left"} \subseteq DOMAIN loop'
      /\ loop'.at = "match" /\ loop'.todo = loop.todo \ {j} /\ loop'.j = j
      /\ loop'.answer = a /\ loop'.left = Listed(a)
  BY <1>1 DEF Reading
<1>3. QED
  BY <1>2 DEF Held, Board

\* Within a reading fewer and fewer departures are left.
LEMMA MatchHeld ==
  ASSUME NEW sk, Held(loop, sk), loop.at \in {"match", "route"},
         {"at", "todo", "j", "answer", "left"} \subseteq DOMAIN loop',
         loop'.at \in {"match", "route"}, loop'.todo = loop.todo, loop'.j = loop.j,
         loop'.answer = loop.answer, loop'.left \subseteq Listed(loop.answer)
  PROVE  Held(loop', sk)
  BY DEF Held, Board

-----------------------------------------------------------------------------
(* The steps of the loop.                                                  *)

\* The cache and the trains stay.
Still == UNCHANGED <<world, skipped, cache>>

LEMMA StillKeeps ==
  ASSUME AlarmInv, Still, Held(loop', skipped)
  PROVE  AlarmInv'
<1>1. Sky' /\ Cached'
  BY DEF AlarmInv, Still, Sky, Cached
<1>2. Held(loop', skipped')
  BY DEF Still
<1>3. QED
  BY <1>1, <1>2 DEF AlarmInv

LEMMA SettingsAlarm ==
  ASSUME AlarmInv, ReadsSettings \/ Finishes
  PROVE  AlarmInv'
<1>1. Held(loop, skipped)
  BY DEF AlarmInv
<1>2. Still
  BY DEF ReadsSettings, Starts, ReadProvider, Bootstrap, ReadToken, ListJourneys, Finishes,
         LastJourney, WriteStatus, WriteDetail, ReadInterval, Wakes, Still, trains, memory
<1>3. {"at", "todo", "j", "answer", "left"} \subseteq DOMAIN loop
  BY <1>1 DEF Held
<1>4. Held(loop', skipped)
  <2>1. CASE Starts \/ ReadProvider \/ Bootstrap
    BY <1>1, <2>1, FreshHeld, ToHeld, EndsHeld DEF Starts, ReadProvider, Bootstrap, Board
  <2>2. CASE ReadToken
    <3>1. CASE Ends("error")
      BY <1>1, <3>1, EndsHeld
    <3>2. CASE loop' = [loop EXCEPT !.at = "journeys", !.key = token]
      <4>1. /\ {"at", "todo", "j", "answer", "left"} \subseteq DOMAIN loop'
            /\ loop'.at = "journeys" /\ loop'.todo = loop.todo
        BY <1>3, <3>2
      <4>2. QED
        BY <1>1, <4>1 DEF Held, Board
    <3>3. QED
      BY <2>2, <3>1, <3>2 DEF ReadToken
  <2>3. CASE ListJourneys
    <3>1. CASE Ends("skipped")
      BY <1>1, <3>1, EndsHeld
    <3>2. ASSUME NEW open \in Windows,
                 loop' = [loop EXCEPT !.at = "fetch", !.open = open, !.todo = open]
          PROVE  Held(loop', skipped)
      <4>1. /\ {"at", "todo", "j", "answer", "left"} \subseteq DOMAIN loop'
            /\ loop'.at = "fetch" /\ loop'.todo = open
        BY <1>3, <3>2
      <4>2. open \subseteq Journey
        BY WindowsAssumption
      <4>3. QED
        BY <4>1, <4>2 DEF Held, Board
    <3>3. QED
      BY <2>3, <3>1, <3>2 DEF ListJourneys
  <2>4. CASE Finishes
    BY <1>1, <2>4, FreshHeld, ToHeld, EndsHeld
    DEF Finishes, LastJourney, WriteStatus, WriteDetail, ReadInterval, Wakes, Board
  <2>5. QED
    BY <2>1, <2>2, <2>3, <2>4 DEF ReadsSettings
<1>5. QED
  BY <1>2, <1>4, StillKeeps

\* The board of the next journey, from the cache or from Navitia.
LEMMA FetchAlarm ==
  ASSUME AlarmInv, Fetches
  PROVE  AlarmInv'
<1>1. Held(loop, skipped) /\ Cached /\ Sky
  BY DEF AlarmInv
<1>2. {"at", "todo", "j", "answer", "left"} \subseteq DOMAIN loop /\ loop.todo \subseteq Journey
  BY <1>1 DEF Held
<1>3. loop.todo # {} => FirstJourney \in Journey /\ FirstJourney.origin \in Station
  <2>1. loop.todo # {} => FirstJourney \in Journey
    BY <1>2 DEF FirstJourney
  <2>2. QED
    BY <2>1, JourneyAssumption
<1>4. UNCHANGED <<world, skipped>>
  BY DEF Fetches, ReadCache, CallDepartures, DeparturesAnswered, DeparturesFail, trains
<1>5. CASE ReadCache
  <2>1. loop.todo # {} /\ loop' = Reading(FirstJourney, cache[FirstJourney.origin].answer)
    BY <1>5 DEF ReadCache
  <2>2. Tells(cache[FirstJourney.origin].answer, FirstJourney.origin, skipped)
    BY <1>1, <1>3, <2>1 DEF Cached
  <2>3. Held(loop', skipped)
    BY <1>1, <1>3, <2>1, <2>2, ReadingHeld
  <2>4. Still
    BY <1>4, <1>5 DEF ReadCache, Still, memory
  <2>5. QED
    BY <2>3, <2>4, StillKeeps
<1>6. CASE CallDepartures
  <2>1. /\ loop.todo # {} /\ cache' = [cache EXCEPT ![FirstJourney.origin] = NoEntry]
        /\ loop' = [loop EXCEPT !.at = "answered", !.j = FirstJourney]
    BY <1>6 DEF CallDepartures
  <2>2. /\ {"at", "todo", "j", "answer", "left"} \subseteq DOMAIN loop'
        /\ loop'.at = "answered" /\ loop'.todo = loop.todo /\ loop'.j = FirstJourney
    BY <1>2, <2>1
  <2>3. Held(loop', skipped)
    BY <1>2, <1>3, <2>1, <2>2 DEF Held, Board
  <2>4. NoEntry.answer = NoAnswer
    BY DEF NoEntry
  <2>5. Cached'
    BY <1>1, <1>4, <2>1, <2>4, NothingTells DEF Cached
  <2>6. QED
    BY <1>4, <2>3, <2>5 DEF AlarmInv, Sky
<1>7. CASE DeparturesAnswered
  <2>1. PICK a \in Answers(Origin) :
          /\ cache' = [cache EXCEPT ![Origin] = [answer |-> a, until |-> now + Ttl]]
          /\ loop' = Reading(loop.j, a)
    BY <1>7 DEF DeparturesAnswered
  <2>2. Tells(a, Origin, skipped)
    BY <1>1, AnswerTells DEF Sky
  <2>3. loop.j \in Journey
    BY <1>1, <1>7 DEF DeparturesAnswered, Held
  <2>4. Held(loop', skipped)
    BY <1>1, <2>1, <2>2, <2>3, ReadingHeld DEF Origin
  <2>5. [answer |-> a, until |-> now + Ttl].answer = a
    OBVIOUS
  <2>6. Cached'
    BY <1>1, <1>4, <2>1, <2>2, <2>5 DEF Cached
  <2>7. QED
    BY <1>4, <2>4, <2>6 DEF AlarmInv, Sky
<1>8. CASE DeparturesFail
  BY <1>1, <1>4, <1>8, EndsHeld, StillKeeps DEF DeparturesFail, Still, memory
<1>9. QED
  BY <1>5, <1>6, <1>7, <1>8 DEF Fetches

\* The vehicle journeys and the next train.
LEMMA ReadAlarm ==
  ASSUME AlarmInv, CallRoute \/ RouteAnswered \/ RouteFails \/ SaveNext \/ ListOrphans \/ NextJourney
  PROVE  AlarmInv'
<1>1. Held(loop, skipped)
  BY DEF AlarmInv
<1>2. {"at", "todo", "j", "answer", "left"} \subseteq DOMAIN loop
  BY <1>1 DEF Held
<1>3. Still
  BY DEF CallRoute, RouteAnswered, RouteFails, SaveNext, ListOrphans, NextJourney, Still, trains,
         memory
<1>4. Held(loop', skipped)
  <2>1. CASE CallRoute
    <3>1. PICK t : loop' = [loop EXCEPT !.at = "route", !.train = t]
      BY <2>1 DEF CallRoute
    <3>2. /\ {"at", "todo", "j", "answer", "left"} \subseteq DOMAIN loop'
          /\ loop'.at = "route" /\ loop'.todo = loop.todo /\ loop'.j = loop.j
          /\ loop'.answer = loop.answer /\ loop'.left = loop.left
      BY <1>2, <3>1
    <3>3. QED
      BY <1>1, <2>1, <3>2, MatchHeld DEF CallRoute, Held
  <2>2. CASE RouteAnswered
    <3>1. /\ {"at", "todo", "j", "answer", "left"} \subseteq DOMAIN loop'
          /\ loop'.at = "match" /\ loop'.todo = loop.todo /\ loop'.j = loop.j
          /\ loop'.answer = loop.answer /\ loop'.left = loop.left
      BY <1>2, <2>2 DEF RouteAnswered, To
    <3>2. QED
      BY <1>1, <2>2, <3>1, MatchHeld DEF RouteAnswered, Held
  <2>3. CASE RouteFails
    <3>1. loop' = [loop EXCEPT !.at = "match", !.left = @ \ {loop.train}]
      BY <2>3 DEF RouteFails
    <3>2. /\ {"at", "todo", "j", "answer", "left"} \subseteq DOMAIN loop'
          /\ loop'.at = "match" /\ loop'.todo = loop.todo /\ loop'.j = loop.j
          /\ loop'.answer = loop.answer /\ loop'.left = loop.left \ {loop.train}
      BY <1>2, <3>1
    <3>3. QED
      BY <1>1, <2>3, <3>2, MatchHeld DEF RouteFails, Held
  <2>4. CASE SaveNext
    <3>1. loop.at = "match" /\ loop' = [loop EXCEPT !.pass = 2, !.left = Listed(loop.answer)]
      BY <2>4 DEF SaveNext
    <3>2. /\ {"at", "todo", "j", "answer", "left"} \subseteq DOMAIN loop'
          /\ loop'.at = loop.at /\ loop'.todo = loop.todo /\ loop'.j = loop.j
          /\ loop'.answer = loop.answer /\ loop'.left = Listed(loop.answer)
      BY <1>2, <3>1
    <3>3. QED
      BY <1>1, <3>1, <3>2, MatchHeld
  <2>5. CASE ListOrphans
    <3>1. /\ loop.at = "match"
          /\ loop' = [loop EXCEPT !.at = "orphans", !.left = OrphansIn(loop.answer, Origin)]
      BY <2>5 DEF ListOrphans
    <3>2. /\ {"at", "todo", "j", "answer", "left"} \subseteq DOMAIN loop'
          /\ loop'.at = "orphans" /\ loop'.todo = loop.todo /\ loop'.j = loop.j
          /\ loop'.answer = loop.answer /\ loop'.left = OrphansIn(loop.answer, Origin)
      BY <1>2, <3>1
    <3>3. QED
      BY <1>1, <3>1, <3>2 DEF Held, Board, Origin
  <2>6. CASE NextJourney
    <3>1. loop' = [loop EXCEPT !.at = "fetch", !.answer = NoAnswer]
      BY <2>6 DEF NextJourney
    <3>2. /\ {"at", "todo", "j", "answer", "left"} \subseteq DOMAIN loop'
          /\ loop'.at = "fetch" /\ loop'.todo = loop.todo
      BY <1>2, <3>1
    <3>3. QED
      BY <1>1, <3>2 DEF Held, Board
  <2>7. QED
    BY <2>1, <2>2, <2>3, <2>4, <2>5, <2>6
<1>5. QED
  BY <1>3, <1>4, StillKeeps

-----------------------------------------------------------------------------
(* The steps that raise an alert.                                          *)

LEMMA DepartureAlarm ==
  ASSUME AlarmInv, AlertDeparture
  PROVE  AlarmInv'
<1>1. Held(loop, skipped) /\ Sky /\ Cached
  BY DEF AlarmInv
<1>2. {"at", "todo", "j", "answer", "left"} \subseteq DOMAIN loop /\ loop.at = "match"
  BY <1>1 DEF Held, AlertDeparture
<1>3. PICK t \in loop.left : loop' = [loop EXCEPT !.left = @ \ {t}]
  BY DEF AlertDeparture
<1>4. UNCHANGED <<world, skipped, cache>>
  BY DEF AlertDeparture, trains, memory
<1>5. Held(loop', skipped')
  <2>1. /\ {"at", "todo", "j", "answer", "left"} \subseteq DOMAIN loop'
        /\ loop'.at = loop.at /\ loop'.todo = loop.todo /\ loop'.j = loop.j
        /\ loop'.answer = loop.answer /\ loop'.left = loop.left \ {t}
    BY <1>2, <1>3
  <2>2. loop'.left \subseteq Listed(loop.answer)
    BY <1>1, <1>2, <2>1 DEF Held
  <2>3. QED
    BY <1>1, <1>2, <1>4, <2>1, <2>2, MatchHeld
<1>6. QED
  BY <1>1, <1>4, <1>5 DEF AlarmInv, Sky, Cached

LEMMA OrphanAlarm ==
  ASSUME AlarmInv, AlertOrphan
  PROVE  AlarmInv'
<1>1. Held(loop, skipped) /\ Sky /\ Cached
  BY DEF AlarmInv
<1>2. {"at", "todo", "j", "answer", "left"} \subseteq DOMAIN loop /\ loop.at = "orphans"
  BY <1>1 DEF Held, AlertOrphan
<1>3. PICK t \in loop.left : loop' = [loop EXCEPT !.left = @ \ {t}]
  BY DEF AlertOrphan
<1>4. UNCHANGED <<world, skipped, cache>>
  BY DEF AlertOrphan, trains, memory
<1>5. Held(loop', skipped')
  <2>1. /\ {"at", "todo", "j", "answer", "left"} \subseteq DOMAIN loop'
        /\ loop'.at = loop.at /\ loop'.todo = loop.todo /\ loop'.j = loop.j
        /\ loop'.answer = loop.answer /\ loop'.left = loop.left \ {t}
    BY <1>2, <1>3
  <2>2. QED
    BY <1>1, <1>2, <1>4, <2>1 DEF Held, Board
<1>6. QED
  BY <1>1, <1>4, <1>5 DEF AlarmInv, Sky, Cached

-----------------------------------------------------------------------------
(* What fails, time, and the administrator.                                *)

LEMMA FaultAlarm ==
  ASSUME AlarmInv, QueryFails \/ Crash
  PROVE  AlarmInv'
<1>1. Held(loop, skipped) /\ Sky /\ Cached
  BY DEF AlarmInv
<1>2. UNCHANGED <<world, skipped>>
  BY DEF QueryFails, Crash, trains
<1>3. Held(loop', skipped)
  BY <1>1, FreshHeld, EndsHeld DEF QueryFails, Crash, Board
<1>4. Cached'
  <2>1. CASE QueryFails
    BY <1>1, <1>2, <2>1 DEF QueryFails, memory, Cached
  <2>2. CASE Crash
    <3>1. cache' = [s \in Station |-> NoEntry]
      BY <2>2 DEF Crash
    <3>2. NoEntry.answer = NoAnswer
      BY DEF NoEntry
    <3>3. QED
      BY <3>1, <3>2, NothingTells DEF Cached
  <2>3. QED
    BY <2>1, <2>2
<1>5. QED
  BY <1>1, <1>2, <1>3, <1>4 DEF AlarmInv, Sky

LEMMA TimeAlarm ==
  ASSUME AlarmInv, Tick
  PROVE  AlarmInv'
<1>1. Held(loop, skipped) /\ Sky /\ Cached
  BY DEF AlarmInv
<1>2. UNCHANGED <<loop, cache>> /\ loop.at = "sleep"
  BY DEF Tick, memory
<1>3. PICK w \in [Train -> Failures] :
        /\ world' = w
        /\ skipped' = skipped \cup {p \in Train \X Station : p[2] \in w[p[1]]}
  BY DEF Tick
<1>4. skipped \subseteq skipped'
  BY <1>3
<1>5. Sky'
  <2> SUFFICES ASSUME NEW t \in Train, NEW s \in w[t]
               PROVE  <<t, s>> \in skipped'
    BY <1>3 DEF Sky
  <2>1. s \in Station
    BY FailuresAssumption
  <2>2. QED
    BY <1>3, <2>1
<1>6. Cached'
  BY <1>1, <1>2, <1>4, TellsOn DEF Cached
<1>7. Held(loop', skipped')
  BY <1>1, <1>2 DEF Held, Board
<1>8. QED
  BY <1>5, <1>6, <1>7 DEF AlarmInv

LEMMA AdminAlarm ==
  ASSUME AlarmInv, StartUpdate \/ StartProbe \/ AdminStep \/ RequestFails \/ UNCHANGED vars
  PROVE  AlarmInv'
<1>1. Still /\ UNCHANGED loop
  BY DEF StartUpdate, StartProbe, AdminStep, ReadKey, Probe, SaveCheck, WriteToken, WriteProvider,
         RequestFails, vars, Still, trains, memory
<1>2. QED
  BY <1>1, StillKeeps DEF AlarmInv

LEMMA AlarmNext == AlarmInv /\ [Next]_vars => AlarmInv'
<1> SUFFICES ASSUME AlarmInv, [Next]_vars
             PROVE  AlarmInv'
  OBVIOUS
<1>1. CASE ReadsSettings \/ Finishes
  BY <1>1, SettingsAlarm
<1>2. CASE Fetches
  BY <1>2, FetchAlarm
<1>3. CASE Reads
  BY <1>3, ReadAlarm, DepartureAlarm, OrphanAlarm DEF Reads
<1>4. CASE QueryFails \/ Crash
  BY <1>4, FaultAlarm
<1>5. CASE Tick
  BY <1>5, TimeAlarm
<1>6. CASE StartUpdate \/ StartProbe \/ AdminStep \/ RequestFails \/ UNCHANGED vars
  BY <1>6, AdminAlarm
<1>7. QED
  BY <1>1, <1>2, <1>3, <1>4, <1>5, <1>6 DEF Next, LoopStep

LEMMA AlarmInit == Init => AlarmInv
<1> SUFFICES ASSUME Init
             PROVE  AlarmInv
  OBVIOUS
<1>1. /\ world = [t \in Train |-> {}] /\ loop = Fresh("down")
      /\ cache = [s \in Station |-> NoEntry]
  BY DEF Init
<1>2. Sky
  BY <1>1 DEF Sky
<1>3. NoEntry.answer = NoAnswer
  BY DEF NoEntry
<1>4. Cached
  BY <1>1, <1>3, NothingTells DEF Cached
<1>5. Held(loop, skipped)
  BY <1>1, FreshHeld DEF Board
<1>6. QED
  BY <1>2, <1>4, <1>5 DEF AlarmInv

\* An alert of the board is of a train that has skipped the origin, or whose departure is
\* linked to a disruption that reads as a suppression.
LEMMA DepartureTrue ==
  ASSUME Apart, AlarmInv, AlertDeparture, NEW j \in Journey, NEW t \in Train,
         Announced(j, t)', ~Announced(j, t)
  PROVE  \/ <<t, j.origin>> \in skipped
         \/ t \in DOMAIN loop.answer /\ ReadsSuppressed(loop.answer, t)
<1>1. PICK u \in loop.left :
        alerts' = IF Wanted(u)
                  THEN alerts \cup {<<loop.j, u, k>> : k \in KindOf(loop.answer, u)} ELSE alerts
  BY DEF AlertDeparture
<1>2. PICK kind \in {"cancellation", "orphan"} : <<j, t, kind>> \in alerts' /\ <<j, t, kind>> \notin alerts
  BY DEF Announced
<1>3. PICK k \in KindOf(loop.answer, u) : <<j, t, kind>> = <<loop.j, u, k>>
  BY <1>1, <1>2
<1>4. j = loop.j /\ t = u /\ k # "delay"
  BY <1>2, <1>3
<1>5. CancelledIn(loop.answer, t, Origin)
  BY <1>3, <1>4 DEF KindOf, DelayAsked, Asks
<1>6. loop.j \in Journey /\ Tells(loop.answer, Origin, skipped) /\ t \in DOMAIN loop.answer
  BY <1>4 DEF AlarmInv, AlertDeparture, Held, Board, Listed, Origin
<1>7. Origin \in Station
  BY <1>6, JourneyAssumption DEF Origin
<1>8. <<t, Origin>> \in skipped \/ ReadsSuppressed(loop.answer, t)
  BY <1>5, <1>6, <1>7, CancellationTrue
<1>9. QED
  BY <1>4, <1>6, <1>8 DEF Origin

LEMMA OrphanAlertTrue ==
  ASSUME AlarmInv, AlertOrphan, NEW j \in Journey, NEW t \in Train,
         Announced(j, t)', ~Announced(j, t)
  PROVE  <<t, j.origin>> \in skipped
<1>1. PICK u \in loop.left : alerts' \subseteq alerts \cup {<<loop.j, u, "orphan">>}
  BY DEF AlertOrphan
<1>2. PICK kind \in {"cancellation", "orphan"} : <<j, t, kind>> \in alerts' /\ <<j, t, kind>> \notin alerts
  BY DEF Announced
<1>3. j = loop.j /\ t = u
  BY <1>1, <1>2
<1>4. Tells(loop.answer, Origin, skipped) /\ t \in OrphansIn(loop.answer, Origin)
  BY <1>3 DEF AlarmInv, AlertOrphan, Held, Board, Origin
<1>5. QED
  BY <1>3, <1>4, OrphanTrue DEF Origin

(***************************************************************************)
(* A train is announced as suppressed for a journey only if it has skipped *)
(* the journey's origin, or its departure is linked to a disruption that   *)
(* reads as a suppression: never for the other stops it skips as such, nor *)
(* for another train whose trip's id holds its number, in whichever order  *)
(* the disruptions are listed, and whatever fails, as long as no two       *)
(* trains leave one station at one time (a disruption's stop is told by    *)
(* place and time).                                                        *)
(***************************************************************************)
THEOREM NoFalseAlarms ==
  ASSUME Apart
  PROVE  Spec => NoFalseAlarm
<1>1. AlarmInv /\ [Next]_vars => AlarmInv'
  BY AlarmNext
<1>2. AlarmInv /\ [Next]_vars =>
        [\A j \in Journey, t \in Train :
           Announced(j, t)' /\ ~Announced(j, t) =>
             \/ <<t, j.origin>> \in skipped
             \/ t \in DOMAIN loop.answer /\ ReadsSuppressed(loop.answer, t)]_vars
  <2> SUFFICES ASSUME AlarmInv, [Next]_vars, NEW j \in Journey, NEW t \in Train,
                      Announced(j, t)', ~Announced(j, t)
               PROVE  \/ <<t, j.origin>> \in skipped
                      \/ t \in DOMAIN loop.answer /\ ReadsSuppressed(loop.answer, t)
    OBVIOUS
  <2>1. ~UNCHANGED alerts
    BY DEF Announced
  <2>2. ~SaveNext
    BY <2>1 DEF SaveNext
  <2>3. CASE AlertDeparture
    BY <2>3, DepartureTrue
  <2>4. CASE AlertOrphan
    BY <2>4, OrphanAlertTrue
  <2>5. QED
    BY <2>1, <2>2, <2>3, <2>4, FewStepsAlert
<1>3. QED
  BY <1>1, <1>2, AlarmInit, PTL DEF Spec, NoFalseAlarm

-----------------------------------------------------------------------------
(* None is missed: what a board that was fetched tells.                    *)

LEMMA LeastIn ==
  ASSUME NEW T, T \subseteq Nat, T # {}
  PROVE  \E x \in T : \A y \in T : x <= y
<1> DEFINE R == {ss \in Nat \X Nat : ss[1] < ss[2]}
<1>1. IsWellFoundedOn(R, Nat)
  BY NatLessThanWellFounded DEF OpToRel
<1> HIDE DEF R
<1>2. PICK x \in T : \A y \in T : ~(<<y, x>> \in R)
  BY <1>1, WFMin, Zenon
<1>3. ASSUME NEW y \in T
      PROVE  x <= y
  <2>1. x \in Nat /\ y \in Nat /\ ~(y < x)
    BY <1>2 DEF R
  <2>2. QED
    BY <2>1
<1>4. QED
  BY <1>3

\* Every stop that a disruption lists is deleted, and a train's own disruption lists the
\* stops it does not serve.
LEMMA StopsDeleted ==
  ASSUME NEW a, NEW u, NEW stop \in DisruptionOf(a, u).stops
  PROVE  stop.deleted = TRUE
<1>1. u \in DOMAIN a /\ stop \in StopsOf(a[u], u)
  BY DEF DisruptionOf
<1>2. PICK s \in {x \in a[u].lost : On(Calls[u], x)} :
        stop = [station |-> s, time |-> Time(u, s), deleted |-> TRUE]
  BY <1>1 DEF StopsOf
<1>3. QED
  BY <1>2

LEMMA OwnStop ==
  ASSUME NEW o, NEW a, NEW t \in DOMAIN a, a[t].how \in {"runs", "part", "impact", "named", "gone"},
         o \in a[t].lost, On(Calls[t], o)
  PROVE  [station |-> o, time |-> Time(t, o), deleted |-> TRUE] \in DisruptionOf(a, t).stops
<1>1. [station |-> o, time |-> Time(t, o), deleted |-> TRUE] \in StopsOf(a[t], t)
  BY DEF StopsOf
<1>2. DisruptionOf(a, t).stops = StopsOf(a[t], t)
  BY DEF DisruptionOf
<1>3. QED
  BY <1>1, <1>2

LEMMA SkippedIsTold ==
  ASSUME NEW o, NEW a, DOMAIN a = Calling(o), NEW t \in Calling(o), o \in world[t],
         a[t] \in Reports(t, o)
  PROVE  t \in OrphansIn(a, o) \/ (t \in Listed(a) /\ CancelledIn(a, t, o))
<1> DEFINE dep == DepartureOf(a, t)
           ds == Disruptions(a)
           own == [station |-> o, time |-> Time(t, o), deleted |-> TRUE]
<1>1. PICK h \in Forms : a[t] = [how |-> h, delay |-> 0, shared |-> FALSE, lost |-> world[t]]
  BY DEF Reports
<1>2. a[t].how = h /\ a[t].lost = world[t]
  BY <1>1
<1>3. t \in Train /\ On(Calls[t], o) /\ t \in DOMAIN a
  BY DEF Calling
<1>4. PICK i \in DOMAIN Order : Order[i] = t
  BY <1>3, OrderAssumption DEF On
<1>5. DOMAIN ds = DOMAIN Order /\ \A k \in DOMAIN ds : ds[k] = DisruptionOf(a, Order[k])
  BY DEF Disruptions
<1>6. /\ ds[i].id = t /\ ds[i].trip = t
      /\ ds[i].noService = (h = "noService") /\ ds[i].words = (h \in {"message", "part"})
  BY <1>2, <1>3, <1>4, <1>5 DEF DisruptionOf
<1>7. /\ dep.train = t /\ dep.links = LinksOf(a, t)
      /\ dep.deleted = (h = "status") /\ dep.words = (h = "words")
      /\ h = "noReal" => dep.real = NoReal
  BY <1>2 DEF DepartureOf
<1>8. own.station = o /\ own.time = Time(t, o) /\ own.deleted = TRUE
  OBVIOUS
<1>9. h \in {"impact", "named", "gone"} => own \in ds[i].stops
  BY <1>2, <1>3, <1>4, <1>5, OwnStop
<1>10. t \in Listed(a) \/ h = "gone"
  BY <1>2, <1>3 DEF Listed
<1>11. CancelledIn(a, t, o) = Cancelled(dep, ds, o) /\ OrphansIn(a, o) = Orphans(Departures(a), ds, o)
  BY DEF CancelledIn, OrphansIn
<1> HIDE DEF dep, ds, own
<1>12. CASE h \in {"status", "words", "noReal"}
  BY <1>7, <1>10, <1>11, <1>12 DEF Cancelled
<1>13. CASE h \in {"noService", "message"}
  <2>1. t \in dep.links
    BY <1>2, <1>7, <1>13 DEF LinksOf
  <2>2. Linked(ds[i], dep) /\ (ds[i].noService \/ ds[i].words)
    BY <1>6, <1>13, <2>1 DEF Linked
  <2>3. QED
    BY <1>4, <1>5, <1>10, <1>11, <1>13, <2>2 DEF Cancelled
<1>14. CASE h \in {"impact", "named"}
  <2> DEFINE At(k) == {stop \in ds[k].stops : AtOrigin(stop, o, dep.train)}
             T == {k \in DOMAIN ds : Applies(ds[k], dep) /\ At(k) # {}}
  <2>1. own \in At(i)
    BY <1>7, <1>8, <1>9, <1>14 DEF AtOrigin
  <2>2. Applies(ds[i], dep)
    BY <1>6, <1>7 DEF Applies
  <2>3. T \subseteq Nat /\ T # {}
    BY <1>4, <1>5, <2>1, <2>2, OrderAssumption
  <2>4. PICK x \in T : \A y \in T : x <= y
    BY <2>3, LeastIn
  <2>5. ASSUME NEW k \in 1 .. x - 1, Applies(ds[k], dep)
        PROVE  At(k) = {}
    <3>1. x \in 1 .. Len(Order) /\ DOMAIN ds = 1 .. Len(Order) /\ Len(Order) \in Nat
      BY <1>5, OrderAssumption
    <3>2. k \in DOMAIN ds /\ ~(x <= k)
      BY <3>1
    <3>3. QED
      BY <2>4, <2>5, <3>2
  <2>6. \E stop \in At(x) : stop.deleted
    <3>1. PICK stop \in At(x) : TRUE
      BY <2>4
    <3>2. stop \in DisruptionOf(a, Order[x]).stops
      BY <1>5, <2>4
    <3>3. stop.deleted
      BY <3>2, StopsDeleted
    <3>4. QED
      BY <3>3
  <2>7. ImpactedCancelled(dep, ds, o)
    BY <2>4, <2>5, <2>6 DEF ImpactedCancelled
  <2>8. QED
    BY <1>10, <1>11, <1>14, <2>7 DEF Cancelled
<1>15. CASE h = "gone"
  <2>1. Time(t, o) # Untimed
    BY <1>3, TimeIn DEF Untimed
  <2>2. <<t, own.time>> \notin Covered(Departures(a), o)
    <3> SUFFICES ASSUME NEW d \in Departures(a), <<t, own.time>> = <<d.train, Time(d.train, o)>>
                 PROVE  FALSE
      BY DEF Covered
    <3>1. PICK u \in Listed(a) : d = DepartureOf(a, u)
      BY DEF Departures
    <3>2. d.train = u
      BY <3>1 DEF DepartureOf
    <3>3. QED
      BY <1>2, <1>15, <3>1, <3>2 DEF Listed
  <2>3. t \in Orphans(Departures(a), ds, o)
    BY <1>3, <1>4, <1>5, <1>6, <1>8, <1>9, <1>15, <2>1, <2>2 DEF Orphans
  <2>4. QED
    BY <1>11, <2>3
<1>16. QED
  BY <1>12, <1>13, <1>14, <1>15, FormsAssumption

\* The train shows as going the journey's way, or its vehicle journey does.
Suits(t, j) == Shown(t, j) \/ ServesOd(Calls[t], j)

LEMMA WayIsServed ==
  ASSUME NEW t \in Train, NEW j, j.origin # j.destination, GoesTheWay(t, j)
  PROVE  Suits(t, j)
<1>1. CASE Shown(t, j)
  BY <1>1 DEF Suits
<1>2. CASE CallsInTurn(t, j)
  <2>1. PICK i, k \in DOMAIN Calls[t] :
          i < k /\ Calls[t][i] = j.origin /\ Calls[t][k] = j.destination
    BY <1>2 DEF CallsInTurn
  <2>2. Calls[t] \in Seq(Station)
    BY CallsAssumption
  <2>3. On(Calls[t], j.origin)
    BY <2>1 DEF On
  <2>4. Index(Calls[t], j.origin) <= i /\ Index(Calls[t], j.origin) \in Nat
    BY <2>1, <2>2, <2>3, IndexIn
  <2>5. k > Index(Calls[t], j.origin)
    BY <2>1, <2>2, <2>4
  <2>6. QED
    BY <2>1, <2>3, <2>5 DEF ServesOd, Suits
<1>3. QED
  BY <1>1, <1>2 DEF GoesTheWay

\* What stands behind a next train that is written as cancelled.
LEMMA NextCancelled ==
  ASSUME NEW matched, matched \subseteq Calling(Origin), DOMAIN loop.answer \subseteq Calling(Origin),
         NextOf(loop.answer, matched).status = "cancelled"
  PROVE  LET t == NextOf(loop.answer, matched).train
         IN \/ t \in OrphansIn(loop.answer, Origin)
            \/ t \in matched /\ CancelledIn(loop.answer, t, Origin)
<1> DEFINE candidates == matched \cup OrphansIn(loop.answer, Origin)
           t == Earliest(candidates, Origin)
           c == t \notin matched \/ CancelledIn(loop.answer, t, Origin)
           l == t \in matched /\ Late(DepartureOf(loop.answer, t))
<1>1. candidates \subseteq Calling(Origin)
  BY OrphansTold
<1>2. candidates # {}
  BY DEF NextOf, NoNext
<1>3. NextOf(loop.answer, matched) = [train |-> t, status |-> StatusOf(c, l)]
  BY <1>2 DEF NextOf
<1>4. t \in candidates
  BY <1>1, <1>2, EarliestIn
<1> HIDE DEF c, l
<1>5. NextOf(loop.answer, matched).train = t /\ NextOf(loop.answer, matched).status = StatusOf(c, l)
  BY <1>3
<1>6. c
  BY <1>5 DEF StatusOf
<1>7. QED
  BY <1>4, <1>5, <1>6 DEF c

Polling == {"fetch", "answered"} \cup Board

\* Where a poll is on its way through the journeys.
PathInv ==
  /\ loop.at \in {"provider", "bootstrap", "sleep"} => loop.open = {}
  /\ loop.at \in Polling => loop.todo \subseteq loop.open
  /\ loop.at = "answered" => loop.j \in loop.todo
  /\ loop.at \in Board => loop.j \in loop.open \ loop.todo
  /\ loop.at \in {"match", "route"} => loop.left \subseteq Listed(loop.answer)
  /\ loop.at = "route" => loop.train \in loop.left
  /\ loop.at = "orphans" => loop.pass = 2

\* An entry of the cache tells of the trains as they are, but for those that changed
\* after it was read; the answer at hand tells of all that changed before the cache's time.
CacheFresh ==
  \A s \in Station :
    /\ cache[s].until <= now + Ttl
    /\ cache[s].until >= 0 =>
         /\ DOMAIN cache[s].answer = Calling(s)
         /\ \A t \in Calling(s) :
              since[t] + Ttl <= cache[s].until => cache[s].answer[t] \in Reports(t, s)
AnswerFresh ==
  loop.at \in Board =>
    /\ DOMAIN loop.answer = Calling(Origin)
    /\ \A t \in Calling(Origin) : since[t] + Ttl < now => loop.answer[t] \in Reports(t, Origin)

\* The journeys a poll is done with, and what is announced of them.
Done(j) == \/ loop.at \in {"fetch", "answered"} /\ j \in loop.open \ loop.todo
           \/ loop.at \in Board /\ j \in loop.open \ loop.todo /\ j # loop.j
           \/ loop.at = "status" /\ loop.end = "ok" /\ j \in loop.open
Clear(j) == \A t \in Calling(j.origin) :
  (/\ j.origin \in world[t] /\ since[t] + Ttl < now /\ AsksCancellations(j)
   /\ Suits(t, j) /\ t \notin unread[j]) =>
    Announced(j, t)
DoneInv == \A j \in Journey : Done(j) => Clear(j)

\* The second reading, which ends with the orphans.
Told(t) ==
  \/ t \in unread[loop.j]
  \/ (AsksCancellations(loop.j) /\ Suits(t, loop.j) /\ CancelledIn(loop.answer, t, Origin)) =>
       <<loop.j, t, "cancellation">> \in alerts
SecondInv ==
  /\ loop.at \in {"match", "route"} /\ loop.pass = 2 =>
       \A t \in Listed(loop.answer) \ loop.left : Told(t)
  /\ loop.at = "orphans" =>
       /\ \A t \in Listed(loop.answer) : Told(t)
       /\ AsksCancellations(loop.j) =>
            \A t \in OrphansIn(loop.answer, Origin) \ loop.left : <<loop.j, t, "orphan">> \in alerts

\* A next train that is cancelled is announced, could not be read again, waits for the
\* second reading, or is what a poll that failed has left.
AtBoard(j) == loop.at \in Board /\ j = loop.j /\ loop.pass = 2
Cancelling(t) == Suits(t, loop.j) /\ CancelledIn(loop.answer, t, Origin)
Waiting(t) ==
  \/ loop.at \in {"match", "route"}
     /\ (t \in OrphansIn(loop.answer, Origin) \/ (t \in loop.left /\ Cancelling(t)))
  \/ loop.at = "orphans" /\ t \in loop.left
CardInv ==
  \A j \in Journey, t \in Train :
    next[j].status = "cancelled" /\ next[j].train = t /\ AsksCancellations(j) =>
      \/ Announced(j, t) \/ t \in unread[j]
      \/ AtBoard(j) /\ Waiting(t)
      \/ faults > 0 /\ ~Done(j) /\ ~AtBoard(j)

MissInv == PathInv /\ CacheFresh /\ AnswerFresh /\ DoneInv /\ SecondInv /\ CardInv

-----------------------------------------------------------------------------
(* What keeps each part.                                                   *)

Weather == UNCHANGED <<now, world, since>>

LEMMA ReportsStay ==
  ASSUME UNCHANGED world, NEW t, NEW s
  PROVE  Reports(t, s)' = Reports(t, s)
  BY DEF Reports

LEMMA CacheKept ==
  ASSUME CacheFresh, Weather, UNCHANGED cache
  PROVE  CacheFresh'
<1>1. \A t, s : Reports(t, s)' = Reports(t, s)
  BY ReportsStay DEF Weather
<1>2. QED
  BY <1>1 DEF CacheFresh, Weather

\* The board at hand is the same.
SameBoard == loop'.at \in Board =>
               loop.at \in Board /\ loop'.answer = loop.answer /\ loop'.j = loop.j

LEMMA AnswerKept ==
  ASSUME AnswerFresh, Weather, SameBoard
  PROVE  AnswerFresh'
<1>1. \A t, s : Reports(t, s)' = Reports(t, s)
  BY ReportsStay DEF Weather
<1>2. QED
  BY <1>1 DEF AnswerFresh, Weather, SameBoard, Origin

LEMMA AnnouncedOn ==
  ASSUME alerts \subseteq alerts', NEW j, NEW t, Announced(j, t)
  PROVE  Announced(j, t)'
  BY DEF Announced

LEMMA DoneKept ==
  ASSUME DoneInv, Weather, alerts \subseteq alerts',
         \A j \in Journey : Done(j)' => Done(j) /\ unread[j] \subseteq unread'[j]
  PROVE  DoneInv'
<1> SUFFICES ASSUME NEW j \in Journey, Done(j)'
             PROVE  Clear(j)'
  BY DEF DoneInv
<1>1. Clear(j)
  BY DEF DoneInv
<1>2. QED
  BY <1>1, AnnouncedOn DEF Clear, Weather

LEMMA NoneDone ==
  ASSUME \A j \in Journey : ~Done(j)'
  PROVE  DoneInv'
  BY DEF DoneInv

\* Cards that are kept, for all but the journey at hand.
LEMMA CardKept ==
  ASSUME CardInv, alerts \subseteq alerts', UNCHANGED next, faults \in Nat, faults' \in Nat,
         faults <= faults', \A j \in Journey : unread[j] \subseteq unread'[j],
         \A j \in Journey, t \in Train :
           /\ AsksCancellations(j) /\ AtBoard(j) /\ Waiting(t) =>
                \/ Announced(j, t)' \/ t \in unread'[j]
                \/ (AtBoard(j) /\ Waiting(t))'
                \/ faults' > 0 /\ ~Done(j)' /\ ~AtBoard(j)'
           /\ ~Done(j) /\ ~AtBoard(j) => ~Done(j)' /\ ~AtBoard(j)'
  PROVE  CardInv'
<1> SUFFICES ASSUME NEW j \in Journey, NEW t \in Train,
                    next[j].status = "cancelled", next[j].train = t, AsksCancellations(j)
             PROVE  \/ Announced(j, t)' \/ t \in unread'[j]
                    \/ (AtBoard(j) /\ Waiting(t))'
                    \/ faults' > 0 /\ ~Done(j)' /\ ~AtBoard(j)'
  BY DEF CardInv, AsksCancellations
<1>1. CASE Announced(j, t)
  BY <1>1, AnnouncedOn
<1>2. CASE AtBoard(j) /\ Waiting(t)
  BY <1>2
<1>3. CASE faults > 0 /\ ~Done(j) /\ ~AtBoard(j)
  BY <1>3
<1>4. CASE t \in unread[j]
  BY <1>4
<1>5. QED
  BY <1>1, <1>2, <1>3, <1>4 DEF CardInv

-----------------------------------------------------------------------------
(* The steps outside the boards.                                           *)

FaultsGrow == faults \in Nat /\ faults' \in Nat /\ faults <= faults'

LEMMA FaultsOnlyGrow == TypeInv /\ [Next]_vars => FaultsGrow
<1> SUFFICES ASSUME TypeInv, [Next]_vars
             PROVE  FaultsGrow
  OBVIOUS
<1>1. faults \in Nat
  BY LoopBounds DEF TypeInv, FaultTypes
<1>2. Fault \/ UNCHANGED faults
  BY WhoChanges DEF DeparturesFail, RouteFails, QueryFails, Crash, Probe, RequestFails
<1>3. QED
  BY <1>1, <1>2 DEF Fault, FaultsGrow

\* The loop is not, or no longer, at a poll that has something to say.
Leaves ==
  /\ loop'.at \notin Polling
  /\ loop'.at \in {"provider", "bootstrap", "sleep"} => loop'.open = {}
  /\ loop'.at = "status" /\ loop'.end = "ok" => loop'.open = {}
  /\ Weather /\ UNCHANGED outcome
  /\ cache' = cache \/ cache' = [s \in Station |-> NoEntry]
  /\ loop.at \notin Board \/ faults' > 0

LEMMA LeavingKeeps ==
  ASSUME TypeInv, MissInv, FaultsGrow, Leaves
  PROVE  MissInv'
<1>1. loop'.at \notin Polling /\ Weather /\ UNCHANGED <<next, alerts, unread>>
  BY DEF Leaves, outcome
<1>2. PathInv'
  BY <1>1 DEF Leaves, PathInv, Polling, Board
<1>3. CacheFresh'
  <2>1. CASE cache' = cache
    BY <1>1, <2>1, CacheKept DEF MissInv
  <2>2. CASE cache' = [s \in Station |-> NoEntry]
    <3>1. \A s \in Station : cache'[s].until = -1
      BY <2>2 DEF NoEntry
    <3>2. now' \in Nat /\ Ttl \in Nat
      BY <1>1, LoopBounds DEF TypeInv, TrainTypes, Weather
    <3>3. QED
      BY <3>1, <3>2 DEF CacheFresh
  <2>3. QED
    BY <2>1, <2>2 DEF Leaves
<1>4. AnswerFresh' /\ SecondInv'
  BY <1>1 DEF AnswerFresh, SecondInv, Polling, Board
<1>5. \A j \in Journey : ~Done(j)' /\ ~AtBoard(j)'
  BY <1>1 DEF Leaves, Done, AtBoard, Polling, Board
<1>6. DoneInv'
  BY <1>5, NoneDone
<1>7. CardInv'
  <2>1. \A j \in Journey : AtBoard(j) => faults' > 0
    BY DEF Leaves, AtBoard
  <2>2. QED
    BY <1>1, <1>5, <2>1, CardKept DEF MissInv, FaultsGrow
<1>8. QED
  BY <1>2, <1>3, <1>4, <1>6, <1>7 DEF MissInv

LEMMA SettingsLeave ==
  ASSUME TypeInv, PathInv, Starts \/ ReadProvider \/ Bootstrap \/ ReadToken
  PROVE  Leaves
<1>1. DOMAIN loop = LoopFields
  BY DEF TypeInv, LoopTypes
<1>2. Weather /\ UNCHANGED <<outcome, cache>> /\ loop.at \in {"down", "provider", "bootstrap", "token"}
  BY DEF Starts, ReadProvider, Bootstrap, ReadToken, trains, memory, Weather
<1>3. /\ loop'.at \in {"provider", "bootstrap", "token", "journeys", "status"}
      /\ loop'.open = {} \/ loop'.at = "journeys" \/ (loop'.at = "status" /\ loop'.end = "error")
  <2>1. CASE Starts
    BY <2>1, FreshLoop DEF Starts
  <2>2. CASE ReadProvider
    <3>1. loop.open = {}
      BY <2>2 DEF PathInv, ReadProvider
    <3>2. QED
      BY <1>1, <2>2, <3>1, ToLoop, EndsLoop DEF ReadProvider
  <2>3. CASE Bootstrap
    <3>1. loop.open = {}
      BY <2>3 DEF PathInv, Bootstrap
    <3>2. QED
      BY <1>1, <2>3, <3>1, ToLoop DEF Bootstrap
  <2>4. CASE ReadToken
    <3>1. CASE Ends("error")
      BY <1>1, <3>1, EndsLoop
    <3>2. CASE loop' = [loop EXCEPT !.at = "journeys", !.key = token]
      BY <1>1, <3>2, KeyLoop
    <3>3. QED
      BY <2>4, <3>1, <3>2 DEF ReadToken
  <2>5. QED
    BY <2>1, <2>2, <2>3, <2>4
<1>4. QED
  BY <1>2, <1>3 DEF Leaves, Polling, Board

LEMMA WaitLeaves ==
  ASSUME TypeInv, PathInv, WriteStatus \/ WriteDetail \/ ReadInterval \/ Wakes \/ DeparturesFail
  PROVE  Leaves
<1>1. DOMAIN loop = LoopFields
  BY DEF TypeInv, LoopTypes
<1>2. /\ Weather /\ UNCHANGED <<outcome, cache>>
      /\ loop.at \in {"status", "detail", "interval", "sleep", "answered"}
  BY DEF WriteStatus, WriteDetail, ReadInterval, Wakes, DeparturesFail, trains, memory, Weather
<1>3. /\ loop'.at \in {"detail", "interval", "sleep", "provider", "status"}
      /\ loop'.at \in {"sleep", "provider"} => loop'.open = {}
      /\ loop'.at = "status" => loop'.end = "error"
  <2>1. CASE WriteStatus \/ WriteDetail \/ ReadInterval
    BY <1>1, <2>1, FreshLoop, ToLoop DEF WriteStatus, WriteDetail, ReadInterval
  <2>2. CASE Wakes
    <3>1. loop.open = {}
      BY <2>2 DEF PathInv, Wakes
    <3>2. QED
      BY <1>1, <2>2, <3>1, ToLoop DEF Wakes
  <2>3. CASE DeparturesFail
    BY <1>1, <2>3, EndsLoop DEF DeparturesFail
  <2>4. QED
    BY <2>1, <2>2, <2>3
<1>4. QED
  BY <1>2, <1>3 DEF Leaves, Polling, Board

LEMMA FailureLeaves ==
  ASSUME TypeInv, QueryFails \/ Crash
  PROVE  Leaves
<1>1. DOMAIN loop = LoopFields
  BY DEF TypeInv, LoopTypes
<1>2. faults' > 0
  BY LoopBounds DEF TypeInv, FaultTypes, QueryFails, Crash, Fault
<1>3. /\ Weather /\ UNCHANGED outcome
      /\ cache' = cache \/ cache' = [s \in Station |-> NoEntry]
  BY DEF QueryFails, Crash, trains, memory, Weather
<1>4. /\ loop'.at \in {"interval", "down", "status"}
      /\ loop'.at = "status" => loop'.end = "error"
  BY <1>1, FreshLoop, EndsLoop DEF QueryFails, Crash
<1>5. QED
  BY <1>2, <1>3, <1>4 DEF Leaves, Polling, Board

LEMMA ListMiss ==
  ASSUME TypeInv, MissInv, FaultsGrow, ListJourneys
  PROVE  MissInv'
<1>1. DOMAIN loop = LoopFields /\ loop.at = "journeys"
  BY DEF TypeInv, LoopTypes, ListJourneys
<1>2. Weather /\ UNCHANGED <<outcome, cache>>
  BY DEF ListJourneys, trains, memory, Weather
<1>3. CASE Ends("skipped")
  <2>1. Leaves
    BY <1>1, <1>2, <1>3, EndsLoop DEF Leaves, Polling, Board
  <2>2. QED
    BY <2>1, LeavingKeeps
<1>4. ASSUME NEW open \in Windows,
             loop' = [loop EXCEPT !.at = "fetch", !.open = open, !.todo = open]
      PROVE  MissInv'
  <2>1. loop'.at = "fetch" /\ loop'.open = open /\ loop'.todo = open
    BY <1>1, <1>4, OpenLoop
  <2>2. PathInv'
    BY <2>1 DEF PathInv, Board
  <2>3. CacheFresh' /\ AnswerFresh' /\ SecondInv'
    BY <1>2, <2>1, CacheKept DEF MissInv, AnswerFresh, SecondInv, Board
  <2>4. \A j \in Journey : ~Done(j)' /\ ~AtBoard(j)' /\ ~AtBoard(j)
    BY <1>1, <2>1 DEF Done, AtBoard, Board
  <2>5. CardInv'
    BY <1>2, <2>4, CardKept DEF MissInv, FaultsGrow, outcome
  <2>6. QED
    BY <2>2, <2>3, <2>4, <2>5, NoneDone DEF MissInv
<1>5. QED
  BY <1>3, <1>4 DEF ListJourneys

\* A poll that is done with every journey.
LEMMA LastMiss ==
  ASSUME TypeInv, MissInv, FaultsGrow, LastJourney
  PROVE  MissInv'
<1>1. /\ DOMAIN loop = LoopFields /\ loop.at = "fetch" /\ loop.todo = {} /\ Ends("ok")
      /\ Weather /\ UNCHANGED <<outcome, cache>>
  BY DEF TypeInv, LoopTypes, LastJourney, trains, memory, Weather
<1>2. /\ loop'.at = "status" /\ loop'.open = loop.open
  BY <1>1, EndsLoop
<1>3. PathInv'
  BY <1>2 DEF PathInv, Polling, Board
<1>4. CacheFresh' /\ AnswerFresh' /\ SecondInv'
  BY <1>1, <1>2, CacheKept DEF MissInv, AnswerFresh, SecondInv, Board
<1>5. \A j \in Journey : (Done(j)' => Done(j)) /\ ~AtBoard(j) /\ ~AtBoard(j)'
  BY <1>1, <1>2 DEF Done, AtBoard, Board
<1>6. DoneInv'
  BY <1>1, <1>2, <1>5, DoneKept DEF MissInv, outcome
<1>7. CardInv'
  BY <1>1, <1>5, CardKept DEF MissInv, FaultsGrow, outcome
<1>8. QED
  BY <1>3, <1>4, <1>6, <1>7 DEF MissInv

\* Time passes at the wait only.
LEMMA TickMiss ==
  ASSUME TypeInv, MissInv, FaultsGrow, Tick
  PROVE  MissInv'
<1>1. /\ loop.at = "sleep" /\ UNCHANGED <<loop, cache, outcome>> /\ now' = now + 1
  BY DEF Tick, memory
<1>2. PICK w \in [Train -> Failures] :
        /\ world' = w
        /\ since' = [t \in Train |-> IF w[t] = world[t] THEN since[t] ELSE now + 1]
  BY DEF Tick
<1>3. now \in Nat /\ Ttl \in Nat /\ \A s \in Station : cache[s].until \in Int
  BY LoopBounds DEF TypeInv, TrainTypes, MemoryTypes
<1>4. PathInv' /\ AnswerFresh' /\ SecondInv'
  BY <1>1 DEF MissInv, PathInv, AnswerFresh, SecondInv, Polling, Board
<1>5. CacheFresh'
  <2> SUFFICES ASSUME NEW s \in Station
               PROVE  /\ cache[s].until <= now' + Ttl
                      /\ cache[s].until >= 0 =>
                           /\ DOMAIN cache[s].answer = Calling(s)
                           /\ \A t \in Calling(s) : since'[t] + Ttl <= cache[s].until =>
                                cache[s].answer[t] \in Reports(t, s)'
    BY <1>1 DEF CacheFresh
  <2>1. cache[s].until <= now + Ttl
    BY DEF MissInv, CacheFresh
  <2>2. ASSUME cache[s].until >= 0, NEW t \in Calling(s), since'[t] + Ttl <= cache[s].until
        PROVE  cache[s].answer[t] \in Reports(t, s)'
    <3>1. t \in Train
      BY DEF Calling
    <3>2. w[t] = world[t] /\ since'[t] = since[t]
      BY <1>2, <1>3, <2>1, <2>2, <3>1
    <3>3. cache[s].answer[t] \in Reports(t, s)
      BY <2>2, <3>2 DEF MissInv, CacheFresh
    <3>4. Reports(t, s)' = Reports(t, s)
      BY <1>2, <3>2 DEF Reports
    <3>5. QED
      BY <3>3, <3>4
  <2>3. QED
    BY <1>1, <1>3, <2>1, <2>2 DEF MissInv, CacheFresh
<1>6. \A j \in Journey : ~Done(j)' /\ ~AtBoard(j) /\ ~AtBoard(j)'
  BY <1>1 DEF Done, AtBoard, Board
<1>7. CardInv'
  BY <1>1, <1>6, CardKept DEF MissInv, FaultsGrow, outcome
<1>8. QED
  BY <1>4, <1>5, <1>6, <1>7, NoneDone DEF MissInv

\* The administrator leaves the loop alone.
LEMMA AdminMiss ==
  ASSUME TypeInv, MissInv, FaultsGrow,
         StartUpdate \/ StartProbe \/ AdminStep \/ RequestFails \/ UNCHANGED vars
  PROVE  MissInv'
<1>1. Weather /\ UNCHANGED <<loop, cache, next, alerts, unread>>
  BY DEF StartUpdate, StartProbe, AdminStep, ReadKey, Probe, SaveCheck, WriteToken, WriteProvider,
         RequestFails, vars, trains, memory, outcome, Weather
<1>2. PathInv'
  BY <1>1 DEF MissInv, PathInv
<1>3. CacheFresh'
  BY <1>1, CacheKept DEF MissInv
<1>4. AnswerFresh'
  BY <1>1, AnswerKept DEF MissInv, SameBoard
<1>5. \A j \in Journey : Done(j)' = Done(j)
  BY <1>1 DEF Done
<1>6. DoneInv'
  BY <1>1, <1>5, DoneKept DEF MissInv
<1>7. SecondInv'
  BY <1>1 DEF MissInv, SecondInv, Told, Origin
<1>8. \A j \in Journey, t \in Train :
        AtBoard(j)' = AtBoard(j) /\ Waiting(t)' = Waiting(t)
  BY <1>1 DEF AtBoard, Waiting, Cancelling, Origin
<1>9. CardInv'
  BY <1>1, <1>5, <1>8, CardKept DEF MissInv, FaultsGrow
<1>10. QED
  BY <1>2, <1>3, <1>4, <1>6, <1>7, <1>9 DEF MissInv

-----------------------------------------------------------------------------
(* The boards.                                                             *)

LEMMA CallMiss ==
  ASSUME TypeInv, MissInv, FaultsGrow, CallDepartures
  PROVE  MissInv'
<1> DEFINE j0 == FirstJourney
<1>1. /\ LoopTypes /\ DOMAIN loop = LoopFields /\ loop.at = "fetch" /\ loop.todo # {}
      /\ cache' = [cache EXCEPT ![j0.origin] = NoEntry]
      /\ loop' = [loop EXCEPT !.at = "answered", !.j = j0]
      /\ Weather /\ UNCHANGED outcome
  BY DEF TypeInv, LoopTypes, CallDepartures, trains, Weather
<1>2. j0 \in loop.todo
  BY <1>1, FirstIsJourney
<1> HIDE DEF j0
<1>3. /\ loop'.at = "answered" /\ loop'.j = j0 /\ loop'.open = loop.open /\ loop'.todo = loop.todo
     
  BY <1>1, CallLoop
<1>4. PathInv'
  BY <1>1, <1>2, <1>3 DEF MissInv, PathInv, Polling, Board
<1>5. AnswerFresh' /\ SecondInv'
  BY <1>3 DEF AnswerFresh, SecondInv, Board
<1>6. CacheFresh'
  <2>1. \A t, s : Reports(t, s)' = Reports(t, s)
    BY <1>1, ReportsStay DEF Weather
  <2>2. NoEntry.until = -1 /\ now + Ttl \in Nat
    BY LoopBounds DEF NoEntry, TypeInv, TrainTypes
  <2>3. DOMAIN cache = Station
    BY DEF TypeInv, MemoryTypes
  <2>4. \A s \in Station : cache'[s] = cache[s] \/ cache'[s] = NoEntry
    BY <1>1, <2>3
  <2>5. QED
    BY <1>1, <2>1, <2>2, <2>4 DEF MissInv, CacheFresh, Weather
<1>7. \A j \in Journey : Done(j)' = Done(j) /\ ~AtBoard(j) /\ ~AtBoard(j)'
  BY <1>1, <1>3 DEF Done, AtBoard, Board
<1>8. DoneInv'
  BY <1>1, <1>3, <1>7, DoneKept DEF MissInv, outcome
<1>9. CardInv'
  BY <1>1, <1>7, CardKept DEF MissInv, FaultsGrow, outcome
<1>10. QED
  BY <1>4, <1>5, <1>6, <1>8, <1>9 DEF MissInv

\* A board is taken up that tells of the trains as they were not too long ago.
LEMMA ReadingMiss ==
  ASSUME TypeInv, MissInv, FaultsGrow, NEW j0 \in loop.todo, NEW a,
         loop.at = "fetch" \/ (loop.at = "answered" /\ loop.j = j0),
         loop' = Reading(j0, a), Weather, UNCHANGED outcome, CacheFresh',
         DOMAIN a = Calling(j0.origin),
         \A t \in Calling(j0.origin) : since[t] + Ttl < now => a[t] \in Reports(t, j0.origin)
  PROVE  MissInv'
<1>1. DOMAIN loop = LoopFields
  BY DEF TypeInv, LoopTypes
<1>2. /\ loop'.at = "match" /\ loop'.todo = loop.todo \ {j0} /\ loop'.j = j0
      /\ loop'.answer = a /\ loop'.pass = 1 /\ loop'.left = Listed(a)
      /\ loop'.open = loop.open
  BY <1>1, ReadingLoop
<1>3. PathInv'
  BY <1>2 DEF MissInv, PathInv, Polling, Board
<1>4. AnswerFresh'
  <2>1. \A t, s : Reports(t, s)' = Reports(t, s)
    BY ReportsStay DEF Weather
  <2>2. QED
    BY <1>2, <2>1 DEF AnswerFresh, Weather, Origin
<1>5. SecondInv'
  BY <1>2 DEF SecondInv
<1>6. \A j \in Journey : (Done(j)' => Done(j)) /\ ~AtBoard(j) /\ ~AtBoard(j)'
  BY <1>2 DEF Done, AtBoard, Board
<1>7. DoneInv'
  BY <1>2, <1>6, DoneKept DEF MissInv, outcome
<1>8. CardInv'
  BY <1>6, CardKept DEF MissInv, FaultsGrow, outcome
<1>9. QED
  BY <1>3, <1>4, <1>5, <1>7, <1>8 DEF MissInv

LEMMA CacheMiss ==
  ASSUME TypeInv, MissInv, FaultsGrow, ReadCache
  PROVE  MissInv'
<1> DEFINE j0 == FirstJourney
<1>1. /\ LoopTypes /\ loop.at = "fetch" /\ loop.todo # {} /\ now <= cache[j0.origin].until
      /\ loop' = Reading(j0, cache[j0.origin].answer)
      /\ Weather /\ UNCHANGED <<outcome, cache>>
  BY DEF TypeInv, ReadCache, trains, memory, Weather
<1>2. j0 \in loop.todo /\ j0.origin \in Station
  BY <1>1, FirstIsJourney
<1> HIDE DEF j0
<1>3. CacheFresh'
  BY <1>1, CacheKept DEF MissInv
<1>4. now \in Nat /\ cache[j0.origin].until \in Int
  BY <1>2 DEF TypeInv, TrainTypes, MemoryTypes
<1>5. /\ DOMAIN cache[j0.origin].answer = Calling(j0.origin)
      /\ \A t \in Calling(j0.origin) :
           since[t] + Ttl <= cache[j0.origin].until =>
             cache[j0.origin].answer[t] \in Reports(t, j0.origin)
  BY <1>1, <1>2, <1>4 DEF MissInv, CacheFresh
<1>6. ASSUME NEW t \in Calling(j0.origin), since[t] + Ttl < now
      PROVE  cache[j0.origin].answer[t] \in Reports(t, j0.origin)
  <2>1. since[t] \in Nat /\ Ttl \in Nat
    BY LoopBounds DEF TypeInv, TrainTypes, Calling
  <2>2. QED
    BY <1>1, <1>4, <1>5, <1>6, <2>1
<1>7. QED
  BY <1>1, <1>2, <1>3, <1>5, <1>6, ReadingMiss

LEMMA AnsweredMiss ==
  ASSUME TypeInv, MissInv, FaultsGrow, DeparturesAnswered
  PROVE  MissInv'
<1>1. loop.at = "answered" /\ Weather /\ UNCHANGED outcome
  BY DEF DeparturesAnswered, trains, Weather
<1>2. PICK a \in Answers(Origin) :
        /\ cache' = [cache EXCEPT ![Origin] = [answer |-> a, until |-> now + Ttl]]
        /\ loop' = Reading(loop.j, a)
  BY DEF DeparturesAnswered
<1>3. loop.j \in loop.todo
  BY <1>1 DEF MissInv, PathInv
<1>4. DOMAIN a = Calling(Origin) /\ \A t \in Calling(Origin) : a[t] \in Reports(t, Origin)
  BY <1>2 DEF Answers
<1>5. CacheFresh'
  <2> DEFINE e == [answer |-> a, until |-> now + Ttl]
  <2>1. \A t, s : Reports(t, s)' = Reports(t, s)
    BY <1>1, ReportsStay DEF Weather
  <2>2. DOMAIN cache = Station /\ now + Ttl \in Int
    BY LoopBounds DEF TypeInv, MemoryTypes, TrainTypes
  <2>3. e.answer = a /\ e.until = now + Ttl
    OBVIOUS
  <2> HIDE DEF e
  <2>4. \A s \in Station : cache'[s] = cache[s] \/ (s = Origin /\ cache'[s] = e)
    BY <1>2, <2>2 DEF e
  <2> SUFFICES ASSUME NEW s \in Station
               PROVE  /\ cache'[s].until <= now + Ttl
                      /\ cache'[s].until >= 0 =>
                           /\ DOMAIN cache'[s].answer = Calling(s)
                           /\ \A t \in Calling(s) : since[t] + Ttl <= cache'[s].until =>
                                cache'[s].answer[t] \in Reports(t, s)
    BY <1>1, <2>1 DEF CacheFresh, Weather
  <2>5. CASE cache'[s] = cache[s]
    BY <2>5 DEF MissInv, CacheFresh
  <2>6. CASE s = Origin /\ cache'[s] = e
    BY <1>4, <2>2, <2>3, <2>6
  <2>7. QED
    BY <2>4, <2>5, <2>6
<1>6. QED
  BY <1>1, <1>2, <1>3, <1>4, <1>5, ReadingMiss DEF Origin

\* Within a reading, when no alert is raised.
LEMMA WithinMiss ==
  ASSUME TypeInv, MissInv, FaultsGrow, Weather, UNCHANGED <<next, alerts, cache>>,
         loop.at \in {"match", "route"}, loop'.at \in {"match", "route"},
         loop'.open = loop.open, loop'.todo = loop.todo, loop'.j = loop.j,
         loop'.answer = loop.answer, loop'.pass = loop.pass,
         loop'.left \subseteq loop.left, \A j \in Journey : unread[j] \subseteq unread'[j],
         \A t \in loop.left \ loop'.left : loop.pass = 2 => t \in unread'[loop.j],
         loop'.at = "route" => loop'.train \in loop'.left
  PROVE  MissInv'
<1>1. loop.j \in Journey
  BY DEF TypeInv, LoopTypes
<1>2. PathInv'
  BY DEF MissInv, PathInv, Polling, Board
<1>3. CacheFresh'
  BY CacheKept DEF MissInv
<1>4. AnswerFresh'
  BY AnswerKept DEF MissInv, SameBoard, Board
<1>5. \A j \in Journey : (Done(j)' <=> Done(j)) /\ (AtBoard(j)' <=> AtBoard(j))
  BY DEF Done, AtBoard, Board
<1>6. DoneInv'
  BY <1>5, DoneKept DEF MissInv
<1>7. SecondInv'
  <2>1. \A t : Told(t) => Told(t)'
    BY <1>1 DEF Told, Origin, AsksCancellations
  <2>2. \A t : t \in unread'[loop.j] => Told(t)'
    BY DEF Told
  <2>3. QED
    BY <2>1, <2>2 DEF MissInv, SecondInv
<1>8. \A j \in Journey, t \in Train :
        AtBoard(j) /\ Waiting(t) => t \in unread'[j] \/ Waiting(t)'
  BY DEF AtBoard, Waiting, Cancelling, Origin
<1>9. CardInv'
  BY <1>5, <1>8, CardKept DEF MissInv, FaultsGrow
<1>10. QED
  BY <1>2, <1>3, <1>4, <1>6, <1>7, <1>9 DEF MissInv

LEMMA RouteMiss ==
  ASSUME TypeInv, MissInv, FaultsGrow, CallRoute \/ RouteAnswered \/ RouteFails
  PROVE  MissInv'
<1>1. DOMAIN loop = LoopFields /\ loop.j \in Journey /\ unread \in [Journey -> SUBSET Train]
  BY DEF TypeInv, LoopTypes, OutcomeTypes
<1>2. Weather /\ UNCHANGED <<next, alerts, cache>>
  BY DEF CallRoute, RouteAnswered, RouteFails, trains, memory, outcome, Weather
<1>3. CASE CallRoute
  <2>1. PICK t \in loop.left : loop' = [loop EXCEPT !.at = "route", !.train = t]
    BY <1>3 DEF CallRoute
  <2>2. loop.at = "match" /\ UNCHANGED unread
    BY <1>3 DEF CallRoute, outcome
  <2>3. QED
    BY <1>1, <1>2, <2>1, <2>2, RouteLoop, WithinMiss
<1>4. CASE RouteAnswered
  <2>1. loop.at = "route" /\ To("match") /\ UNCHANGED unread
    BY <1>4 DEF RouteAnswered, outcome
  <2>2. QED
    BY <1>1, <1>2, <2>1, ToLoop, WithinMiss
<1>5. CASE RouteFails
  <2>1. /\ loop.at = "route"
        /\ loop' = [loop EXCEPT !.at = "match", !.left = @ \ {loop.train}]
        /\ unread' = IF loop.pass = 1 THEN unread
                     ELSE [unread EXCEPT ![loop.j] = @ \cup {loop.train}]
    BY <1>5 DEF RouteFails
  <2>2. /\ \A j \in Journey : unread[j] \subseteq unread'[j]
        /\ loop.pass = 2 => loop.train \in unread'[loop.j]
    BY <1>1, <2>1
  <2>3. /\ loop'.at = "match" /\ loop'.left = loop.left \ {loop.train}
        /\ loop'.open = loop.open /\ loop'.todo = loop.todo
        /\ loop'.j = loop.j /\ loop'.answer = loop.answer /\ loop'.pass = loop.pass
    BY <1>1, <2>1, LostLoop
  <2>4. \A t \in loop.left \ loop'.left : t = loop.train
    BY <2>3
  <2>5. QED
    BY <1>2, <2>1, <2>2, <2>3, <2>4, WithinMiss
<1>6. QED
  BY <1>3, <1>4, <1>5

\* The first reading ends: what it stores as cancelled waits for the second.
LEMMA SaveMiss ==
  ASSUME TypeInv, MissInv, FaultsGrow, SaveNext
  PROVE  MissInv'
<1> DEFINE matched == {t \in loop.left : Wanted(t)}
           n == NextOf(loop.answer, matched)
<1>1. /\ LoopTypes /\ DOMAIN loop = LoopFields /\ loop.at = "match" /\ loop.pass = 1
      /\ loop' = [loop EXCEPT !.pass = 2, !.left = Listed(loop.answer)]
      /\ next' = [next EXCEPT ![loop.j] = n]
      /\ unread' = [unread EXCEPT ![loop.j] = {}] /\ unread \in [Journey -> SUBSET Train]
      /\ Weather /\ UNCHANGED <<cache, alerts>>
  BY DEF TypeInv, LoopTypes, OutcomeTypes, SaveNext, trains, Weather
<1>2. /\ loop'.at = "match" /\ loop'.pass = 2 /\ loop'.left = Listed(loop.answer)
      /\ loop'.open = loop.open /\ loop'.todo = loop.todo
      /\ loop'.j = loop.j /\ loop'.answer = loop.answer
  BY <1>1, SecondLoop
<1>3. PathInv'
  BY <1>1, <1>2 DEF MissInv, PathInv, Polling, Board
<1>4. CacheFresh' /\ AnswerFresh'
  BY <1>1, <1>2, CacheKept, AnswerKept DEF MissInv, SameBoard, Board
<1>5. \A j \in Journey : /\ (Done(j)' <=> Done(j)) /\ ~AtBoard(j) /\ (AtBoard(j)' => j = loop.j)
                         /\ Done(j) => unread'[j] = unread[j]
  BY <1>1, <1>2 DEF Done, AtBoard, Board
<1>6. DoneInv'
  BY <1>1, <1>2, <1>5, DoneKept DEF MissInv
<1>7. SecondInv'
  BY <1>2 DEF SecondInv
<1>8. CardInv'
  <2> SUFFICES ASSUME NEW j \in Journey, NEW t \in Train,
                      next'[j].status = "cancelled", next'[j].train = t, AsksCancellations(j)
               PROVE  \/ Announced(j, t)' \/ t \in unread'[j]
                      \/ (AtBoard(j) /\ Waiting(t))'
                      \/ faults' > 0 /\ ~Done(j)' /\ ~AtBoard(j)'
    BY DEF CardInv, AsksCancellations
  <2>1. CASE j = loop.j
    <3>1. n.status = "cancelled" /\ n.train = t
      BY <1>1, <2>1 DEF TypeInv, OutcomeTypes
    <3>2. DOMAIN loop.answer \subseteq Calling(Origin) /\ matched \subseteq Calling(Origin)
      BY <1>1 DEF LoopTypes, Board
    <3>3. t \in OrphansIn(loop.answer, Origin)
          \/ (t \in matched /\ CancelledIn(loop.answer, t, Origin))
      BY <3>1, <3>2, NextCancelled
    <3>4. t \in matched => t \in Listed(loop.answer) /\ Suits(t, loop.j)
      BY <1>1 DEF MissInv, PathInv, Wanted, Matches, Suits
    <3>5. Cancelling(t)' <=> Cancelling(t)
      BY <1>1, <1>2 DEF Cancelling, Origin
    <3> HIDE DEF matched
    <3>6. Waiting(t)'
      BY <1>2, <3>3, <3>4, <3>5 DEF Waiting, Cancelling, Origin
    <3>7. AtBoard(j)'
      BY <1>2, <2>1 DEF AtBoard, Board
    <3>8. QED
      BY <3>6, <3>7
  <2>2. CASE j # loop.j
    <3>1. next'[j] = next[j] /\ unread'[j] = unread[j]
      BY <1>1, <2>2 DEF TypeInv, OutcomeTypes
    <3>2. Announced(j, t) \/ t \in unread'[j] \/ (faults > 0 /\ ~Done(j))
      BY <1>5, <3>1 DEF MissInv, CardInv
    <3>3. CASE Announced(j, t)
      BY <1>1, <3>3, AnnouncedOn
    <3>4. CASE faults > 0 /\ ~Done(j)
      BY <1>5, <2>2, <3>4 DEF FaultsGrow
    <3>5. QED
      BY <3>2, <3>3, <3>4
  <2>3. QED
    BY <2>1, <2>2
<1>9. QED
  BY <1>3, <1>4, <1>6, <1>7, <1>8 DEF MissInv

\* A departure of the second reading.
LEMMA DepartureMiss ==
  ASSUME TypeInv, MissInv, FaultsGrow, AlertDeparture
  PROVE  MissInv'
<1>1. PICK t0 \in loop.left :
        /\ Decided(t0)
        /\ loop' = [loop EXCEPT !.left = @ \ {t0}]
        /\ alerts' = IF Wanted(t0)
                     THEN alerts \cup {<<loop.j, t0, k>> : k \in KindOf(loop.answer, t0)} ELSE alerts
  BY DEF AlertDeparture
<1>2. /\ DOMAIN loop = LoopFields /\ loop.at = "match" /\ loop.pass = 2
      /\ Weather /\ UNCHANGED <<cache, next, unread>>
  BY DEF TypeInv, LoopTypes, AlertDeparture, trains, memory, Weather
<1>3. /\ loop'.at = "match" /\ loop'.pass = 2 /\ loop'.left = loop.left \ {t0}
      /\ loop'.open = loop.open /\ loop'.todo = loop.todo
      /\ loop'.j = loop.j /\ loop'.answer = loop.answer
  BY <1>1, <1>2, LeftLoop
<1>4. alerts \subseteq alerts'
  BY <1>1
<1>5. AsksCancellations(loop.j) /\ Suits(t0, loop.j) /\ CancelledIn(loop.answer, t0, Origin) =>
        <<loop.j, t0, "cancellation">> \in alerts'
  <2> SUFFICES ASSUME AsksCancellations(loop.j), Suits(t0, loop.j), CancelledIn(loop.answer, t0, Origin)
               PROVE  <<loop.j, t0, "cancellation">> \in alerts'
    OBVIOUS
  <2>1. Wanted(t0)
    BY <1>1 DEF Wanted, Decided, Matches, Suits
  <2>2. "cancellation" \in KindOf(loop.answer, t0)
    BY DEF KindOf, Asks, AsksCancellations
  <2>3. QED
    BY <1>1, <2>1, <2>2
<1>6. PathInv'
  BY <1>2, <1>3 DEF MissInv, PathInv, Polling, Board
<1>7. CacheFresh' /\ AnswerFresh'
  BY <1>2, <1>3, CacheKept, AnswerKept DEF MissInv, SameBoard, Board
<1>8. \A j \in Journey : (Done(j)' <=> Done(j)) /\ (AtBoard(j)' <=> AtBoard(j))
  BY <1>2, <1>3 DEF Done, AtBoard, Board
<1>9. DoneInv'
  BY <1>2, <1>3, <1>4, <1>8, DoneKept DEF MissInv
<1>10. SecondInv'
  <2>1. \A t : Told(t) => Told(t)'
    BY <1>2, <1>3, <1>4 DEF Told, Origin, AsksCancellations
  <2>2. Told(t0)'
    BY <1>3, <1>5 DEF Told, Origin, AsksCancellations
  <2>3. QED
    BY <1>2, <1>3, <2>1, <2>2 DEF MissInv, SecondInv
<1>11. \A j \in Journey, t \in Train :
         AsksCancellations(j) /\ AtBoard(j) /\ Waiting(t) => Announced(j, t)' \/ Waiting(t)'
  <2>1. \A t \in Train : Cancelling(t)' <=> Cancelling(t)
    BY <1>2, <1>3 DEF Cancelling, Origin
  <2>2. AsksCancellations(loop.j) /\ Cancelling(t0) => <<loop.j, t0, "cancellation">> \in alerts'
    BY <1>5 DEF Cancelling
  <2>3. QED
    BY <1>2, <1>3, <2>1, <2>2 DEF AtBoard, Waiting, Announced, Origin
<1>12. CardInv'
  <2>1. \A j \in Journey, t \in Train :
          AsksCancellations(j) /\ AtBoard(j) /\ Waiting(t) => Announced(j, t)' \/ (AtBoard(j) /\ Waiting(t))'
    BY <1>8, <1>11
  <2>2. QED
    BY <1>2, <1>4, <1>8, <2>1, CardKept DEF MissInv, FaultsGrow
<1>13. QED
  BY <1>6, <1>7, <1>9, <1>10, <1>12 DEF MissInv

LEMMA ListOrphansMiss ==
  ASSUME TypeInv, MissInv, FaultsGrow, ListOrphans
  PROVE  MissInv'
<1>1. /\ DOMAIN loop = LoopFields /\ loop.at = "match" /\ loop.pass = 2 /\ loop.left = {}
      /\ loop' = [loop EXCEPT !.at = "orphans", !.left = OrphansIn(loop.answer, Origin)]
      /\ Weather /\ UNCHANGED <<cache, next, alerts, unread>>
  BY DEF TypeInv, LoopTypes, ListOrphans, trains, memory, outcome, Weather
<1>2. /\ loop'.at = "orphans" /\ loop'.left = OrphansIn(loop.answer, Origin)
      /\ loop'.open = loop.open /\ loop'.todo = loop.todo /\ loop'.pass = loop.pass
      /\ loop'.j = loop.j /\ loop'.answer = loop.answer
  BY <1>1, OrphansLoop
<1>3. PathInv'
  BY <1>1, <1>2 DEF MissInv, PathInv, Polling, Board
<1>4. CacheFresh' /\ AnswerFresh'
  BY <1>1, <1>2, CacheKept, AnswerKept DEF MissInv, SameBoard, Board
<1>5. \A j \in Journey : (Done(j)' <=> Done(j)) /\ (AtBoard(j)' <=> AtBoard(j))
  BY <1>1, <1>2 DEF Done, AtBoard, Board
<1>6. DoneInv'
  BY <1>1, <1>2, <1>5, DoneKept DEF MissInv
<1>7. SecondInv'
  <2>1. \A t : Told(t) => Told(t)'
    BY <1>1, <1>2 DEF Told, Origin, AsksCancellations
  <2>2. QED
    BY <1>1, <1>2, <2>1 DEF MissInv, SecondInv, Origin, AsksCancellations
<1>8. \A t \in Train : Waiting(t) => Waiting(t)'
  BY <1>1, <1>2 DEF Waiting, Origin
<1>9. CardInv'
  BY <1>1, <1>5, <1>8, CardKept DEF MissInv, FaultsGrow
<1>10. QED
  BY <1>3, <1>4, <1>6, <1>7, <1>9 DEF MissInv

LEMMA OrphanMiss ==
  ASSUME TypeInv, MissInv, FaultsGrow, AlertOrphan
  PROVE  MissInv'
<1>1. PICK t0 \in loop.left :
        /\ loop' = [loop EXCEPT !.left = @ \ {t0}]
        /\ alerts' = IF Asks("cancellation") = {} THEN alerts
                     ELSE alerts \cup {<<loop.j, t0, "orphan">>}
  BY DEF AlertOrphan
<1>2. /\ DOMAIN loop = LoopFields /\ loop.at = "orphans"
      /\ Weather /\ UNCHANGED <<cache, next, unread>>
  BY DEF TypeInv, LoopTypes, AlertOrphan, trains, memory, Weather
<1>3. /\ loop'.at = "orphans" /\ loop'.left = loop.left \ {t0}
      /\ loop'.open = loop.open /\ loop'.todo = loop.todo /\ loop'.pass = loop.pass
      /\ loop'.j = loop.j /\ loop'.answer = loop.answer
  BY <1>1, <1>2, LeftLoop
<1>4. alerts \subseteq alerts' /\ (AsksCancellations(loop.j) => <<loop.j, t0, "orphan">> \in alerts')
  BY <1>1 DEF Asks, AsksCancellations
<1>5. PathInv'
  BY <1>2, <1>3 DEF MissInv, PathInv, Polling, Board
<1>6. CacheFresh' /\ AnswerFresh'
  BY <1>2, <1>3, CacheKept, AnswerKept DEF MissInv, SameBoard, Board
<1>7. \A j \in Journey : (Done(j)' <=> Done(j)) /\ (AtBoard(j)' <=> AtBoard(j))
  BY <1>2, <1>3 DEF Done, AtBoard, Board
<1>8. DoneInv'
  BY <1>2, <1>3, <1>4, <1>7, DoneKept DEF MissInv
<1>9. SecondInv'
  <2>1. \A t : Told(t) => Told(t)'
    BY <1>2, <1>3, <1>4 DEF Told, Origin, AsksCancellations
  <2>2. QED
    BY <1>2, <1>3, <1>4, <2>1 DEF MissInv, SecondInv, Origin, AsksCancellations
<1>10. \A j \in Journey, t \in Train :
         AsksCancellations(j) /\ AtBoard(j) /\ Waiting(t) => Announced(j, t)' \/ Waiting(t)'
  BY <1>2, <1>3, <1>4 DEF AtBoard, Waiting, Announced
<1>11. CardInv'
  <2>1. \A j \in Journey, t \in Train :
          AsksCancellations(j) /\ AtBoard(j) /\ Waiting(t) => Announced(j, t)' \/ (AtBoard(j) /\ Waiting(t))'
    BY <1>7, <1>10
  <2>2. QED
    BY <1>2, <1>4, <1>7, <2>1, CardKept DEF MissInv, FaultsGrow
<1>12. QED
  BY <1>5, <1>6, <1>8, <1>9, <1>11 DEF MissInv

\* The poll is done with a journey: every train that skips its origin has been told, by
\* its departure or as an orphan.
LEMMA NextMiss ==
  ASSUME TypeInv, MissInv, FaultsGrow, NextJourney
  PROVE  MissInv'
<1>1. /\ LoopTypes /\ DOMAIN loop = LoopFields /\ loop.at = "orphans" /\ loop.left = {}
      /\ loop' = [loop EXCEPT !.at = "fetch", !.answer = NoAnswer]
      /\ Weather /\ UNCHANGED <<cache, next, alerts, unread>>
  BY DEF TypeInv, LoopTypes, NextJourney, trains, memory, outcome, Weather
<1>2. /\ loop'.at = "fetch" /\ loop'.open = loop.open /\ loop'.todo = loop.todo
     
  BY <1>1, DoneLoop
<1>3. PathInv'
  BY <1>1, <1>2 DEF MissInv, PathInv, Polling, Board
<1>4. CacheFresh' /\ AnswerFresh' /\ SecondInv'
  BY <1>1, <1>2, CacheKept DEF MissInv, AnswerFresh, SecondInv, Board
<1>5. \A j \in Journey : /\ Done(j)' => Done(j) \/ j = loop.j
                         /\ Done(j) => Done(j)'
                         /\ ~AtBoard(j)' /\ (AtBoard(j) <=> j = loop.j)
  BY <1>1, <1>2 DEF MissInv, PathInv, Done, AtBoard, Board
<1>6. Clear(loop.j)
  <2> SUFFICES ASSUME NEW t \in Calling(Origin), Origin \in world[t], since[t] + Ttl < now,
                      AsksCancellations(loop.j), Suits(t, loop.j), t \notin unread[loop.j]
               PROVE  Announced(loop.j, t)
    BY DEF Clear, Origin
  <2>1. DOMAIN loop.answer = Calling(Origin) /\ loop.answer[t] \in Reports(t, Origin)
    BY <1>1 DEF MissInv, AnswerFresh, Board
  <2>2. t \in OrphansIn(loop.answer, Origin)
        \/ (t \in Listed(loop.answer) /\ CancelledIn(loop.answer, t, Origin))
    BY <2>1, SkippedIsTold
  <2>3. CASE t \in OrphansIn(loop.answer, Origin)
    BY <1>1, <2>3 DEF MissInv, SecondInv, Announced
  <2>4. CASE t \in Listed(loop.answer) /\ CancelledIn(loop.answer, t, Origin)
    BY <1>1, <2>4 DEF MissInv, SecondInv, Told, Announced
  <2>5. QED
    BY <2>2, <2>3, <2>4
<1>7. DoneInv'
  <2> SUFFICES ASSUME NEW j \in Journey, Done(j)'
               PROVE  Clear(j)'
    BY DEF DoneInv
  <2>1. Clear(j)
    BY <1>5, <1>6 DEF MissInv, DoneInv
  <2>2. QED
    BY <1>1, <1>2, <2>1 DEF Clear, Announced, AsksCancellations, Weather
<1>8. CardInv'
  <2> SUFFICES ASSUME NEW j \in Journey, NEW t \in Train,
                      next[j].status = "cancelled", next[j].train = t, AsksCancellations(j)
               PROVE  Announced(j, t)' \/ t \in unread[j] \/ (faults' > 0 /\ ~Done(j)' /\ ~AtBoard(j)')
    BY <1>1 DEF CardInv, AsksCancellations
  <2>1. ~Waiting(t)
    BY <1>1 DEF Waiting
  <2>2. Announced(j, t) \/ t \in unread[j] \/ (faults > 0 /\ ~Done(j) /\ ~AtBoard(j))
    BY <2>1 DEF MissInv, CardInv
  <2>3. CASE Announced(j, t)
    BY <1>1, <2>3, AnnouncedOn
  <2>4. CASE faults > 0 /\ ~Done(j) /\ ~AtBoard(j)
    BY <1>5, <2>4 DEF FaultsGrow
  <2>5. QED
    BY <2>2, <2>3, <2>4
<1>9. QED
  BY <1>3, <1>4, <1>7, <1>8 DEF MissInv

LEMMA MissNext == TypeInv /\ MissInv /\ [Next]_vars => MissInv'
<1> SUFFICES ASSUME TypeInv, MissInv, [Next]_vars
             PROVE  MissInv'
  OBVIOUS
<1>1. FaultsGrow /\ PathInv
  BY FaultsOnlyGrow DEF MissInv
<1>2. CASE ReadsSettings
  BY <1>1, <1>2, SettingsLeave, LeavingKeeps, ListMiss DEF ReadsSettings
<1>3. CASE Fetches
  BY <1>1, <1>3, WaitLeaves, LeavingKeeps, CacheMiss, CallMiss, AnsweredMiss DEF Fetches
<1>4. CASE Reads
  BY <1>1, <1>4, RouteMiss, SaveMiss, DepartureMiss, ListOrphansMiss, OrphanMiss, NextMiss DEF Reads
<1>5. CASE Finishes
  BY <1>1, <1>5, WaitLeaves, LeavingKeeps, LastMiss DEF Finishes
<1>6. CASE QueryFails \/ Crash
  BY <1>1, <1>6, FailureLeaves, LeavingKeeps
<1>7. CASE Tick
  BY <1>1, <1>7, TickMiss
<1>8. CASE StartUpdate \/ StartProbe \/ AdminStep \/ RequestFails \/ UNCHANGED vars
  BY <1>1, <1>8, AdminMiss
<1>9. QED
  BY <1>2, <1>3, <1>4, <1>5, <1>6, <1>7, <1>8 DEF Next, LoopStep

LEMMA MissInit == Init => MissInv
<1> SUFFICES ASSUME Init
             PROVE  MissInv
  OBVIOUS
<1>1. loop = Fresh("down") /\ now = 0
      /\ cache = [s \in Station |-> NoEntry] /\ next = [j \in Journey |-> NoNext]
  BY DEF Init
<1>2. loop.at = "down"
  BY <1>1 DEF Fresh
<1>3. \A s \in Station : cache[s].until = -1
  BY <1>1 DEF NoEntry
<1>4. \A j \in Journey : next[j].status = "none"
  BY <1>1 DEF NoNext
<1>5. PathInv /\ AnswerFresh /\ SecondInv
  BY <1>2 DEF PathInv, AnswerFresh, SecondInv, Polling, Board
<1>6. CacheFresh
  BY <1>1, <1>3, LoopBounds DEF CacheFresh
<1>7. DoneInv
  BY <1>2 DEF DoneInv, Done, Board
<1>8. CardInv
  BY <1>4 DEF CardInv
<1>9. QED
  BY <1>5, <1>6, <1>7, <1>8 DEF MissInv

LEMMA MissAlways == Spec => [](TypeInv /\ MissInv)
<1>1. TypeInv /\ MissInv /\ [Next]_vars => MissInv'
  BY MissNext
<1>2. QED
  BY <1>1, MissInit, TypeAlways, PTL DEF Spec

\* No journey ends where it begins.
Distinct == \A j \in Journey : j.origin # j.destination

(***************************************************************************)
(* A poll that ended well has announced every train that skips the origin  *)
(* since before the board could have been cached, for each of its journeys *)
(* that asks for suppressions: in every way Navitia tells it, for all      *)
(* corridors, calls, texts and cache times, and whatever failed before,    *)
(* unless the train's vehicle journey could not be read, and as long as no *)
(* journey ends where it begins (the program never follows the vehicle     *)
(* journeys of such a one).                                                *)
(***************************************************************************)
THEOREM NoneIsMissed ==
  ASSUME Distinct
  PROVE  Spec => []NothingMissed
<1>1. TypeInv /\ MissInv => NothingMissed
  <2> SUFFICES ASSUME TypeInv, MissInv, loop.at = "status", loop.end = "ok", NEW j \in loop.open,
                      NEW t \in Calling(j.origin), j.origin \in world[t], since[t] + Ttl < now,
                      AsksCancellations(j), GoesTheWay(t, j), t \notin unread[j]
               PROVE  Announced(j, t)
    BY DEF NothingMissed
  <2>1. j \in Journey /\ t \in Train
    BY DEF TypeInv, LoopTypes, Calling
  <2>2. Suits(t, j)
    BY <2>1, WayIsServed DEF Distinct
  <2>3. Done(j)
    BY DEF Done
  <2>4. QED
    BY <2>1, <2>2, <2>3 DEF MissInv, DoneInv, Clear
<1>2. QED
  BY <1>1, MissAlways, PTL

(***************************************************************************)
(* The two readings of a board agree: what the first stores as the next    *)
(* train and as cancelled, the second announces if the journey asks for    *)
(* suppressions, unless a fault cuts the poll off between the two or the   *)
(* second cannot read the vehicle journey again; a poll that ends well     *)
(* leaves no other such card, whatever failed before it.                   *)
(***************************************************************************)
THEOREM BoardsAreAnnounced == Spec => []BoardIsAnnounced
<1>1. TypeInv /\ MissInv => BoardIsAnnounced
  <2> SUFFICES ASSUME TypeInv, MissInv
               PROVE  BoardIsAnnounced
    OBVIOUS
  <2> DEFINE Known(j) == Announced(j, next[j].train) \/ next[j].train \in unread[j]
  <2>1. ASSUME NEW j \in Journey, next[j].status = "cancelled", AsksCancellations(j), ~Known(j),
               loop.at \in {"status", "sleep"}
        PROVE  faults > 0 /\ ~Done(j)
    <3>1. next[j].train \in Train
      BY DEF TypeInv, OutcomeTypes
    <3>2. ~AtBoard(j)
      BY <2>1 DEF AtBoard, Board
    <3>3. QED
      BY <2>1, <3>1, <3>2 DEF MissInv, CardInv
  <2>2. ASSUME loop.at = "status", loop.end = "ok", NEW j \in loop.open, AsksCancellations(j),
               next[j].status = "cancelled"
        PROVE  Known(j)
    <3>1. j \in Journey /\ Done(j)
      BY <2>2 DEF TypeInv, LoopTypes, Done
    <3>2. QED
      BY <2>1, <2>2, <3>1
  <2>3. ASSUME loop.at = "sleep", faults = 0, NEW j \in Journey,
               AsksCancellations(j), Card(j, TRUE) = [status |-> "cancelled", ko |-> FALSE]
        PROVE  Known(j)
    <3>1. Card(j, TRUE).status = "cancelled"
      <4> DEFINE c == [status |-> "cancelled", ko |-> FALSE]
      <4>1. c.status = "cancelled"
        OBVIOUS
      <4> HIDE DEF c
      <4>2. Card(j, TRUE) = c
        BY <2>3 DEF c
      <4>3. QED
        BY <4>1, <4>2
    <3>2. CASE next[j].status = "none"
      BY <3>1, <3>2 DEF Card, ShownNext, BoardStatus
    <3>3. CASE next[j].status # "none"
      <4>1. Card(j, TRUE) = [BoardStatus(TRUE) EXCEPT !.status = next[j].status]
        BY <3>3 DEF Card, ShownNext
      <4>2. Card(j, TRUE).status = next[j].status
        BY <4>1 DEF BoardStatus
      <4>3. next[j].status = "cancelled"
        BY <3>1, <4>2
      <4>4. faults = 0 /\ ~(0 > 0)
        BY <2>3
      <4>5. QED
        BY <2>1, <2>3, <4>3, <4>4
    <3>4. QED
      BY <3>2, <3>3
  <2>4. QED
    BY <2>2, <2>3 DEF BoardIsAnnounced
<1>2. QED
  BY <1>1, MissAlways, PTL
=============================================================================
