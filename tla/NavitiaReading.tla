--------------------------- MODULE NavitiaReading ---------------------------
(***************************************************************************)
(* How one answer of the departure board is read: which departures go the  *)
(* journey's way, which are cancelled at its origin, and which trains only *)
(* a disruption tells of (adapters/departures-navitia.ts,                  *)
(* adapters/navitia-orphan-cancellations.ts, domain/corridor.ts).          *)
(*                                                                         *)
(* Every departure bears its train's number, as the tokens of both files   *)
(* do: a train is its own number.  A disruption has its train's number for *)
(* id and lists a stop at most once.  What a text holds is a constant.     *)
(***************************************************************************)
EXTENDS Integers, Sequences

CONSTANTS
  Train,
  Station,
  Journey,     \* the journeys: [origin, destination]
  Calls,       \* the stop areas of a train's vehicle journey, in order of the first calls
  Base,        \* base time at its first call
  Within,      \* <<t, u>>: the id of u's trip holds the number of t
  Shows,       \* the stations a train's direction shows: by its id, or by a word of three
               \* letters of their label, wherever the text holds it
  Names,       \* the stations of the corridor that the text names
  Corridor,    \* the stations of the corridor from West to East
  Identified   \* those of which the corridor knows the stop area's id

ASSUME JourneyAssumption == Journey \subseteq [origin : Station, destination : Station]
ASSUME CallsAssumption == Calls \in [Train -> Seq(Station)] /\ \A t \in Train : Calls[t] # <<>>
ASSUME BaseAssumption == Base \in [Train -> Nat]
ASSUME WithinAssumption == Within \subseteq Train \X Train
ASSUME TextAssumption == {Shows, Names} \subseteq [Train -> SUBSET Station]
ASSUME CorridorAssumption == Corridor \in Seq(Station) /\ Identified \subseteq Station

On(line, s) == \E i \in DOMAIN line : line[i] = s
Index(line, s) == CHOOSE i \in DOMAIN line : line[i] = s /\ \A k \in 1 .. i - 1 : line[k] # s
Terminus(t) == Calls[t][Len(Calls[t])]
Time(t, s) == Base[t] + Index(Calls[t], s)

NoReal == -1                  \* a base time without a real one
Untimed == -1                 \* an impacted stop without a base time

(***************************************************************************)
(* A departure: [train, deleted, words, real, links]: its stop's status is *)
(* deleted or skipped, its texts say so, the delay, the disruptions linked *)
(* to it.  A disruption: [id, trip, noService, words, stops].              *)
(***************************************************************************)
Stop == [station : Station, time : Nat \cup {Untimed}, deleted : BOOLEAN]

Linked(d, dep) == d.id \in dep.links
\* disruptionIdsMatch, or the trip bears the train's number, in its name or within its id.
Applies(d, dep) ==
  Linked(d, dep) \/ d.trip = dep.train \/ <<dep.train, d.trip>> \in Within

\* Mutant: the stop of the disruption is not compared with the origin.
AtAnyStop(stop, o, t) == TRUE

AtOrigin(stop, o, t) == stop.station = o /\ stop.time \in {Untimed, Time(t, o)}

\* findImpactedStopForDeparture: the first that applies decides.
ImpactedCancelled(dep, ds, o) ==
  \E i \in DOMAIN ds :
    LET At(k) == {stop \in ds[k].stops : AtOrigin(stop, o, dep.train)}
    IN /\ Applies(ds[i], dep)
       /\ \E stop \in At(i) : stop.deleted
       /\ \A k \in 1 .. i - 1 : Applies(ds[k], dep) => At(k) = {}

\* isNavitiaDepartureCancelled
Cancelled(dep, ds, o) ==
  \/ dep.deleted
  \/ dep.words
  \/ dep.real = NoReal
  \/ ImpactedCancelled(dep, ds, o)
  \/ \E i \in DOMAIN ds : Linked(ds[i], dep) /\ (ds[i].noService \/ ds[i].words)

\* delayMinutesFromDeparture: late at all.
Late(dep) == dep.real > 0

\* coveredKeysFromDepartures: a train and the time it was to leave.
Covered(deps, o) == {<<dep.train, Time(dep.train, o)>> : dep \in deps}

\* listOrphanCancellationsFromImpactedObjects: timed stops only; where the train
\* goes is not asked.
Orphans(deps, ds, o) ==
  {t \in Train : \E i \in DOMAIN ds : \E stop \in ds[i].stops :
     /\ ds[i].trip = t
     /\ stop.station = o /\ stop.deleted /\ stop.time # Untimed
     /\ <<t, stop.time>> \notin Covered(deps, o)}

-----------------------------------------------------------------------------
(***************************************************************************)
(* Which departures go the journey's way.                                  *)
(***************************************************************************)
\* matchesCorridorAllowlist: the easternmost station named is the destination or lies
\* beyond it.
BeyondOnCorridor(j, names) ==
  /\ {j.origin, j.destination} \subseteq Identified
  /\ On(Corridor, j.origin) /\ On(Corridor, j.destination) /\ j.origin # j.destination
  /\ LET o == Index(Corridor, j.origin)
         d == Index(Corridor, j.destination)
         named == {i \in DOMAIN Corridor : Corridor[i] \in names}
     IN /\ named # {}
        /\ IF d > o THEN \E e \in named : e >= d ELSE \A e \in named : e <= d

\* matchesDestinationFilter
Shown(t, j) == j.destination \in Shows[t] \/ BeyondOnCorridor(j, Names[t])

\* vehicleJourneyServesOd: a stop at the destination after the first at the origin.
ServesOd(stops, j) ==
  /\ j.origin # j.destination /\ On(stops, j.origin)
  /\ \E i \in DOMAIN stops : i > Index(stops, j.origin) /\ stops[i] = j.destination

\* Mutant: a train serves both stations, in whatever order.
MatchesBoth(t, j, known) ==
  Shown(t, j) \/ (known /\ On(Calls[t], j.origin) /\ On(Calls[t], j.destination))

\* navitiaDepartureMatchesFilter, the vehicle journey being known or not.
Matches(t, j, known) == Shown(t, j) \/ (known /\ ServesOd(Calls[t], j))

\* saveNextFromNavitia: the earliest base time; of two, the one that leaves first.
Earliest(S, o) == CHOOSE t \in S : \A u \in S : Time(t, o) <= Time(u, o)
=============================================================================
