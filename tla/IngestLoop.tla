----------------------------- MODULE IngestLoop -----------------------------
(***************************************************************************)
(* The ingest loop of one process (worker-ingest.ts or index.ts): settings *)
(* read in the database, the board of every open journey fetched through   *)
(* the cache and read twice, the result written, the wait; with the        *)
(* administrators who change the settings under it (routes/admin.ts,       *)
(* domain/store.ts).                                                       *)
(*                                                                         *)
(* The event, its job and the observation that an alert writes are modules *)
(* AlertPipeline and LiaisonBoard: here an alert is one step, and every    *)
(* train is in the watch window of TrainWatch.  Time passes between polls. *)
(***************************************************************************)
EXTENDS NavitiaReading, FiniteSets

CONSTANTS
  Order,        \* the trains, in the order an answer lists their disruptions
  Windows,      \* the sets of journeys that may be open at once
  Token, Valid, \* keys of the API, and those it accepts
  EnvProvider,  \* INGEST_PROVIDER
  Failures,     \* what may befall a train: the stops it does not serve
  Forms,        \* ways Navitia may tell it
  Delays,       \* delays a departure may show
  Severities,   \* what each journey asks to be told
  MinDelay,     \* the delay from which it is told
  Ttl,          \* DEPARTURES_CACHE_TTL_MS
  MaxNow,       \* bound: ticks of the clock
  MaxSkips,     \* bound: stops that trains ever skip
  MaxChanges,   \* bound: requests of the administrator
  MaxFaults     \* bound: calls that fail, queries that reject, crashes

ASSUME SomeAssumption == Train # {} /\ Journey # {}
ASSUME OrderAssumption == Order \in Seq(Train) /\ \A t \in Train : On(Order, t)
ASSUME WindowsAssumption == Windows \subseteq SUBSET Journey
ASSUME TokenAssumption == Valid \subseteq Token /\ "none" \notin Token
ASSUME ProviderAssumption == EnvProvider \in {"navitia", "stub"}
ASSUME FailuresAssumption == Failures \subseteq SUBSET Station /\ {} \in Failures
ASSUME FormsAssumption == Forms \subseteq {"status", "words", "noReal", "impact", "named",
                                            "noService", "message", "gone"}
ASSUME JourneysAssumption == /\ Severities \in [Journey -> SUBSET {"delay", "cancellation"}]
                             /\ MinDelay \in [Journey -> Nat]
ASSUME LoopBounds == {Ttl, MaxNow, MaxSkips, MaxChanges, MaxFaults} \subseteq Nat /\ Delays \subseteq Nat

VARIABLES
  now, world, since,   \* the clock, the stops each train skips, since when
  skipped,             \* <<t, s>>: the train has skipped that stop (history)
  provider, token,     \* app_meta: the active provider, the key of Navitia
  check,               \* app_meta: the last check of a key
  result,              \* app_meta: last_ingest_status and last_ingest_detail
  loop,                \* the loop: where it is and what it holds
  cache, known,        \* the process's boards by origin, and its vehicle journeys
  next,                \* journey_board_snapshots
  alerts,              \* <<j, t, kind>>: events raised
  unread,              \* the trains whose vehicle journey the last reading for a journey's
                       \* alerts could not read (history)
  owed,                \* requests of a living poll not in api_quota_daily (history)
  admin, loose,        \* the admin's request; the check is of another key (history)
  changes, faults

trains == <<now, world, since, skipped>>
settings == <<provider, token, check>>
memory == <<cache, known>>
requests == <<admin, loose, changes>>
outcome == <<next, alerts, unread>>
vars == <<trains, settings, result, loop, memory, outcome, owed, requests, faults>>

\* What the board says of a train: how it tells that it skips the origin, or that it runs,
\* "part" if the text on its other stops speaks of a suppression; "gone" is a departure
\* that is no longer listed.
Report == [how : Forms \cup {"runs", "part"}, delay : Delays \cup {0}, shared : BOOLEAN, lost : Failures]
Calling(o) == {t \in Train : On(Calls[t], o) /\ Terminus(t) # o}
NoAnswer == [t \in {} |-> 0]
IsAnswer(a) == a = NoAnswer \/ \E j \in Journey : a \in [Calling(j.origin) -> Report]

\* Navitia answers what is; a running departure may be linked to the disruptions of others.
Reports(t, o) ==
  IF o \in world[t]
  THEN {[how |-> h, delay |-> 0, shared |-> FALSE, lost |-> world[t]] : h \in Forms}
  ELSE {[how |-> h, delay |-> d, shared |-> b, lost |-> world[t]]
        : h \in IF world[t] = {} THEN {"runs"} ELSE {"runs", "part"}, d \in Delays, b \in BOOLEAN}
Answers(o) ==
  {a \in [Calling(o) -> UNION {Reports(t, o) : t \in Calling(o)}] :
     \A t \in Calling(o) : a[t] \in Reports(t, o)}

LinksOf(a, t) ==
  (IF a[t].how \in {"impact", "noService", "message"} \/ (a[t].how \in {"runs", "part"} /\ a[t].lost # {})
   THEN {t} ELSE {})
  \cup (IF a[t].shared THEN DOMAIN a ELSE {})
Listed(a) == {t \in DOMAIN a : a[t].how # "gone"}
DepartureOf(a, t) ==
  [train |-> t, deleted |-> a[t].how = "status", words |-> a[t].how = "words",
   real |-> IF a[t].how = "noReal" THEN NoReal ELSE a[t].delay, links |-> LinksOf(a, t)]
Departures(a) == {DepartureOf(a, t) : t \in Listed(a)}
StopsOf(r, t) ==
  IF r.how \in {"runs", "part", "impact", "named", "gone"}
  THEN {[station |-> s, time |-> Time(t, s), deleted |-> TRUE]
        : s \in {u \in r.lost : On(Calls[t], u)}}
  ELSE {}
\* A train that does not call at the origin has none that is told here.
DisruptionOf(a, t) ==
  LET told == t \in DOMAIN a
  IN [id |-> t, trip |-> t, noService |-> told /\ a[t].how = "noService",
      words |-> told /\ a[t].how \in {"message", "part"}, stops |-> IF told THEN StopsOf(a[t], t) ELSE {}]
Disruptions(a) == [i \in DOMAIN Order |-> DisruptionOf(a, Order[i])]

CancelledIn(a, t, o) == Cancelled(DepartureOf(a, t), Disruptions(a), o)
OrphansIn(a, o) == Orphans(Departures(a), Disruptions(a), o)

\* The loop's locals, its answer apart.
LoopState ==
  [at : {"down", "provider", "bootstrap", "token", "journeys", "fetch", "answered", "match",
         "route", "orphans", "status", "detail", "interval", "sleep"},
   key : Token \cup {"none"}, open : SUBSET Journey, todo : SUBSET Journey, j : Journey, pass : {1, 2},
   left : SUBSET Train, train : Train,
   end : {"none", "ok", "skipped", "error"}]
AnyJourney == CHOOSE j \in Journey : TRUE
AnyTrain == CHOOSE t \in Train : TRUE
Fresh(at) ==
  [at |-> at, key |-> "none", open |-> {}, todo |-> {}, j |-> AnyJourney, answer |-> NoAnswer,
   pass |-> 1, left |-> {}, train |-> AnyTrain, end |-> "none"]
To(at) == loop' = [loop EXCEPT !.at = at]
Ends(end) == loop' = [loop EXCEPT !.at = "status", !.end = end, !.answer = NoAnswer,
                                 !.left = {}]

AdminState ==
  [at : {"idle", "read", "probe", "save", "token", "provider"}, test : BOOLEAN, again : BOOLEAN,
   token : Token \cup {"none"}, provider : {"navitia", "stub", "none"},
   key : Token \cup {"none"}, ok : BOOLEAN]
NoRequest == [at |-> "idle", test |-> FALSE, again |-> FALSE, token |-> "none",
              provider |-> "none", key |-> "none", ok |-> FALSE]
NoCheck == [token |-> "none", ok |-> FALSE]
NoEntry == [answer |-> NoAnswer, until |-> -1]
NoNext == [train |-> AnyTrain, status |-> "none"]

\* The settings are those of a new database, or of one in use.
Init ==
  /\ now = 0 /\ world = [t \in Train |-> {}] /\ since = [t \in Train |-> 0] /\ skipped = {}
  /\ provider \in {"unset", "navitia", "stub"} /\ token \in Token \cup {"none"}
  /\ check = [token |-> token, ok |-> token \in Valid]
  /\ result = [status |-> "none", detail |-> "none"]
  /\ loop = Fresh("down")
  /\ cache = [s \in Station |-> NoEntry] /\ known = {}
  /\ next = [j \in Journey |-> NoNext] /\ alerts = {}
  /\ unread = [j \in Journey |-> {}]
  /\ owed = 0 /\ admin = NoRequest /\ loose = FALSE /\ changes = 0 /\ faults = 0

\* What a failure costs of the bound.
Fault == faults < MaxFaults /\ faults' = faults + 1
Origin == loop.j.origin

-----------------------------------------------------------------------------
\* The loop reads its settings.

Starts ==
  /\ loop.at = "down"
  /\ loop' = Fresh("provider")
  /\ UNCHANGED <<trains, settings, result, memory, outcome, owed, requests, faults>>

\* getIngestProvider, and the stub, which calls nobody.
ReadProvider ==
  /\ loop.at = "provider"
  /\ \/ provider = "unset" /\ To("bootstrap")
     \/ provider = "navitia" /\ To("token")
     \/ provider = "stub" /\ \E end \in {"ok", "skipped"} : Ends(end)
  /\ UNCHANGED <<trains, settings, result, memory, outcome, owed, requests, faults>>

\* ensureIngestConfigBootstrapped
Bootstrap ==
  /\ loop.at = "bootstrap"
  /\ provider' = EnvProvider /\ To("provider")
  /\ UNCHANGED <<trains, token, check, result, memory, outcome, owed, requests, faults>>

ReadToken ==
  /\ loop.at = "token"
  /\ \/ token = "none" /\ Ends("error")
     \/ token # "none" /\ loop' = [loop EXCEPT !.at = "journeys", !.key = token]
  /\ UNCHANGED <<trains, settings, result, memory, outcome, owed, requests, faults>>

ListJourneys ==
  /\ loop.at = "journeys"
  /\ \E open \in Windows :
       \/ open = {} /\ Ends("skipped")
       \/ open # {} /\ loop' = [loop EXCEPT !.at = "fetch", !.open = open, !.todo = open]
  /\ UNCHANGED <<trains, settings, result, memory, outcome, owed, requests, faults>>

-----------------------------------------------------------------------------
\* fetchDepartures: the next journey, from the cache or from Navitia.

\* listJourneys has one order.
FirstJourney == CHOOSE k \in loop.todo : TRUE
Reading(j, a) ==
  [loop EXCEPT !.at = "match", !.todo = @ \ {j}, !.j = j, !.answer = a, !.pass = 1,
               !.left = Listed(a)]

\* Vehicle journeys leave their cache on their own, so before any reading.
Expire == known' \in SUBSET known

\* Mutant: an entry that is read lives on.
ReadCacheAndKeep ==
  /\ loop.at = "fetch" /\ loop.todo # {}
  /\ LET j == FirstJourney IN
       /\ now <= cache[j.origin].until
       /\ loop' = Reading(j, cache[j.origin].answer)
       /\ cache' = [cache EXCEPT ![j.origin].until = now + Ttl]
  /\ Expire
  /\ UNCHANGED <<trains, settings, result, outcome, owed, requests, faults>>

ReadCache ==
  /\ loop.at = "fetch" /\ loop.todo # {}
  /\ LET j == FirstJourney IN
       /\ now <= cache[j.origin].until
       /\ loop' = Reading(j, cache[j.origin].answer)
  /\ Expire
  /\ UNCHANGED <<trains, settings, result, cache, outcome, owed, requests, faults>>

CallDepartures ==
  /\ loop.at = "fetch" /\ loop.todo # {}
  /\ LET j == FirstJourney IN
       /\ now > cache[j.origin].until
       /\ cache' = [cache EXCEPT ![j.origin] = NoEntry]
       /\ loop' = [loop EXCEPT !.at = "answered", !.j = j]
  /\ owed' = owed + 1
  /\ UNCHANGED <<trains, settings, result, known, outcome, requests, faults>>

\* recordApiRequest
Recorded == owed' = owed - 1

\* The answer, recorded before its body is read.
DeparturesAnswered ==
  /\ loop.at = "answered" /\ loop.key \in Valid
  /\ \E a \in Answers(Origin) :
       /\ cache' = [cache EXCEPT ![Origin] = [answer |-> a, until |-> now + Ttl]]
       /\ loop' = Reading(loop.j, a)
  /\ Recorded /\ Expire
  /\ UNCHANGED <<trains, settings, result, outcome, requests, faults>>

\* Mutant: the failure is counted, and counted again by the caller.
DeparturesFailTwice ==
  /\ loop.at = "answered"
  /\ \/ loop.key \notin Valid /\ UNCHANGED faults
     \/ loop.key \in Valid /\ Fault
  /\ owed' = owed - 2 /\ Ends("error")
  /\ UNCHANGED <<trains, settings, result, memory, outcome, requests>>

DeparturesFail ==
  /\ loop.at = "answered"
  /\ \/ loop.key \notin Valid /\ UNCHANGED faults
     \/ loop.key \in Valid /\ Fault
  /\ Recorded /\ Ends("error")
  /\ UNCHANGED <<trains, settings, result, memory, outcome, requests>>

-----------------------------------------------------------------------------
\* The two readings of one board: for the next train, then for the alerts.

\* The journey at hand wants this departure, the vehicle journey being known or not.
Wanted(t) == Matches(t, loop.j, t \in known)
Decided(t) == Shown(t, loop.j) \/ t \in known
\* The answer lists its departures by base time; in the first reading, what is decided
\* at once waits for no one.
FirstOf(t) == t = Earliest({u \in loop.left : loop.pass = 2 \/ ~Decided(u)}, Origin)

CallRoute ==
  /\ loop.at = "match"
  /\ \E t \in loop.left : /\ ~Decided(t) /\ FirstOf(t)
                          /\ loop' = [loop EXCEPT !.at = "route", !.train = t]
  /\ owed' = owed + 1
  /\ UNCHANGED <<trains, settings, result, memory, outcome, requests, faults>>

RouteAnswered ==
  /\ loop.at = "route" /\ loop.key \in Valid
  /\ known' = known \cup {loop.train} /\ To("match") /\ Recorded
  /\ UNCHANGED <<trains, settings, result, cache, outcome, requests, faults>>

\* Mutant: a call that fails is not counted.
RouteFailsUncounted ==
  /\ loop.at = "route"
  /\ \/ loop.key \notin Valid /\ UNCHANGED faults
     \/ loop.key \in Valid /\ Fault
  /\ loop' = [loop EXCEPT !.at = "match", !.left = @ \ {loop.train}]
  /\ unread' = IF loop.pass = 1 THEN unread
               ELSE [unread EXCEPT ![loop.j] = @ \cup {loop.train}]
  /\ UNCHANGED <<trains, settings, result, memory, next, alerts, owed, requests>>

\* fetchVehicleJourneyStopAreaIds: no stops, nothing cached, and the departure is left out.
RouteFails ==
  /\ loop.at = "route"
  /\ \/ loop.key \notin Valid /\ UNCHANGED faults
     \/ loop.key \in Valid /\ Fault
  /\ loop' = [loop EXCEPT !.at = "match", !.left = @ \ {loop.train}]
  /\ unread' = IF loop.pass = 1 THEN unread
               ELSE [unread EXCEPT ![loop.j] = @ \cup {loop.train}]
  /\ Recorded
  /\ UNCHANGED <<trains, settings, result, memory, next, alerts, requests>>

\* buildNextDepartureStatus
StatusOf(cancelled, late) ==
  IF cancelled THEN "cancelled" ELSE IF late THEN "delayed" ELSE "on_time"

\* saveNextFromNavitia: the earliest of the wanted departures and of the orphans.
NextOf(a, matched) ==
  LET candidates == matched \cup OrphansIn(a, Origin)
      t == Earliest(candidates, Origin)
  IN IF candidates = {} THEN NoNext
     ELSE [train |-> t,
           status |-> StatusOf(t \notin matched \/ CancelledIn(a, t, Origin),
                               t \in matched /\ Late(DepartureOf(a, t)))]
SaveNext ==
  /\ loop.at = "match" /\ loop.pass = 1 /\ \A t \in loop.left : Decided(t)
  /\ next' = [next EXCEPT ![loop.j] = NextOf(loop.answer, {t \in loop.left : Wanted(t)})]
  /\ loop' = [loop EXCEPT !.pass = 2, !.left = Listed(loop.answer)]
  /\ unread' = [unread EXCEPT ![loop.j] = {}]
  /\ Expire
  /\ UNCHANGED <<trains, settings, result, cache, alerts, owed, requests, faults>>

\* What the journey asks to be told of a departure.
Asks(kind) == {kind} \cap Severities[loop.j]
DelayAsked(a, t) ==
  IF Late(DepartureOf(a, t)) /\ a[t].delay >= MinDelay[loop.j] THEN Asks("delay") ELSE {}

\* Mutant: only a departure that is late is an alert.
KindLate(a, t) == DelayAsked(a, t)

\* The alert a departure makes, if any.
KindOf(a, t) ==
  IF CancelledIn(a, t, Origin) THEN Asks("cancellation") ELSE DelayAsked(a, t)

\* The second reading: a wanted departure, its observation and its alert.
AlertDeparture ==
  /\ loop.at = "match" /\ loop.pass = 2
  /\ \E t \in loop.left :
       /\ FirstOf(t) /\ Decided(t)
       /\ loop' = [loop EXCEPT !.left = @ \ {t}]
       /\ alerts' = IF Wanted(t)
                    THEN alerts \cup {<<loop.j, t, k>> : k \in KindOf(loop.answer, t)} ELSE alerts
  /\ UNCHANGED <<trains, settings, result, memory, next, unread, owed, requests, faults>>

ListOrphans ==
  /\ loop.at = "match" /\ loop.pass = 2 /\ loop.left = {}
  /\ loop' = [loop EXCEPT !.at = "orphans", !.left = OrphansIn(loop.answer, Origin)]
  /\ UNCHANGED <<trains, settings, result, memory, outcome, owed, requests, faults>>

AlertOrphan ==
  /\ loop.at = "orphans"
  /\ \E t \in loop.left : /\ FirstOf(t)
                          /\ loop' = [loop EXCEPT !.left = @ \ {t}]
                          /\ alerts' = IF Asks("cancellation") = {} THEN alerts
                                       ELSE alerts \cup {<<loop.j, t, "orphan">>}
  /\ UNCHANGED <<trains, settings, result, memory, next, unread, owed, requests, faults>>

NextJourney ==
  /\ loop.at = "orphans" /\ loop.left = {}
  /\ loop' = [loop EXCEPT !.at = "fetch", !.answer = NoAnswer]
  /\ UNCHANGED <<trains, settings, result, memory, outcome, owed, requests, faults>>

-----------------------------------------------------------------------------
\* The end of a poll, the wait, and what can fail.

\* processNotifyJobs drains here.
LastJourney ==
  /\ loop.at = "fetch" /\ loop.todo = {} /\ Ends("ok")
  /\ UNCHANGED <<trains, settings, result, memory, outcome, owed, requests, faults>>

\* setIngestResult: one statement a setting.
WriteStatus ==
  /\ loop.at = "status"
  /\ result' = [status |-> loop.end, detail |-> result.detail] /\ To("detail")
  /\ UNCHANGED <<trains, settings, memory, outcome, owed, requests, faults>>

\* Mutant: a poll that threw leaves the detail as it was.
DetailUnlessError ==
  /\ loop.at = "detail"
  /\ result' = [result EXCEPT !.detail = IF loop.end = "error" THEN @ ELSE loop.end]
  /\ To("interval")
  /\ UNCHANGED <<trains, settings, memory, outcome, owed, requests, faults>>

\* Mutant: a poll that failed is tried again at once.
RetryAtOnce ==
  /\ loop.at = "detail"
  /\ result' = [result EXCEPT !.detail = loop.end]
  /\ loop' = IF loop.end = "error" THEN Fresh("provider") ELSE [loop EXCEPT !.at = "interval"]
  /\ UNCHANGED <<trains, settings, memory, outcome, owed, requests, faults>>

WriteDetail ==
  /\ loop.at = "detail"
  /\ result' = [status |-> result.status, detail |-> loop.end] /\ To("interval")
  /\ UNCHANGED <<trains, settings, memory, outcome, owed, requests, faults>>

ReadInterval ==
  /\ loop.at = "interval" /\ loop' = Fresh("sleep")
  /\ UNCHANGED <<trains, settings, result, memory, outcome, owed, requests, faults>>

Wakes ==
  /\ loop.at = "sleep" /\ To("provider")
  /\ UNCHANGED <<trains, settings, result, memory, outcome, owed, requests, faults>>

\* The statements under the adapter's try: the poll of Navitia once its journeys are known.
Guarded ==
  \/ loop.at \in {"answered", "route", "orphans"}
  \/ loop.at = "match" /\ (loop.pass = 2 \/ \A t \in loop.left : Decided(t))
  \/ loop.at = "fetch" /\ loop.todo = {}
  \/ loop.at \in {"status", "detail"} /\ loop.end = "ok" /\ loop.key # "none"

\* A query rejects: the adapter catches it and writes an error, or the loop goes on.
QueryFails ==
  /\ Fault
  /\ \/ Guarded /\ Ends("error")
     \/ /\ ~Guarded
        /\ loop.at \in {"provider", "bootstrap", "token", "journeys", "status", "detail"}
        /\ loop' = Fresh("interval")
  /\ owed' = 0
  /\ UNCHANGED <<trains, settings, result, memory, outcome, requests>>

\* The process ends: killed, or by the interval's query, which nothing catches.
Crash ==
  /\ loop.at # "down" /\ Fault
  /\ loop' = Fresh("down")
  /\ cache' = [s \in Station |-> NoEntry] /\ known' = {} /\ owed' = 0
  /\ UNCHANGED <<trains, settings, result, outcome, requests>>

\* Time passes and trains change.
Tick ==
  /\ loop.at = "sleep" /\ now < MaxNow
  /\ now' = now + 1
  /\ \E w \in [Train -> Failures] :
       /\ world' = w
       /\ since' = [t \in Train |-> IF w[t] = world[t] THEN since[t] ELSE now + 1]
       /\ skipped' = skipped \cup {p \in Train \X Station : p[2] \in w[p[1]]}
       /\ Cardinality(skipped') <= MaxSkips
  /\ UNCHANGED <<settings, result, loop, memory, outcome, owed, requests, faults>>

-----------------------------------------------------------------------------
\* The administrator: PUT /v1/admin/ingest and POST /v1/admin/ingest/probe.

AdminAt(at) == admin' = [admin EXCEPT !.at = at]
Asked == admin.at = "idle" /\ changes < MaxChanges /\ changes' = changes + 1

StartUpdate ==
  /\ Asked
  /\ \E k \in Token \cup {"none"}, p \in {"navitia", "stub", "none"} :
       admin' = [NoRequest EXCEPT !.token = k, !.provider = p, !.key = k, !.again = p = "navitia",
                   !.at = IF k # "none" THEN "probe" ELSE IF p = "navitia" THEN "read" ELSE "token"]
  /\ UNCHANGED <<trains, settings, result, loop, memory, outcome, owed, loose, faults>>

\* A probe of the key that is typed, or of the stored one.
StartProbe ==
  /\ Asked
  /\ \E k \in Token \cup {"none"} :
       /\ admin' = [NoRequest EXCEPT !.test = TRUE, !.key = k,
                                     !.at = IF k = "none" THEN "read" ELSE "probe"]
       /\ loose' = (loose \/ k # "none")
  /\ UNCHANGED <<trains, settings, result, loop, memory, outcome, owed, faults>>

\* Mutant: the stored key is probed although another one was typed.
ReadStoredKey ==
  /\ admin.at = "read"
  /\ admin' = [admin EXCEPT !.at = "probe", !.again = FALSE, !.key = token]
  /\ UNCHANGED <<trains, settings, result, loop, memory, outcome, owed, loose, changes, faults>>

\* The key of a probe: the one of the request, or the stored one.
ReadKey ==
  /\ admin.at = "read"
  /\ admin' = [admin EXCEPT !.at = "probe", !.again = FALSE,
                            !.key = IF admin.token # "none" THEN admin.token ELSE token]
  /\ UNCHANGED <<trains, settings, result, loop, memory, outcome, owed, loose, changes, faults>>

\* probeIngestCredential, which never throws; its call is not in api_quota_daily.
Probe ==
  /\ admin.at = "probe"
  /\ \/ /\ admin' = [admin EXCEPT !.at = "save", !.ok = admin.key \in Valid]
        /\ UNCHANGED faults
     \/ /\ admin.key \in Valid /\ Fault
        /\ admin' = [admin EXCEPT !.at = "save", !.ok = FALSE]
  /\ UNCHANGED <<trains, settings, result, loop, memory, outcome, owed, loose, changes>>

SaveCheck ==
  /\ admin.at = "save"
  /\ check' = [token |-> admin.key, ok |-> admin.ok]
  /\ \/ admin.test /\ admin' = NoRequest
     \/ ~admin.test /\ AdminAt(IF admin.again THEN "read" ELSE "token")
  /\ UNCHANGED <<trains, provider, token, result, loop, memory, outcome, owed, loose, changes, faults>>

\* updateIngestConfig; the snapshots of the stub it deletes are written by nobody.
WriteToken ==
  /\ admin.at = "token"
  /\ token' = (IF admin.token # "none" THEN admin.token ELSE token) /\ AdminAt("provider")
  /\ loose' = (loose /\ admin.token = "none")
  /\ UNCHANGED <<trains, provider, check, result, loop, memory, outcome, owed, changes, faults>>

WriteProvider ==
  /\ admin.at = "provider"
  /\ provider' = (IF admin.provider # "none" THEN admin.provider ELSE provider)
  /\ admin' = NoRequest
  /\ UNCHANGED <<trains, token, check, result, loop, memory, outcome, owed, loose, changes, faults>>

\* A query of the request rejects, or the API stops.
RequestFails ==
  /\ admin.at # "idle" /\ Fault
  /\ admin' = NoRequest /\ loose' = TRUE
  /\ UNCHANGED <<trains, settings, result, loop, memory, outcome, owed, changes>>

-----------------------------------------------------------------------------
\* What the dashboard shows of an active journey (getOverview).

\* resolveBoardStatus: what is shown without a next train, and whether it says that the
\* last poll failed.
BoardStatus(watched) ==
  IF ~watched THEN [status |-> "outside_window", ko |-> FALSE]
  ELSE [status |-> "no_data", ko |-> result.status = "error"]

\* getJourneyBoardSnapshots: the row, which is Navitia's and of a train still due or
\* cancelled, for every train here is in the watch window.
ShownNext(j) == next[j]

\* The card: within the window the next train decides, whatever the last poll was.
Card(j, watched) ==
  IF watched /\ ShownNext(j).status # "none"
  THEN [BoardStatus(watched) EXCEPT !.status = ShownNext(j).status]
  ELSE BoardStatus(watched)

\* What the page of the settings shows of Navitia: the stored key, by its first
\* characters, and the last check that was stored (buildSlot).
Slot == [token |-> token, check |-> check]

-----------------------------------------------------------------------------
ReadsSettings == Starts \/ ReadProvider \/ Bootstrap \/ ReadToken \/ ListJourneys
Fetches == ReadCache \/ CallDepartures \/ DeparturesAnswered \/ DeparturesFail
Reads == CallRoute \/ RouteAnswered \/ RouteFails \/ SaveNext \/ AlertDeparture
         \/ ListOrphans \/ AlertOrphan \/ NextJourney
Finishes == LastJourney \/ WriteStatus \/ WriteDetail \/ ReadInterval \/ Wakes
LoopStep == ReadsSettings \/ Fetches \/ Reads \/ Finishes
AdminStep == ReadKey \/ Probe \/ SaveCheck \/ WriteToken \/ WriteProvider

Next ==
  \/ LoopStep \/ QueryFails \/ Crash \/ Tick
  \/ StartUpdate \/ StartProbe \/ AdminStep \/ RequestFails

Spec == Init /\ [][Next]_vars
\* The loop awaits nothing that does not answer or time out, and systemd starts it again.
FairSpec == Spec /\ WF_vars(LoopStep)

-----------------------------------------------------------------------------
TypeOK ==
  /\ now \in 0 .. MaxNow /\ world \in [Train -> Failures] /\ since \in [Train -> 0 .. MaxNow]
  /\ skipped \subseteq Train \X Station
  /\ provider \in {"unset", "navitia", "stub"} /\ token \in Token \cup {"none"}
  /\ check \in [token : Token \cup {"none"}, ok : BOOLEAN]
  /\ result \in [status : {"none", "ok", "skipped", "error"},
                 detail : {"none", "ok", "skipped", "error"}]
  /\ IsAnswer(loop.answer)
  /\ [f \in DOMAIN loop \ {"answer"} |-> loop[f]] \in LoopState
  /\ \A s \in Station : IsAnswer(cache[s].answer) /\ cache[s].until \in Int
  /\ known \subseteq Train
  /\ next \in [Journey -> [train : Train, status : {"none", "on_time", "delayed", "cancelled"}]]
  /\ alerts \subseteq Journey \X Train \X {"delay", "cancellation", "orphan"}
  /\ unread \in [Journey -> SUBSET Train]
  /\ owed \in {0, 1} /\ admin \in AdminState /\ loose \in BOOLEAN
  /\ changes \in 0 .. MaxChanges /\ faults \in 0 .. MaxFaults

Announced(j, t) == {<<j, t, "cancellation">>, <<j, t, "orphan">>} \cap alerts # {}

\* A train is announced as suppressed for a journey only if it has skipped the journey's
\* origin, or its departure is linked to a disruption that reads as a suppression, be it
\* of other stops or of another train; never because it skips other stops, or because its
\* number is within the id of another's trip.
ReadsSuppressed(a, t) ==
  \E u \in LinksOf(a, t) : a[u].how \in {"noService", "message", "part"}
NoFalseAlarm ==
  [][\A j \in Journey, t \in Train :
       Announced(j, t)' /\ ~Announced(j, t) =>
         \/ <<t, j.origin>> \in skipped
         \/ t \in DOMAIN loop.answer /\ ReadsSuppressed(loop.answer, t)]_vars

\* The train goes the journey's way: it calls at the destination after it called at the
\* origin, or its direction is read as going there or beyond.
CallsInTurn(t, j) ==
  \E i, k \in DOMAIN Calls[t] : i < k /\ Calls[t][i] = j.origin /\ Calls[t][k] = j.destination
GoesTheWay(t, j) == CallsInTurn(t, j) \/ Shown(t, j)
AsksCancellations(j) == "cancellation" \in Severities[j]

\* A poll that ended well has announced every train of its journeys that skips the
\* origin since before the board could have been cached, in whichever way Navitia
\* tells it, if the journey asks for suppressions; a departure whose vehicle journey
\* could not be read may be missed.
NothingMissed ==
  loop.at = "status" /\ loop.end = "ok" =>
    \A j \in loop.open : \A t \in Calling(j.origin) :
      (/\ j.origin \in world[t] /\ since[t] + Ttl < now /\ AsksCancellations(j)
       /\ GoesTheWay(t, j) /\ t \notin unread[j]) =>
        Announced(j, t)

\* Neither an alert read from the board nor a card that shows a train as running is of the
\* train that comes from the destination, unless its direction is read as going there:
\* the words of a label are found in the text of any station that has one of them.
RightWay ==
  \A j \in Journey, t \in Train :
    \/ {<<j, t, "cancellation">>, <<j, t, "delay">>} \cap alerts # {}
    \/ next[j].train = t /\ next[j].status \in {"on_time", "delayed"}
    => GoesTheWay(t, j)

\* The two readings of a board agree: for a journey that asks for suppressions, the next
\* train written as cancelled when the poll ends well has been announced, but for one
\* whose vehicle journey only the first could read; and without faults a card that shows
\* a cancelled train, and does not say that the last poll failed, does not wait for its
\* alert.
BoardIsAnnounced ==
  LET Told(j) == Announced(j, next[j].train) \/ next[j].train \in unread[j]
  IN /\ loop.at = "status" /\ loop.end = "ok" =>
          \A j \in loop.open :
            AsksCancellations(j) /\ next[j].status = "cancelled" => Told(j)
     /\ loop.at = "sleep" /\ faults = 0 =>
          \A j \in Journey :
            AsksCancellations(j) /\ Card(j, TRUE) = [status |-> "cancelled", ko |-> FALSE] => Told(j)

\* The quota counts every request the loop sent, once, answered or not; one is left out
\* only while it is in flight, or when the process stops or the counting query fails.
QuotaCounts == owed = IF loop.at \in {"answered", "route"} THEN 1 ELSE 0

\* A poll that ended and wrote its result left its own status with its own detail,
\* whatever failed in the polls before it.
ResultIsOne ==
  loop.at = "interval" /\ loop.end # "none" =>
    result = [status |-> loop.end, detail |-> loop.end]

\* At rest the check shown beside the key is of that key, unless another one was only
\* tried or a request was cut short.
CheckIsOfToken ==
  admin.at = "idle" /\ ~loose /\ Slot.check # NoCheck => Slot.check.token = Slot.token

\* The loop always comes back to its wait.
PollsGoOn == []<>(loop.at = "sleep")
=============================================================================
