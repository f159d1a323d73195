-------------------------- MODULE IngestLoopProofs --------------------------
(***************************************************************************)
(* Whatever the trains, the journeys, the answers and the faults: which    *)
(* trains raise an alert, what the quota counts and which result is kept.  *)
(***************************************************************************)
EXTENDS IngestLoop, WellFoundedInduction, TLAPS

Fields == {"at", "end"} \subseteq DOMAIN loop
Flying == {"answered", "route"}

\* One request is in flight at most; the status that is written waits for its
\* detail, and both are of the poll that ended.
LoopInv ==
  /\ Fields
  /\ owed = IF loop.at \in Flying THEN 1 ELSE 0
  /\ result = [status |-> result.status, detail |-> result.detail]
  /\ loop.at = "detail" => result.status = loop.end
  /\ loop.at = "interval" =>
       loop.end = "none" \/ (result.status = loop.end /\ result.detail = loop.end)

-----------------------------------------------------------------------------
(* The record of the loop.                                                 *)

LEMMA FreshFields ==
  ASSUME NEW at, loop' = Fresh(at)
  PROVE  Fields' /\ loop'.at = at /\ loop'.end = "none"
  BY DEF Fresh, Fields

LEMMA ToFields ==
  ASSUME Fields, NEW at, To(at)
  PROVE  Fields' /\ loop'.at = at /\ loop'.end = loop.end
  BY DEF Fields, To

LEMMA EndsFields ==
  ASSUME Fields, NEW end, Ends(end)
  PROVE  Fields' /\ loop'.at = "status" /\ loop'.end = end
  BY DEF Fields, Ends

LEMMA ReadingFields ==
  ASSUME Fields, NEW j, NEW a, loop' = Reading(j, a)
  PROVE  Fields' /\ loop'.at = "match"
  BY DEF Fields, Reading

-----------------------------------------------------------------------------
(* The steps.                                                              *)

\* Nothing is in flight before or after, nothing is written.
Quiet == /\ Fields' /\ loop.at \notin Flying /\ loop'.at \notin Flying \cup {"detail", "interval"}
         /\ UNCHANGED <<owed, result>>

LEMMA QuietKeeps == LoopInv /\ Quiet => LoopInv'
  BY DEF LoopInv, Quiet

LEMMA SettingsAreQuiet ==
  ASSUME LoopInv, Starts \/ ReadProvider \/ Bootstrap \/ ReadToken \/ ListJourneys
  PROVE  Quiet
<1>1. Fields
  BY DEF LoopInv
<1>2. UNCHANGED <<owed, result>> /\ loop.at \in {"down", "provider", "bootstrap", "token", "journeys"}
  BY DEF Starts, ReadProvider, Bootstrap, ReadToken, ListJourneys
<1>3. Fields' /\ loop'.at \in {"provider", "bootstrap", "token", "status", "journeys", "fetch"}
  <2>1. CASE Starts
    BY <2>1, FreshFields DEF Starts
  <2>2. CASE ReadProvider
    BY <1>1, <2>2, ToFields, EndsFields DEF ReadProvider
  <2>3. CASE Bootstrap
    BY <1>1, <2>3, ToFields DEF Bootstrap
  <2>4. CASE ReadToken
    <3>1. CASE Ends("error")
      BY <1>1, <3>1, EndsFields
    <3>2. CASE loop' = [loop EXCEPT !.at = "journeys", !.key = token]
      BY <1>1, <3>2 DEF Fields
    <3>3. QED
      BY <2>4, <3>1, <3>2 DEF ReadToken
  <2>5. CASE ListJourneys
    <3>1. CASE Ends("skipped")
      BY <1>1, <3>1, EndsFields
    <3>2. ASSUME NEW open, loop' = [loop EXCEPT !.at = "fetch", !.open = open, !.todo = open]
          PROVE  Fields' /\ loop'.at = "fetch"
      BY <1>1, <3>2 DEF Fields
    <3>3. QED
      BY <2>5, <3>1, <3>2 DEF ListJourneys
  <2>6. QED
    BY <2>1, <2>2, <2>3, <2>4, <2>5
<1>4. QED
  BY <1>2, <1>3 DEF Quiet, Flying

LEMMA ReadingIsQuiet ==
  ASSUME LoopInv, ReadCache \/ SaveNext \/ AlertDeparture \/ ListOrphans \/ AlertOrphan \/ NextJourney
  PROVE  Quiet
<1>1. Fields
  BY DEF LoopInv
<1>2. UNCHANGED <<owed, result>> /\ loop.at \in {"fetch", "match", "orphans"}
  BY DEF ReadCache, SaveNext, AlertDeparture, ListOrphans, AlertOrphan, NextJourney
<1>3. Fields' /\ loop'.at \in {"fetch", "match", "orphans"}
  <2>1. CASE ReadCache
    BY <1>1, <2>1, ReadingFields DEF ReadCache
  <2>2. CASE SaveNext
    <3>1. loop' = [loop EXCEPT !.pass = 2, !.left = Listed(loop.answer)]
      BY <2>2 DEF SaveNext
    <3>2. Fields' /\ loop'.at = loop.at
      BY <1>1, <3>1 DEF Fields
    <3>3. QED
      BY <1>2, <3>2
  <2>3. CASE AlertDeparture
    <3>1. PICK t : loop' = [loop EXCEPT !.left = @ \ {t}]
      BY <2>3 DEF AlertDeparture
    <3>2. Fields' /\ loop'.at = loop.at
      BY <1>1, <3>1 DEF Fields
    <3>3. QED
      BY <1>2, <3>2
  <2>4. CASE ListOrphans
    <3>1. loop' = [loop EXCEPT !.at = "orphans", !.left = OrphansIn(loop.answer, Origin)]
      BY <2>4 DEF ListOrphans
    <3>2. Fields' /\ loop'.at = "orphans"
      BY <1>1, <3>1 DEF Fields
    <3>3. QED
      BY <3>2
  <2>5. CASE AlertOrphan
    <3>1. PICK t : loop' = [loop EXCEPT !.left = @ \ {t}]
      BY <2>5 DEF AlertOrphan
    <3>2. Fields' /\ loop'.at = loop.at
      BY <1>1, <3>1 DEF Fields
    <3>3. QED
      BY <1>2, <3>2
  <2>6. CASE NextJourney
    <3>1. loop' = [loop EXCEPT !.at = "fetch", !.answer = NoAnswer]
      BY <2>6 DEF NextJourney
    <3>2. Fields' /\ loop'.at = "fetch"
      BY <1>1, <3>1 DEF Fields
    <3>3. QED
      BY <3>2
  <2>7. QED
    BY <2>1, <2>2, <2>3, <2>4, <2>5, <2>6
<1>4. QED
  BY <1>2, <1>3 DEF Quiet, Flying

LEMMA WaitIsQuiet ==
  ASSUME LoopInv, LastJourney \/ ReadInterval \/ Wakes
  PROVE  Quiet
<1>1. Fields
  BY DEF LoopInv
<1>2. UNCHANGED <<owed, result>> /\ loop.at \in {"fetch", "interval", "sleep"}
  BY DEF LastJourney, ReadInterval, Wakes
<1>3. Fields' /\ loop'.at \in {"status", "sleep", "provider"}
  BY <1>1, FreshFields, ToFields, EndsFields DEF LastJourney, ReadInterval, Wakes
<1>4. QED
  BY <1>2, <1>3 DEF Quiet, Flying

\* A request leaves.
LEMMA Sending ==
  ASSUME LoopInv, CallDepartures \/ CallRoute
  PROVE  LoopInv'
<1>1. Fields
  BY DEF LoopInv
<1>2. UNCHANGED result /\ loop.at \in {"fetch", "match"} /\ owed' = owed + 1
  BY DEF CallDepartures, CallRoute
<1>3. Fields' /\ loop'.at \in Flying
  <2>1. CASE CallDepartures
    <3>1. PICK j : loop' = [loop EXCEPT !.at = "answered", !.j = j]
      BY <2>1 DEF CallDepartures
    <3>2. Fields' /\ loop'.at = "answered"
      BY <1>1, <3>1 DEF Fields
    <3>3. QED
      BY <3>2 DEF Flying
  <2>2. CASE CallRoute
    <3>1. PICK t : loop' = [loop EXCEPT !.at = "route", !.train = t]
      BY <2>2 DEF CallRoute
    <3>2. Fields' /\ loop'.at = "route"
      BY <1>1, <3>1 DEF Fields
    <3>3. QED
      BY <3>2 DEF Flying
  <2>3. QED
    BY <2>1, <2>2
<1>4. owed = 0 /\ owed' = 1
  BY <1>2 DEF LoopInv, Flying
<1>5. QED
  BY <1>2, <1>3, <1>4 DEF LoopInv, Flying

\* It is answered, or fails.
LEMMA Answering ==
  ASSUME LoopInv, DeparturesAnswered \/ DeparturesFail \/ RouteAnswered \/ RouteFails
  PROVE  LoopInv'
<1>1. Fields
  BY DEF LoopInv
<1>2. UNCHANGED result /\ loop.at \in Flying /\ owed' = owed - 1
  BY DEF DeparturesAnswered, DeparturesFail, RouteAnswered, RouteFails, Recorded, Flying
<1>3. Fields' /\ loop'.at \in {"match", "status"}
  <2>1. CASE DeparturesAnswered
    BY <1>1, <2>1, ReadingFields DEF DeparturesAnswered
  <2>2. CASE DeparturesFail
    BY <1>1, <2>2, EndsFields DEF DeparturesFail
  <2>3. CASE RouteAnswered
    BY <1>1, <2>3, ToFields DEF RouteAnswered
  <2>4. CASE RouteFails
    <3>1. loop' = [loop EXCEPT !.at = "match", !.left = @ \ {loop.train}]
      BY <2>4 DEF RouteFails
    <3>2. Fields' /\ loop'.at = "match"
      BY <1>1, <3>1 DEF Fields
    <3>3. QED
      BY <3>2
  <2>5. QED
    BY <2>1, <2>2, <2>3, <2>4
<1>4. owed = 1 /\ owed' = 0
  BY <1>2 DEF LoopInv
<1>5. QED
  BY <1>2, <1>3, <1>4 DEF LoopInv, Flying

\* The result is written, one setting at a time.
LEMMA Writing ==
  ASSUME LoopInv, WriteStatus \/ WriteDetail
  PROVE  LoopInv'
<1>1. Fields
  BY DEF LoopInv
<1>2. UNCHANGED owed /\ owed = 0
  BY DEF WriteStatus, WriteDetail, LoopInv, Flying
<1>3. CASE WriteStatus
  <2>1. Fields' /\ loop'.at = "detail" /\ loop'.end = loop.end
    BY <1>1, <1>3, ToFields DEF WriteStatus
  <2>2. result' = [status |-> loop.end, detail |-> result.detail]
    BY <1>3 DEF WriteStatus
  <2>3. result'.status = loop.end /\ result'.detail = result.detail
    BY <2>2
  <2>4. QED
    BY <1>2, <2>1, <2>2, <2>3 DEF LoopInv, Flying
<1>4. CASE WriteDetail
  <2>1. Fields' /\ loop'.at = "interval" /\ loop'.end = loop.end
    BY <1>1, <1>4, ToFields DEF WriteDetail
  <2>2. result' = [status |-> result.status, detail |-> loop.end] /\ loop.at = "detail"
    BY <1>4 DEF WriteDetail
  <2>3. result'.status = loop.end /\ result'.detail = loop.end
    BY <2>2 DEF LoopInv
  <2>4. QED
    BY <1>2, <2>1, <2>2, <2>3 DEF LoopInv, Flying
<1>5. QED
  BY <1>3, <1>4

LEMMA Failing ==
  ASSUME LoopInv, QueryFails \/ Crash
  PROVE  LoopInv'
<1>1. Fields
  BY DEF LoopInv
<1>2. UNCHANGED result /\ owed' = 0
  BY DEF QueryFails, Crash
<1>3. /\ Fields'
      /\ loop'.at \in {"status", "down"} \/ (loop'.at = "interval" /\ loop'.end = "none")
  BY <1>1, FreshFields, EndsFields DEF QueryFails, Crash
<1>4. QED
  BY <1>2, <1>3 DEF LoopInv, Flying

\* Time and the administrator leave the loop alone.
LEMMA Elsewhere ==
  Tick \/ StartUpdate \/ StartProbe \/ AdminStep \/ RequestFails \/ UNCHANGED vars
    => UNCHANGED <<loop, owed, result, alerts, next>>
  BY DEF Tick, StartUpdate, StartProbe, AdminStep, ReadKey, Probe, SaveCheck, WriteToken,
         WriteProvider, RequestFails, vars, outcome

LEMMA LoopNext == LoopInv /\ [Next]_vars => LoopInv'
<1> SUFFICES ASSUME LoopInv, [Next]_vars
             PROVE  LoopInv'
  OBVIOUS
<1>1. CASE ReadsSettings
  BY <1>1, SettingsAreQuiet, QuietKeeps DEF ReadsSettings
<1>2. CASE Fetches
  BY <1>2, ReadingIsQuiet, QuietKeeps, Sending, Answering DEF Fetches
<1>3. CASE Reads
  BY <1>3, ReadingIsQuiet, QuietKeeps, Sending, Answering DEF Reads
<1>4. CASE Finishes
  BY <1>4, WaitIsQuiet, QuietKeeps, Writing DEF Finishes
<1>5. CASE QueryFails \/ Crash
  BY <1>5, Failing
<1>6. CASE Tick \/ StartUpdate \/ StartProbe \/ AdminStep \/ RequestFails \/ UNCHANGED vars
  BY <1>6, Elsewhere DEF LoopInv, Fields
<1>7. QED
  BY <1>1, <1>2, <1>3, <1>4, <1>5, <1>6 DEF Next, LoopStep

LEMMA LoopInit == Init => LoopInv
<1> SUFFICES ASSUME Init
             PROVE  LoopInv
  OBVIOUS
<1>1. loop = Fresh("down") /\ owed = 0 /\ result = [status |-> "none", detail |-> "none"]
  BY DEF Init
<1>2. Fields /\ loop.at = "down"
  BY <1>1 DEF Fresh, Fields
<1>3. result = [status |-> result.status, detail |-> result.detail]
  BY <1>1
<1>4. QED
  BY <1>1, <1>2, <1>3 DEF LoopInv, Flying

LEMMA LoopAlways == Spec => []LoopInv
  BY LoopInit, LoopNext, PTL DEF Spec

(***************************************************************************)
(* Every request the loop sends is counted once, answered, refused or cut  *)
(* off; only one that is in flight is not, or one whose process or whose   *)
(* counting query failed.                                                  *)
(***************************************************************************)
THEOREM QuotaAlwaysCounts == Spec => []QuotaCounts
<1>1. LoopInv => QuotaCounts
  BY DEF LoopInv, QuotaCounts, Flying
<1>2. QED
  BY <1>1, LoopAlways, PTL

(***************************************************************************)
(* A poll that ended leaves its status with its own detail, whatever       *)
(* failed before it: the two settings are never of two polls at the wait.  *)
(***************************************************************************)
THEOREM ResultIsAlwaysOne == Spec => []ResultIsOne
<1>1. LoopInv => ResultIsOne
  BY DEF LoopInv, ResultIsOne
<1>2. QED
  BY <1>1, LoopAlways, PTL

-----------------------------------------------------------------------------
(* Which departures raise an alert.                                        *)

LEMMA FewStepsAlert ==
  [Next]_vars => SaveNext \/ AlertDeparture \/ AlertOrphan \/ UNCHANGED <<alerts, next>>
<1> SUFFICES ASSUME [Next]_vars
             PROVE  SaveNext \/ AlertDeparture \/ AlertOrphan \/ UNCHANGED <<alerts, next>>
  OBVIOUS
<1>1. CASE ReadsSettings
  BY <1>1 DEF ReadsSettings, Starts, ReadProvider, Bootstrap, ReadToken, ListJourneys, outcome
<1>2. CASE Fetches
  BY <1>2 DEF Fetches, ReadCache, CallDepartures, DeparturesAnswered, DeparturesFail, outcome
<1>3. CASE Reads
  BY <1>3 DEF Reads, CallRoute, RouteAnswered, RouteFails, ListOrphans, NextJourney, outcome
<1>4. CASE Finishes
  BY <1>4 DEF Finishes, LastJourney, WriteStatus, WriteDetail, ReadInterval, Wakes, outcome
<1>5. CASE QueryFails \/ Crash
  BY <1>5 DEF QueryFails, Crash, outcome
<1>6. CASE Tick \/ StartUpdate \/ StartProbe \/ AdminStep \/ RequestFails \/ UNCHANGED vars
  BY <1>6, Elsewhere
<1>7. QED
  BY <1>1, <1>2, <1>3, <1>4, <1>5, <1>6 DEF Next, LoopStep

\* The first call of a train at a station.
LEMMA IndexIn ==
  ASSUME NEW line, NEW S, line \in Seq(S), NEW s, On(line, s)
  PROVE  /\ Index(line, s) \in Nat /\ Index(line, s) \in DOMAIN line
         /\ line[Index(line, s)] = s
         /\ \A k \in DOMAIN line : line[k] = s => Index(line, s) <= k
<1> DEFINE T == {i \in DOMAIN line : line[i] = s}
           R == {ss \in Nat \X Nat : ss[1] < ss[2]}
<1>1. IsWellFoundedOn(R, Nat)
  BY NatLessThanWellFounded DEF OpToRel
<1>2. T \subseteq Nat /\ T # {}
  BY DEF On
<1> HIDE DEF R
<1>3. PICK x \in T : \A y \in T : ~(<<y, x>> \in R)
  BY <1>1, <1>2, WFMin, Zenon
<1>4. \A k \in 1 .. x - 1 : line[k] # s
  <2> SUFFICES ASSUME NEW k \in 1 .. x - 1, line[k] = s
               PROVE  FALSE
    OBVIOUS
  <2>1. x \in 1 .. Len(line) /\ Len(line) \in Nat /\ DOMAIN line = 1 .. Len(line)
    OBVIOUS
  <2>2. k \in T /\ k < x
    BY <2>1
  <2>3. <<k, x>> \in R
    BY <1>2, <2>2 DEF R
  <2>4. QED
    BY <1>3, <2>2, <2>3
<1>5. \E i \in DOMAIN line : line[i] = s /\ \A k \in 1 .. i - 1 : line[k] # s
  BY <1>3, <1>4
<1>6. /\ Index(line, s) \in DOMAIN line /\ line[Index(line, s)] = s
      /\ \A k \in 1 .. Index(line, s) - 1 : line[k] # s
  BY <1>5 DEF Index
<1>7. QED
  BY <1>6

LEMMA TimeIn ==
  ASSUME NEW t \in Train, NEW s, On(Calls[t], s)
  PROVE  Time(t, s) \in Nat
<1>1. Calls[t] \in Seq(Station) /\ Base[t] \in Nat
  BY CallsAssumption, BaseAssumption
<1>2. Index(Calls[t], s) \in Nat
  BY <1>1, IndexIn
<1>3. QED
  BY <1>1, <1>2 DEF Time

LEMMA ServesInTurn ==
  ASSUME NEW t \in Train, NEW j, ServesOd(Calls[t], j)
  PROVE  CallsInTurn(t, j)
<1>1. Calls[t] \in Seq(Station)
  BY CallsAssumption
<1>2. /\ Index(Calls[t], j.origin) \in DOMAIN Calls[t]
      /\ Calls[t][Index(Calls[t], j.origin)] = j.origin
  BY <1>1, IndexIn DEF ServesOd
<1>3. PICK k \in DOMAIN Calls[t] : k > Index(Calls[t], j.origin) /\ Calls[t][k] = j.destination
  BY DEF ServesOd
<1>4. Index(Calls[t], j.origin) < k
  BY <1>1, <1>2, <1>3
<1>5. QED
  BY <1>2, <1>3, <1>4 DEF CallsInTurn

-----------------------------------------------------------------------------
(* The check of a key.                                                     *)

\* A probe is of the key that will be kept, or of the one that is; a key that is
\* written has been checked.
CheckInv ==
  /\ {"at", "test", "token", "key"} \subseteq DOMAIN admin
  /\ admin.at \in {"probe", "save"} =>
       IF admin.token # "none" THEN admin.key = admin.token ELSE loose \/ admin.key = token
  /\ admin.at = "token" /\ admin.token # "none" => check.token = admin.token
  /\ ~loose /\ (admin.token = "none" \/ admin.at = "provider") => check.token = token
  /\ admin.test \/ admin.at = "idle" => admin.token = "none"

LEMMA NoRequestFields ==
  /\ {"at", "test", "again", "token", "provider", "key"} \subseteq DOMAIN NoRequest
  /\ NoRequest.at = "idle" /\ NoRequest.token = "none" /\ NoRequest.test = FALSE
  BY DEF NoRequest

LEMMA CheckInit == Init => CheckInv
<1> SUFFICES ASSUME admin = NoRequest, check = [token |-> token, ok |-> token \in Valid]
             PROVE  CheckInv
  BY DEF Init
<1>1. check.token = token
  OBVIOUS
<1>2. QED
  BY <1>1, NoRequestFields DEF CheckInv

LEMMA CheckKept == CheckInv /\ UNCHANGED <<admin, check, token, loose>> => CheckInv'
  BY DEF CheckInv

LEMMA Requests ==
  ASSUME CheckInv, StartUpdate \/ StartProbe
  PROVE  CheckInv'
<1>1. admin.at = "idle" /\ UNCHANGED <<check, token>>
  BY DEF StartUpdate, StartProbe, Asked, settings
<1>2. ~loose => check.token = token
  BY <1>1 DEF CheckInv
<1>3. CASE StartUpdate
  <2>1. PICK k, p : admin' =
          [NoRequest EXCEPT !.token = k, !.provider = p, !.key = k, !.again = p = "navitia",
             !.at = IF k # "none" THEN "probe" ELSE IF p = "navitia" THEN "read" ELSE "token"]
    BY <1>3 DEF StartUpdate
  <2>2. /\ {"at", "test", "token", "key"} \subseteq DOMAIN admin'
        /\ admin'.token = k /\ admin'.key = k
        /\ admin'.at = IF k # "none" THEN "probe" ELSE IF p = "navitia" THEN "read" ELSE "token"
    BY <2>1, NoRequestFields
  <2>3. admin'.test = FALSE
    BY <2>1, NoRequestFields
  <2>4. UNCHANGED loose
    BY <1>3 DEF StartUpdate
  <2>5. QED
    BY <1>1, <1>2, <2>2, <2>3, <2>4 DEF CheckInv
<1>4. CASE StartProbe
  <2>1. PICK k : /\ admin' = [NoRequest EXCEPT !.test = TRUE, !.key = k,
                                               !.at = IF k = "none" THEN "read" ELSE "probe"]
                 /\ loose' = (loose \/ k # "none")
    BY <1>4 DEF StartProbe
  <2>2. /\ {"at", "test", "token", "key"} \subseteq DOMAIN admin'
        /\ admin'.token = "none"
        /\ admin'.at = IF k = "none" THEN "read" ELSE "probe"
    BY <2>1, NoRequestFields
  <2>3. ~loose' => ~loose /\ k = "none"
    BY <2>1
  <2>4. QED
    BY <1>1, <1>2, <2>2, <2>3 DEF CheckInv
<1>5. QED
  BY <1>3, <1>4

LEMMA Checking ==
  ASSUME CheckInv, ReadKey \/ Probe \/ SaveCheck
  PROVE  CheckInv'
<1>1. {"at", "test", "token", "key"} \subseteq DOMAIN admin
  BY DEF CheckInv
<1>2. UNCHANGED <<token, loose>>
  BY DEF ReadKey, Probe, SaveCheck, settings
<1>3. CASE ReadKey
  <2>1. /\ admin.at = "read" /\ UNCHANGED check
        /\ admin' = [admin EXCEPT !.at = "probe", !.again = FALSE,
                                  !.key = IF admin.token # "none" THEN admin.token ELSE token]
    BY <1>3 DEF ReadKey, settings
  <2>2. /\ {"at", "test", "token", "key"} \subseteq DOMAIN admin'
        /\ admin'.at = "probe" /\ admin'.token = admin.token /\ admin'.test = admin.test
        /\ admin'.key = IF admin.token # "none" THEN admin.token ELSE token
    BY <1>1, <2>1
  <2>3. QED
    BY <1>2, <2>1, <2>2 DEF CheckInv
<1>4. CASE Probe
  <2>1. /\ admin.at = "probe" /\ UNCHANGED check
        /\ \E ok : admin' = [admin EXCEPT !.at = "save", !.ok = ok]
    BY <1>4 DEF Probe, settings
  <2>2. PICK ok : admin' = [admin EXCEPT !.at = "save", !.ok = ok]
    BY <2>1
  <2>3. /\ {"at", "test", "token", "key"} \subseteq DOMAIN admin'
        /\ admin'.at = "save" /\ admin'.token = admin.token /\ admin'.test = admin.test
        /\ admin'.key = admin.key
    BY <1>1, <2>2
  <2>4. QED
    BY <1>2, <2>1, <2>3 DEF CheckInv
<1>5. CASE SaveCheck
  <2>1. admin.at = "save" /\ check' = [token |-> admin.key, ok |-> admin.ok]
    BY <1>5 DEF SaveCheck
  <2>2. check'.token = admin.key
    BY <2>1
  <2>3. CASE admin.test /\ admin' = NoRequest
    BY <1>2, <2>1, <2>2, <2>3, NoRequestFields DEF CheckInv
  <2>4. CASE ~admin.test /\ AdminAt(IF admin.again THEN "read" ELSE "token")
    <3>1. PICK at \in {"read", "token"} : admin' = [admin EXCEPT !.at = at]
      BY <2>4 DEF AdminAt
    <3>2. /\ {"at", "test", "token", "key"} \subseteq DOMAIN admin'
          /\ admin'.at = at /\ admin'.token = admin.token /\ admin'.test = admin.test
      BY <1>1, <3>1
    <3>3. QED
      BY <1>2, <2>1, <2>2, <3>2 DEF CheckInv
  <2>5. QED
    BY <1>5, <2>3, <2>4 DEF SaveCheck
<1>6. QED
  BY <1>3, <1>4, <1>5

LEMMA Keeping ==
  ASSUME CheckInv, WriteToken \/ WriteProvider \/ RequestFails
  PROVE  CheckInv'
<1>1. {"at", "test", "token", "key"} \subseteq DOMAIN admin
  BY DEF CheckInv
<1>2. CASE WriteToken
  <2>1. /\ admin.at = "token" /\ UNCHANGED check
        /\ token' = (IF admin.token # "none" THEN admin.token ELSE token)
        /\ admin' = [admin EXCEPT !.at = "provider"]
    BY <1>2 DEF WriteToken, AdminAt
  <2>2. ~loose' => ~loose \/ admin.token # "none"
    BY <1>2 DEF WriteToken
  <2>3. /\ {"at", "test", "token", "key"} \subseteq DOMAIN admin'
        /\ admin'.at = "provider" /\ admin'.token = admin.token /\ admin'.test = admin.test
    BY <1>1, <2>1
  <2>4. QED
    BY <2>1, <2>2, <2>3 DEF CheckInv
<1>3. CASE WriteProvider
  <2>1. admin.at = "provider" /\ admin' = NoRequest /\ UNCHANGED <<token, check, loose>>
    BY <1>3 DEF WriteProvider
  <2>2. QED
    BY <2>1, NoRequestFields DEF CheckInv
<1>4. CASE RequestFails
  <2>1. admin' = NoRequest /\ loose' = TRUE /\ UNCHANGED <<token, check>>
    BY <1>4 DEF RequestFails, settings
  <2>2. QED
    BY <2>1, NoRequestFields DEF CheckInv
<1>5. QED
  BY <1>2, <1>3, <1>4

LEMMA CheckNext == CheckInv /\ [Next]_vars => CheckInv'
<1> SUFFICES ASSUME CheckInv, [Next]_vars
             PROVE  CheckInv'
  OBVIOUS
<1>1. CASE StartUpdate \/ StartProbe
  BY <1>1, Requests
<1>2. CASE AdminStep \/ RequestFails
  BY <1>2, Checking, Keeping DEF AdminStep
<1>3. CASE LoopStep \/ QueryFails \/ Crash \/ Tick \/ UNCHANGED vars
  <2>1. CASE ReadsSettings
    BY <2>1, CheckKept DEF ReadsSettings, Starts, ReadProvider, Bootstrap, ReadToken, ListJourneys,
                           settings, requests
  <2>2. CASE Fetches
    BY <2>2, CheckKept DEF Fetches, ReadCache, CallDepartures, DeparturesAnswered, DeparturesFail,
                           settings, requests
  <2>3. CASE Reads
    BY <2>3, CheckKept DEF Reads, CallRoute, RouteAnswered, RouteFails, SaveNext, AlertDeparture,
                           ListOrphans, AlertOrphan, NextJourney, settings, requests
  <2>4. CASE Finishes
    BY <2>4, CheckKept DEF Finishes, LastJourney, WriteStatus, WriteDetail, ReadInterval, Wakes,
                           settings, requests
  <2>5. CASE QueryFails \/ Crash \/ Tick \/ UNCHANGED vars
    BY <2>5, CheckKept DEF QueryFails, Crash, Tick, vars, settings, requests
  <2>6. QED
    BY <1>3, <2>1, <2>2, <2>3, <2>4, <2>5 DEF LoopStep
<1>4. QED
  BY <1>1, <1>2, <1>3 DEF Next

(***************************************************************************)
(* At rest the check shown beside the key is of that key, whatever was     *)
(* typed, tried or read again, unless another key was only tried or a      *)
(* request was cut short.                                                  *)
(***************************************************************************)
THEOREM CheckStaysOfToken == Spec => []CheckIsOfToken
<1>1. CheckInv => CheckIsOfToken
  BY DEF CheckInv, CheckIsOfToken, Slot
<1>2. QED
  BY <1>1, CheckInit, CheckNext, PTL DEF Spec

-----------------------------------------------------------------------------
(* The types.                                                              *)

LoopFields == {"at", "key", "open", "todo", "j", "answer", "pass", "left", "train", "end"}
Whereabouts == {"down", "provider", "bootstrap", "token", "journeys", "fetch", "answered", "match",
                "route", "orphans", "status", "detail", "interval", "sleep"}
Board == {"match", "route", "orphans"}
Results == {"none", "ok", "skipped", "error"}

\* The record of the loop after each kind of step.
LEMMA FreshLoop ==
  ASSUME NEW at, loop' = Fresh(at)
  PROVE  /\ DOMAIN loop' = LoopFields
         /\ loop'.at = at /\ loop'.key = "none" /\ loop'.open = {} /\ loop'.todo = {}
         /\ loop'.j = AnyJourney /\ loop'.answer = NoAnswer /\ loop'.pass = 1 /\ loop'.left = {}
         /\ loop'.train = AnyTrain /\ loop'.end = "none"
  BY DEF Fresh, LoopFields

LEMMA ToLoop ==
  ASSUME DOMAIN loop = LoopFields, NEW at, To(at)
  PROVE  /\ DOMAIN loop' = LoopFields
         /\ loop'.at = at
         /\ loop'.key = loop.key /\ loop'.open = loop.open /\ loop'.todo = loop.todo
         /\ loop'.j = loop.j /\ loop'.answer = loop.answer /\ loop'.pass = loop.pass
         /\ loop'.left = loop.left /\ loop'.train = loop.train
         /\ loop'.end = loop.end
  BY DEF To, LoopFields

LEMMA EndsLoop ==
  ASSUME DOMAIN loop = LoopFields, NEW end, Ends(end)
  PROVE  /\ DOMAIN loop' = LoopFields
         /\ loop'.at = "status" /\ loop'.end = end /\ loop'.answer = NoAnswer /\ loop'.left = {}
         /\ loop'.key = loop.key /\ loop'.open = loop.open /\ loop'.todo = loop.todo
         /\ loop'.j = loop.j /\ loop'.pass = loop.pass
         /\ loop'.train = loop.train
  BY DEF Ends, LoopFields

LEMMA ReadingLoop ==
  ASSUME DOMAIN loop = LoopFields, NEW j, NEW a, loop' = Reading(j, a)
  PROVE  /\ DOMAIN loop' = LoopFields
         /\ loop'.at = "match" /\ loop'.todo = loop.todo \ {j} /\ loop'.j = j
         /\ loop'.answer = a /\ loop'.pass = 1 /\ loop'.left = Listed(a)
         /\ loop'.key = loop.key /\ loop'.open = loop.open
         /\ loop'.train = loop.train /\ loop'.end = loop.end
  BY DEF Reading, LoopFields

LEMMA KeyLoop ==
  ASSUME DOMAIN loop = LoopFields, loop' = [loop EXCEPT !.at = "journeys", !.key = token]
  PROVE  /\ DOMAIN loop' = LoopFields
         /\ loop'.at = "journeys" /\ loop'.key = token
         /\ loop'.open = loop.open /\ loop'.todo = loop.todo
         /\ loop'.j = loop.j /\ loop'.answer = loop.answer /\ loop'.pass = loop.pass
         /\ loop'.left = loop.left /\ loop'.train = loop.train
         /\ loop'.end = loop.end
  BY DEF LoopFields

LEMMA OpenLoop ==
  ASSUME DOMAIN loop = LoopFields, NEW open,
         loop' = [loop EXCEPT !.at = "fetch", !.open = open, !.todo = open]
  PROVE  /\ DOMAIN loop' = LoopFields
         /\ loop'.at = "fetch" /\ loop'.open = open /\ loop'.todo = open
         /\ loop'.key = loop.key
         /\ loop'.j = loop.j /\ loop'.answer = loop.answer /\ loop'.pass = loop.pass
         /\ loop'.left = loop.left /\ loop'.train = loop.train
         /\ loop'.end = loop.end
  BY DEF LoopFields

LEMMA CallLoop ==
  ASSUME DOMAIN loop = LoopFields, NEW j, loop' = [loop EXCEPT !.at = "answered", !.j = j]
  PROVE  /\ DOMAIN loop' = LoopFields
         /\ loop'.at = "answered" /\ loop'.j = j
         /\ loop'.key = loop.key /\ loop'.open = loop.open /\ loop'.todo = loop.todo
         /\ loop'.answer = loop.answer /\ loop'.pass = loop.pass
         /\ loop'.left = loop.left /\ loop'.train = loop.train
         /\ loop'.end = loop.end
  BY DEF LoopFields

LEMMA RouteLoop ==
  ASSUME DOMAIN loop = LoopFields, NEW t, loop' = [loop EXCEPT !.at = "route", !.train = t]
  PROVE  /\ DOMAIN loop' = LoopFields
         /\ loop'.at = "route" /\ loop'.train = t
         /\ loop'.key = loop.key /\ loop'.open = loop.open /\ loop'.todo = loop.todo
         /\ loop'.j = loop.j /\ loop'.answer = loop.answer /\ loop'.pass = loop.pass
         /\ loop'.left = loop.left /\ loop'.end = loop.end
  BY DEF LoopFields

LEMMA LostLoop ==
  ASSUME DOMAIN loop = LoopFields,
         loop' = [loop EXCEPT !.at = "match", !.left = @ \ {loop.train}]
  PROVE  /\ DOMAIN loop' = LoopFields
         /\ loop'.at = "match" /\ loop'.left = loop.left \ {loop.train}
         /\ loop'.key = loop.key /\ loop'.open = loop.open /\ loop'.todo = loop.todo
         /\ loop'.j = loop.j /\ loop'.answer = loop.answer /\ loop'.pass = loop.pass
         /\ loop'.train = loop.train /\ loop'.end = loop.end
  BY DEF LoopFields

LEMMA SecondLoop ==
  ASSUME DOMAIN loop = LoopFields,
         loop' = [loop EXCEPT !.pass = 2, !.left = Listed(loop.answer)]
  PROVE  /\ DOMAIN loop' = LoopFields
         /\ loop'.pass = 2 /\ loop'.left = Listed(loop.answer)
         /\ loop'.at = loop.at
         /\ loop'.key = loop.key /\ loop'.open = loop.open /\ loop'.todo = loop.todo
         /\ loop'.j = loop.j /\ loop'.answer = loop.answer
         /\ loop'.train = loop.train /\ loop'.end = loop.end
  BY DEF LoopFields

LEMMA LeftLoop ==
  ASSUME DOMAIN loop = LoopFields, NEW t, loop' = [loop EXCEPT !.left = @ \ {t}]
  PROVE  /\ DOMAIN loop' = LoopFields
         /\ loop'.left = loop.left \ {t}
         /\ loop'.at = loop.at
         /\ loop'.key = loop.key /\ loop'.open = loop.open /\ loop'.todo = loop.todo
         /\ loop'.j = loop.j /\ loop'.answer = loop.answer /\ loop'.pass = loop.pass
         /\ loop'.train = loop.train /\ loop'.end = loop.end
  BY DEF LoopFields

LEMMA OrphansLoop ==
  ASSUME DOMAIN loop = LoopFields,
         loop' = [loop EXCEPT !.at = "orphans", !.left = OrphansIn(loop.answer, Origin)]
  PROVE  /\ DOMAIN loop' = LoopFields
         /\ loop'.at = "orphans" /\ loop'.left = OrphansIn(loop.answer, Origin)
         /\ loop'.key = loop.key /\ loop'.open = loop.open /\ loop'.todo = loop.todo
         /\ loop'.j = loop.j /\ loop'.answer = loop.answer /\ loop'.pass = loop.pass
         /\ loop'.train = loop.train /\ loop'.end = loop.end
  BY DEF LoopFields

LEMMA DoneLoop ==
  ASSUME DOMAIN loop = LoopFields, loop' = [loop EXCEPT !.at = "fetch", !.answer = NoAnswer]
  PROVE  /\ DOMAIN loop' = LoopFields
         /\ loop'.at = "fetch" /\ loop'.answer = NoAnswer
         /\ loop'.key = loop.key /\ loop'.open = loop.open /\ loop'.todo = loop.todo
         /\ loop'.j = loop.j /\ loop'.pass = loop.pass /\ loop'.left = loop.left
         /\ loop'.train = loop.train /\ loop'.end = loop.end
  BY DEF LoopFields

\* The invariant of the types: the record of the loop field by field.
LoopTypes ==
  /\ DOMAIN loop = LoopFields
  /\ loop.at \in Whereabouts /\ loop.end \in Results /\ loop.pass \in {1, 2}
  /\ loop.key \in Token \cup {"none"}
  /\ loop.open \subseteq Journey /\ loop.todo \subseteq Journey /\ loop.j \in Journey
  /\ loop.left \subseteq Train /\ loop.train \in Train
  /\ IsAnswer(loop.answer)
  /\ loop.at \in Board => DOMAIN loop.answer \subseteq Calling(Origin)
  /\ loop.at \in {"match", "route"} => loop.left \subseteq DOMAIN loop.answer

LEMMA LoopTypesAreLoopState ==
  ASSUME LoopTypes
  PROVE  [f \in DOMAIN loop \ {"answer"} |-> loop[f]] \in LoopState
<1> DEFINE l == [f \in DOMAIN loop \ {"answer"} |-> loop[f]]
<1>1. DOMAIN loop \ {"answer"} = {"at", "key", "open", "todo", "j", "pass", "left", "train", "end"}
  BY DEF LoopTypes, LoopFields
<1>2. l = [f \in {"at", "key", "open", "todo", "j", "pass", "left", "train", "end"} |-> loop[f]]
  BY <1>1
<1> HIDE DEF l
<1>3. /\ l.at = loop.at /\ l.key = loop.key /\ l.open = loop.open /\ l.todo = loop.todo
      /\ l.j = loop.j /\ l.pass = loop.pass /\ l.left = loop.left /\ l.train = loop.train
      /\ l.end = loop.end
  BY <1>2
<1>4. l = [at |-> loop.at, key |-> loop.key, open |-> loop.open, todo |-> loop.todo, j |-> loop.j,
           pass |-> loop.pass, left |-> loop.left, train |-> loop.train, end |-> loop.end]
  BY <1>2
<1>5. l \in LoopState
  BY <1>4 DEF LoopTypes, LoopState, Whereabouts, Results
<1>6. QED
  BY <1>5 DEF l

TrainTypes == /\ now \in 0 .. MaxNow /\ world \in [Train -> Failures]
              /\ since \in [Train -> 0 .. MaxNow] /\ skipped \subseteq Train \X Station
SettingTypes == /\ provider \in {"unset", "navitia", "stub"} /\ token \in Token \cup {"none"}
                /\ check \in [token : Token \cup {"none"}, ok : BOOLEAN]
ResultTypes == result \in [status : Results, detail : Results]
MemoryTypes == /\ DOMAIN cache = Station /\ known \subseteq Train
               /\ \A s \in Station : /\ IsAnswer(cache[s].answer) /\ cache[s].until \in Int
                                     /\ DOMAIN cache[s].answer \subseteq Calling(s)
OutcomeTypes ==
  /\ next \in [Journey -> [train : Train, status : {"none", "on_time", "delayed", "cancelled"}]]
  /\ alerts \subseteq Journey \X Train \X {"delay", "cancellation", "orphan"}
  /\ unread \in [Journey -> SUBSET Train]
RequestTypes == admin \in AdminState /\ loose \in BOOLEAN /\ changes \in 0 .. MaxChanges
FaultTypes == faults \in 0 .. MaxFaults
TypeInv == /\ TrainTypes /\ SettingTypes /\ ResultTypes /\ LoopTypes /\ MemoryTypes
           /\ OutcomeTypes /\ RequestTypes /\ FaultTypes

\* Which steps touch what.
LEMMA WhoChanges ==
  ASSUME [Next]_vars
  PROVE  /\ Tick \/ UNCHANGED trains
         /\ Bootstrap \/ SaveCheck \/ WriteToken \/ WriteProvider \/ UNCHANGED settings
         /\ WriteStatus \/ WriteDetail \/ UNCHANGED result
         /\ ReadCache \/ CallDepartures \/ DeparturesAnswered \/ RouteAnswered \/ SaveNext \/ Crash
            \/ UNCHANGED memory
         /\ RouteFails \/ SaveNext \/ AlertDeparture \/ AlertOrphan \/ UNCHANGED outcome
         /\ StartUpdate \/ StartProbe \/ AdminStep \/ RequestFails \/ UNCHANGED requests
         /\ DeparturesFail \/ RouteFails \/ QueryFails \/ Crash \/ Probe \/ RequestFails
            \/ UNCHANGED faults
<1>1. CASE ReadsSettings
  BY <1>1 DEF ReadsSettings, Starts, ReadProvider, Bootstrap, ReadToken, ListJourneys
<1>2. CASE Fetches
  BY <1>2 DEF Fetches, ReadCache, CallDepartures, DeparturesAnswered, DeparturesFail
<1>3. CASE Reads
  BY <1>3 DEF Reads, CallRoute, RouteAnswered, RouteFails, SaveNext, AlertDeparture, ListOrphans,
              AlertOrphan, NextJourney
<1>4. CASE Finishes
  BY <1>4 DEF Finishes, LastJourney, WriteStatus, WriteDetail, ReadInterval, Wakes
<1>5. CASE QueryFails \/ Crash \/ Tick
  BY <1>5 DEF QueryFails, Crash, Tick
<1>6. CASE StartUpdate \/ StartProbe \/ AdminStep \/ RequestFails
  BY <1>6 DEF StartUpdate, StartProbe, AdminStep, ReadKey, Probe, SaveCheck, WriteToken,
              WriteProvider, RequestFails
<1>7. CASE UNCHANGED vars
  BY <1>7 DEF vars
<1>8. QED
  BY <1>1, <1>2, <1>3, <1>4, <1>5, <1>6, <1>7 DEF Next, LoopStep

LEMMA TrainTypesNext == TypeInv /\ [Next]_vars => TrainTypes'
<1> SUFFICES ASSUME TypeInv, [Next]_vars
             PROVE  TrainTypes'
  OBVIOUS
<1>1. TrainTypes
  BY DEF TypeInv
<1>2. CASE Tick
  <2>1. now < MaxNow /\ now' = now + 1
    BY <1>2 DEF Tick
  <2>2. PICK w \in [Train -> Failures] :
          /\ world' = w
          /\ since' = [t \in Train |-> IF w[t] = world[t] THEN since[t] ELSE now + 1]
          /\ skipped' = skipped \cup {p \in Train \X Station : p[2] \in w[p[1]]}
    BY <1>2 DEF Tick
  <2>3. now' \in 0 .. MaxNow
    BY <1>1, <2>1, LoopBounds DEF TrainTypes
  <2>4. since' \in [Train -> 0 .. MaxNow]
    BY <1>1, <2>1, <2>2, <2>3 DEF TrainTypes
  <2>5. skipped' \subseteq Train \X Station
    BY <1>1, <2>2 DEF TrainTypes
  <2>6. QED
    BY <2>2, <2>3, <2>4, <2>5 DEF TrainTypes
<1>3. CASE UNCHANGED trains
  BY <1>1, <1>3 DEF TrainTypes, trains
<1>4. QED
  BY <1>2, <1>3, WhoChanges

LEMMA SettingTypesNext == TypeInv /\ [Next]_vars => SettingTypes'
<1> SUFFICES ASSUME TypeInv, [Next]_vars
             PROVE  SettingTypes'
  OBVIOUS
<1>1. SettingTypes /\ admin \in AdminState
  BY DEF TypeInv, RequestTypes
<1>2. CASE Bootstrap
  BY <1>1, <1>2, ProviderAssumption DEF Bootstrap, SettingTypes
<1>3. CASE SaveCheck
  <2>1. check' = [token |-> admin.key, ok |-> admin.ok] /\ UNCHANGED <<provider, token>>
    BY <1>3 DEF SaveCheck
  <2>2. admin.key \in Token \cup {"none"} /\ admin.ok \in BOOLEAN
    BY <1>1 DEF AdminState
  <2>3. QED
    BY <1>1, <2>1, <2>2 DEF SettingTypes
<1>4. CASE WriteToken
  <2>1. admin.token \in Token \cup {"none"}
    BY <1>1 DEF AdminState
  <2>2. QED
    BY <1>1, <1>4, <2>1 DEF WriteToken, SettingTypes
<1>5. CASE WriteProvider
  <2>1. admin.provider \in {"navitia", "stub", "none"}
    BY <1>1 DEF AdminState
  <2>2. QED
    BY <1>1, <1>5, <2>1 DEF WriteProvider, SettingTypes
<1>6. CASE UNCHANGED settings
  BY <1>1, <1>6 DEF settings, SettingTypes
<1>7. QED
  BY <1>2, <1>3, <1>4, <1>5, <1>6, WhoChanges

LEMMA ResultTypesNext == TypeInv /\ [Next]_vars => ResultTypes'
<1> SUFFICES ASSUME TypeInv, [Next]_vars
             PROVE  ResultTypes'
  OBVIOUS
<1>1. ResultTypes /\ loop.end \in Results
  BY DEF TypeInv, LoopTypes
<1>2. CASE WriteStatus
  BY <1>1, <1>2 DEF WriteStatus, ResultTypes
<1>3. CASE WriteDetail
  BY <1>1, <1>3 DEF WriteDetail, ResultTypes
<1>4. QED
  BY <1>1, <1>2, <1>3, WhoChanges DEF ResultTypes

LEMMA ReportsAreReport ==
  ASSUME NEW t, NEW o, world[t] \in Failures, NEW r \in Reports(t, o)
  PROVE  r \in Report
<1>1. CASE o \in world[t]
  <2>1. PICK h \in Forms : r = [how |-> h, delay |-> 0, shared |-> FALSE, lost |-> world[t]]
    BY <1>1 DEF Reports
  <2>2. QED
    BY <2>1 DEF Report
<1>2. CASE o \notin world[t]
  <2>1. PICK h \in {"runs", "part"}, d \in Delays, b \in BOOLEAN :
          r = [how |-> h, delay |-> d, shared |-> b, lost |-> world[t]]
    BY <1>2 DEF Reports
  <2>2. QED
    BY <2>1 DEF Report
<1>3. QED
  BY <1>1, <1>2

\* A board that Navitia answers for a journey.
LEMMA AnswerIsAnswer ==
  ASSUME TypeInv, NEW j \in Journey, NEW a \in Answers(j.origin)
  PROVE  IsAnswer(a) /\ DOMAIN a = Calling(j.origin)
<1>1. /\ a \in [Calling(j.origin) -> UNION {Reports(t, j.origin) : t \in Calling(j.origin)}]
      /\ \A t \in Calling(j.origin) : a[t] \in Reports(t, j.origin)
  BY DEF Answers
<1>2. ASSUME NEW t \in Calling(j.origin)
      PROVE  a[t] \in Report
  <2>1. world[t] \in Failures
    BY DEF TypeInv, TrainTypes, Calling
  <2>2. QED
    BY <1>1, <2>1, ReportsAreReport
<1>3. a \in [Calling(j.origin) -> Report]
  BY <1>1, <1>2
<1>4. QED
  BY <1>3 DEF IsAnswer

LEMMA NoAnswerIsAnswer == IsAnswer(NoAnswer) /\ DOMAIN NoAnswer = {}
  BY DEF IsAnswer, NoAnswer

LEMMA AnsweredTrains ==
  ASSUME NEW a, IsAnswer(a)
  PROVE  DOMAIN a \subseteq Train /\ Listed(a) \subseteq Train
  BY DEF IsAnswer, NoAnswer, Calling, Listed

LEMMA FirstIsJourney ==
  ASSUME LoopTypes, loop.todo # {}
  PROVE  FirstJourney \in loop.todo /\ FirstJourney \in Journey /\ FirstJourney.origin \in Station
<1>1. FirstJourney \in loop.todo /\ loop.todo \subseteq Journey
  BY DEF FirstJourney, LoopTypes
<1>2. QED
  BY <1>1, JourneyAssumption

LEMMA MemoryTypesNext == TypeInv /\ [Next]_vars => MemoryTypes'
<1> SUFFICES ASSUME TypeInv, [Next]_vars
             PROVE  MemoryTypes'
  OBVIOUS
<1>1. MemoryTypes /\ LoopTypes
  BY DEF TypeInv
<1>2. /\ NoEntry.answer = NoAnswer /\ NoEntry.until = -1
  BY DEF NoEntry
<1>3. CASE CallDepartures
  <2>1. cache' = [cache EXCEPT ![FirstJourney.origin] = NoEntry] /\ UNCHANGED known
    BY <1>3 DEF CallDepartures
  <2>2. QED
    BY <1>1, <1>2, <2>1, NoAnswerIsAnswer DEF MemoryTypes
<1>4. CASE DeparturesAnswered
  <2>1. PICK a \in Answers(Origin) : cache' = [cache EXCEPT ![Origin] = [answer |-> a, until |-> now + Ttl]]
    BY <1>4 DEF DeparturesAnswered
  <2>2. known' \subseteq known
    BY <1>4 DEF DeparturesAnswered, Expire
  <2>3. IsAnswer(a) /\ DOMAIN a = Calling(Origin)
    BY <1>1, AnswerIsAnswer DEF LoopTypes, Origin
  <2>4. now + Ttl \in Int
    BY LoopBounds DEF TypeInv, TrainTypes
  <2>5. [answer |-> a, until |-> now + Ttl].answer = a /\ [answer |-> a, until |-> now + Ttl].until = now + Ttl
    OBVIOUS
  <2>6. QED
    BY <1>1, <2>1, <2>2, <2>3, <2>4, <2>5 DEF MemoryTypes
<1>5. CASE RouteAnswered
  BY <1>1, <1>5 DEF RouteAnswered, MemoryTypes, LoopTypes
<1>6. CASE Crash
  <2>1. cache' = [s \in Station |-> NoEntry] /\ known' = {}
    BY <1>6 DEF Crash
  <2>2. QED
    BY <1>2, <2>1, NoAnswerIsAnswer DEF MemoryTypes
<1>7. CASE ReadCache \/ SaveNext
  <2>1. UNCHANGED cache /\ known' \subseteq known
    BY <1>7 DEF ReadCache, SaveNext, Expire
  <2>2. QED
    BY <1>1, <2>1 DEF MemoryTypes
<1>8. CASE UNCHANGED memory
  BY <1>1, <1>8 DEF memory, MemoryTypes
<1>9. QED
  BY <1>3, <1>4, <1>5, <1>6, <1>7, <1>8, WhoChanges

\* The first of some trains, by the time they leave a station they call at.
LEMMA EarliestIn ==
  ASSUME NEW o, NEW S, S \subseteq Calling(o), S # {}
  PROVE  Earliest(S, o) \in S /\ \A u \in S : Time(Earliest(S, o), o) <= Time(u, o)
<1> DEFINE T == {Time(t, o) : t \in S}
           R == {ss \in Nat \X Nat : ss[1] < ss[2]}
<1>1. \A t \in S : Time(t, o) \in Nat
  BY TimeIn DEF Calling
<1>2. IsWellFoundedOn(R, Nat)
  BY NatLessThanWellFounded DEF OpToRel
<1>3. T \subseteq Nat /\ T # {}
  BY <1>1
<1> HIDE DEF R
<1>4. PICK x \in T : \A y \in T : ~(<<y, x>> \in R)
  BY <1>2, <1>3, WFMin, Zenon
<1>5. PICK t \in S : Time(t, o) = x
  BY <1>4
<1>6. ASSUME NEW u \in S
      PROVE  Time(t, o) <= Time(u, o)
  <2>1. Time(u, o) \in T /\ x \in Nat /\ Time(u, o) \in Nat
    BY <1>1, <1>3
  <2>2. ~(Time(u, o) < x)
    BY <1>4, <2>1 DEF R
  <2>3. QED
    BY <1>5, <2>1, <2>2
<1>7. \E t2 \in S : \A u \in S : Time(t2, o) <= Time(u, o)
  BY <1>6
<1>8. QED
  BY <1>7 DEF Earliest

\* Only the trains that an answer tells of are orphans.
LEMMA OrphansTold ==
  ASSUME NEW a, NEW o
  PROVE  OrphansIn(a, o) \subseteq DOMAIN a
<1> SUFFICES ASSUME NEW t \in OrphansIn(a, o)
             PROVE  t \in DOMAIN a
  OBVIOUS
<1>1. PICK i \in DOMAIN Disruptions(a) :
        \E stop \in Disruptions(a)[i].stops : Disruptions(a)[i].trip = t
  BY DEF OrphansIn, Orphans
<1>2. Disruptions(a)[i] = DisruptionOf(a, Order[i])
  BY <1>1 DEF Disruptions
<1>3. PICK stop \in DisruptionOf(a, Order[i]).stops : TRUE
  BY <1>1, <1>2
<1>4. Order[i] = t
  BY <1>1, <1>2 DEF DisruptionOf
<1>5. QED
  BY <1>3, <1>4 DEF DisruptionOf

Statuses == {"none", "on_time", "delayed", "cancelled"}

LEMMA NextTyped ==
  ASSUME NEW matched, matched \subseteq Calling(Origin), DOMAIN loop.answer \subseteq Calling(Origin)
  PROVE  NextOf(loop.answer, matched) \in [train : Train, status : Statuses]
<1> DEFINE candidates == matched \cup OrphansIn(loop.answer, Origin)
           t == Earliest(candidates, Origin)
           s == StatusOf(t \notin matched \/ CancelledIn(loop.answer, t, Origin),
                         t \in matched /\ Late(DepartureOf(loop.answer, t)))
<1>1. candidates \subseteq Calling(Origin)
  BY OrphansTold
<1>2. s \in Statuses
  BY DEF StatusOf, Statuses
<1>3. CASE candidates = {}
  <2>1. NextOf(loop.answer, matched) = NoNext
    BY <1>3 DEF NextOf
  <2>2. AnyTrain \in Train
    BY SomeAssumption DEF AnyTrain
  <2>3. QED
    BY <2>1, <2>2 DEF NoNext, Statuses
<1>4. CASE candidates # {}
  <2>1. t \in Train
    BY <1>1, <1>4, EarliestIn DEF Calling
  <2>2. NextOf(loop.answer, matched) = [train |-> t, status |-> s]
    BY <1>4 DEF NextOf
  <2> HIDE DEF s, t
  <2>3. QED
    BY <1>2, <2>1, <2>2
<1>5. QED
  BY <1>3, <1>4

LEMMA OutcomeTypesNext == TypeInv /\ [Next]_vars => OutcomeTypes'
<1> SUFFICES ASSUME TypeInv, [Next]_vars
             PROVE  OutcomeTypes'
  OBVIOUS
<1>1. OutcomeTypes /\ LoopTypes
  BY DEF TypeInv
<1>2. loop.j \in Journey /\ loop.left \subseteq Train
  BY <1>1 DEF LoopTypes
<1>3. CASE SaveNext
  <2> DEFINE matched == {t \in loop.left : Wanted(t)}
  <2>1. /\ next' = [next EXCEPT ![loop.j] = NextOf(loop.answer, matched)]
        /\ loop.at = "match" /\ UNCHANGED alerts /\ unread' = [unread EXCEPT ![loop.j] = {}]
    BY <1>3 DEF SaveNext
  <2>2. DOMAIN loop.answer \subseteq Calling(Origin) /\ matched \subseteq Calling(Origin)
    BY <1>1, <2>1 DEF LoopTypes, Board
  <2>3. NextOf(loop.answer, matched) \in [train : Train, status : Statuses]
    BY <2>2, NextTyped
  <2>4. next \in [Journey -> [train : Train, status : Statuses]]
    BY <1>1 DEF OutcomeTypes, Statuses
  <2>5. next' \in [Journey -> [train : Train, status : Statuses]]
    BY <1>2, <2>1, <2>3, <2>4
  <2>6. QED
    BY <1>1, <2>1, <2>5 DEF OutcomeTypes, Statuses
<1>4. CASE AlertDeparture
  <2>1. PICK t \in loop.left :
          alerts' = IF Wanted(t)
                    THEN alerts \cup {<<loop.j, t, k>> : k \in KindOf(loop.answer, t)} ELSE alerts
    BY <1>4 DEF AlertDeparture
  <2>2. UNCHANGED <<next, unread>>
    BY <1>4 DEF AlertDeparture
  <2>3. KindOf(loop.answer, t) \subseteq {"delay", "cancellation"}
    BY DEF KindOf, DelayAsked, Asks
  <2>4. \A k \in KindOf(loop.answer, t) :
          <<loop.j, t, k>> \in Journey \X Train \X {"delay", "cancellation", "orphan"}
    BY <1>2, <2>3
  <2>5. QED
    BY <1>1, <2>1, <2>2, <2>4 DEF OutcomeTypes
<1>5. CASE AlertOrphan
  <2>1. PICK t \in loop.left : alerts' \subseteq alerts \cup {<<loop.j, t, "orphan">>}
    BY <1>5 DEF AlertOrphan
  <2>2. QED
    BY <1>1, <1>2, <1>5, <2>1 DEF AlertOrphan, OutcomeTypes
<1>6. CASE RouteFails
  <2>1. loop.train \in Train
    BY <1>1 DEF LoopTypes
  <2>2. /\ UNCHANGED <<next, alerts>>
        /\ unread' = IF loop.pass = 1 THEN unread
                     ELSE [unread EXCEPT ![loop.j] = @ \cup {loop.train}]
    BY <1>6 DEF RouteFails
  <2>3. QED
    BY <1>1, <1>2, <2>1, <2>2 DEF OutcomeTypes
<1>7. CASE UNCHANGED outcome
  BY <1>1, <1>7 DEF outcome, OutcomeTypes
<1>8. QED
  BY <1>3, <1>4, <1>5, <1>6, <1>7, WhoChanges

LEMMA NoRequestTyped == NoRequest \in AdminState
  BY DEF NoRequest, AdminState

LEMMA RequestTypesNext == TypeInv /\ [Next]_vars => RequestTypes'
<1> SUFFICES ASSUME TypeInv, [Next]_vars
             PROVE  RequestTypes'
  OBVIOUS
<1>1. RequestTypes /\ token \in Token \cup {"none"} /\ changes \in Nat
  BY DEF TypeInv, SettingTypes, RequestTypes
<1>2. ASSUME Asked
      PROVE  changes' \in 0 .. MaxChanges
  BY <1>1, <1>2, LoopBounds DEF Asked, RequestTypes
<1>3. CASE StartUpdate
  <2>1. PICK k \in Token \cup {"none"}, p \in {"navitia", "stub", "none"} : admin' =
          [NoRequest EXCEPT !.token = k, !.provider = p, !.key = k, !.again = p = "navitia",
             !.at = IF k # "none" THEN "probe" ELSE IF p = "navitia" THEN "read" ELSE "token"]
    BY <1>3 DEF StartUpdate
  <2>2. admin' \in AdminState
    BY <2>1, NoRequestTyped DEF AdminState
  <2>3. QED
    BY <1>1, <1>2, <1>3, <2>2 DEF StartUpdate, RequestTypes
<1>4. CASE StartProbe
  <2>1. PICK k \in Token \cup {"none"} :
          /\ admin' = [NoRequest EXCEPT !.test = TRUE, !.key = k,
                                        !.at = IF k = "none" THEN "read" ELSE "probe"]
          /\ loose' = (loose \/ k # "none")
    BY <1>4 DEF StartProbe
  <2>2. admin' \in AdminState
    BY <2>1, NoRequestTyped DEF AdminState
  <2>3. loose' \in BOOLEAN
    BY <2>1
  <2>4. QED
    BY <1>2, <1>4, <2>2, <2>3 DEF StartProbe, RequestTypes
<1>5. CASE ReadKey
  <2>1. /\ admin' = [admin EXCEPT !.at = "probe", !.again = FALSE,
                                  !.key = IF admin.token # "none" THEN admin.token ELSE token]
        /\ UNCHANGED <<loose, changes>>
    BY <1>5 DEF ReadKey
  <2>2. admin' \in AdminState
    BY <1>1, <2>1 DEF RequestTypes, AdminState
  <2>3. QED
    BY <1>1, <2>1, <2>2 DEF RequestTypes
<1>6. CASE Probe
  <2>1. PICK ok \in BOOLEAN : admin' = [admin EXCEPT !.at = "save", !.ok = ok]
    <3>1. (admin.key \in Valid) \in BOOLEAN /\ FALSE \in BOOLEAN
      OBVIOUS
    <3>2. \/ admin' = [admin EXCEPT !.at = "save", !.ok = admin.key \in Valid]
          \/ admin' = [admin EXCEPT !.at = "save", !.ok = FALSE]
      BY <1>6 DEF Probe
    <3>3. QED
      BY <3>1, <3>2
  <2>2. admin' \in AdminState
    BY <1>1, <2>1 DEF RequestTypes, AdminState
  <2>3. QED
    BY <1>1, <1>6, <2>2 DEF Probe, RequestTypes
<1>7. CASE SaveCheck \/ WriteToken
  <2>1. admin' = NoRequest \/ \E at \in {"read", "token", "provider"} : admin' = [admin EXCEPT !.at = at]
    BY <1>7 DEF SaveCheck, WriteToken, AdminAt
  <2>2. admin' \in AdminState
    BY <1>1, <2>1, NoRequestTyped DEF RequestTypes, AdminState
  <2>3. CASE SaveCheck
    BY <1>1, <2>2, <2>3 DEF SaveCheck, RequestTypes
  <2>4. CASE WriteToken
    <3>1. loose' = (loose /\ admin.token = "none") /\ UNCHANGED changes
      BY <2>4 DEF WriteToken
    <3>2. loose' \in BOOLEAN
      BY <3>1
    <3>3. QED
      BY <1>1, <2>2, <3>1, <3>2 DEF RequestTypes
  <2>5. QED
    BY <1>7, <2>3, <2>4
<1>8. CASE WriteProvider
  BY <1>1, <1>8, NoRequestTyped DEF WriteProvider, RequestTypes
<1>9. CASE RequestFails
  BY <1>1, <1>9, NoRequestTyped DEF RequestFails, RequestTypes
<1>10. CASE UNCHANGED requests
  BY <1>1, <1>10 DEF requests, RequestTypes
<1>11. QED
  BY <1>3, <1>4, <1>5, <1>6, <1>7, <1>8, <1>9, <1>10, WhoChanges DEF AdminStep

LEMMA FaultTypesNext == TypeInv /\ [Next]_vars => FaultTypes'
<1> SUFFICES ASSUME TypeInv, [Next]_vars
             PROVE  FaultTypes'
  OBVIOUS
<1>1. FaultTypes
  BY DEF TypeInv
<1>2. CASE Fault
  BY <1>1, <1>2, LoopBounds DEF Fault, FaultTypes
<1>3. CASE UNCHANGED faults
  BY <1>1, <1>3 DEF FaultTypes
<1>4. QED
  BY <1>2, <1>3, WhoChanges
  DEF DeparturesFail, RouteFails, QueryFails, Crash, Probe, RequestFails

\* What LoopTypes says of a record, for the cases below.
LEMMA LoopTypesAfter ==
  ASSUME DOMAIN loop' = LoopFields,
         loop'.at \in Whereabouts, loop'.end \in Results, loop'.pass \in {1, 2},
         loop'.key \in Token \cup {"none"},
         loop'.open \subseteq Journey, loop'.todo \subseteq Journey, loop'.j \in Journey,
         loop'.left \subseteq Train, loop'.train \in Train,
         IsAnswer(loop'.answer),
         loop'.at \in Board => DOMAIN loop'.answer \subseteq Calling(loop'.j.origin),
         loop'.at \in {"match", "route"} => loop'.left \subseteq DOMAIN loop'.answer
  PROVE  LoopTypes'
  BY DEF LoopTypes, Origin, IsAnswer

LEMMA FreshTypes ==
  ASSUME NEW at \in Whereabouts \ Board, loop' = Fresh(at)
  PROVE  LoopTypes'
<1>1. AnyTrain \in Train /\ AnyJourney \in Journey
  BY SomeAssumption DEF AnyTrain, AnyJourney
<1>2. QED
  BY <1>1, FreshLoop, NoAnswerIsAnswer, LoopTypesAfter DEF Results, Board

LEMMA ToTypes ==
  ASSUME LoopTypes, NEW at \in Whereabouts, To(at),
         at \notin Board \/ (at = "match" /\ loop.at = "route")
  PROVE  LoopTypes'
<1>1. DOMAIN loop = LoopFields
  BY DEF LoopTypes
<1>2. QED
  BY <1>1, ToLoop, LoopTypesAfter DEF LoopTypes, Origin, Board

LEMMA EndsTypes ==
  ASSUME LoopTypes, NEW end \in Results, Ends(end)
  PROVE  LoopTypes'
<1>1. DOMAIN loop = LoopFields
  BY DEF LoopTypes
<1>2. QED
  BY <1>1, EndsLoop, NoAnswerIsAnswer, LoopTypesAfter DEF LoopTypes, Whereabouts, Board

LEMMA ReadingTypes ==
  ASSUME LoopTypes, NEW j \in Journey, NEW a, IsAnswer(a), DOMAIN a \subseteq Calling(j.origin),
         loop' = Reading(j, a)
  PROVE  LoopTypes'
<1>1. DOMAIN loop = LoopFields
  BY DEF LoopTypes
<1>2. Listed(a) \subseteq Train /\ Listed(a) \subseteq DOMAIN a
  BY AnsweredTrains DEF Listed
<1>3. QED
  BY <1>1, <1>2, ReadingLoop, LoopTypesAfter DEF LoopTypes, Whereabouts

LEMMA LoopTypesNext == TypeInv /\ [Next]_vars => LoopTypes'
<1> SUFFICES ASSUME TypeInv, [Next]_vars
             PROVE  LoopTypes'
  OBVIOUS
<1>1. LoopTypes /\ DOMAIN loop = LoopFields /\ MemoryTypes
  BY DEF TypeInv, LoopTypes
<1>2. CASE ReadsSettings
  <2>1. CASE Starts \/ ReadProvider \/ Bootstrap
    BY <1>1, <2>1, FreshTypes, ToTypes, EndsTypes
    DEF Starts, ReadProvider, Bootstrap, Whereabouts, Board, Results
  <2>2. CASE ReadToken
    <3>1. CASE Ends("error")
      BY <1>1, <3>1, EndsTypes DEF Results
    <3>2. CASE loop' = [loop EXCEPT !.at = "journeys", !.key = token]
      <4>1. token \in Token \cup {"none"}
        BY DEF TypeInv, SettingTypes
      <4>2. QED
        BY <1>1, <3>2, <4>1, KeyLoop, LoopTypesAfter DEF LoopTypes, Whereabouts, Board
    <3>3. QED
      BY <2>2, <3>1, <3>2 DEF ReadToken
  <2>3. CASE ListJourneys
    <3>1. CASE Ends("skipped")
      BY <1>1, <3>1, EndsTypes DEF Results
    <3>2. ASSUME NEW open \in Windows,
                 loop' = [loop EXCEPT !.at = "fetch", !.open = open, !.todo = open]
          PROVE  LoopTypes'
      <4>1. open \subseteq Journey
        BY WindowsAssumption
      <4>2. /\ DOMAIN loop' = LoopFields
            /\ loop'.at = "fetch" /\ loop'.open = open /\ loop'.todo = open
            /\ loop'.key = loop.key
            /\ loop'.j = loop.j /\ loop'.answer = loop.answer /\ loop'.pass = loop.pass
            /\ loop'.left = loop.left /\ loop'.train = loop.train
            /\ loop'.end = loop.end
        BY <1>1, <3>2, OpenLoop
      <4>3. QED
        BY <1>1, <4>1, <4>2, LoopTypesAfter DEF LoopTypes, Whereabouts, Board
    <3>3. QED
      BY <2>3, <3>1, <3>2 DEF ListJourneys
  <2>4. QED
    BY <1>2, <2>1, <2>2, <2>3 DEF ReadsSettings
<1>3. CASE Fetches
  <2>1. CASE ReadCache
    <3>1. loop.todo # {} /\ loop' = Reading(FirstJourney, cache[FirstJourney.origin].answer)
      BY <2>1 DEF ReadCache
    <3>2. FirstJourney \in Journey /\ FirstJourney.origin \in Station
      BY <1>1, <3>1, FirstIsJourney
    <3>3. /\ IsAnswer(cache[FirstJourney.origin].answer)
          /\ DOMAIN cache[FirstJourney.origin].answer \subseteq Calling(FirstJourney.origin)
      BY <1>1, <3>2 DEF MemoryTypes
    <3>4. QED
      BY <1>1, <3>1, <3>2, <3>3, ReadingTypes
  <2>2. CASE CallDepartures
    <3>1. loop.todo # {} /\ loop' = [loop EXCEPT !.at = "answered", !.j = FirstJourney]
      BY <2>2 DEF CallDepartures
    <3>2. FirstJourney \in Journey
      BY <1>1, <3>1, FirstIsJourney
    <3>3. QED
      BY <1>1, <3>1, <3>2, CallLoop, LoopTypesAfter DEF LoopTypes, Whereabouts, Board
  <2>3. CASE DeparturesAnswered
    <3>1. PICK a \in Answers(Origin) : loop' = Reading(loop.j, a)
      BY <2>3 DEF DeparturesAnswered
    <3>2. loop.j \in Journey
      BY <1>1 DEF LoopTypes
    <3>3. IsAnswer(a) /\ DOMAIN a = Calling(loop.j.origin)
      BY <3>1, <3>2, AnswerIsAnswer DEF Origin
    <3>4. QED
      BY <1>1, <3>1, <3>2, <3>3, ReadingTypes
  <2>4. CASE DeparturesFail
    BY <1>1, <2>4, EndsTypes DEF DeparturesFail, Results
  <2>5. QED
    BY <1>3, <2>1, <2>2, <2>3, <2>4 DEF Fetches
<1>4. CASE Reads
  <2>1. CASE CallRoute
    <3>1. PICK t \in loop.left : loop' = [loop EXCEPT !.at = "route", !.train = t]
      BY <2>1 DEF CallRoute
    <3>2. loop.at = "match" /\ t \in Train
      BY <1>1, <2>1 DEF CallRoute, LoopTypes
    <3>3. QED
      BY <1>1, <3>1, <3>2, RouteLoop, LoopTypesAfter DEF LoopTypes, Whereabouts, Board, Origin
  <2>2. CASE RouteAnswered
    BY <1>1, <2>2, ToTypes DEF RouteAnswered, Whereabouts
  <2>3. CASE RouteFails
    <3>1. /\ loop.at = "route"
          /\ loop' = [loop EXCEPT !.at = "match", !.left = @ \ {loop.train}]
      BY <2>3 DEF RouteFails
    <3>2. loop'.left \subseteq loop.left
      BY <1>1, <3>1, LostLoop DEF LoopTypes
    <3>3. QED
      BY <1>1, <3>1, <3>2, LostLoop, LoopTypesAfter DEF LoopTypes, Whereabouts, Board, Origin
  <2>4. CASE SaveNext
    <3>1. loop.at = "match" /\ loop' = [loop EXCEPT !.pass = 2, !.left = Listed(loop.answer)]
      BY <2>4 DEF SaveNext
    <3>2. Listed(loop.answer) \subseteq Train /\ Listed(loop.answer) \subseteq DOMAIN loop.answer
      BY <1>1, AnsweredTrains DEF LoopTypes, Listed
    <3>3. QED
      BY <1>1, <3>1, <3>2, SecondLoop, LoopTypesAfter DEF LoopTypes, Whereabouts, Board, Origin
  <2>5. CASE AlertDeparture \/ AlertOrphan
    <3>1. PICK t \in loop.left : loop' = [loop EXCEPT !.left = @ \ {t}]
      BY <2>5 DEF AlertDeparture, AlertOrphan
    <3>2. loop'.left \subseteq loop.left
      BY <1>1, <3>1, LeftLoop
    <3>3. QED
      BY <1>1, <3>1, <3>2, LeftLoop, LoopTypesAfter DEF LoopTypes, Whereabouts, Board, Origin
  <2>6. CASE ListOrphans
    <3>1. /\ loop.at = "match"
          /\ loop' = [loop EXCEPT !.at = "orphans", !.left = OrphansIn(loop.answer, Origin)]
      BY <2>6 DEF ListOrphans
    <3>2. OrphansIn(loop.answer, Origin) \subseteq Train
      BY DEF OrphansIn, Orphans
    <3>3. QED
      BY <1>1, <3>1, <3>2, OrphansLoop, LoopTypesAfter DEF LoopTypes, Whereabouts, Board, Origin
  <2>7. CASE NextJourney
    <3>1. loop' = [loop EXCEPT !.at = "fetch", !.answer = NoAnswer]
      BY <2>7 DEF NextJourney
    <3>2. QED
      BY <1>1, <3>1, DoneLoop, NoAnswerIsAnswer, LoopTypesAfter DEF LoopTypes, Whereabouts, Board
  <2>8. QED
    BY <1>4, <2>1, <2>2, <2>3, <2>4, <2>5, <2>6, <2>7 DEF Reads
<1>5. CASE Finishes
  BY <1>1, <1>5, FreshTypes, ToTypes, EndsTypes
  DEF Finishes, LastJourney, WriteStatus, WriteDetail, ReadInterval, Wakes, Whereabouts, Board, Results
<1>6. CASE QueryFails \/ Crash
  BY <1>1, <1>6, FreshTypes, EndsTypes DEF QueryFails, Crash, Whereabouts, Board, Results
<1>7. CASE Tick \/ StartUpdate \/ StartProbe \/ AdminStep \/ RequestFails \/ UNCHANGED vars
  BY <1>1, <1>7, Elsewhere DEF LoopTypes, Origin, IsAnswer
<1>8. QED
  BY <1>2, <1>3, <1>4, <1>5, <1>6, <1>7 DEF Next, LoopStep

LEMMA TypeInit == Init => TypeInv
<1> SUFFICES ASSUME Init
             PROVE  TypeInv
  OBVIOUS
<1>1. AnyTrain \in Train /\ AnyJourney \in Journey
  BY SomeAssumption DEF AnyTrain, AnyJourney
<1>2. TrainTypes
  BY FailuresAssumption, LoopBounds DEF Init, TrainTypes
<1>3. SettingTypes
  <2>1. (token \in Valid) \in BOOLEAN
    OBVIOUS
  <2>2. check = [token |-> token, ok |-> token \in Valid]
    BY DEF Init
  <2>3. check \in [token : Token \cup {"none"}, ok : BOOLEAN]
    BY <2>1, <2>2 DEF Init
  <2>4. QED
    BY <2>3 DEF Init, SettingTypes
<1>4. ResultTypes
  BY DEF Init, ResultTypes, Results
<1>5. LoopTypes
  <2>1. loop = Fresh("down")
    BY DEF Init
  <2>2. /\ DOMAIN loop = LoopFields
        /\ loop.at = "down" /\ loop.key = "none" /\ loop.open = {} /\ loop.todo = {}
        /\ loop.j = AnyJourney /\ loop.answer = NoAnswer /\ loop.pass = 1 /\ loop.left = {}
        /\ loop.train = AnyTrain /\ loop.end = "none"
    BY <2>1 DEF Fresh, LoopFields
  <2>3. QED
    BY <1>1, <2>2, NoAnswerIsAnswer DEF LoopTypes, Whereabouts, Results, Board
<1>6. MemoryTypes
  <2>1. cache = [s \in Station |-> NoEntry] /\ known = {}
    BY DEF Init
  <2>2. NoEntry.answer = NoAnswer /\ NoEntry.until = -1
    BY DEF NoEntry
  <2>3. QED
    BY <2>1, <2>2, NoAnswerIsAnswer DEF MemoryTypes
<1>7. OutcomeTypes
  BY <1>1 DEF Init, OutcomeTypes, NoNext
<1>8. RequestTypes /\ FaultTypes
  <2>1. 0 \in 0 .. MaxChanges /\ 0 \in 0 .. MaxFaults
    BY LoopBounds
  <2>2. admin \in AdminState
    BY NoRequestTyped DEF Init
  <2>3. QED
    BY <2>1, <2>2 DEF Init, RequestTypes, FaultTypes
<1>9. QED
  BY <1>2, <1>3, <1>4, <1>5, <1>6, <1>7, <1>8 DEF TypeInv

LEMMA TypeAlways == Spec => []TypeInv
<1>1. TypeInv /\ [Next]_vars => TypeInv'
  BY TrainTypesNext, SettingTypesNext, ResultTypesNext, LoopTypesNext, MemoryTypesNext,
     OutcomeTypesNext, RequestTypesNext, FaultTypesNext
  DEF TypeInv
<1>2. QED
  BY <1>1, TypeInit, PTL DEF Spec

(***************************************************************************)
(* Every variable of the loop keeps its type, whatever the trains, the     *)
(* answers, the requests of the administrator and the faults: what the     *)
(* loop reads is of the station it asked for, and the next train that it   *)
(* stores is one of that board.                                            *)
(***************************************************************************)
THEOREM LoopTypeCorrect == Spec => []TypeOK
<1>1. TypeInv /\ LoopInv => TypeOK
  <2> SUFFICES ASSUME TypeInv, LoopInv
               PROVE  TypeOK
    OBVIOUS
  <2>1. owed \in {0, 1}
    BY DEF LoopInv
  <2>2. [f \in DOMAIN loop \ {"answer"} |-> loop[f]] \in LoopState
    BY LoopTypesAreLoopState DEF TypeInv
  <2>3. QED
    BY <2>1, <2>2
    DEF TypeInv, TrainTypes, SettingTypes, ResultTypes, LoopTypes, MemoryTypes, OutcomeTypes,
        RequestTypes, FaultTypes, TypeOK, Results
<1>2. QED
  BY <1>1, TypeAlways, LoopAlways, PTL
-----------------------------------------------------------------------------
(* Which departures are shown or raise an alert.                           *)

\* The trains that SaveNext shows as running are departures that it matched.
LEMMA RunningIsMatched ==
  ASSUME NEW a, NEW matched, NextOf(a, matched).status \in {"on_time", "delayed"}
  PROVE  NextOf(a, matched).train \in matched
<1> DEFINE candidates == matched \cup OrphansIn(a, Origin)
           t == Earliest(candidates, Origin)
           s == StatusOf(t \notin matched \/ CancelledIn(a, t, Origin),
                         t \in matched /\ Late(DepartureOf(a, t)))
<1>1. CASE candidates = {}
  <2>1. NextOf(a, matched) = NoNext
    BY <1>1 DEF NextOf
  <2>2. QED
    BY <2>1 DEF NoNext
<1>2. CASE candidates # {}
  <2>1. NextOf(a, matched) = [train |-> t, status |-> s]
    BY <1>2 DEF NextOf
  <2>2. t \notin matched => s = "cancelled"
    BY DEF StatusOf
  <2> HIDE DEF s, t
  <2>3. QED
    BY <2>1, <2>2
<1>3. QED
  BY <1>1, <1>2

LEMMA WantedGoTheWay ==
  ASSUME NEW t \in Train, Wanted(t)
  PROVE  GoesTheWay(t, loop.j)
  BY ServesInTurn DEF Wanted, Matches, GoesTheWay

(***************************************************************************)
(* An alert read from the board, and a card that shows a running train,    *)
(* are of a train that calls at the destination after the origin, or whose *)
(* direction is read as going there or beyond: for every corridor, every   *)
(* vehicle journey and whatever the texts hold.                            *)
(***************************************************************************)
THEOREM AlertsGoTheWay == Spec => []RightWay
<1>1. Init => RightWay
  BY DEF Init, RightWay, NoNext
<1>2. TypeInv /\ RightWay /\ [Next]_vars => RightWay'
  <2> SUFFICES ASSUME TypeInv, RightWay, [Next]_vars
               PROVE  RightWay'
    OBVIOUS
  <2>1. CASE UNCHANGED <<alerts, next>>
    BY <2>1 DEF RightWay
  <2>2. CASE AlertOrphan
    <3>1. PICK t : alerts' \subseteq alerts \cup {<<loop.j, t, "orphan">>}
      BY <2>2 DEF AlertOrphan
    <3>2. UNCHANGED next
      BY <2>2 DEF AlertOrphan
    <3>3. QED
      BY <3>1, <3>2 DEF RightWay
  <2>3. CASE AlertDeparture
    <3>1. PICK t : alerts' = IF Wanted(t)
                     THEN alerts \cup {<<loop.j, t, k>> : k \in KindOf(loop.answer, t)} ELSE alerts
      BY <2>3 DEF AlertDeparture
    <3>2. UNCHANGED next
      BY <2>3 DEF AlertDeparture
    <3>3. CASE ~Wanted(t)
      BY <3>1, <3>2, <3>3 DEF RightWay
    <3>4. CASE Wanted(t)
      <4>1. t \in Train => GoesTheWay(t, loop.j)
        BY <3>4, WantedGoTheWay
      <4>2. ASSUME NEW e \in alerts', e \notin alerts
            PROVE  e[1] = loop.j /\ e[2] = t
        BY <3>1, <3>4, <4>2
      <4>3. QED
        BY <3>2, <4>1, <4>2 DEF RightWay
    <3>5. QED
      BY <3>3, <3>4
  <2>4. CASE SaveNext
    <3> DEFINE matched == {t \in loop.left : Wanted(t)}
               row == NextOf(loop.answer, matched)
    <3>1. next' = [next EXCEPT ![loop.j] = row] /\ UNCHANGED alerts
      BY <2>4 DEF SaveNext
    <3>2. DOMAIN next = Journey
      BY DEF TypeInv, OutcomeTypes
    <3>3. ASSUME NEW t \in Train, row.train = t, row.status \in {"on_time", "delayed"}
          PROVE  GoesTheWay(t, loop.j)
      <4>1. t \in matched
        BY <3>3, RunningIsMatched
      <4>2. QED
        BY <4>1, WantedGoTheWay
    <3> HIDE DEF row
    <3>4. QED
      BY <3>1, <3>2, <3>3 DEF RightWay
  <2>5. QED
    BY <2>1, <2>2, <2>3, <2>4, FewStepsAlert
<1>3. QED
  BY <1>1, <1>2, TypeAlways, PTL DEF Spec
=============================================================================
