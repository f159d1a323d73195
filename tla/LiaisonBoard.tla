---------------------------- MODULE LiaisonBoard ----------------------------
(***************************************************************************)
(* The board of the liaisons: what a poll writes for each journey that is  *)
(* open (adapters/ingest.ts, domain/store.ts), while liaisons are edited   *)
(* and deleted, statistics purged and the process restarted.  The alerts   *)
(* the same poll raises are AlertPipeline's.                               *)
(***************************************************************************)
EXTENDS Liaisons

CONSTANTS
  Train,      \* the departures of a board, numbered in the order of their base time
  Status      \* statuses a departure may have

ASSUME TrainAssumption == Train \subseteq Nat /\ IsFiniteSet(Train)
ASSUME StatusAssumption == Status \subseteq {"on_time", "delayed", "cancelled", "unknown"}
\* A scenario also bounds the purges of the statistics, and says in which directions the
\* watch window is open and which statuses the operator announces.
ASSUME ScenarioAssumption ==
  \A s \in Scenarios : /\ s.purges \in Nat
                       /\ s.open \subseteq Direction /\ s.announced \subseteq Status

VARIABLES
  seen,     \* board_train_observations: seen[j][t]
  counts,   \* board_day_observations: counts[i][c], summed over the days
  next,     \* journey_board_snapshots: next[j]
  poll,     \* the ingest loop: where it is and what it holds
  purges

board == <<seen, counts, next>>
vars == <<lvars, board, poll, purges>>

Journey == Id \X Direction
Counted == Status \ {"unknown"}
Exists(j) == legs[j[1]][j[2]] # "none"
Active(j) == legs[j[1]][j[2]] \in Route

\* A row keeps its last status; "first" is the one it was created with (history).
Unseen == [status |-> "none", first |-> "none"]
Seen == {Unseen} \cup [status : Status, first : Status]
NoNext == [route |-> SeedRoute, train |-> 0, status |-> "none"]
NextTrain == {NoNext} \cup [route : Route, train : Train, status : Status]

\* A departure of the answer that is matched and watched, with its status.
Answer == UNION {[T -> Status] : T \in SUBSET Train}

PollState ==
  [at : {"idle", "list", "fetch", "next", "observe", "count"},
   todo : SUBSET (Journey \X Route), j : Journey, route : Route,
   answer : Answer, train : Train \cup {0}, status : Status \cup {"none"}]
Poll(at, todo, j, route, answer, train, status) ==
  [at |-> at, todo |-> todo, j |-> j, route |-> route, answer |-> answer,
   train |-> train, status |-> status]
Empty == [t \in {} |-> "none"]
PollOf(at, todo) == Poll(at, todo, <<NoId, "outbound">>, SeedRoute, Empty, 0, "none")
NoPoll == PollOf("idle", {})
At(at) == Poll(at, poll.todo, poll.j, poll.route, poll.answer, poll.train, poll.status)

Init ==
  /\ LiaisonInit
  /\ seen = [j \in Journey |-> [t \in Train |-> Unseen]]
  /\ counts = [i \in Id |-> [c \in Counted |-> 0]]
  /\ next = [j \in Journey |-> NoNext]
  /\ poll = NoPoll /\ purges = 0

-----------------------------------------------------------------------------
\* The poll: listJourneys, then one journey after the other.

StartPoll ==
  /\ Up("worker") /\ poll.at = "idle"
  /\ LET open == {<<j, legs[j[1]][j[2]]>> : j \in {k \in Journey : k[2] \in scenario.open /\ Active(k)}}
     IN open # {} /\ poll' = PollOf("list", open)
  /\ UNCHANGED <<lvars, board, purges>>

FetchDepartures ==
  /\ poll.at = "list" /\ poll.todo # {}
  /\ \E w \in poll.todo, a \in Answer :
       /\ \A t \in DOMAIN a : a[t] \in scenario.announced
       /\ poll' = Poll("next", poll.todo \ {w}, w[1], w[2], a, 0, "none")
  /\ UNCHANGED <<lvars, board, purges>>

\* Mutant: the row is written without a look at the foreign key.
SaveNextAnyway ==
  /\ poll.at = "next"
  /\ LET a == poll.answer
         first == CHOOSE t \in DOMAIN a : \A u \in DOMAIN a : t <= u
     IN next' = [next EXCEPT ![poll.j] =
          IF DOMAIN a = {} THEN NoNext
          ELSE [route |-> poll.route, train |-> first, status |-> a[first]]]
  /\ poll' = At("observe")
  /\ UNCHANGED <<lvars, seen, counts, purges>>

\* Mutant: a next train is replaced only by another status.
SaveNextOnce ==
  /\ poll.at = "next"
  /\ LET a == poll.answer
         first == CHOOSE t \in DOMAIN a : \A u \in DOMAIN a : t <= u
     IN next' = IF DOMAIN a # {} /\ Exists(poll.j) /\ next[poll.j].status # a[first]
                  THEN [next EXCEPT ![poll.j] =
                         [route |-> poll.route, train |-> first, status |-> a[first]]]
                  ELSE next
  /\ poll' = At("observe")
  /\ UNCHANGED <<lvars, seen, counts, purges>>

\* saveNextFromNavitia: the first matched departure, or no row; the key must exist.
SaveNext ==
  /\ poll.at = "next"
  /\ LET a == poll.answer
         first == CHOOSE t \in DOMAIN a : \A u \in DOMAIN a : t <= u
     IN \/ /\ DOMAIN a = {}
           /\ next' = [next EXCEPT ![poll.j] = NoNext]
           /\ poll' = At("observe")
        \/ /\ DOMAIN a # {} /\ Exists(poll.j)
           /\ next' = [next EXCEPT ![poll.j] =
                [route |-> poll.route, train |-> first, status |-> a[first]]]
           /\ poll' = At("observe")
        \/ /\ DOMAIN a # {} /\ ~Exists(poll.j)
           /\ poll' = NoPoll /\ UNCHANGED next
  /\ UNCHANGED <<lvars, seen, counts, purges>>

\* Mutant: every poll of a train counts it.
ObserveAlways ==
  /\ poll.at = "observe" /\ DOMAIN poll.answer # {} /\ Exists(poll.j)
  /\ \E t \in DOMAIN poll.answer :
       LET s == poll.answer[t]
           left == [u \in DOMAIN poll.answer \ {t} |-> poll.answer[u]]
       IN /\ seen' = [seen EXCEPT ![poll.j][t] =
               [status |-> s, first |-> IF @ = Unseen THEN s ELSE @.first]]
          /\ poll' = Poll("count", poll.todo, poll.j, poll.route, left, t, s)
  /\ UNCHANGED <<lvars, counts, next, purges>>

\* Mutant: the counters follow a train that changes its status.
ObserveMoves ==
  /\ poll.at = "observe" /\ DOMAIN poll.answer # {} /\ Exists(poll.j)
  /\ \E t \in DOMAIN poll.answer :
       LET s == poll.answer[t]
           was == seen[poll.j][t]
           left == [u \in DOMAIN poll.answer \ {t} |-> poll.answer[u]]
       IN /\ seen' = [seen EXCEPT ![poll.j][t] =
               [status |-> s, first |-> IF was = Unseen THEN s ELSE was.first]]
          /\ poll' = Poll(IF was.status = s THEN "observe" ELSE "count",
                       poll.todo, poll.j, poll.route, left, t, s)
          /\ counts' = IF was.status \in Counted \ {s}
                         THEN [counts EXCEPT ![poll.j[1]][was.status] = @ - 1]
                         ELSE counts
  /\ UNCHANGED <<lvars, next, purges>>

\* upsertBoardTrainObservation: INSERT or UPDATE of the train's row.
Observe ==
  /\ poll.at = "observe" /\ DOMAIN poll.answer # {}
  /\ \E t \in DOMAIN poll.answer :
       LET s == poll.answer[t]
           left == [u \in DOMAIN poll.answer \ {t} |-> poll.answer[u]]
           created == seen[poll.j][t] = Unseen
       IN IF Exists(poll.j)
            THEN /\ seen' = [seen EXCEPT ![poll.j][t] =
                      [status |-> s, first |-> IF created THEN s ELSE @.first]]
                 /\ poll' = Poll(IF created THEN "count" ELSE "observe",
                                 poll.todo, poll.j, poll.route, left, t, s)
            ELSE poll' = NoPoll /\ UNCHANGED seen
  /\ UNCHANGED <<lvars, counts, next, purges>>

\* The day's counter, through the journey; "unknown" only marks the day.
Count ==
  /\ poll.at = "count"
  /\ counts' = IF Exists(poll.j) /\ poll.status \in Counted
                 THEN [counts EXCEPT ![poll.j[1]][poll.status] = @ + 1]
                 ELSE counts
  /\ poll' = Poll("observe", poll.todo, poll.j, poll.route, poll.answer, 0, "none")
  /\ UNCHANGED <<lvars, seen, next, purges>>

EndJourney ==
  /\ poll.at = "observe" /\ DOMAIN poll.answer = {}
  /\ poll' = IF poll.todo = {} THEN NoPoll ELSE PollOf("list", poll.todo)
  /\ UNCHANGED <<lvars, board, purges>>

\* Navitia or a statement fails: the poll ends where it is.
PollFails ==
  /\ poll.at # "idle" /\ faults < scenario.faults
  /\ poll' = NoPoll /\ faults' = faults + 1
  /\ UNCHANGED <<tables, req, boot, disturbed, edits, board, purges, scenario>>

PollStep == StartPoll \/ FetchDepartures \/ SaveNext \/ Observe \/ Count \/ EndJourney

-----------------------------------------------------------------------------
\* ON DELETE CASCADE: the journeys' rows and the day counters go with the liaison.
Delete(r) ==
  /\ DeleteLiaison(r)
  /\ LET i == req[r].id
     IN /\ seen' = [j \in Journey |-> IF j[1] = i THEN [t \in Train |-> Unseen] ELSE seen[j]]
        /\ next' = [j \in Journey |-> IF j[1] = i THEN NoNext ELSE next[j]]
        /\ counts' = [counts EXCEPT ![i] = [c \in Counted |-> 0]]
  /\ UNCHANGED <<poll, purges, scenario>>

\* clearStats, in one transaction: observations and counters, never the next train.
ClearStats ==
  /\ Up("api") /\ purges < scenario.purges
  /\ seen' = [j \in Journey |-> [t \in Train |-> Unseen]]
  /\ counts' = [i \in Id |-> [c \in Counted |-> 0]]
  /\ purges' = purges + 1
  /\ UNCHANGED <<lvars, next, poll>>

\* The poll is the worker's.
Restart(p) ==
  /\ Crash(p) /\ poll' = IF p = "worker" THEN NoPoll ELSE poll
  /\ UNCHANGED <<board, purges, scenario>>

Started(p) == BootStep(p) /\ UNCHANGED <<board, poll, purges, scenario>>
Requested == \E r \in Request : \/ RequestStep(r) /\ UNCHANGED <<board, poll, purges, scenario>>
                                \/ Delete(r)

Next ==
  \/ \E p \in Process : Started(p) \/ Restart(p)
  \/ Requested \/ PollStep \/ PollFails \/ ClearStats

Spec == Init /\ [][Next]_vars

\* systemd restarts each process, and the loop polls again after its interval.
FairSpec == Spec /\ (\A p \in Process : WF_vars(Started(p))) /\ WF_vars(PollStep)

-----------------------------------------------------------------------------
LiaisonTypeOK ==
  /\ rows \subseteq Id /\ isDefault \subseteq rows /\ rows \subseteq used /\ used \subseteq Id
  /\ stamp \in [Id -> Nat] /\ legs \in [Id -> [Direction -> Leg]]
  /\ seeded \in BOOLEAN /\ disturbed \in BOOLEAN /\ edits \in Nat /\ faults \in Nat
  /\ scenario \in Scenarios
  /\ boot \in [Process -> BootState] /\ req \in [Request -> ReqState]

\* Every table row and local variable has its type, and a default liaison exists.
TypeOK ==
  /\ LiaisonTypeOK
  /\ seen \in [Journey -> [Train -> Seen]] /\ counts \in [Id -> [Counted -> Nat]]
  /\ next \in [Journey -> NextTrain] /\ poll \in PollState /\ purges \in Nat

\* With one editor, once requests are answered and no process starts, exactly one
\* liaison is the default, through creations, deletions of the default, repairs, seeds
\* and crashes between two statements.  Not so when a start judged the default beside a
\* request that was changing it or beside the other start, or when one of them was cut
\* short: then there may be none or two, until the next start that judges alone
\* (setDefaultLiaison, deleteLiaison, ensureLiaisonDefaultColumn).
OneDefault ==
  AtRest => /\ rows # {}
            /\ disturbed \/ \E i \in rows : isDefault = {i}

\* A liaison without both legs, which no page lists and no request repairs, is
\* owed to a fault of its own (createLiaison, seed).
HalfLiaisons ==
  AtRest => Cardinality(rows \ Listed) <= faults

\* A start that began after an editor was served never writes over a leg, whatever the
\* other process and the requests do beside it: the defaults of the seed are forced only
\* until their flag is stored, and the API stores it before its first request (seed,
\* station_board_v1).  A worker that began before may: its first start, beside the
\* API's, can write over what an editor has stored since.
EditsSurviveRestart ==
  [][\A p \in Process : boot[p].late /\ boot'[p] # boot[p] =>
       \A j \in Journey : Exists(j) => legs'[j[1]][j[2]] = legs[j[1]][j[2]]]_vars

Rows(i, c) == {w \in Direction \X Train : seen[<<i, w[1]>>][w[2]].first = c}
Owed(i, c) == poll.at = "count" /\ poll.j[1] = i /\ poll.status = c

\* The counters of a liaison count each of its trains once, by the status it was
\* first seen with: a purge in the middle of the two statements of
\* upsertBoardTrainObservation adds one, a fault there loses one, nothing else
\* separates them, however often the train is polled again.
CountedOnce ==
  \A i \in rows, c \in Counted :
    /\ counts[i][c] <= Cardinality(Rows(i, c)) + purges
    /\ Cardinality(Rows(i, c)) <= counts[i][c] + faults + (IF Owed(i, c) THEN 1 ELSE 0)

\* A deleted liaison leaves nothing on the board, also when it is deleted in the
\* middle of the poll of its journeys (ON DELETE CASCADE, rejected INSERTs).
NothingLeftBehind ==
  \A i \in Id \ rows :
    /\ counts[i] = [c \in Counted |-> 0]
    /\ \A d \in Direction : next[<<i, d>>] = NoNext /\ seen[<<i, d>>] = [t \in Train |-> Unseen]

\* After the last edit of its stations an active leg comes to show a train of its
\* own route, or none, although a poll that started before the edit may still
\* write a train of the old one (saveNextFromNavitia).
BoardCatchesUp ==
  <>[](\A j \in Journey : (Active(j) /\ j[2] \in scenario.open) =>
         next[j] = NoNext \/ next[j].route = legs[j[1]][j[2]])
=============================================================================
