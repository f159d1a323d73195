--------------------------- MODULE LiaisonProofs ---------------------------
(***************************************************************************)
(* Whatever the liaisons, the requests that edit them together, the trains *)
(* and the faults: a deleted liaison leaves nothing on the board, a        *)
(* default is kept, a train is counted once, no later start of a process   *)
(* writes over an edit, and only a fault leaves half a liaison.            *)
(***************************************************************************)
EXTENDS LiaisonBoard, FiniteSetTheorems, WellFoundedInduction, TLAPS

\* A set of rows that is not empty has an oldest one.
LEMMA OldestIn ==
  ASSUME NEW S, S \subseteq Id, S # {}, stamp \in [Id -> Nat]
  PROVE  Oldest(S) \in S
<1> DEFINE T == {stamp[i] : i \in S}
           R == {ss \in Nat \X Nat : ss[1] < ss[2]}
<1>1. IsWellFoundedOn(R, Nat)
  BY NatLessThanWellFounded DEF OpToRel
<1>2. T \subseteq Nat /\ T # {}
  OBVIOUS
<1> HIDE DEF T
<1>3. PICK x \in T : \A y \in T : ~(<<y, x>> \in R)
  BY <1>1, <1>2, WFMin
<1>4. ASSUME NEW y \in T
      PROVE  x <= y
  <2>1. x \in Nat /\ y \in Nat /\ ~(<<y, x>> \in R)
    BY <1>2, <1>3
  <2>2. (y < x) => <<y, x>> \in R
    BY <2>1
  <2>3. QED
    BY <2>1, <2>2
<1>5. PICK i \in S : stamp[i] = x
  BY <1>3 DEF T
<1>6. \A j \in S : stamp[i] <= stamp[j]
  BY <1>4, <1>5 DEF T
<1>7. QED
  BY <1>6 DEF Oldest

-----------------------------------------------------------------------------
(* The invariant: a liaison that is not in the table has neither legs nor  *)
(* board, whatever two processes start beside the requests and the poll.   *)

Bare == [d \in Direction |-> "none"]
Clean(i) == /\ counts[i] = [c \in Counted |-> 0]
            /\ \A d \in Direction : next[<<i, d>>] = NoNext
                                    /\ seen[<<i, d>>] = [t \in Train |-> Unseen]

TablesOK ==
  /\ rows \subseteq Id /\ stamp \in [Id -> Nat]
  /\ DOMAIN legs = Id /\ DOMAIN counts = Id /\ DOMAIN next = Journey /\ DOMAIN seen = Journey
PollOK == poll.j \in Journey /\ poll.todo \subseteq Journey \X Route
BareInv == \A i \in Id \ rows : legs[i] = Bare /\ Clean(i)

LeftInv == TablesOK /\ PollOK /\ BareInv

LEMMA LeftInit == Init => LeftInv
<1> SUFFICES ASSUME Init
             PROVE  LeftInv
  OBVIOUS
<1>1. NoId \in Id
  BY IdAssumption DEF NoId
<1>2. /\ rows = {} /\ stamp = [i \in Id |-> 0] /\ legs = [i \in Id |-> Bare]
      /\ seen = [j \in Journey |-> [t \in Train |-> Unseen]]
      /\ counts = [i \in Id |-> [c \in Counted |-> 0]] /\ next = [j \in Journey |-> NoNext]
  BY DEF Init, LiaisonInit, Bare
<1>5. TablesOK
  BY <1>2 DEF TablesOK
<1>6. BareInv
  <2>1. ASSUME NEW i \in Id
        PROVE  Clean(i)
    <3>1. \A d \in Direction : <<i, d>> \in Journey
      BY DEF Journey
    <3>2. QED
      BY <1>2, <3>1 DEF Clean
  <2>2. \A i \in Id : legs[i] = Bare
    BY <1>2
  <2>3. QED
    BY <2>1, <2>2 DEF BareInv
<1>4. PollOK
  BY <1>1 DEF Init, NoPoll, PollOf, Poll, PollOK, Journey, Direction
<1>7. QED
  BY <1>4, <1>5, <1>6 DEF LeftInv

\* Steps that leave the board alone and take no liaison away.
LEMMA BoardKept ==
  ASSUME BareInv, rows \subseteq rows', \A i \in Id \ rows : legs'[i] = legs[i],
         UNCHANGED board
  PROVE  BareInv'
  BY DEF BareInv, Clean, board

LEMMA TouchNat ==
  ASSUME stamp \in [Id -> Nat], NEW i \in Id, Touch(i)
  PROVE  stamp' \in [Id -> Nat]
<1>1. ASSUME NEW j \in Id
      PROVE  (IF j = i THEN Cardinality(Id)
              ELSE IF stamp[j] > stamp[i] THEN stamp[j] - 1 ELSE stamp[j]) \in Nat
  <2>1. stamp[i] \in Nat /\ stamp[j] \in Nat /\ Cardinality(Id) \in Nat
    BY IdAssumption, FS_CardinalityType
  <2>2. QED
    BY <2>1
<1>2. QED
  BY <1>1 DEF Touch

LEMMA Touched ==
  ASSUME TablesOK, NEW i \in Id, Touch(i)
  PROVE  stamp' \in [Id -> Nat]
  BY TouchNat DEF TablesOK

LEMMA LegWritten ==
  ASSUME TablesOK, NEW i \in rows, NEW d, NEW leg, WriteLeg(i, d, leg)
  PROVE  DOMAIN legs' = Id /\ \A k \in Id \ rows : legs'[k] = legs[k]
  BY DEF TablesOK, WriteLeg

LEMMA PollKept == PollOK /\ UNCHANGED poll => PollOK'
  BY DEF PollOK

-----------------------------------------------------------------------------
LEMMA StartOfProcess ==
  ASSUME LeftInv, NEW p \in Process, Started(p)
  PROVE  LeftInv'
<1>1. TablesOK /\ PollOK /\ BareInv /\ UNCHANGED <<board, poll>> /\ BootStep(p)
  BY DEF LeftInv, Started
<1> DEFINE Keeps ==
             /\ rows \subseteq rows' /\ rows' \subseteq Id /\ stamp' \in [Id -> Nat]
             /\ DOMAIN legs' = Id /\ \A i \in Id \ rows : legs'[i] = legs[i]
<1>2. ASSUME UNCHANGED <<rows, stamp, legs>>
      PROVE  Keeps
  BY <1>1, <1>2 DEF TablesOK
<1>3. Keeps
  <2>1. CASE CountDefaults(p) \/ ReadFlag(p) \/ CountLiaisons(p) \/ SeedOldest(p)
    BY <1>2, <2>1 DEF CountDefaults, ReadFlag, CountLiaisons, SeedOldest, tables
  <2>2. CASE RepairDefault(p) \/ StoreFlag(p)
    BY <1>2, <2>2 DEF RepairDefault, StoreFlag
  <2>3. CASE SeedInsert(p)
    <3>1. PICK i \in Id \ used : rows' = rows \cup {i} /\ Touch(i)
      BY <2>3 DEF SeedInsert
    <3>2. stamp' \in [Id -> Nat]
      BY <1>1, <3>1, Touched
    <3>3. UNCHANGED legs
      BY <2>3 DEF SeedInsert
    <3>4. QED
      BY <1>1, <3>1, <3>2, <3>3 DEF TablesOK
  <2>4. CASE SeedName(p)
    <3>1. UNCHANGED <<rows, legs>>
      BY <2>4 DEF SeedName
    <3>2. CASE boot[p].id \in rows
      <4>1. Touch(boot[p].id) /\ boot[p].id \in Id
        BY <1>1, <2>4, <3>2 DEF SeedName, TablesOK
      <4>2. QED
        BY <1>1, <3>1, <4>1, Touched DEF TablesOK
    <3>3. CASE boot[p].id \notin rows
      BY <1>2, <2>4, <3>1, <3>3 DEF SeedName, NoTouch
    <3>4. QED
      BY <3>2, <3>3
  <2>5. ASSUME NEW d \in Direction, SeedLeg(p, d)
        PROVE  Keeps
    <3>1. UNCHANGED <<rows, stamp>>
      BY <2>5 DEF SeedLeg
    <3>2. UNCHANGED legs \/ (boot[p].id \in rows /\ WriteLeg(boot[p].id, d, SeedRoute))
      BY <2>5 DEF SeedLeg
    <3>3. DOMAIN legs' = Id /\ \A i \in Id \ rows : legs'[i] = legs[i]
      BY <1>1, <3>2, LegWritten DEF TablesOK
    <3>4. QED
      BY <1>1, <3>1, <3>3 DEF TablesOK
  <2>6. QED
    BY <1>1, <2>1, <2>2, <2>3, <2>4, <2>5 DEF BootStep
<1>4. BareInv'
  BY <1>1, <1>3, BoardKept
<1>5. TablesOK'
  BY <1>1, <1>3 DEF TablesOK, board
<1>6. QED
  BY <1>1, <1>4, <1>5, PollKept DEF LeftInv

-----------------------------------------------------------------------------
LEMMA RequestRuns ==
  ASSUME LeftInv, NEW r \in Request, RequestStep(r), UNCHANGED <<board, poll, purges>>
  PROVE  LeftInv'
<1>1. TablesOK /\ PollOK /\ BareInv
  BY DEF LeftInv
<1> DEFINE Keeps ==
             /\ rows \subseteq rows' /\ rows' \subseteq Id /\ stamp' \in [Id -> Nat]
             /\ DOMAIN legs' = Id /\ \A i \in Id \ rows : legs'[i] = legs[i]
<1>3. ASSUME UNCHANGED <<rows, stamp, legs>>
      PROVE  Keeps
  BY <1>1, <1>3 DEF TablesOK
<1>4. ASSUME NEW at, NEW d, NEW leg, NEW to, InsertLeg(r, at, d, leg, to)
      PROVE  Keeps
  <2>1. UNCHANGED <<rows, stamp>>
    BY <1>4 DEF InsertLeg
  <2>2. CASE req[r].id \in rows
    <3>1. WriteLeg(req[r].id, d, leg)
      BY <1>4, <2>2 DEF InsertLeg
    <3>2. DOMAIN legs' = Id /\ \A i \in Id \ rows : legs'[i] = legs[i]
      BY <1>1, <2>2, <3>1, LegWritten
    <3>3. QED
      BY <1>1, <2>1, <3>2 DEF TablesOK
  <2>3. CASE req[r].id \notin rows
    <3>1. UNCHANGED legs
      BY <1>4, <2>3 DEF InsertLeg
    <3>2. QED
      BY <2>1, <3>1, <1>3
  <2>4. QED
    BY <2>2, <2>3
<1>5. Keeps
  <2>1. CASE StartCreate(r) \/ StartSetDefault(r) \/ StartEdit(r) \/ StartEditFirst(r) \/ StartDelete(r)
    <3>1. UNCHANGED tables
      BY <2>1 DEF StartCreate, StartSetDefault, StartEdit, StartEditFirst, StartDelete
    <3>2. QED
      BY <3>1, <1>3 DEF tables
  <2>2. CASE GetCurrent(r) \/ ReadDefault(r) \/ RequestFails(r)
    <3>1. UNCHANGED tables
      BY <2>2 DEF GetCurrent, ReadDefault, RequestFails
    <3>2. QED
      BY <3>1, <1>3 DEF tables
  <2>3. CASE ClearDefault(r) \/ PromoteOldest(r)
    <3>1. UNCHANGED <<rows, stamp, legs>>
      BY <2>3 DEF ClearDefault, PromoteOldest
    <3>2. QED
      BY <3>1, <1>3
  <2>4. CASE SetDefault(r) \/ StoreName(r)
    <3>1. UNCHANGED <<rows, legs>> /\ (Touch(req[r].id) \/ NoTouch)
          /\ (Touch(req[r].id) \/ UNCHANGED stamp)
          /\ (req[r].id \in rows \/ UNCHANGED stamp)
      BY <2>4 DEF SetDefault, StoreName, NoTouch
    <3>2. stamp' \in [Id -> Nat]
      BY <1>1, <3>1, Touched DEF TablesOK
    <3>3. QED
      BY <1>1, <3>1, <3>2 DEF TablesOK
  <2>5. CASE InsertLiaison(r)
    <3>1. PICK i \in Id \ used : rows' = rows \cup {i} /\ Touch(i)
      BY <2>5 DEF InsertLiaison
    <3>2. stamp' \in [Id -> Nat]
      BY <1>1, <3>1, Touched
    <3>3. UNCHANGED legs
      BY <2>5 DEF InsertLiaison
    <3>4. QED
      BY <1>1, <3>1, <3>2, <3>3 DEF TablesOK
  <2>6. CASE Creating(r)
    <3>1. \E at, d, leg, to : InsertLeg(r, at, d, leg, to)
      BY <2>6 DEF Creating
    <3>2. QED
      BY <3>1, <1>4
  <2>7. CASE Editing(r)
    <3>1. \E at, d, leg, to : InsertLeg(r, at, d, leg, to)
      BY <2>7 DEF Editing
    <3>2. QED
      BY <3>1, <1>4
  <2>8. QED
    BY <2>1, <2>2, <2>3, <2>4, <2>5, <2>6, <2>7 DEF RequestStep
<1>6. BareInv'
  BY <1>1, <1>5, BoardKept
<1>7. TablesOK'
  BY <1>1, <1>5 DEF TablesOK, board
<1>8. QED
  BY <1>1, <1>6, <1>7, PollKept DEF LeftInv

\* The rows of the board go with their liaison.
LEMMA LiaisonGoes ==
  ASSUME LeftInv, NEW r \in Request, Delete(r)
  PROVE  LeftInv'
<1>1. TablesOK /\ PollOK /\ BareInv
  BY DEF LeftInv
<1> DEFINE i == req[r].id
<1>2. /\ UNCHANGED <<poll, stamp>>
      /\ rows' = rows \ {i} /\ legs' = [legs EXCEPT ![i] = Bare]
      /\ seen' = [j \in Journey |-> IF j[1] = i THEN [t \in Train |-> Unseen] ELSE seen[j]]
      /\ next' = [j \in Journey |-> IF j[1] = i THEN NoNext ELSE next[j]]
      /\ counts' = [counts EXCEPT ![i] = [c \in Counted |-> 0]]
  BY DEF Delete, DeleteLiaison, others, Bare
<1> HIDE DEF i
<1>4. TablesOK'
  BY <1>1, <1>2 DEF TablesOK
<1>5. ASSUME NEW k \in Id, k \notin rows'
      PROVE  legs'[k] = Bare /\ Clean(k)'
  <2>1. \A d \in Direction : <<k, d>> \in Journey /\ <<k, d>>[1] = k
    BY DEF Journey
  <2>2. CASE k = i
    BY <1>1, <1>2, <2>1, <2>2 DEF Clean, TablesOK
  <2>3. CASE k # i
    <3>1. legs[k] = Bare /\ Clean(k)
      BY <1>1, <1>2, <1>5, <2>3 DEF BareInv
    <3>2. legs'[k] = legs[k] /\ counts'[k] = counts[k]
      BY <1>1, <1>2, <2>3 DEF TablesOK
    <3>3. \A d \in Direction : next'[<<k, d>>] = next[<<k, d>>] /\ seen'[<<k, d>>] = seen[<<k, d>>]
      BY <1>2, <2>1, <2>3
    <3>4. QED
      BY <3>1, <3>2, <3>3 DEF Clean
  <2>4. QED
    BY <2>2, <2>3
<1>6. BareInv'
  BY <1>5 DEF BareInv
<1>7. PollOK'
  BY <1>1, <1>2 DEF PollOK
<1>8. QED
  BY <1>4, <1>6, <1>7 DEF LeftInv

-----------------------------------------------------------------------------
\* The foreign keys: a journey that exists is one of a liaison that does.
LEMMA ForeignKey ==
  ASSUME BareInv, PollOK, Exists(poll.j)
  PROVE  poll.j[1] \in rows /\ \A k \in Id \ rows, d \in Direction : <<k, d>> # poll.j
<1>1. poll.j[1] \in Id /\ poll.j[2] \in Direction
  BY DEF PollOK, Journey
<1>2. poll.j[1] \in rows
  <2>1. CASE poll.j[1] \notin rows
    BY <1>1, <2>1 DEF BareInv, Bare, Exists
  <2>2. QED
    BY <2>1
<1>3. QED
  BY <1>2

LEMMA PollFields ==
  ASSUME NEW at, NEW todo, NEW j, NEW route, NEW answer, NEW train, NEW status
  PROVE  /\ Poll(at, todo, j, route, answer, train, status).j = j
         /\ Poll(at, todo, j, route, answer, train, status).todo = todo
  BY DEF Poll

LEMMA Polling == LeftInv /\ (PollStep \/ PollFails) => PollOK'
<1> SUFFICES ASSUME PollOK, PollStep \/ PollFails
             PROVE  PollOK'
  BY DEF LeftInv
<1>1. <<NoId, "outbound">> \in Journey
  BY IdAssumption DEF NoId, Journey, Direction
<1>2. ASSUME NEW at, NEW todo \in SUBSET (Journey \X Route), poll' = PollOf(at, todo)
      PROVE  PollOK'
  <2>1. poll'.j = <<NoId, "outbound">> /\ poll'.todo = todo
    BY <1>2, PollFields DEF PollOf
  <2>2. QED
    BY <1>1, <2>1 DEF PollOK
<1>3. CASE poll' = NoPoll
  BY <1>2, <1>3 DEF NoPoll
<1>4. ASSUME NEW at, NEW answer, NEW train, NEW status,
             poll' = Poll(at, poll.todo, poll.j, poll.route, answer, train, status)
      PROVE  PollOK'
  BY <1>4, PollFields DEF PollOK
<1>5. CASE StartPoll
  <2> DEFINE open == {<<j, legs[j[1]][j[2]]>> : j \in {k \in Journey : k[2] \in scenario.open /\ Active(k)}}
  <2>1. poll' = PollOf("list", open)
    BY <1>5 DEF StartPoll
  <2>2. open \subseteq Journey \X Route
    BY DEF Active
  <2>3. QED
    BY <1>2, <2>1, <2>2
<1>6. CASE FetchDepartures
  <2>1. PICK w \in poll.todo, a \in Answer :
          poll' = Poll("next", poll.todo \ {w}, w[1], w[2], a, 0, "none")
    BY <1>6 DEF FetchDepartures
  <2>2. w[1] \in Journey
    BY <2>1 DEF PollOK
  <2>3. poll'.j = w[1] /\ poll'.todo = poll.todo \ {w}
    BY <2>1, PollFields
  <2>4. QED
    BY <2>2, <2>3 DEF PollOK
<1>7. CASE SaveNext
  BY <1>3, <1>4, <1>7 DEF SaveNext, At
<1>8. CASE Observe
  <2>1. \/ poll' = NoPoll
        \/ \E at, answer, train, status :
             poll' = Poll(at, poll.todo, poll.j, poll.route, answer, train, status)
    BY <1>8 DEF Observe
  <2>2. QED
    BY <2>1, <1>3, <1>4
<1>9. CASE Count
  BY <1>4, <1>9 DEF Count
<1>10. CASE EndJourney
  <2>1. CASE poll.todo = {}
    BY <1>3, <1>10, <2>1 DEF EndJourney
  <2>2. CASE poll.todo # {}
    BY <1>2, <1>10, <2>2 DEF EndJourney, PollOK
  <2>3. QED
    BY <2>1, <2>2
<1>11. CASE PollFails
  BY <1>3, <1>11 DEF PollFails
<1>12. QED
  BY <1>5, <1>6, <1>7, <1>8, <1>9, <1>10, <1>11 DEF PollStep

LEMMA PollWrites ==
  ASSUME LeftInv, PollStep \/ PollFails
  PROVE  LeftInv'
<1>1. TablesOK /\ PollOK /\ BareInv
  BY DEF LeftInv
<1>2. PollOK'
  BY Polling
<1>3. UNCHANGED <<rows, stamp, legs>>
  BY DEF PollStep, PollFails, StartPoll, FetchDepartures, SaveNext, Observe, Count, EndJourney,
         lvars, tables
<1> DEFINE Kept == /\ DOMAIN counts' = Id /\ DOMAIN next' = Journey /\ DOMAIN seen' = Journey
                   /\ \A k \in Id \ rows : Clean(k)'
<1>5. ASSUME UNCHANGED board
      PROVE  Kept
  BY <1>1, <1>5 DEF board, TablesOK, BareInv, Clean
<1>6. ASSUME NEW row, UNCHANGED <<seen, counts>>,
             next' = [next EXCEPT ![poll.j] = row], row = NoNext \/ Exists(poll.j)
      PROVE  Kept
  <2>1. DOMAIN next' = Journey
    BY <1>1, <1>6 DEF TablesOK
  <2>2. ASSUME NEW k \in Id \ rows, NEW d \in Direction
        PROVE  next'[<<k, d>>] = NoNext
    <3>1. <<k, d>> \in Journey /\ next[<<k, d>>] = NoNext
      BY <1>1 DEF Journey, BareInv, Clean
    <3>2. CASE row = NoNext
      BY <1>1, <1>6, <3>1, <3>2 DEF TablesOK
    <3>3. CASE Exists(poll.j)
      <4>1. <<k, d>> # poll.j
        BY <1>1, <3>3, ForeignKey
      <4>2. QED
        BY <1>1, <1>6, <3>1, <4>1 DEF TablesOK
    <3>4. QED
      BY <1>6, <3>2, <3>3
  <2>3. QED
    BY <1>1, <1>6, <2>1, <2>2 DEF TablesOK, BareInv, Clean
<1>7. ASSUME NEW row, UNCHANGED <<next, counts>>, Exists(poll.j),
             seen' = [seen EXCEPT ![poll.j] = row]
      PROVE  Kept
  <2>1. DOMAIN seen' = Journey
    BY <1>1, <1>7 DEF TablesOK
  <2>2. ASSUME NEW k \in Id \ rows, NEW d \in Direction
        PROVE  seen'[<<k, d>>] = seen[<<k, d>>]
    <3>1. <<k, d>> \in Journey /\ <<k, d>> # poll.j
      BY <1>1, <1>7, ForeignKey DEF Journey
    <3>2. QED
      BY <1>1, <1>7, <3>1 DEF TablesOK
  <2>3. QED
    BY <1>1, <1>7, <2>1, <2>2 DEF TablesOK, BareInv, Clean
<1>8. ASSUME NEW row, UNCHANGED <<next, seen>>, Exists(poll.j),
             counts' = [counts EXCEPT ![poll.j[1]] = row]
      PROVE  Kept
  <2>1. poll.j[1] \in rows
    BY <1>1, <1>8, ForeignKey
  <2>2. DOMAIN counts' = Id /\ \A k \in Id \ rows : counts'[k] = counts[k]
    BY <1>1, <1>8, <2>1 DEF TablesOK
  <2>3. QED
    BY <1>1, <1>8, <2>2 DEF TablesOK, BareInv, Clean
<1>9. Kept
  <2>1. CASE StartPoll \/ FetchDepartures \/ EndJourney \/ PollFails
    <3>1. UNCHANGED board
      BY <2>1 DEF StartPoll, FetchDepartures, EndJourney, PollFails
    <3>2. QED
      BY <3>1, <1>5
  <2>2. CASE SaveNext
    <3>1. UNCHANGED <<seen, counts>> /\
          (\/ UNCHANGED next
           \/ \E row : next' = [next EXCEPT ![poll.j] = row] /\ (row = NoNext \/ Exists(poll.j)))
      BY <2>2 DEF SaveNext
    <3>2. QED
      BY <3>1, <1>5, <1>6 DEF board
  <2>3. CASE Observe
    <3>1. UNCHANGED <<next, counts>> /\
          (\/ UNCHANGED seen
           \/ Exists(poll.j) /\ \E row : seen' = [seen EXCEPT ![poll.j] = row])
      BY <2>3 DEF Observe
    <3>2. QED
      BY <3>1, <1>5, <1>7 DEF board
  <2>4. CASE Count
    <3>1. UNCHANGED <<next, seen>> /\
          (\/ UNCHANGED counts
           \/ Exists(poll.j) /\ \E row : counts' = [counts EXCEPT ![poll.j[1]] = row])
      BY <2>4 DEF Count
    <3>2. QED
      BY <3>1, <1>5, <1>8 DEF board
  <2>5. QED
    BY <2>1, <2>2, <2>3, <2>4 DEF PollStep
<1>10. TablesOK' /\ BareInv'
  BY <1>1, <1>3, <1>9 DEF TablesOK, BareInv
<1>11. QED
  BY <1>2, <1>10 DEF LeftInv

LEMMA Purged == LeftInv /\ ClearStats => LeftInv'
<1> SUFFICES ASSUME LeftInv, ClearStats
             PROVE  LeftInv'
  OBVIOUS
<1>1. TablesOK /\ PollOK /\ BareInv
  BY DEF LeftInv
<1>2. /\ UNCHANGED <<rows, stamp, legs, next, poll>>
      /\ seen' = [j \in Journey |-> [t \in Train |-> Unseen]]
      /\ counts' = [i \in Id |-> [c \in Counted |-> 0]]
  BY DEF ClearStats, lvars, tables
<1>3. TablesOK' /\ PollOK'
  BY <1>1, <1>2 DEF TablesOK, PollOK
<1>4. ASSUME NEW k \in Id, k \notin rows
      PROVE  legs'[k] = Bare /\ Clean(k)'
  <2>1. \A d \in Direction : <<k, d>> \in Journey
    BY DEF Journey
  <2>2. QED
    BY <1>1, <1>2, <1>4, <2>1 DEF BareInv, Clean
<1>5. BareInv'
  BY <1>2, <1>4 DEF BareInv
<1>6. QED
  BY <1>3, <1>5 DEF LeftInv

LEMMA Restarted ==
  ASSUME LeftInv, NEW p \in Process, Restart(p)
  PROVE  LeftInv'
<1>1. UNCHANGED <<tables, board>> /\ (poll' = NoPoll \/ poll' = poll)
  BY DEF Restart, Crash
<1>2. TablesOK' /\ BareInv'
  BY <1>1 DEF LeftInv, TablesOK, BareInv, Clean, tables, board
<1>3. CASE poll' = NoPoll
  <2>1. poll'.j = <<NoId, "outbound">> /\ poll'.todo = {}
    BY <1>3, PollFields DEF NoPoll, PollOf
  <2>2. PollOK'
    BY <2>1, IdAssumption DEF PollOK, Journey, Direction, NoId
  <2>3. QED
    BY <1>2, <2>2 DEF LeftInv
<1>4. CASE poll' = poll
  BY <1>2, <1>4, PollKept DEF LeftInv
<1>5. QED
  BY <1>1, <1>3, <1>4

LEMMA LeftNext == LeftInv /\ [Next]_vars => LeftInv'
<1> SUFFICES ASSUME LeftInv, [Next]_vars
             PROVE  LeftInv'
  OBVIOUS
<1>1. CASE \E p \in Process : Started(p)
  BY <1>1, StartOfProcess
<1>2. CASE Requested
  BY <1>2, RequestRuns, LiaisonGoes DEF Requested
<1>3. CASE PollStep \/ PollFails
  BY <1>3, PollWrites
<1>4. CASE ClearStats
  BY <1>4, Purged
<1>5. CASE \E p \in Process : Restart(p)
  BY <1>5, Restarted
<1>6. CASE UNCHANGED vars
  BY <1>6 DEF vars, lvars, tables, others, board, LeftInv, TablesOK, PollOK, BareInv, Clean
<1>7. QED
  BY <1>1, <1>2, <1>3, <1>4, <1>5, <1>6 DEF Next

(***************************************************************************)
(* However many editors, polls, purges, crashes and failed statements: a   *)
(* liaison that was deleted has no counter, no train and no next train.    *)
(***************************************************************************)
THEOREM NothingStays == Spec => []NothingLeftBehind
<1>1. LeftInv => NothingLeftBehind
  BY DEF LeftInv, BareInv, Clean, NothingLeftBehind
<1>2. QED
  BY <1>1, LeftInit, LeftNext, PTL DEF Spec

-----------------------------------------------------------------------------
(* One editor: at rest there is one default, unless two writers of it met  *)
(* or one was cut short since the last start that judged alone.            *)

LEMMA ReqFields ==
  ASSUME NEW at, NEW i, NEW flag, NEW o, NEW n
  PROVE  /\ Req(at, i, flag, o, n).at = at /\ Req(at, i, flag, o, n).id = i
         /\ Req(at, i, flag, o, n).outbound = o /\ Req(at, i, flag, o, n).inbound = n
  BY DEF Req

LEMMA BootFields ==
  ASSUME NEW at, NEW many, NEW force, NEW i, NEW late
  PROVE  /\ Boot(at, many, force, i, late).at = at /\ Boot(at, many, force, i, late).many = many
         /\ Boot(at, many, force, i, late).id = i
  BY DEF Boot

\* A start moves its own process only.
OwnBoot(p) == DOMAIN boot' = Process /\ \A q \in Process \ {p} : boot'[q] = boot[q]

LEMMA BootPut ==
  ASSUME DOMAIN boot = Process, NEW p \in Process, NEW b, PutBoot(p, b)
  PROVE  OwnBoot(p) /\ boot'[p] = b
  BY DEF PutBoot, OwnBoot

LEMMA BootGoes ==
  ASSUME DOMAIN boot = Process, NEW p \in Process, NEW at, GotoBoot(p, at)
  PROVE  OwnBoot(p) /\ boot'[p].at = at /\ boot'[p].id = boot[p].id
<1> DEFINE b == Boot(at, "none", boot[p].force, boot[p].id, boot[p].late)
<1>1. PutBoot(p, b)
  BY DEF GotoBoot
<1>2. b.at = at /\ b.id = boot[p].id
  BY BootFields
<1> HIDE DEF b
<1>3. OwnBoot(p) /\ boot'[p] = b
  BY <1>1, BootPut
<1>4. QED
  BY <1>2, <1>3

LEMMA StillFields == Down.at = "down" /\ Running.at = "up"
  BY DEF Down, Running, Boot

\* A table with two rows or more keeps one.
LEMMA OneLeft ==
  ASSUME rows \subseteq Id, Cardinality(rows) > 1, NEW i
  PROVE  rows \ {i} # {}
<1>1. IsFiniteSet(rows)
  BY IdAssumption, FS_Subset
<1>2. CASE rows = {}
  BY <1>2, FS_EmptySet
<1>3. CASE rows = {i}
  BY <1>3, FS_Singleton
<1>4. QED
  BY <1>2, <1>3

Single == \E i \in rows : isDefault = {i}
\* What a start counted is still so.
CountHolds(p) ==
  /\ boot[p].many \in {"none", "one", "many"}
  /\ boot[p].many = "none" <=> isDefault = {}
  /\ boot[p].many = "one" <=> Single
\* Where no liaison of the table may be the default: between the two statements of a
\* request, and after a crash there until the API starts again.
Between(r) == isDefault = {} /\ (boot["api"].at = "down" \/ req[r].at \in {"set", "promote"})
\* Nobody met since a start that judged alone: the one that judges knows the table,
\* what the request at hand has read still holds, and otherwise there is one default.
Judges == \E p \in Process : Judging(p)
Alone(r) ==
  /\ \A p \in Process : Judging(p) => ~Changing(r) /\ \A q \in Process \ {p} : ~Judging(q)
  /\ \A p \in Process : boot[p].at = "repair" => CountHolds(p)
  /\ \A p \in Process : boot[p].at = "insert" => rows = {}
  /\ Judges \/ rows = {} \/ Single \/ Between(r)
  /\ req[r].at \in {"set", "promote"} => isDefault = {}
  /\ req[r].at = "delete" => (req[r].flag <=> req[r].id \in isDefault)

Seeding == {"oldest", "rename", "outbound", "inbound", "done", "up"}
DefaultTables ==
  /\ isDefault \subseteq rows /\ rows \subseteq used /\ used \subseteq Id /\ stamp \in [Id -> Nat]
  /\ DOMAIN req = Request /\ DOMAIN boot = Process
\* A process past its seed has seen a liaison, and one editor never takes the last.
DefaultRows(r) ==
  /\ ~Up("api") => req[r].at = "idle"
  /\ \A p \in Process : boot[p].at \in Seeding => rows # {}
  /\ req[r].at = "insert" => ~req[r].flag
  /\ req[r].at \in {"clear", "set"} => req[r].id \in rows
  /\ req[r].at \in {"read", "delete"} => \A i : rows \ {i} # {}
DefaultInv(r) == DefaultTables /\ DefaultRows(r) /\ (disturbed \/ Alone(r))

LEMMA DefaultInit ==
  ASSUME NEW r, Request = {r}, Init
  PROVE  DefaultInv(r)
<1>1. DOMAIN req = Request /\ DOMAIN boot = Process /\ req[r].at = "idle"
      /\ \A p \in Process : boot[p].at = "down"
  BY StillFields DEF Init, LiaisonInit, Idle, Req
<1>2. /\ rows = {} /\ isDefault = {} /\ used = {} /\ stamp = [i \in Id |-> 0]
  BY DEF Init, LiaisonInit
<1>3. DefaultTables
  BY <1>1, <1>2 DEF DefaultTables
<1>4. DefaultRows(r)
  BY <1>1 DEF DefaultRows, Seeding
<1>5. Alone(r)
  BY <1>1, <1>2 DEF Alone, Judging
<1>6. QED
  BY <1>3, <1>4, <1>5 DEF DefaultInv

\* The editor's requests are served by an API that is up, on a table with rows.
LEMMA EditorUp ==
  ASSUME NEW r, DefaultRows(r), Up("api") \/ req[r].at # "idle"
  PROVE  Up("api") /\ rows # {}
  BY DEF DefaultRows, Up, Seeding, Process

LEMMA StartOfBoot ==
  ASSUME NEW p \in Process, BootStep(p)
  PROVE  boot[p].at # "up" /\ UNCHANGED <<req, edits, faults>>
  BY DEF BootStep, CountDefaults, RepairDefault, ReadFlag, CountLiaisons, SeedInsert, SeedOldest,
         SeedName, SeedLeg, StoreFlag, Direction

\* Steps of a start that neither judge nor write a default.
LEMMA PassesBy ==
  ASSUME NEW r, NEW p \in Process, DefaultInv(r), OwnBoot(p),
         boot[p].at \notin {"down", "repair", "insert", "up"}, boot'[p].at \notin {"repair", "insert"},
         boot'[p].at \in Seeding => rows # {},
         UNCHANGED <<rows, isDefault, used, req, disturbed>>, stamp' \in [Id -> Nat]
  PROVE  DefaultInv(r)'
<1>1. DefaultTables'
  BY DEF DefaultInv, DefaultTables, OwnBoot
<1>2. DefaultRows(r)'
  BY DEF DefaultInv, DefaultRows, OwnBoot, Up, Process
<1>3. ASSUME Alone(r)
      PROVE  Alone(r)'
  <2>1. \A q \in Process : Judging(q)' <=> Judging(q)
    BY DEF OwnBoot, Judging
  <2>2. Changing(r)' <=> Changing(r)
    BY DEF Changing
  <2>3. \A q \in Process : boot'[q].at \in {"repair", "insert"} => boot'[q] = boot[q]
    BY DEF OwnBoot
  <2>4. Single' <=> Single
    BY DEF Single
  <2>5. Between(r) => Between(r)'
    BY DEF Between, OwnBoot, Process
  <2>6. \A q \in Process : boot'[q].at = "repair" => CountHolds(q)'
    BY <1>3, <2>3, <2>4 DEF Alone, CountHolds
  <2>7. \A q \in Process : boot'[q].at = "insert" => rows' = {}
    BY <1>3, <2>3 DEF Alone
  <2>8. (Judges \/ rows = {} \/ Single \/ Between(r))'
    BY <1>3, <2>1, <2>4, <2>5 DEF Alone, Judges
  <2>9. \A q \in Process : Judging(q)' => ~Changing(r)' /\ \A o \in Process \ {q} : ~Judging(o)'
    BY <1>3, <2>1, <2>2 DEF Alone
  <2>10. QED
    BY <1>3, <2>6, <2>7, <2>8, <2>9 DEF Alone
<1>4. QED
  BY <1>1, <1>2, <1>3 DEF DefaultInv

\* A start that counts: what it counted, and whom it met.
LEMMA CountsTheDefaults ==
  ASSUME NEW r, Request = {r}, NEW p \in Process, DefaultInv(r), CountDefaults(p)
  PROVE  DefaultInv(r)'
<1> DEFINE many == IF isDefault = {} THEN "none"
                   ELSE IF \E i \in isDefault : isDefault = {i} THEN "one" ELSE "many"
           b == Boot("repair", many, FALSE, NoId, edits > 0)
<1>1. PutBoot(p, b) /\ boot[p].at = "down"
  BY DEF CountDefaults
<1>2. UNCHANGED <<rows, isDefault, used, stamp, req>> /\ disturbed' = MeetsAtStart(p)
  BY DEF CountDefaults, tables
<1>3. OwnBoot(p) /\ boot'[p].at = "repair" /\ boot'[p].many = many
  <2>1. b.at = "repair" /\ b.many = many
    BY DEF Boot
  <2> HIDE DEF b, many
  <2>2. QED
    BY <1>1, <2>1, BootPut DEF DefaultInv, DefaultTables
<1>4. /\ boot'[p].many \in {"none", "one", "many"}
      /\ (boot'[p].many = "none" <=> isDefault = {}) /\ (boot'[p].many = "one" <=> Single)
  BY <1>3 DEF Single, DefaultInv, DefaultTables
<1> HIDE DEF many
<1>5. DefaultTables'
  BY <1>2, <1>3 DEF DefaultInv, DefaultTables, OwnBoot
<1>6. DefaultRows(r)'
  BY <1>1, <1>2, <1>3 DEF DefaultInv, DefaultRows, OwnBoot, Up, Seeding, Process
<1>7. ASSUME ~MeetsAtStart(p)
      PROVE  Alone(r)'
  <2>1. ~Changing(r) /\ \A q \in Process \ {p} : ~Judging(q)
    BY <1>7 DEF MeetsAtStart
  <2>2. ~Changing(r)' /\ \A q \in Process \ {p} : ~Judging(q)' /\ boot'[q].at \notin {"repair", "insert"}
    BY <1>2, <1>3, <2>1 DEF Changing, Judging, OwnBoot
  <2>3. Judges'
    BY <1>3 DEF Judges, Judging
  <2>4. CountHolds(p)'
    BY <1>2, <1>4 DEF CountHolds, Single
  <2>5. req'[r].at \notin {"set", "delete", "promote"}
    BY <2>2 DEF Changing
  <2>6. QED
    BY <1>3, <2>2, <2>3, <2>4, <2>5 DEF Alone
<1>8. QED
  BY <1>2, <1>5, <1>6, <1>7 DEF DefaultInv

\* A start that judged alone leaves one default, or an empty table.
LEMMA RepairsTheDefault ==
  ASSUME NEW r, Request = {r}, NEW p \in Process, DefaultInv(r), RepairDefault(p)
  PROVE  DefaultInv(r)'
<1>1. /\ boot[p].at = "repair" /\ UNCHANGED <<rows, stamp, used, req, disturbed>>
      /\ GotoBoot(p, "flag")
  BY DEF RepairDefault
<1>2. DefaultTables /\ OwnBoot(p) /\ boot'[p].at = "flag"
  BY <1>1, BootGoes DEF DefaultInv, DefaultTables
<1>3. rows # {} => Oldest(rows) \in rows
  BY <1>2, OldestIn DEF DefaultTables
<1>4. isDefault # {} => Oldest(isDefault) \in isDefault
  BY <1>2, OldestIn DEF DefaultTables
<1>5. /\ boot[p].many = "none" /\ rows # {} => isDefault' = isDefault \cup {Oldest(rows)}
      /\ boot[p].many = "many" /\ isDefault # {} => isDefault' = {Oldest(isDefault)}
      /\ ~(boot[p].many = "none" /\ rows # {}) /\ ~(boot[p].many = "many" /\ isDefault # {})
           => isDefault' = isDefault
  BY DEF RepairDefault
<1>6. isDefault' \subseteq rows'
  BY <1>1, <1>2, <1>3, <1>4, <1>5 DEF DefaultTables
<1>7. DefaultTables'
  BY <1>1, <1>2, <1>6 DEF DefaultTables, OwnBoot
<1>8. DefaultRows(r)'
  BY <1>1, <1>2 DEF DefaultInv, DefaultRows, OwnBoot, Up, Seeding, Process
<1>9. ASSUME Alone(r)
      PROVE  Alone(r)'
  <2>1. CountHolds(p) /\ ~Changing(r) /\ \A q \in Process \ {p} : ~Judging(q)
    BY <1>1, <1>9 DEF Alone, Judging
  <2>2. ~Changing(r)' /\ \A q \in Process : ~Judging(q)' /\ boot'[q].at \notin {"repair", "insert"}
    BY <1>1, <1>2, <2>1 DEF Changing, Judging, OwnBoot
  <2>3. rows' = {} \/ Single'
    <3>1. CASE rows = {}
      BY <1>1, <3>1
    <3>2. CASE rows # {} /\ isDefault = {}
      <4>1. isDefault' = {Oldest(rows)}
        BY <1>5, <2>1, <3>2 DEF CountHolds
      <4>2. QED
        BY <1>1, <1>3, <3>2, <4>1 DEF Single
    <3>3. CASE Single
      <4>1. isDefault' = isDefault
        BY <1>5, <2>1, <3>3 DEF CountHolds, Single
      <4>2. QED
        BY <1>1, <3>3, <4>1 DEF Single
    <3>4. CASE isDefault # {} /\ ~Single
      <4>1. CASE boot[p].many = "many"
        <5>1. isDefault' = {Oldest(isDefault)} /\ Oldest(isDefault) \in rows
          BY <1>2, <1>4, <1>5, <3>4, <4>1 DEF DefaultTables
        <5>2. QED
          BY <1>1, <5>1 DEF Single
      <4>2. CASE boot[p].many # "many"
        BY <2>1, <3>4, <4>2, Zenon DEF CountHolds
      <4>3. QED
        BY <4>1, <4>2
    <3>5. QED
      BY <3>1, <3>2, <3>3, <3>4
  <2>4. req'[r].at \notin {"set", "delete", "promote"}
    BY <2>2 DEF Changing
  <2>5. QED
    BY <2>2, <2>3, <2>4 DEF Alone
<1>10. QED
  BY <1>1, <1>7, <1>8, <1>9 DEF DefaultInv

LEMMA CountsTheLiaisons ==
  ASSUME NEW r, Request = {r}, NEW p \in Process, DefaultInv(r), CountLiaisons(p)
  PROVE  DefaultInv(r)'
<1>1. /\ boot[p].at = "liaison" /\ UNCHANGED <<rows, isDefault, used, stamp, req>>
      /\ disturbed' = (disturbed \/ (rows = {} /\ MeetsAtStart(p)))
  BY DEF CountLiaisons, tables
<1>2. DOMAIN boot = Process
  BY DEF DefaultInv, DefaultTables
<1>3. CASE rows # {}
  <2>1. disturbed' <=> disturbed
    BY <1>1, <1>3
  <2>2. OwnBoot(p) /\ boot'[p].at \in {"oldest", "up"}
    <3>1. CASE boot[p].force
      BY <1>2, <1>3, <3>1, BootGoes DEF CountLiaisons
    <3>2. CASE ~boot[p].force
      BY <1>2, <1>3, <3>2, BootPut, StillFields DEF CountLiaisons
    <3>3. QED
      BY <3>1, <3>2
  <2>3. CASE disturbed
    <3>1. DefaultTables' /\ DefaultRows(r)' /\ disturbed'
      BY <1>1, <1>3, <2>1, <2>2, <2>3 DEF DefaultInv, DefaultTables, DefaultRows, OwnBoot, Up, Process
    <3>2. QED
      BY <3>1 DEF DefaultInv
  <2>4. CASE ~disturbed
    <3>1. Alone(r)
      BY <2>4 DEF DefaultInv
    <3>2. \A q \in Process : Judging(q)' <=> Judging(q)
      BY <1>1, <2>2 DEF OwnBoot, Judging
    <3>3. \A q \in Process : boot'[q].at \in {"repair", "insert"} => boot'[q] = boot[q]
      BY <2>2 DEF OwnBoot
    <3>4. (Single' <=> Single) /\ (Changing(r)' <=> Changing(r)) /\ (Judges' <=> Judges)
      BY <1>1, <3>2 DEF Single, Changing, Judges
    <3>5. Between(r) => Between(r)'
      BY <1>1, <2>2 DEF Between, OwnBoot, Process
    <3>6. \A q \in Process : boot'[q].at = "repair" => CountHolds(q)'
      BY <1>1, <3>1, <3>3, <3>4 DEF Alone, CountHolds
    <3>7. \A q \in Process : boot'[q].at = "insert" => rows' = {}
      BY <1>1, <3>1, <3>3 DEF Alone
    <3>8. \A q \in Process : Judging(q)' => ~Changing(r)' /\ \A o \in Process \ {q} : ~Judging(o)'
      BY <3>1, <3>2, <3>4 DEF Alone
    <3>9. (Judges \/ rows = {} \/ Single \/ Between(r))'
      BY <1>1, <3>1, <3>4, <3>5 DEF Alone
    <3>10. Alone(r)'
      BY <1>1, <3>1, <3>6, <3>7, <3>8, <3>9 DEF Alone
    <3>11. DefaultTables' /\ DefaultRows(r)'
      BY <1>1, <1>3, <2>2 DEF DefaultInv, DefaultTables, DefaultRows, OwnBoot, Up, Process
    <3>12. QED
      BY <3>10, <3>11 DEF DefaultInv
  <2>5. QED
    BY <2>3, <2>4
<1>4. CASE rows = {}
  <2>1. OwnBoot(p) /\ boot'[p].at = "insert"
    BY <1>2, <1>4, BootGoes DEF CountLiaisons
  <2>2. DefaultTables' /\ DefaultRows(r)'
    BY <1>1, <1>4, <2>1 DEF DefaultInv, DefaultTables, DefaultRows, OwnBoot, Up, Process, Seeding
  <2>3. ASSUME ~MeetsAtStart(p), Alone(r)
        PROVE  Alone(r)'
    <3>1. ~Changing(r) /\ \A q \in Process \ {p} : ~Judging(q)
      BY <2>3 DEF MeetsAtStart
    <3>2. ~Changing(r)' /\ \A q \in Process \ {p} : ~Judging(q)' /\ boot'[q].at \notin {"repair", "insert"}
      BY <1>1, <2>1, <3>1 DEF Changing, Judging, OwnBoot
    <3>3. req'[r].at \notin {"set", "delete", "promote"} /\ rows' = {}
      BY <1>1, <1>4, <3>2 DEF Changing
    <3>4. QED
      BY <2>1, <3>2, <3>3 DEF Alone
  <2>4. QED
    BY <1>1, <1>4, <2>2, <2>3 DEF DefaultInv
<1>5. QED
  BY <1>3, <1>4

\* The first liaison, on an empty table when the start is alone.
LEMMA SeedsTheFirst ==
  ASSUME NEW r, Request = {r}, NEW p \in Process, DefaultInv(r), SeedInsert(p)
  PROVE  DefaultInv(r)'
<1>1. PICK i \in Id \ used :
        /\ rows' = rows \cup {i} /\ isDefault' = isDefault \cup {i}
        /\ used' = used \cup {i} /\ Touch(i)
        /\ PutBoot(p, Boot("outbound", "none", boot[p].force, i, boot[p].late))
  BY DEF SeedInsert
<1>2. boot[p].at = "insert" /\ UNCHANGED <<req, disturbed>>
  BY DEF SeedInsert
<1>3. OwnBoot(p) /\ boot'[p].at = "outbound"
  <2> DEFINE b == Boot("outbound", "none", boot[p].force, i, boot[p].late)
  <2>1. b.at = "outbound"
    BY DEF Boot
  <2> HIDE DEF b
  <2>2. QED
    BY <1>1, <2>1, BootPut DEF DefaultInv, DefaultTables, b
<1>4. stamp' \in [Id -> Nat]
  BY <1>1, TouchNat DEF DefaultInv, DefaultTables
<1>5. DefaultTables'
  BY <1>1, <1>2, <1>3, <1>4 DEF DefaultInv, DefaultTables, OwnBoot
<1>6. DefaultRows(r)'
  BY <1>1, <1>2, <1>3 DEF DefaultInv, DefaultRows, OwnBoot, Up, Process
<1>7. ASSUME Alone(r)
      PROVE  Alone(r)'
  <2>1. rows = {} /\ ~Changing(r) /\ \A q \in Process \ {p} : ~Judging(q)
    BY <1>2, <1>7 DEF Alone, Judging
  <2>2. ~Changing(r)' /\ \A q \in Process : ~Judging(q)' /\ boot'[q].at \notin {"repair", "insert"}
    BY <1>2, <1>3, <2>1 DEF Changing, Judging, OwnBoot
  <2>3. Single'
    BY <1>1, <2>1 DEF Single, DefaultInv, DefaultTables
  <2>4. req'[r].at \notin {"set", "delete", "promote"}
    BY <2>2 DEF Changing
  <2>5. QED
    BY <2>2, <2>3, <2>4 DEF Alone
<1>8. QED
  BY <1>2, <1>5, <1>6, <1>7 DEF DefaultInv

LEMMA BootKeepsDefault ==
  ASSUME NEW r, Request = {r}, NEW p \in Process, DefaultInv(r), BootStep(p)
  PROVE  DefaultInv(r)'
<1>1. DefaultTables /\ DefaultRows(r) /\ DOMAIN boot = Process /\ stamp \in [Id -> Nat]
  BY DEF DefaultInv, DefaultTables
<1>2. CASE CountDefaults(p) \/ RepairDefault(p) \/ CountLiaisons(p) \/ SeedInsert(p)
  BY <1>2, CountsTheDefaults, RepairsTheDefault, CountsTheLiaisons, SeedsTheFirst
<1>3. CASE ReadFlag(p)
  <2> DEFINE b == Boot("liaison", "none", ~seeded, NoId, boot[p].late)
  <2>1. PutBoot(p, b) /\ boot[p].at = "flag" /\ UNCHANGED <<rows, isDefault, used, stamp, req, disturbed>>
    BY <1>3 DEF ReadFlag, tables
  <2>2. b.at = "liaison"
    BY DEF Boot
  <2> HIDE DEF b
  <2>3. OwnBoot(p) /\ boot'[p].at = "liaison"
    BY <1>1, <2>1, <2>2, BootPut
  <2>4. QED
    BY <1>1, <2>1, <2>3, PassesBy DEF Seeding
<1>4. CASE SeedOldest(p)
  <2> DEFINE b == Boot("rename", "none", boot[p].force, Oldest(rows), boot[p].late)
  <2>1. /\ boot[p].at = "oldest" /\ UNCHANGED <<rows, isDefault, used, stamp, req, disturbed>>
        /\ PutBoot(p, IF rows = {} THEN Down ELSE b)
    BY <1>4 DEF SeedOldest, tables
  <2>2. b.at = "rename"
    BY DEF Boot
  <2> HIDE DEF b
  <2>3. rows # {}
    BY <1>1, <2>1 DEF DefaultRows, Seeding
  <2>4. OwnBoot(p) /\ boot'[p].at = "rename"
    BY <1>1, <2>1, <2>2, <2>3, BootPut
  <2>5. QED
    BY <1>1, <2>1, <2>3, <2>4, PassesBy
<1>5. CASE SeedName(p)
  <2>1. /\ boot[p].at = "rename" /\ UNCHANGED <<rows, isDefault, used, req, disturbed>>
        /\ GotoBoot(p, "outbound") /\ (Touch(boot[p].id) \/ NoTouch) /\ (boot[p].id \in rows \/ NoTouch)
    BY <1>5 DEF SeedName
  <2>2. stamp' \in [Id -> Nat]
    <3>1. CASE NoTouch
      BY <1>1, <3>1 DEF NoTouch
    <3>2. CASE ~NoTouch
      BY <1>1, <2>1, <3>2, TouchNat DEF DefaultTables
    <3>3. QED
      BY <3>1, <3>2
  <2>3. rows # {} /\ OwnBoot(p) /\ boot'[p].at = "outbound"
    BY <1>1, <2>1, BootGoes DEF DefaultRows, Seeding
  <2>4. QED
    BY <2>1, <2>2, <2>3, PassesBy
<1>6. CASE \E d \in Direction : SeedLeg(p, d)
  <2>1. PICK d \in Direction : SeedLeg(p, d)
    BY <1>6
  <2>2. boot[p].at \in {"outbound", "inbound"} /\ UNCHANGED <<rows, isDefault, used, stamp, req, disturbed>>
    BY <2>1 DEF SeedLeg, Direction
  <2>3. PutBoot(p, Down) \/ PutBoot(p, Running) \/ \E at \in {"inbound", "done"} : GotoBoot(p, at)
    BY <2>1 DEF SeedLeg
  <2>4. OwnBoot(p) /\ boot'[p].at \in {"down", "up", "inbound", "done"}
    BY <1>1, <2>3, BootPut, BootGoes, StillFields
  <2>5. rows # {}
    BY <1>1, <2>2 DEF DefaultRows, Seeding
  <2>6. QED
    BY <1>1, <2>2, <2>4, <2>5, PassesBy
<1>7. CASE StoreFlag(p)
  <2>1. /\ boot[p].at = "done" /\ UNCHANGED <<rows, isDefault, used, stamp, req, disturbed>>
        /\ PutBoot(p, Running)
    BY <1>7 DEF StoreFlag
  <2>2. rows # {} /\ OwnBoot(p) /\ boot'[p].at = "up"
    BY <1>1, <2>1, BootPut, StillFields DEF DefaultRows, Seeding
  <2>3. QED
    BY <1>1, <2>1, <2>2, PassesBy
<1>8. QED
  BY <1>2, <1>3, <1>4, <1>5, <1>6, <1>7 DEF BootStep

\* What every request step shows first.
Editor(r) == Up("api") /\ rows # {} /\ boot' = boot /\ DOMAIN req' = Request

LEMMA EditorSteps ==
  ASSUME NEW r, Request = {r}, DefaultInv(r), RequestStep(r) \/ DeleteLiaison(r)
  PROVE  Editor(r)
<1>1. Up("api") \/ req[r].at # "idle"
  BY DEF RequestStep, StartCreate, StartSetDefault, StartEdit, StartEditFirst, StartDelete, Starts,
         InsertLiaison, ClearDefault, SetDefault, GetCurrent, StoreName, ReadDefault,
         PromoteOldest, RequestFails, Creating, Editing, InsertLeg, DeleteLiaison
<1>2. boot' = boot
  BY DEF RequestStep, StartCreate, StartSetDefault, StartEdit, StartEditFirst, StartDelete,
         InsertLiaison, ClearDefault, SetDefault, GetCurrent, StoreName, ReadDefault,
         PromoteOldest, RequestFails, Creating, Editing, InsertLeg, DeleteLiaison, others
<1>3. \E e : req' = [req EXCEPT ![r] = e]
  <2>1. CASE StartCreate(r) \/ StartEdit(r) \/ StartSetDefault(r) \/ StartEditFirst(r) \/ StartDelete(r)
    BY <2>1 DEF StartCreate, StartSetDefault, StartEdit, StartEditFirst, StartDelete
  <2>2. CASE InsertLiaison(r) \/ ClearDefault(r) \/ SetDefault(r) \/ GetCurrent(r) \/ StoreName(r)
             \/ ReadDefault(r) \/ PromoteOldest(r) \/ RequestFails(r) \/ Creating(r) \/ Editing(r)
             \/ DeleteLiaison(r)
    BY <2>2 DEF InsertLiaison, ClearDefault, SetDefault, GetCurrent, StoreName, ReadDefault,
           PromoteOldest, RequestFails, Creating, Editing, InsertLeg, DeleteLiaison, Goto, Ends
  <2>3. QED
    BY <2>1, <2>2 DEF RequestStep
<1>4. DefaultRows(r) /\ DOMAIN req = Request
  BY DEF DefaultInv, DefaultTables
<1>5. QED
  BY <1>1, <1>2, <1>3, <1>4, EditorUp DEF Editor

\* What the request at hand has read of the table.
ReadRows(r) ==
  /\ req[r].at = "insert" => ~req[r].flag
  /\ req[r].at \in {"clear", "set"} => req[r].id \in rows
  /\ req[r].at \in {"read", "delete"} => \A i : rows \ {i} # {}

LEMMA RowsAfter ==
  ASSUME NEW r, DefaultInv(r), Editor(r), rows' # {}, ReadRows(r)'
  PROVE  DefaultRows(r)'
  BY DEF DefaultInv, DefaultRows, ReadRows, Editor, Up

\* With a request between two statements that change the default, no start judges.
LEMMA NoneJudges ==
  ASSUME NEW r, Alone(r), Editor(r), req[r].at \in {"set", "delete", "promote"}
  PROVE  ~Judges /\ \A p \in Process : ~Judging(p)' /\ boot'[p].at \notin {"repair", "insert"}
  BY DEF Alone, Editor, Changing, Judges, Judging

LEMMA AloneAfter ==
  ASSUME NEW r, \A p \in Process : ~Judging(p)' /\ boot'[p].at \notin {"repair", "insert"},
         (Single \/ Between(r))',
         req'[r].at \in {"set", "promote"} => isDefault' = {},
         req'[r].at = "delete" => (req'[r].flag <=> req'[r].id \in isDefault')
  PROVE  Alone(r)'
  BY DEF Alone

\* Steps that only add rows, far from the default.
LEMMA FarFromDefault ==
  ASSUME NEW r, DefaultInv(r), Editor(r), ReadRows(r)',
         req[r].at \notin {"set", "delete", "promote"}, req'[r].at \notin {"set", "delete", "promote"},
         UNCHANGED isDefault, disturbed => disturbed',
         rows \subseteq rows', rows' \subseteq used', used' \subseteq Id, stamp' \in [Id -> Nat]
  PROVE  DefaultInv(r)'
<1>1. DefaultTables'
  BY DEF DefaultInv, DefaultTables, Editor
<1>2. DefaultRows(r)'
  BY RowsAfter DEF Editor
<1>3. ASSUME Alone(r)
      PROVE  Alone(r)'
  <2>1. \A p \in Process : (Judging(p)' <=> Judging(p)) /\ boot'[p] = boot[p]
    BY DEF Editor, Judging
  <2>2. \A p \in Process : boot'[p].at # "insert"
    BY <1>3, <2>1 DEF Alone, Editor
  <2>3. ~Changing(r)'
    BY DEF Changing, ReadRows
  <2>4. Single' <=> Single
    BY DEF Single, DefaultInv, DefaultTables
  <2>5. ~Between(r)
    BY DEF Between, Editor, Up
  <2>6. Judges' <=> Judges
    BY <2>1 DEF Judges
  <2>7. \A p \in Process : boot'[p].at = "repair" => CountHolds(p)'
    BY <1>3, <2>1, <2>4 DEF Alone, CountHolds
  <2>8. (Judges \/ Single)'
    BY <1>3, <2>4, <2>5, <2>6 DEF Alone, Editor
  <2>9. \A p \in Process : Judging(p)' => ~Changing(r)' /\ \A q \in Process \ {p} : ~Judging(q)'
    BY <1>3, <2>1, <2>3 DEF Alone
  <2>10. QED
    BY <2>2, <2>7, <2>8, <2>9 DEF Alone
<1>4. QED
  BY <1>1, <1>2, <1>3 DEF DefaultInv

LEMMA StartsKeep ==
  ASSUME NEW r, Request = {r}, DefaultInv(r), Editor(r),
         StartCreate(r) \/ StartSetDefault(r) \/ StartEdit(r) \/ StartEditFirst(r) \/ StartDelete(r)
  PROVE  DefaultInv(r)'
<1>1. /\ DOMAIN req = Request /\ rows # {} /\ rows \subseteq Id /\ rows \subseteq used /\ used \subseteq Id
      /\ stamp \in [Id -> Nat]
  BY DEF DefaultInv, DefaultTables, Editor
<1>2. UNCHANGED <<tables, disturbed>> /\ req[r].at = "idle"
  BY <1>1 DEF StartCreate, StartSetDefault, StartEdit, StartEditFirst, StartDelete, Starts
<1>3. ReadRows(r)' /\ req'[r].at \notin {"set", "delete", "promote"}
  <2>1. CASE StartCreate(r)
    <3>1. req'[r].at = "insert" /\ req'[r].flag = (rows = {})
      BY <1>1, <2>1 DEF StartCreate, Req
    <3>2. req'[r].at = "insert" /\ ~req'[r].flag
      BY <1>1, <3>1
    <3>3. QED
      BY <3>2 DEF ReadRows
  <2>2. CASE StartSetDefault(r)
    <3>1. PICK i \in Listed : req'[r] = Req("clear", i, FALSE, "none", "none")
      BY <1>1, <2>2 DEF StartSetDefault
    <3>2. req'[r].at = "clear" /\ req'[r].id = i /\ i \in rows'
      BY <1>2, <3>1 DEF Req, Listed, tables
    <3>3. QED
      BY <3>2 DEF ReadRows
  <2>3. CASE StartEdit(r)
    <3>1. req'[r].at = "get"
      BY <1>1, <2>3 DEF StartEdit, Req
    <3>2. QED
      BY <3>1 DEF ReadRows
  <2>4. CASE StartEditFirst(r)
    <3>1. PICK b \in Body :
            req'[r] = IF Listed = {} THEN Req("insert", NoId, rows = {}, b.outbound, b.inbound)
                      ELSE Req("get", First, FALSE, b.outbound, b.inbound)
      BY <1>1, <2>4 DEF StartEditFirst
    <3>2. CASE Listed = {}
      <4>1. req'[r] = Req("insert", NoId, rows = {}, b.outbound, b.inbound)
        BY <3>1, <3>2
      <4>2. req'[r].at = "insert" /\ req'[r].flag = (rows = {})
        BY <4>1 DEF Req
      <4>3. req'[r].at = "insert" /\ ~req'[r].flag
        BY <1>1, <4>2
      <4>4. QED
        BY <4>3 DEF ReadRows
    <3>3. CASE Listed # {}
      <4>1. req'[r] = Req("get", First, FALSE, b.outbound, b.inbound)
        BY <3>1, <3>3
      <4>2. req'[r].at = "get"
        BY <4>1 DEF Req
      <4>3. QED
        BY <4>2 DEF ReadRows
    <3>4. QED
      BY <3>2, <3>3
  <2>5. CASE StartDelete(r)
    <3>1. req'[r].at = "read" /\ Cardinality(rows) > 1
      BY <1>1, <2>5 DEF StartDelete, Req
    <3>2. \A i : rows \ {i} # {}
      BY <1>1, <3>1, OneLeft
    <3>3. QED
      BY <1>2, <3>1, <3>2 DEF ReadRows, tables
  <2>6. QED
    BY <2>1, <2>2, <2>3, <2>4, <2>5
<1>4. QED
  BY <1>1, <1>2, <1>3, FarFromDefault DEF tables

LEMMA LegsKeep ==
  ASSUME NEW r, Request = {r}, DefaultInv(r), Editor(r),
         Creating(r) \/ Editing(r) \/ GetCurrent(r) \/ StoreName(r) \/ InsertLiaison(r)
  PROVE  DefaultInv(r)'
<1>1. /\ DOMAIN req = Request /\ rows # {} /\ rows \subseteq used /\ used \subseteq Id
      /\ stamp \in [Id -> Nat]
  BY DEF DefaultInv, DefaultTables, Editor
<1>2. ASSUME UNCHANGED <<rows, isDefault, used, disturbed>>, stamp' \in [Id -> Nat],
             req[r].at \notin {"set", "delete", "promote"},
             req'[r].at \in {"newOut", "newIn", "idle", "get", "editOut", "editIn", "name"}
      PROVE  DefaultInv(r)'
  BY <1>1, <1>2, FarFromDefault DEF ReadRows
<1>3. CASE Creating(r) \/ Editing(r)
  <2>1. /\ UNCHANGED <<rows, isDefault, used, disturbed, stamp>>
        /\ req[r].at \in {"newOut", "newIn", "editOut", "editIn"}
    BY <1>3 DEF Creating, Editing, InsertLeg, others
  <2>2. req'[r].at \in {"newIn", "idle", "get", "editIn", "name"}
    BY <1>1, <1>3 DEF Creating, Editing, InsertLeg, Goto, Ends, Idle, Req
  <2>3. QED
    BY <1>1, <1>2, <2>1, <2>2
<1>4. CASE GetCurrent(r)
  <2>1. UNCHANGED <<rows, isDefault, used, disturbed, stamp>> /\ req[r].at = "get"
    BY <1>4 DEF GetCurrent, tables, others
  <2>2. req'[r].at \in {"editOut", "idle"}
    BY <1>1, <1>4 DEF GetCurrent, Ends, Idle, Req
  <2>3. QED
    BY <1>1, <1>2, <2>1, <2>2
<1>5. CASE StoreName(r)
  <2>1. UNCHANGED <<rows, isDefault, used, disturbed>> /\ req[r].at = "name"
    BY <1>5 DEF StoreName, others
  <2>2. req'[r].at = "idle"
    BY <1>1, <1>5 DEF StoreName, Ends, Idle, Req
  <2>3. stamp' \in [Id -> Nat]
    <3>1. CASE req[r].id \in rows
      <4>1. Touch(req[r].id) /\ req[r].id \in Id
        BY <1>1, <1>5, <3>1 DEF StoreName
      <4>2. QED
        BY <1>1, <4>1, TouchNat
    <3>2. CASE req[r].id \notin rows
      BY <1>1, <1>5, <3>2 DEF StoreName, NoTouch
    <3>3. QED
      BY <3>1, <3>2
  <2>4. QED
    BY <1>2, <2>1, <2>2, <2>3
<1>6. CASE InsertLiaison(r)
  <2>1. req[r].at = "insert" /\ ~req[r].flag /\ UNCHANGED disturbed
    BY <1>6 DEF InsertLiaison, DefaultInv, DefaultRows, others
  <2>2. PICK i \in Id \ used :
          /\ rows' = rows \cup {i} /\ used' = used \cup {i} /\ Touch(i)
          /\ isDefault' = IF req[r].flag THEN isDefault \cup {i} ELSE isDefault
          /\ req' = [req EXCEPT ![r] = Req("newOut", i, @.flag, @.outbound, @.inbound)]
    BY <1>6 DEF InsertLiaison
  <2>3. stamp' \in [Id -> Nat]
    BY <1>1, <2>2, TouchNat
  <2>4. req'[r].at = "newOut"
    BY <1>1, <2>2 DEF Req
  <2>5. isDefault' = isDefault
    BY <2>1, <2>2
  <2>6. rows \subseteq rows' /\ rows' \subseteq used' /\ used' \subseteq Id
    BY <1>1, <2>2
  <2>7. ReadRows(r)'
    BY <2>4 DEF ReadRows
  <2>8. QED
    BY <2>1, <2>3, <2>4, <2>5, <2>6, <2>7, FarFromDefault
<1>7. QED
  BY <1>3, <1>4, <1>5, <1>6

LEMMA DefaultsKeep ==
  ASSUME NEW r, Request = {r}, DefaultInv(r), Editor(r),
         ReadDefault(r) \/ ClearDefault(r) \/ SetDefault(r) \/ PromoteOldest(r) \/ RequestFails(r)
  PROVE  DefaultInv(r)'
<1>1. /\ DOMAIN req = Request /\ rows # {} /\ isDefault \subseteq rows /\ rows \subseteq used
      /\ used \subseteq Id /\ stamp \in [Id -> Nat] /\ ReadRows(r) /\ DOMAIN boot' = Process
  BY DEF DefaultInv, DefaultTables, DefaultRows, ReadRows, Editor
<1>2. ASSUME UNCHANGED <<rows, used>>, isDefault' \subseteq rows, stamp' \in [Id -> Nat], ReadRows(r)',
             disturbed' \/ Alone(r)'
      PROVE  DefaultInv(r)'
  <2>1. DefaultTables'
    BY <1>1, <1>2 DEF DefaultTables, Editor
  <2>2. DefaultRows(r)'
    BY <1>1, <1>2, RowsAfter
  <2>3. QED
    BY <1>2, <2>1, <2>2 DEF DefaultInv
<1>3. CASE ReadDefault(r)
  <2>1. req[r].at = "read" /\ UNCHANGED <<rows, isDefault, used, stamp>> /\ MeetsAtRequest
    BY <1>3 DEF ReadDefault, tables
  <2>2. /\ req'[r].at = "delete" /\ req'[r].id = req[r].id
        /\ req'[r].flag = (req[r].id \in isDefault)
    BY <1>1, <1>3 DEF ReadDefault, Req
  <2>3. req'[r].at = "delete" /\ (req'[r].flag <=> req'[r].id \in isDefault')
    BY <2>1, <2>2
  <2>4. ReadRows(r)'
    BY <1>1, <2>1, <2>3 DEF ReadRows
  <2>5. ASSUME ~disturbed'
        PROVE  Alone(r)'
    <3>1. ~disturbed /\ \A p \in Process : ~Judging(p)
      BY <2>1, <2>5 DEF MeetsAtRequest
    <3>2. Alone(r) /\ ~Judges
      BY <3>1 DEF DefaultInv, Judges
    <3>3. Single
      BY <1>1, <2>1, <3>2 DEF Alone, Between, Editor, Up
    <3>4. Single' /\ \A p \in Process : ~Judging(p)' /\ boot'[p].at \notin {"repair", "insert"}
      BY <2>1, <3>1, <3>3 DEF Single, Editor, Judging
    <3>5. QED
      BY <2>3, <3>4, AloneAfter
  <2>6. QED
    BY <1>1, <1>2, <2>1, <2>4, <2>5
<1>4. CASE ClearDefault(r)
  <2>1. /\ req[r].at = "clear" /\ isDefault' = {} /\ UNCHANGED <<rows, used, stamp>>
        /\ MeetsAtRequest
    BY <1>4 DEF ClearDefault
  <2>2. req'[r].at = "set" /\ req'[r].id = req[r].id
    BY <1>1, <1>4 DEF ClearDefault, Goto, Req
  <2>3. ReadRows(r)'
    BY <1>1, <2>1, <2>2 DEF ReadRows
  <2>4. ASSUME ~disturbed'
        PROVE  Alone(r)'
    <3>1. \A p \in Process : ~Judging(p)' /\ boot'[p].at \notin {"repair", "insert"}
      BY <2>1, <2>4 DEF MeetsAtRequest, Editor, Judging
    <3>2. Between(r)'
      BY <2>1, <2>2 DEF Between
    <3>3. QED
      BY <2>1, <2>2, <3>1, <3>2, AloneAfter
  <2>5. QED
    BY <1>1, <1>2, <2>1, <2>3, <2>4
<1>5. CASE SetDefault(r)
  <2>1. req[r].at = "set" /\ UNCHANGED <<rows, used, disturbed>>
    BY <1>5 DEF SetDefault, others
  <2>2. req[r].id \in rows /\ req[r].id \in Id
    BY <1>1, <2>1 DEF ReadRows
  <2>3. isDefault' = isDefault \cup {req[r].id} /\ Touch(req[r].id) /\ req'[r].at = "idle"
    BY <1>1, <1>5, <2>2 DEF SetDefault, Ends, Idle, Req
  <2>4. stamp' \in [Id -> Nat] /\ ReadRows(r)'
    BY <1>1, <2>2, <2>3, TouchNat DEF ReadRows
  <2>5. ASSUME ~disturbed'
        PROVE  Alone(r)'
    <3>1. Alone(r)
      BY <2>1, <2>5 DEF DefaultInv
    <3>2. isDefault = {} /\ \A p \in Process : ~Judging(p)' /\ boot'[p].at \notin {"repair", "insert"}
      BY <2>1, <3>1, NoneJudges DEF Alone
    <3>3. Single'
      BY <2>1, <2>2, <2>3, <3>2 DEF Single
    <3>4. QED
      BY <2>3, <3>2, <3>3, AloneAfter
  <2>6. QED
    BY <1>1, <1>2, <2>1, <2>2, <2>3, <2>4, <2>5
<1>6. CASE PromoteOldest(r)
  <2>1. req[r].at = "promote" /\ UNCHANGED <<rows, used, stamp, disturbed>>
    BY <1>6 DEF PromoteOldest, others
  <2>2. Oldest(rows) \in rows
    BY <1>1, OldestIn
  <2>3. isDefault' = isDefault \cup {Oldest(rows)} /\ req'[r].at = "idle"
    BY <1>1, <1>6 DEF PromoteOldest, Ends, Idle, Req
  <2>4. ReadRows(r)'
    BY <2>3 DEF ReadRows
  <2>5. ASSUME ~disturbed'
        PROVE  Alone(r)'
    <3>1. Alone(r)
      BY <2>1, <2>5 DEF DefaultInv
    <3>2. isDefault = {} /\ \A p \in Process : ~Judging(p)' /\ boot'[p].at \notin {"repair", "insert"}
      BY <2>1, <3>1, NoneJudges DEF Alone
    <3>3. Single'
      BY <2>1, <2>2, <2>3, <3>2 DEF Single
    <3>4. QED
      BY <2>3, <3>2, <3>3, AloneAfter
  <2>6. QED
    BY <1>1, <1>2, <2>1, <2>2, <2>3, <2>4, <2>5
<1>7. CASE RequestFails(r)
  <2>1. /\ UNCHANGED <<rows, isDefault, used, stamp>>
        /\ disturbed' = (disturbed \/ Changing(r))
    BY <1>7 DEF RequestFails, tables
  <2>2. req'[r].at = "idle"
    BY <1>1, <1>7 DEF RequestFails, Ends, Idle, Req
  <2>3. ReadRows(r)'
    BY <2>2 DEF ReadRows
  <2>4. CASE Changing(r)
    BY <1>1, <1>2, <2>1, <2>3, <2>4
  <2>5. CASE ~Changing(r)
    <3>1. req[r].at \notin {"set", "delete", "promote"} /\ (disturbed => disturbed')
      BY <2>1, <2>5 DEF Changing
    <3>2. QED
      BY <1>1, <2>1, <2>2, <2>3, <3>1, FarFromDefault
  <2>6. QED
    BY <2>4, <2>5
<1>8. QED
  BY <1>3, <1>4, <1>5, <1>6, <1>7

LEMMA DeletingKeeps ==
  ASSUME NEW r, Request = {r}, DefaultInv(r), Editor(r), DeleteLiaison(r)
  PROVE  DefaultInv(r)'
<1> DEFINE i == req[r].id
<1>1. /\ req[r].at = "delete" /\ UNCHANGED <<used, stamp, disturbed>>
      /\ rows' = rows \ {i} /\ isDefault' = isDefault \ {i}
      /\ IF i \in rows /\ req[r].flag THEN Goto(r, "promote") ELSE Ends(r)
  BY DEF DeleteLiaison, others
<1>2. rows \ {i} # {} /\ DOMAIN req = Request
  BY <1>1 DEF DefaultInv, DefaultTables, DefaultRows
<1>3. ASSUME Alone(r)
      PROVE  Single /\ (req[r].flag <=> i \in isDefault)
             /\ \A p \in Process : ~Judging(p)' /\ boot'[p].at \notin {"repair", "insert"}
  BY <1>1, <1>3, NoneJudges DEF Alone, Between, Editor, Up
<1>4. DefaultTables'
  BY <1>1 DEF DefaultInv, DefaultTables, Editor
<1>5. CASE i \in rows /\ req[r].flag
  <2>1. req'[r].at = "promote"
    BY <1>1, <1>2, <1>5 DEF Goto, Req
  <2>2. DefaultRows(r)'
    BY <1>1, <1>2, <2>1, RowsAfter DEF ReadRows
  <2>3. ASSUME Alone(r)
        PROVE  Alone(r)'
    <3>1. isDefault' = {}
      BY <1>1, <1>3, <1>5, <2>3 DEF Single
    <3>2. Between(r)'
      BY <2>1, <3>1 DEF Between
    <3>3. QED
      BY <1>3, <2>1, <2>3, <3>1, <3>2, AloneAfter
  <2>4. QED
    BY <1>1, <1>4, <2>2, <2>3 DEF DefaultInv
<1>6. CASE ~(i \in rows /\ req[r].flag)
  <2>1. req'[r].at = "idle"
    BY <1>1, <1>2, <1>6 DEF Ends, Idle, Req
  <2>2. DefaultRows(r)'
    BY <1>1, <1>2, <2>1, RowsAfter DEF ReadRows
  <2>3. ASSUME Alone(r)
        PROVE  Alone(r)'
    <3>1. i \notin isDefault
      BY <1>3, <1>6, <2>3 DEF Single
    <3>2. Single'
      BY <1>1, <1>3, <2>3, <3>1 DEF Single
    <3>3. QED
      BY <1>3, <2>1, <2>3, <3>2, AloneAfter
  <2>4. QED
    BY <1>1, <1>4, <2>2, <2>3 DEF DefaultInv
<1>7. QED
  BY <1>5, <1>6

\* A process that stops while it judges leaves the default in doubt; any other leaves
\* it as it was.
LEMMA CrashKeepsDefault ==
  ASSUME NEW r, Request = {r}, NEW p \in Process, DefaultInv(r), Crash(p)
  PROVE  DefaultInv(r)'
<1>1. /\ UNCHANGED <<rows, isDefault, used, stamp>> /\ PutBoot(p, Down) /\ boot[p].at # "down"
      /\ req' = (IF p = "api" THEN [q \in Request |-> Idle] ELSE req)
      /\ disturbed' = (disturbed \/ Judging(p))
  BY DEF Crash, tables
<1>2. OwnBoot(p) /\ boot'[p].at = "down"
  BY <1>1, BootPut, StillFields DEF DefaultInv, DefaultTables
<1>3. DOMAIN req' = Request /\ (p = "api" => req'[r].at = "idle") /\ (p # "api" => req' = req)
  BY <1>1 DEF Idle, Req, DefaultInv, DefaultTables
<1>4. DefaultTables'
  BY <1>1, <1>2, <1>3 DEF DefaultInv, DefaultTables, OwnBoot
<1>5. DefaultRows(r)'
  <2>1. CASE p = "api"
    BY <1>1, <1>2, <1>3, <2>1 DEF DefaultInv, DefaultRows, OwnBoot, Seeding, Up
  <2>2. CASE p # "api"
    BY <1>1, <1>2, <1>3, <2>2 DEF DefaultInv, DefaultRows, OwnBoot, Seeding, Up, Process
  <2>3. QED
    BY <2>1, <2>2
<1>6. ASSUME Alone(r), ~Judging(p)
      PROVE  Alone(r)'
  <2>1. \A q \in Process : (Judging(q)' <=> Judging(q))
    BY <1>2, <1>6 DEF OwnBoot, Judging
  <2>2. \A q \in Process : boot'[q].at \in {"repair", "insert"} => boot'[q] = boot[q]
    BY <1>2 DEF OwnBoot
  <2>3. (Single' <=> Single) /\ (Judges' <=> Judges)
    BY <1>1, <2>1 DEF Single, Judges
  <2>4. req'[r].at = "idle" \/ req' = req
    BY <1>3
  <2>5. Changing(r)' => Changing(r)
    BY <2>4 DEF Changing
  <2>6. Between(r) => Between(r)'
    BY <1>1, <1>2, <1>3 DEF Between, OwnBoot, Process
  <2>7. \A q \in Process : boot'[q].at = "repair" => CountHolds(q)'
    BY <1>1, <1>6, <2>2, <2>3 DEF Alone, CountHolds
  <2>8. \A q \in Process : boot'[q].at = "insert" => rows' = {}
    BY <1>1, <1>6, <2>2 DEF Alone
  <2>9. \A q \in Process : Judging(q)' => ~Changing(r)' /\ \A o \in Process \ {q} : ~Judging(o)'
    BY <1>6, <2>1, <2>5 DEF Alone
  <2>10. (Judges \/ rows = {} \/ Single \/ Between(r))'
    BY <1>1, <1>6, <2>3, <2>6 DEF Alone
  <2>11. req'[r].at \in {"set", "promote"} => isDefault' = {}
    BY <1>1, <1>6, <2>4 DEF Alone
  <2>12. req'[r].at = "delete" => (req'[r].flag <=> req'[r].id \in isDefault')
    BY <1>1, <1>6, <2>4 DEF Alone
  <2>13. QED
    BY <2>7, <2>8, <2>9, <2>10, <2>11, <2>12 DEF Alone
<1>7. QED
  BY <1>1, <1>4, <1>5, <1>6 DEF DefaultInv

LEMMA DefaultNext ==
  ASSUME NEW r, Request = {r}
  PROVE  DefaultInv(r) /\ [Next]_vars => DefaultInv(r)'
<1> SUFFICES ASSUME DefaultInv(r), [Next]_vars
             PROVE  DefaultInv(r)'
  OBVIOUS
<1>1. CASE \E p \in Process : Started(p)
  BY <1>1, BootKeepsDefault DEF Started
<1>2. CASE Requested
  <2>1. RequestStep(r) \/ DeleteLiaison(r)
    BY <1>2 DEF Requested, Delete
  <2>2. Editor(r)
    BY <2>1, EditorSteps
  <2>3. CASE RequestStep(r)
    BY <2>2, <2>3, StartsKeep, LegsKeep, DefaultsKeep DEF RequestStep
  <2>4. CASE DeleteLiaison(r)
    BY <2>2, <2>4, DeletingKeeps
  <2>5. QED
    BY <2>1, <2>3, <2>4
<1>3. CASE PollStep \/ PollFails \/ ClearStats \/ UNCHANGED vars
  <2>1. UNCHANGED <<rows, isDefault, used, stamp, disturbed, boot, req>>
    BY <1>3 DEF PollStep, PollFails, ClearStats, StartPoll, FetchDepartures, SaveNext, Observe,
           Count, EndJourney, vars, lvars, tables, others
  <2>2. QED
    BY <2>1 DEF DefaultInv, DefaultTables, DefaultRows, Alone, Single, Between, CountHolds, Judges,
           Judging, Changing, Up
<1>4. CASE \E p \in Process : Restart(p)
  BY <1>4, CrashKeepsDefault DEF Restart
<1>5. QED
  BY <1>1, <1>2, <1>3, <1>4 DEF Next

(***************************************************************************)
(* While one editor works, at rest exactly one liaison is the default,     *)
(* whatever the liaisons, the crashes and the starts of the two processes  *)
(* beside the editor's requests; none or two are, only when a start judged *)
(* beside another writer of the default or one of them was cut short, and  *)
(* until the next start that judges alone (ensureLiaisonDefaultColumn,     *)
(* setDefaultLiaison, deleteLiaison).                                      *)
(***************************************************************************)
THEOREM OneEditorOneDefault ==
  ASSUME NEW r, Request = {r}
  PROVE  Spec => []OneDefault
<1>1. Init => DefaultInv(r)
  BY DefaultInit
<1>2. DefaultInv(r) => OneDefault
  <2> SUFFICES ASSUME DefaultInv(r), AtRest
               PROVE  rows # {} /\ (disturbed \/ Single)
    BY DEF OneDefault, Single
  <2>1. rows # {}
    BY EditorUp DEF DefaultInv, AtRest
  <2>2. req[r].at = "idle" /\ boot["api"].at = "up" /\ ~Judges
    BY DEF AtRest, Starting, Up, Judges, Judging
  <2>3. QED
    BY <2>1, <2>2 DEF DefaultInv, Alone, Between
<1>3. QED
  BY <1>1, <1>2, DefaultNext, PTL DEF Spec

-----------------------------------------------------------------------------
(* Types: the rows, the processes' locals and the poll.                     *)

LEMMA LegTypes == {"none", "inactive", SeedRoute} \subseteq Leg /\ Route \subseteq Leg
  BY RouteAssumption DEF Leg

LEMMA ReqTyped ==
  ASSUME NEW at \in {"idle", "insert", "newOut", "newIn", "clear", "set", "get",
                     "editOut", "editIn", "name", "read", "delete", "promote"},
         NEW i \in Id, NEW flag \in BOOLEAN, NEW o \in Leg, NEW n \in Leg
  PROVE  Req(at, i, flag, o, n) \in ReqState
  BY DEF Req, ReqState

LEMMA BootTyped ==
  ASSUME NEW at \in {"down", "repair", "flag", "liaison", "insert", "oldest", "rename",
                     "outbound", "inbound", "done", "up"},
         NEW many \in {"none", "one", "many"}, NEW force \in BOOLEAN, NEW i \in Id,
         NEW late \in BOOLEAN
  PROVE  Boot(at, many, force, i, late) \in BootState
  BY DEF Boot, BootState

LEMMA AnId == NoId \in Id
  BY IdAssumption DEF NoId

LEMMA LiaisonTypeInit == LiaisonInit => LiaisonTypeOK
<1> SUFFICES ASSUME LiaisonInit
             PROVE  LiaisonTypeOK
  OBVIOUS
<1>1. Idle \in ReqState
  BY AnId, LegTypes, ReqTyped DEF Idle
<1>2. Down \in BootState
  BY AnId, BootTyped DEF Down
<1>3. req \in [Request -> ReqState] /\ boot \in [Process -> BootState]
  BY <1>1, <1>2 DEF LiaisonInit
<1>4. legs \in [Id -> [Direction -> Leg]] /\ stamp \in [Id -> Nat]
  BY LegTypes DEF LiaisonInit
<1>5. QED
  BY <1>3, <1>4 DEF LiaisonInit, LiaisonTypeOK

\* What the tables are apart from the locals of the process.
RowsOK ==
  /\ rows \subseteq Id /\ isDefault \subseteq rows /\ rows \subseteq used /\ used \subseteq Id
  /\ stamp \in [Id -> Nat] /\ legs \in [Id -> [Direction -> Leg]]
  /\ seeded \in BOOLEAN
RestOK == disturbed \in BOOLEAN /\ edits \in Nat /\ faults \in Nat /\ scenario \in Scenarios
LocalsOK == boot \in [Process -> BootState] /\ req \in [Request -> ReqState]

LEMMA TypeParts == LiaisonTypeOK <=> RowsOK /\ RestOK /\ LocalsOK
  BY DEF LiaisonTypeOK, RowsOK, RestOK, LocalsOK

LEMMA TouchTyped ==
  ASSUME RowsOK, NEW i \in Id, Touch(i)
  PROVE  stamp' \in [Id -> Nat]
  BY TouchNat DEF RowsOK

LEMMA LegTyped ==
  ASSUME RowsOK, NEW i \in Id, NEW d \in Direction, NEW leg \in Leg, WriteLeg(i, d, leg)
  PROVE  legs' \in [Id -> [Direction -> Leg]]
  BY DEF RowsOK, WriteLeg

LEMMA BootPutTyped ==
  ASSUME boot \in [Process -> BootState], NEW p \in Process, NEW b \in BootState, PutBoot(p, b)
  PROVE  boot' \in [Process -> BootState]
  BY DEF PutBoot

LEMMA StillTyped == Down \in BootState /\ Running \in BootState
  BY AnId, BootTyped DEF Down, Running

LEMMA BootTypes ==
  ASSUME LiaisonTypeOK, NEW p \in Process, BootStep(p), UNCHANGED scenario
  PROVE  LiaisonTypeOK'
<1>1. RowsOK /\ RestOK /\ LocalsOK
  BY TypeParts
<1>2. /\ boot \in [Process -> BootState] /\ boot[p].force \in BOOLEAN /\ boot[p].id \in Id
      /\ boot[p].late \in BOOLEAN
  BY <1>1 DEF LocalsOK, BootState
<1>3. UNCHANGED <<req, edits, faults>>
  BY StartOfBoot
<1> DEFINE Typed == RowsOK' /\ boot' \in [Process -> BootState] /\ disturbed' \in BOOLEAN
           Places == {"down", "repair", "flag", "liaison", "insert", "oldest", "rename",
                      "outbound", "inbound", "done", "up"}
<1>4. ASSUME NEW at \in Places, NEW i \in Id,
             PutBoot(p, Boot(at, "none", boot[p].force, i, boot[p].late))
      PROVE  boot' \in [Process -> BootState]
  BY <1>2, <1>4, BootTyped, BootPutTyped
<1>5. ASSUME NEW at \in Places, GotoBoot(p, at)
      PROVE  boot' \in [Process -> BootState]
  BY <1>2, <1>4, <1>5 DEF GotoBoot
<1>6. PutBoot(p, Down) \/ PutBoot(p, Running) => boot' \in [Process -> BootState]
  BY <1>2, StillTyped, BootPutTyped
<1>7. UNCHANGED tables => RowsOK'
  BY <1>1 DEF tables, RowsOK
<1>8. disturbed' = disturbed => disturbed' \in BOOLEAN
  BY <1>1 DEF RestOK
<1>9. Typed
  <2>1. CASE CountDefaults(p)
    <3>1. PICK many \in {"none", "one", "many"}, late \in BOOLEAN :
            PutBoot(p, Boot("repair", many, FALSE, NoId, late))
      <4> DEFINE many == IF isDefault = {} THEN "none"
                         ELSE IF \E i \in isDefault : isDefault = {i} THEN "one" ELSE "many"
      <4>1. PutBoot(p, Boot("repair", many, FALSE, NoId, edits > 0))
        BY <2>1 DEF CountDefaults
      <4>2. many \in {"none", "one", "many"} /\ (edits > 0) \in BOOLEAN
        OBVIOUS
      <4> HIDE DEF many
      <4>3. QED
        BY <4>1, <4>2
    <3>2. boot' \in [Process -> BootState]
      BY <1>2, <3>1, AnId, BootTyped, BootPutTyped
    <3>3. UNCHANGED tables /\ disturbed' = MeetsAtStart(p)
      BY <2>1 DEF CountDefaults
    <3>4. disturbed' \in BOOLEAN
      BY <3>3 DEF MeetsAtStart
    <3>5. QED
      BY <1>7, <3>2, <3>3, <3>4
  <2>2. CASE RepairDefault(p)
    <3>1. /\ GotoBoot(p, "flag") /\ UNCHANGED <<rows, stamp, legs, used, seeded, disturbed>>
          /\ boot[p].many = "none" /\ rows # {} => isDefault' = isDefault \cup {Oldest(rows)}
          /\ boot[p].many = "many" /\ isDefault # {} => isDefault' = {Oldest(isDefault)}
          /\ ~(boot[p].many = "none" /\ rows # {}) /\ ~(boot[p].many = "many" /\ isDefault # {})
               => isDefault' = isDefault
      BY <2>2 DEF RepairDefault
    <3>2. rows # {} => Oldest(rows) \in rows
      BY <1>1, OldestIn DEF RowsOK
    <3>3. isDefault # {} => Oldest(isDefault) \in isDefault
      BY <1>1, OldestIn DEF RowsOK
    <3>4. isDefault' \subseteq rows
      BY <1>1, <3>1, <3>2, <3>3 DEF RowsOK
    <3>5. boot' \in [Process -> BootState]
      BY <1>5, <3>1
    <3>6. QED
      BY <1>1, <1>8, <3>1, <3>4, <3>5 DEF RowsOK
  <2>3. CASE ReadFlag(p)
    <3>1. seeded \in BOOLEAN
      BY <1>1 DEF RowsOK
    <3>2. (~seeded) \in BOOLEAN
      OBVIOUS
    <3>3. PICK force \in BOOLEAN : PutBoot(p, Boot("liaison", "none", force, NoId, boot[p].late))
      BY <2>3, <3>2 DEF ReadFlag
    <3>4. boot' \in [Process -> BootState]
      BY <1>2, <3>3, AnId, BootTyped, BootPutTyped
    <3>5. UNCHANGED <<tables, disturbed>>
      BY <2>3 DEF ReadFlag
    <3>6. QED
      BY <1>7, <1>8, <3>4, <3>5
  <2>4. CASE CountLiaisons(p)
    <3>1. PutBoot(p, Running) \/ \E at \in {"insert", "oldest"} : GotoBoot(p, at)
      BY <2>4 DEF CountLiaisons
    <3>2. boot' \in [Process -> BootState]
      BY <1>5, <1>6, <3>1
    <3>3. UNCHANGED tables /\ disturbed' = (disturbed \/ (rows = {} /\ MeetsAtStart(p)))
      BY <2>4 DEF CountLiaisons
    <3>4. disturbed' \in BOOLEAN
      BY <3>3
    <3>5. QED
      BY <1>7, <3>2, <3>3, <3>4
  <2>5. CASE SeedInsert(p)
    <3>1. PICK i \in Id \ used :
            /\ rows' = rows \cup {i} /\ isDefault' = isDefault \cup {i} /\ used' = used \cup {i}
            /\ Touch(i) /\ PutBoot(p, Boot("outbound", "none", boot[p].force, i, boot[p].late))
      BY <2>5 DEF SeedInsert
    <3>2. stamp' \in [Id -> Nat]
      BY <1>1, <3>1, TouchTyped
    <3>3. boot' \in [Process -> BootState]
      BY <1>4, <3>1
    <3>4. UNCHANGED <<legs, seeded, disturbed>>
      BY <2>5 DEF SeedInsert
    <3>5. QED
      BY <1>1, <1>8, <3>1, <3>2, <3>3, <3>4 DEF RowsOK
  <2>6. CASE SeedOldest(p)
    <3>1. UNCHANGED <<tables, disturbed>>
      BY <2>6 DEF SeedOldest
    <3>2. CASE rows = {}
      <4>1. PutBoot(p, Down)
        BY <2>6, <3>2 DEF SeedOldest
      <4>2. QED
        BY <1>6, <1>7, <1>8, <3>1, <4>1
    <3>3. CASE rows # {}
      <4>1. PutBoot(p, Boot("rename", "none", boot[p].force, Oldest(rows), boot[p].late))
        BY <2>6, <3>3 DEF SeedOldest
      <4>2. Oldest(rows) \in Id
        BY <1>1, <3>3, OldestIn DEF RowsOK
      <4>3. boot' \in [Process -> BootState]
        BY <1>4, <4>1, <4>2
      <4>4. QED
        BY <1>7, <1>8, <3>1, <4>3
    <3>4. QED
      BY <3>2, <3>3
  <2>7. CASE SeedName(p)
    <3>1. /\ GotoBoot(p, "outbound") /\ UNCHANGED <<rows, isDefault, legs, used, seeded, disturbed>>
          /\ (Touch(boot[p].id) \/ NoTouch)
      BY <2>7 DEF SeedName
    <3>2. stamp' \in [Id -> Nat]
      BY <1>1, <1>2, <3>1, TouchTyped DEF NoTouch, RowsOK
    <3>3. boot' \in [Process -> BootState]
      BY <1>5, <3>1
    <3>4. QED
      BY <1>1, <1>8, <3>1, <3>2, <3>3 DEF RowsOK
  <2>8. CASE \E d \in Direction : SeedLeg(p, d)
    <3>1. PICK d \in Direction : SeedLeg(p, d)
      BY <2>8
    <3>2. WriteLeg(boot[p].id, d, SeedRoute) \/ UNCHANGED legs
      BY <3>1 DEF SeedLeg
    <3>3. legs' \in [Id -> [Direction -> Leg]]
      BY <1>1, <1>2, <3>2, LegTypes, LegTyped DEF RowsOK
    <3>4. PutBoot(p, Down) \/ PutBoot(p, Running) \/ \E at \in {"inbound", "done"} : GotoBoot(p, at)
      BY <3>1 DEF SeedLeg
    <3>5. boot' \in [Process -> BootState]
      BY <1>5, <1>6, <3>4
    <3>6. UNCHANGED <<rows, isDefault, stamp, used, seeded, disturbed>>
      BY <3>1 DEF SeedLeg
    <3>7. QED
      BY <1>1, <1>8, <3>3, <3>5, <3>6 DEF RowsOK
  <2>9. CASE StoreFlag(p)
    <3>1. /\ seeded' = TRUE /\ PutBoot(p, Running)
          /\ UNCHANGED <<rows, isDefault, stamp, legs, used, disturbed>>
      BY <2>9 DEF StoreFlag
    <3>2. boot' \in [Process -> BootState] /\ seeded' \in BOOLEAN
      BY <1>6, <3>1
    <3>3. QED
      BY <1>1, <1>8, <3>1, <3>2 DEF RowsOK
  <2>10. QED
    BY <2>1, <2>2, <2>3, <2>4, <2>5, <2>6, <2>7, <2>8, <2>9 DEF BootStep
<1>10. QED
  BY <1>1, <1>3, <1>9, TypeParts DEF RowsOK, RestOK, LocalsOK, LiaisonTypeOK

LEMMA ReqPut ==
  ASSUME req \in [Request -> ReqState], NEW r \in Request, NEW v \in ReqState,
         req' = [req EXCEPT ![r] = v]
  PROVE  req' \in [Request -> ReqState]
  OBVIOUS

LEMMA RequestTypes ==
  ASSUME LiaisonTypeOK, NEW r \in Request, RequestStep(r) \/ DeleteLiaison(r), UNCHANGED scenario
  PROVE  LiaisonTypeOK'
<1>1. RowsOK /\ RestOK /\ LocalsOK
  BY TypeParts
<1> DEFINE q == req[r]
<1>2. /\ q \in ReqState /\ req \in [Request -> ReqState]
      /\ q.id \in Id /\ q.flag \in BOOLEAN /\ q.outbound \in Leg /\ q.inbound \in Leg
      /\ Idle \in ReqState
  BY <1>1, AnId, LegTypes, ReqTyped DEF LocalsOK, ReqState, Idle
<1> DEFINE Places == {"idle", "insert", "newOut", "newIn", "clear", "set", "get",
                      "editOut", "editIn", "name", "read", "delete", "promote"}
<1>3. ASSUME NEW at \in Places, Goto(r, at)
      PROVE  req' \in [Request -> ReqState]
  <2>1. Req(at, q.id, q.flag, q.outbound, q.inbound) \in ReqState
    BY <1>2, ReqTyped
  <2>2. QED
    BY <1>2, <1>3, <2>1, ReqPut DEF Goto
<1>4. Ends(r) => req' \in [Request -> ReqState]
  BY <1>2, ReqPut DEF Ends
<1>5. ASSUME NEW at \in Places, NEW i \in Id, NEW flag \in BOOLEAN, NEW o \in Leg, NEW n \in Leg,
             req' = [req EXCEPT ![r] = Req(at, i, flag, o, n)]
      PROVE  req' \in [Request -> ReqState]
  BY <1>2, <1>5, ReqTyped, ReqPut
<1>6. "none" \in Leg /\ "inactive" \in Leg /\ NoId \in Id
  BY AnId, LegTypes
<1>7. \A i \in Id, d \in Direction : legs[i][d] \in Leg
  BY <1>1 DEF RowsOK
<1>8. \A b \in Body : b.outbound \in Leg /\ b.inbound \in Leg
  BY BodyAssumption
<1>9. UNCHANGED boot
  BY DEF RequestStep, DeleteLiaison, StartCreate, StartSetDefault, StartEdit, StartEditFirst, StartDelete,
         InsertLiaison, ClearDefault, SetDefault, GetCurrent, StoreName, ReadDefault, PromoteOldest,
         RequestFails, Creating, Editing, InsertLeg, others
<1>10. RestOK'
  <2>1. edits' \in {edits, edits + 1} /\ faults' \in {faults, faults + 1}
    <3>1. CASE StartCreate(r) \/ StartSetDefault(r) \/ StartEdit(r) \/ StartEditFirst(r) \/ StartDelete(r)
      BY <3>1 DEF StartCreate, StartSetDefault, StartEdit, StartEditFirst, StartDelete, Starts
    <3>2. CASE InsertLiaison(r) \/ ClearDefault(r) \/ SetDefault(r) \/ GetCurrent(r) \/ StoreName(r)
               \/ ReadDefault(r) \/ PromoteOldest(r) \/ RequestFails(r)
      BY <3>2 DEF InsertLiaison, ClearDefault, SetDefault, GetCurrent, StoreName, ReadDefault,
           PromoteOldest, RequestFails, others
    <3>3. CASE Creating(r) \/ Editing(r) \/ DeleteLiaison(r)
      BY <3>3 DEF Creating, Editing, InsertLeg, DeleteLiaison, others
    <3>4. QED
      BY <3>1, <3>2, <3>3 DEF RequestStep
  <2>2. disturbed' \in BOOLEAN
    <3>1. CASE StartCreate(r) \/ StartEditFirst(r)
      BY <1>1, <3>1 DEF StartCreate, StartEditFirst, MeetsAtRequest, RestOK
    <3>2. CASE ReadDefault(r) \/ ClearDefault(r) \/ RequestFails(r)
      BY <3>2 DEF ReadDefault, ClearDefault, RequestFails, MeetsAtRequest
    <3>3. CASE StartSetDefault(r) \/ StartEdit(r) \/ StartDelete(r) \/ InsertLiaison(r) \/ SetDefault(r)
               \/ GetCurrent(r) \/ StoreName(r) \/ PromoteOldest(r)
      BY <1>1, <3>3 DEF StartSetDefault, StartEdit, StartDelete, InsertLiaison, SetDefault, GetCurrent,
         StoreName, PromoteOldest, others, RestOK
    <3>4. CASE Creating(r) \/ Editing(r) \/ DeleteLiaison(r)
      BY <1>1, <3>4 DEF Creating, Editing, InsertLeg, DeleteLiaison, others, RestOK
    <3>5. QED
      BY <3>1, <3>2, <3>3, <3>4 DEF RequestStep
  <2>3. QED
    BY <1>1, <2>1, <2>2 DEF RestOK
<1> DEFINE Typed == RowsOK' /\ req' \in [Request -> ReqState]
<1>11. ASSUME NEW at, NEW d \in Direction, NEW leg \in Leg, NEW to \in Places,
              InsertLeg(r, at, d, leg, to)
       PROVE  Typed
  <2>1. UNCHANGED <<rows, isDefault, stamp, used, seeded>>
    BY <1>11 DEF InsertLeg
  <2>2. WriteLeg(q.id, d, leg) \/ UNCHANGED legs
    BY <1>11 DEF InsertLeg
  <2>3. legs' \in [Id -> [Direction -> Leg]]
    BY <1>1, <1>2, <2>2, LegTyped DEF RowsOK
  <2>4. Ends(r) \/ Goto(r, to)
    BY <1>11 DEF InsertLeg
  <2>5. QED
    BY <1>1, <1>3, <1>4, <2>1, <2>3, <2>4 DEF RowsOK
<1>12. Typed
  <2>1. CASE StartCreate(r)
    <3>1. RowsOK'
      BY <2>1, <1>1 DEF StartCreate, tables, RowsOK
    <3>2. (rows = {}) \in BOOLEAN
      OBVIOUS
    <3>3. QED
      BY <2>1, <1>5, <1>6, <3>1, <3>2 DEF StartCreate
  <2>2. CASE InsertLiaison(r)
    <3>1. PICK i \in Id \ used :
            /\ rows' = rows \cup {i} /\ used' = used \cup {i} /\ Touch(i)
            /\ isDefault' = (IF q.flag THEN isDefault \cup {i} ELSE isDefault)
            /\ req' = [req EXCEPT ![r] = Req("newOut", i, @.flag, @.outbound, @.inbound)]
      BY <2>2 DEF InsertLiaison
    <3>2. stamp' \in [Id -> Nat]
      BY <1>1, <3>1, TouchTyped
    <3>3. req' = [req EXCEPT ![r] = Req("newOut", i, q.flag, q.outbound, q.inbound)]
      BY <1>2, <3>1
    <3>4. req' \in [Request -> ReqState]
      BY <1>2, <1>5, <3>3
    <3>5. UNCHANGED <<legs, seeded>>
      BY <2>2 DEF InsertLiaison
    <3>6. QED
      BY <1>1, <3>1, <3>2, <3>4, <3>5 DEF RowsOK
  <2>3. CASE Creating(r)
    <3>1. PICK at : \E d \in Direction, to \in Places : InsertLeg(r, at, d, "inactive", to)
      BY <2>3 DEF Creating, Direction
    <3>2. QED
      BY <1>6, <1>11, <3>1
  <2>4. CASE StartSetDefault(r)
    <3>1. PICK i \in Listed : req' = [req EXCEPT ![r] = Req("clear", i, FALSE, "none", "none")]
      BY <2>4 DEF StartSetDefault
    <3>2. i \in Id
      BY <1>1, <3>1 DEF Listed, RowsOK
    <3>3. req' \in [Request -> ReqState]
      BY <1>5, <1>6, <3>1, <3>2
    <3>4. QED
      BY <2>4, <3>3, <1>1 DEF StartSetDefault, tables, RowsOK
  <2>5. CASE ClearDefault(r)
    <3>1. Goto(r, "set") /\ isDefault' = {} /\ UNCHANGED <<rows, stamp, legs, used, seeded>>
      BY <2>5 DEF ClearDefault
    <3>2. QED
      BY <1>1, <1>3, <3>1 DEF RowsOK
  <2>6. CASE SetDefault(r)
    <3>1. Ends(r) /\ UNCHANGED <<rows, legs, used, seeded>>
      BY <2>6 DEF SetDefault
    <3>2. isDefault' \subseteq rows /\ stamp' \in [Id -> Nat]
      <4>1. CASE q.id \in rows
        <5>1. isDefault' = isDefault \cup {q.id} /\ Touch(q.id)
          BY <2>6, <4>1 DEF SetDefault
        <5>2. QED
          BY <1>1, <1>2, <4>1, <5>1, TouchTyped DEF RowsOK
      <4>2. CASE q.id \notin rows
        BY <2>6, <4>2, <1>1 DEF SetDefault, NoTouch, RowsOK
      <4>3. QED
        BY <4>1, <4>2
    <3>3. QED
      BY <1>1, <1>4, <3>1, <3>2 DEF RowsOK
  <2>7. CASE StartEdit(r)
    <3>1. PICK i \in used, b \in Body :
            req' = [req EXCEPT ![r] = Req("get", i, FALSE, b.outbound, b.inbound)]
      BY <2>7 DEF StartEdit
    <3>2. req' \in [Request -> ReqState]
      BY <1>1, <1>5, <1>8, <3>1 DEF RowsOK
    <3>3. QED
      BY <2>7, <3>2, <1>1 DEF StartEdit, tables, RowsOK
  <2>8. CASE StartEditFirst(r)
    <3>1. PICK b \in Body : req' = [req EXCEPT ![r] =
            IF Listed = {} THEN Req("insert", NoId, rows = {}, b.outbound, b.inbound)
                           ELSE Req("get", First, FALSE, b.outbound, b.inbound)]
      BY <2>8 DEF StartEditFirst
    <3>2. Listed # {} => First \in Id
      <4>1. Listed \subseteq Id /\ Listed \cap isDefault \subseteq Id /\ stamp \in [Id -> Nat]
        BY <1>1 DEF Listed, RowsOK
      <4>2. QED
        BY <4>1, OldestIn DEF First
    <3>3. req' \in [Request -> ReqState]
      <4>1. CASE Listed = {}
        <5>1. req' = [req EXCEPT ![r] = Req("insert", NoId, rows = {}, b.outbound, b.inbound)]
          BY <3>1, <4>1
        <5>2. (rows = {}) \in BOOLEAN
          OBVIOUS
        <5>3. QED
          BY <1>5, <1>6, <1>8, <5>1, <5>2
      <4>2. CASE Listed # {}
        <5>1. req' = [req EXCEPT ![r] = Req("get", First, FALSE, b.outbound, b.inbound)]
          BY <3>1, <4>2
        <5>2. QED
          BY <1>5, <1>8, <3>2, <4>2, <5>1
      <4>3. QED
        BY <4>1, <4>2
    <3>4. QED
      BY <2>8, <3>3, <1>1 DEF StartEditFirst, tables, RowsOK
  <2>9. CASE GetCurrent(r)
    <3>1. RowsOK'
      BY <2>9, <1>1 DEF GetCurrent, tables, RowsOK
    <3>2. CASE q.id \in Listed
      <4>1. PICK o \in Leg, n \in Leg : req' = [req EXCEPT ![r] = Req("editOut", q.id, FALSE, o, n)]
        <5>1. req' = [req EXCEPT ![r] = Req("editOut", q.id, FALSE,
                IF q.outbound = "none" THEN legs[q.id]["outbound"] ELSE q.outbound,
                IF q.inbound = "none" THEN legs[q.id]["inbound"] ELSE q.inbound)]
          BY <2>9, <3>2, <1>2 DEF GetCurrent
        <5>2. "outbound" \in Direction /\ "inbound" \in Direction
          BY DEF Direction
        <5>3. QED
          BY <1>2, <1>7, <5>1, <5>2
      <4>2. QED
        BY <1>2, <1>5, <3>1, <4>1
    <3>3. CASE q.id \notin Listed
      BY <2>9, <1>4, <3>1, <3>3 DEF GetCurrent
    <3>4. QED
      BY <3>2, <3>3
  <2>10. CASE Editing(r)
    <3>1. \/ InsertLeg(r, "editOut", "outbound", q.outbound, "editIn")
          \/ InsertLeg(r, "editIn", "inbound", q.inbound, "name")
      BY <2>10 DEF Editing
    <3>2. QED
      BY <1>2, <1>11, <3>1 DEF Direction
  <2>11. CASE StoreName(r)
    <3>1. Ends(r) /\ UNCHANGED <<rows, isDefault, legs, used, seeded>>
          /\ (Touch(q.id) \/ NoTouch)
      BY <2>11 DEF StoreName
    <3>2. stamp' \in [Id -> Nat]
      BY <1>1, <1>2, <3>1, TouchTyped DEF NoTouch, RowsOK
    <3>3. QED
      BY <1>1, <1>4, <3>1, <3>2 DEF RowsOK
  <2>12. CASE StartDelete(r)
    <3>1. PICK i \in used : req' = [req EXCEPT ![r] = Req("read", i, FALSE, "none", "none")]
      BY <2>12 DEF StartDelete
    <3>2. req' \in [Request -> ReqState]
      BY <1>1, <1>5, <1>6, <3>1 DEF RowsOK
    <3>3. QED
      BY <2>12, <3>2, <1>1 DEF StartDelete, tables, RowsOK
  <2>13. CASE ReadDefault(r)
    <3>1. req' = [req EXCEPT ![r] = Req("delete", q.id, q.id \in isDefault, "none", "none")]
      BY <2>13, <1>2 DEF ReadDefault
    <3>2. (q.id \in isDefault) \in BOOLEAN
      OBVIOUS
    <3>3. req' \in [Request -> ReqState]
      BY <1>2, <1>5, <1>6, <3>1, <3>2
    <3>4. QED
      BY <2>13, <3>3, <1>1 DEF ReadDefault, tables, RowsOK
  <2>14. CASE PromoteOldest(r)
    <3>1. Ends(r) /\ UNCHANGED <<rows, stamp, legs, used, seeded>>
          /\ isDefault' = (IF rows = {} THEN isDefault ELSE isDefault \cup {Oldest(rows)})
      BY <2>14 DEF PromoteOldest
    <3>2. rows # {} => Oldest(rows) \in rows
      BY <1>1, OldestIn DEF RowsOK
    <3>3. QED
      BY <1>1, <1>4, <3>1, <3>2 DEF RowsOK
  <2>15. CASE RequestFails(r)
    BY <2>15, <1>1, <1>4 DEF RequestFails, tables, RowsOK
  <2>16. CASE DeleteLiaison(r)
    <3>1. /\ rows' = rows \ {q.id} /\ isDefault' = isDefault \ {q.id}
          /\ legs' = [legs EXCEPT ![q.id] = [d \in Direction |-> "none"]]
          /\ UNCHANGED <<stamp, used, seeded>>
          /\ (Goto(r, "promote") \/ Ends(r))
      BY <2>16 DEF DeleteLiaison
    <3>2. legs' \in [Id -> [Direction -> Leg]]
      BY <1>1, <1>6, <3>1 DEF RowsOK
    <3>3. QED
      BY <1>1, <1>3, <1>4, <3>1, <3>2 DEF RowsOK
  <2>17. QED
    BY <2>1, <2>2, <2>3, <2>4, <2>5, <2>6, <2>7, <2>8, <2>9, <2>10, <2>11, <2>12, <2>13, <2>14,
       <2>15, <2>16 DEF RequestStep
<1>13. QED
  BY <1>1, <1>9, <1>10, <1>12, TypeParts DEF RowsOK, RestOK, LocalsOK, LiaisonTypeOK

\* The first train of an answer that is not empty.
LEMMA FirstTrain ==
  ASSUME NEW a, DOMAIN a \subseteq Train, DOMAIN a # {}
  PROVE  (CHOOSE t \in DOMAIN a : \A u \in DOMAIN a : t <= u) \in DOMAIN a
<1> DEFINE R == {ss \in Nat \X Nat : ss[1] < ss[2]}
<1>1. IsWellFoundedOn(R, Nat)
  BY NatLessThanWellFounded DEF OpToRel
<1>2. DOMAIN a \subseteq Nat
  BY TrainAssumption
<1>3. PICK x \in DOMAIN a : \A y \in DOMAIN a : ~(<<y, x>> \in R)
  BY <1>1, <1>2, WFMin
<1>4. ASSUME NEW y \in DOMAIN a
      PROVE  x <= y
  <2>1. x \in Nat /\ y \in Nat /\ ~(<<y, x>> \in R)
    BY <1>2, <1>3
  <2>2. (y < x) => <<y, x>> \in R
    BY <2>1
  <2>3. QED
    BY <2>1, <2>2
<1>5. QED
  BY <1>3, <1>4

LEMMA PollTyped ==
  ASSUME NEW at \in {"idle", "list", "fetch", "next", "observe", "count"},
         NEW todo \in SUBSET (Journey \X Route), NEW j \in Journey, NEW route \in Route,
         NEW a \in Answer, NEW t \in Train \cup {0}, NEW s \in Status \cup {"none"}
  PROVE  Poll(at, todo, j, route, a, t, s) \in PollState
  BY DEF Poll, PollState

LEMMA AnswerPart ==
  ASSUME NEW a \in Answer, NEW t
  PROVE  [u \in DOMAIN a \ {t} |-> a[u]] \in Answer
<1>1. PICK T \in SUBSET Train : a \in [T -> Status]
  BY DEF Answer
<1>2. [u \in DOMAIN a \ {t} |-> a[u]] \in [T \ {t} -> Status] /\ T \ {t} \in SUBSET Train
  BY <1>1
<1>3. QED
  BY <1>2 DEF Answer

LEMMA AnswerOf ==
  ASSUME NEW a \in Answer
  PROVE  DOMAIN a \subseteq Train /\ \A t \in DOMAIN a : a[t] \in Status
  BY DEF Answer

LEMMA PollOfTyped ==
  ASSUME NEW at \in {"idle", "list"}, NEW todo \in SUBSET (Journey \X Route)
  PROVE  PollOf(at, todo) \in PollState
<1>1. Empty \in Answer
  <2>1. Empty \in [{} -> Status]
    BY DEF Empty
  <2>2. QED
    BY <2>1 DEF Answer
<1>2. <<NoId, "outbound">> \in Journey /\ SeedRoute \in Route
  BY AnId, RouteAssumption DEF Journey, Direction
<1>3. QED
  BY <1>1, <1>2, PollTyped DEF PollOf

BoardTypeOK ==
  /\ seen \in [Journey -> [Train -> Seen]] /\ counts \in [Id -> [Counted -> Nat]]
  /\ next \in [Journey -> NextTrain]

LEMMA BoardTypeInit == Init => TypeOK
<1> SUFFICES ASSUME Init
             PROVE  TypeOK
  OBVIOUS
<1>1. LiaisonTypeOK
  BY LiaisonTypeInit DEF Init
<1>2. seen \in [Journey -> [Train -> Seen]] /\ next \in [Journey -> NextTrain]
  BY DEF Init, Seen, NextTrain
<1>3. counts \in [Id -> [Counted -> Nat]] /\ purges \in Nat
  BY DEF Init
<1>4. poll \in PollState
  BY PollOfTyped DEF Init, NoPoll
<1>5. QED
  BY <1>1, <1>2, <1>3, <1>4 DEF TypeOK

LEMMA PollTypes == TypeOK /\ (PollStep \/ PollFails) => TypeOK'
<1> SUFFICES ASSUME TypeOK, PollStep \/ PollFails
             PROVE  TypeOK'
  OBVIOUS
<1>1. /\ LiaisonTypeOK /\ BoardTypeOK /\ poll \in PollState /\ purges \in Nat
  BY DEF TypeOK, BoardTypeOK
<1>2. /\ poll.at \in {"idle", "list", "fetch", "next", "observe", "count"}
      /\ poll.todo \in SUBSET (Journey \X Route) /\ poll.j \in Journey /\ poll.route \in Route
      /\ poll.answer \in Answer /\ poll.train \in Train \cup {0} /\ poll.status \in Status \cup {"none"}
  BY <1>1 DEF PollState
<1>3. NoPoll \in PollState
  BY PollOfTyped DEF NoPoll
<1>4. LiaisonTypeOK' /\ UNCHANGED purges
  <2>1. CASE PollStep
    BY <2>1, <1>1 DEF PollStep, StartPoll, FetchDepartures, SaveNext, Observe, Count, EndJourney,
                      LiaisonTypeOK, lvars, tables, others
  <2>2. CASE PollFails
    <3>1. faults' = faults + 1 /\ UNCHANGED <<tables, req, boot, disturbed, edits, purges, scenario>>
      BY <2>2 DEF PollFails
    <3>2. faults \in Nat
      BY <1>1 DEF LiaisonTypeOK
    <3>3. faults' \in Nat
      BY <3>1, <3>2
    <3>4. QED
      BY <1>1, <3>1, <3>3 DEF LiaisonTypeOK, tables
  <2>3. QED
    BY <2>1, <2>2
<1>5. BoardTypeOK' /\ poll' \in PollState
  <2>1. CASE StartPoll
    <3>1. PICK open : open = {<<j, legs[j[1]][j[2]]>> : j \in {k \in Journey : k[2] \in scenario.open /\ Active(k)}}
                      /\ poll' = PollOf("list", open)
      BY <2>1 DEF StartPoll
    <3>2. open \in SUBSET (Journey \X Route)
      BY <3>1 DEF Active
    <3>3. QED
      BY <2>1, <3>1, <3>2, <1>1, PollOfTyped DEF StartPoll, board, BoardTypeOK
  <2>2. CASE FetchDepartures
    <3>1. PICK w \in poll.todo, a \in Answer :
            poll' = Poll("next", poll.todo \ {w}, w[1], w[2], a, 0, "none")
      BY <2>2 DEF FetchDepartures
    <3>2. w[1] \in Journey /\ w[2] \in Route /\ poll.todo \ {w} \in SUBSET (Journey \X Route)
      BY <1>2
    <3>3. poll' \in PollState
      BY <3>1, <3>2, PollTyped
    <3>4. QED
      BY <2>2, <3>3, <1>1 DEF FetchDepartures, board, BoardTypeOK
  <2>3. CASE SaveNext
    <3>1. At("observe") \in PollState
      BY <1>2, PollTyped DEF At
    <3>2. poll' \in PollState
      BY <2>3, <3>1, <1>3 DEF SaveNext
    <3>3. next' \in [Journey -> NextTrain]
      <4> DEFINE a == poll.answer
                 first == CHOOSE t \in DOMAIN a : \A u \in DOMAIN a : t <= u
      <4>1. next \in [Journey -> NextTrain] /\ NoNext \in NextTrain
        BY <1>1 DEF BoardTypeOK, NextTrain
      <4>2. DOMAIN a # {} => [route |-> poll.route, train |-> first, status |-> a[first]] \in NextTrain
        <5> HAVE DOMAIN a # {}
        <5>1. first \in DOMAIN a
          BY <1>2, AnswerOf, FirstTrain
        <5>2. first \in Train /\ a[first] \in Status
          BY <5>1, <1>2, AnswerOf
        <5> HIDE DEF first
        <5>3. QED
          BY <5>2, <1>2 DEF NextTrain
      <4>3. \/ next' = [next EXCEPT ![poll.j] = NoNext]
            \/ DOMAIN a # {} /\ next' = [next EXCEPT ![poll.j] =
                 [route |-> poll.route, train |-> first, status |-> a[first]]]
            \/ next' = next
        BY <2>3 DEF SaveNext
      <4> HIDE DEF first
      <4>4. QED
        BY <4>1, <4>2, <4>3
    <3>4. QED
      BY <2>3, <3>2, <3>3, <1>1 DEF SaveNext, BoardTypeOK
  <2>4. CASE Observe
    <3>1. PICK t \in DOMAIN poll.answer :
            LET s == poll.answer[t]
                left == [u \in DOMAIN poll.answer \ {t} |-> poll.answer[u]]
                created == seen[poll.j][t] = Unseen
            IN IF Exists(poll.j)
                 THEN /\ seen' = [seen EXCEPT ![poll.j][t] =
                           [status |-> s, first |-> IF created THEN s ELSE @.first]]
                      /\ poll' = Poll(IF created THEN "count" ELSE "observe",
                                      poll.todo, poll.j, poll.route, left, t, s)
                 ELSE poll' = NoPoll /\ UNCHANGED seen
      BY <2>4 DEF Observe
    <3> DEFINE s == poll.answer[t]
               left == [u \in DOMAIN poll.answer \ {t} |-> poll.answer[u]]
    <3>2. t \in Train /\ s \in Status /\ left \in Answer
      BY <1>2, AnswerOf, AnswerPart
    <3> HIDE DEF s, left
    <3>3. ASSUME NEW at \in {"count", "observe"}
          PROVE  Poll(at, poll.todo, poll.j, poll.route, left, t, s) \in PollState
      BY <1>2, <3>2, PollTyped
    <3>4. UNCHANGED <<counts, next>>
      BY <2>4 DEF Observe
    <3>5. seen[poll.j][t] \in Seen /\ seen \in [Journey -> [Train -> Seen]]
      BY <1>1, <1>2, <3>2 DEF BoardTypeOK
    <3>6. seen[poll.j][t] # Unseen => seen[poll.j][t].first \in Status
      BY <3>5 DEF Seen
    <3>7. CASE ~Exists(poll.j)
      BY <3>1, <3>4, <3>7, <1>1, <1>3 DEF BoardTypeOK
    <3>8. CASE Exists(poll.j)
      <4>1. PICK f \in Status :
              seen' = [seen EXCEPT ![poll.j] = [@ EXCEPT ![t] = [status |-> s, first |-> f]]]
        <5>1. seen' = [seen EXCEPT ![poll.j] = [seen[poll.j] EXCEPT ![t] =
                [status |-> s, first |-> IF seen[poll.j][t] = Unseen THEN s ELSE seen[poll.j][t].first]]]
          BY <3>1, <3>8 DEF s, Exists
        <5> DEFINE f == IF seen[poll.j][t] = Unseen THEN s ELSE seen[poll.j][t].first
        <5>2. f \in Status
          BY <3>2, <3>6
        <5>3. seen' = [seen EXCEPT ![poll.j] = [seen[poll.j] EXCEPT ![t] = [status |-> s, first |-> f]]]
          BY <5>1
        <5> HIDE DEF f
        <5>4. QED
          BY <5>2, <5>3
      <4>2. [status |-> s, first |-> f] \in Seen
        BY <3>2 DEF Seen
      <4>3. seen' \in [Journey -> [Train -> Seen]]
        BY <3>5, <4>1, <4>2
      <4>4. PICK at \in {"count", "observe"} :
              poll' = Poll(at, poll.todo, poll.j, poll.route, left, t, s)
        BY <3>1, <3>8 DEF s, left
      <4>5. QED
        BY <1>1, <3>3, <3>4, <4>3, <4>4 DEF BoardTypeOK
    <3>9. QED
      BY <3>7, <3>8
  <2>5. CASE Count
    <3>1. poll' \in PollState
      BY <2>5, <1>2, PollTyped DEF Count
    <3>2. counts' \in [Id -> [Counted -> Nat]]
      <4>1. CASE Exists(poll.j) /\ poll.status \in Counted
        <5>1. counts' = [counts EXCEPT ![poll.j[1]] =
                          [counts[poll.j[1]] EXCEPT ![poll.status] = counts[poll.j[1]][poll.status] + 1]]
          BY <2>5, <4>1 DEF Count, Exists
        <5>2. poll.j[1] \in Id /\ counts \in [Id -> [Counted -> Nat]]
          BY <1>1, <1>2 DEF Journey, BoardTypeOK
        <5>3. counts[poll.j[1]][poll.status] + 1 \in Nat
          BY <4>1, <5>2
        <5> DEFINE row == [counts[poll.j[1]] EXCEPT ![poll.status] = counts[poll.j[1]][poll.status] + 1]
        <5>4. row \in [Counted -> Nat]
          BY <4>1, <5>2, <5>3
        <5>5. counts' = [counts EXCEPT ![poll.j[1]] = row]
          BY <5>1
        <5> HIDE DEF row
        <5>6. QED
          BY <5>2, <5>4, <5>5
      <4>2. CASE ~(Exists(poll.j) /\ poll.status \in Counted)
        BY <2>5, <4>2, <1>1 DEF Count, BoardTypeOK
      <4>3. QED
        BY <4>1, <4>2
    <3>3. QED
      BY <2>5, <3>1, <3>2, <1>1 DEF Count, BoardTypeOK
  <2>6. CASE EndJourney
    <3>1. poll' \in PollState
      BY <2>6, <1>2, <1>3, PollOfTyped DEF EndJourney
    <3>2. QED
      BY <2>6, <3>1, <1>1 DEF EndJourney, board, BoardTypeOK
  <2>7. CASE PollFails
    BY <2>7, <1>1, <1>3 DEF PollFails, board, BoardTypeOK
  <2>8. QED
    BY <2>1, <2>2, <2>3, <2>4, <2>5, <2>6, <2>7 DEF PollStep
<1>6. QED
  BY <1>1, <1>4, <1>5 DEF TypeOK, BoardTypeOK

LEMMA BoardTypeNext == TypeOK /\ [Next]_vars => TypeOK'
<1> SUFFICES ASSUME TypeOK, [Next]_vars
             PROVE  TypeOK'
  OBVIOUS
<1>1. LiaisonTypeOK /\ BoardTypeOK /\ poll \in PollState /\ purges \in Nat
  BY DEF TypeOK, BoardTypeOK
<1>2. ASSUME LiaisonTypeOK', UNCHANGED <<board, poll, purges>>
      PROVE  TypeOK'
  BY <1>1, <1>2 DEF TypeOK, BoardTypeOK, board
<1>3. CASE \E p \in Process : Started(p)
  BY <1>1, <1>2, <1>3, BootTypes DEF Started
<1>4. CASE Requested
  <2>1. PICK r \in Request : (RequestStep(r) /\ UNCHANGED <<board, poll, purges, scenario>>) \/ Delete(r)
    BY <1>4 DEF Requested
  <2>2. CASE RequestStep(r) /\ UNCHANGED <<board, poll, purges, scenario>>
    BY <1>1, <1>2, <2>2, RequestTypes
  <2>3. CASE Delete(r)
    <3>1. LiaisonTypeOK'
      BY <1>1, <2>3, RequestTypes DEF Delete
    <3> DEFINE i == req[r].id
    <3>2. /\ seen' = [j \in Journey |-> IF j[1] = i THEN [t \in Train |-> Unseen] ELSE seen[j]]
          /\ next' = [j \in Journey |-> IF j[1] = i THEN NoNext ELSE next[j]]
          /\ counts' = [counts EXCEPT ![i] = [c \in Counted |-> 0]]
          /\ UNCHANGED <<poll, purges>>
      BY <2>3 DEF Delete
    <3>3. Unseen \in Seen /\ NoNext \in NextTrain
      BY DEF Seen, NextTrain
    <3>4. BoardTypeOK'
      BY <1>1, <3>2, <3>3 DEF BoardTypeOK
    <3>5. QED
      BY <1>1, <3>1, <3>2, <3>4 DEF TypeOK, BoardTypeOK
  <2>4. QED
    BY <2>1, <2>2, <2>3
<1>5. CASE PollStep \/ PollFails
  BY <1>5, PollTypes
<1>6. CASE ClearStats
  <2>1. /\ seen' = [j \in Journey |-> [t \in Train |-> Unseen]]
        /\ counts' = [i \in Id |-> [c \in Counted |-> 0]] /\ UNCHANGED <<next, poll>>
        /\ purges' = purges + 1 /\ UNCHANGED lvars
    BY <1>6 DEF ClearStats
  <2>2. Unseen \in Seen
    BY DEF Seen
  <2>3. BoardTypeOK' /\ purges' \in Nat
    BY <1>1, <2>1, <2>2 DEF BoardTypeOK
  <2>4. LiaisonTypeOK'
    BY <1>1, <2>1 DEF LiaisonTypeOK, lvars, tables, others
  <2>5. QED
    BY <1>1, <2>1, <2>3, <2>4 DEF TypeOK, BoardTypeOK
<1>7. ASSUME NEW p \in Process, Restart(p)
      PROVE  TypeOK'
  <2>1. /\ PutBoot(p, Down) /\ (req' = [r \in Request |-> Idle] \/ req' = req) /\ faults' = faults + 1
        /\ UNCHANGED <<tables, edits, board, purges, scenario>> /\ (poll' = NoPoll \/ poll' = poll)
        /\ disturbed' = (disturbed \/ Judging(p))
    BY <1>7 DEF Restart, Crash
  <2>2. RowsOK /\ RestOK /\ LocalsOK
    BY <1>1, TypeParts
  <2>3. boot' \in [Process -> BootState]
    BY <2>1, <2>2, StillTyped, BootPutTyped DEF LocalsOK
  <2>4. req' \in [Request -> ReqState]
    <3>1. Idle \in ReqState
      BY AnId, LegTypes, ReqTyped DEF Idle
    <3>2. QED
      BY <2>1, <2>2, <3>1 DEF LocalsOK
  <2>5. RowsOK' /\ RestOK'
    BY <2>1, <2>2 DEF tables, RowsOK, RestOK
  <2>6. LiaisonTypeOK'
    BY <2>3, <2>4, <2>5 DEF RowsOK, RestOK, LiaisonTypeOK
  <2>7. NoPoll \in PollState
    BY PollOfTyped DEF NoPoll
  <2>8. QED
    BY <1>1, <2>1, <2>6, <2>7 DEF TypeOK, BoardTypeOK, board
<1>8. CASE UNCHANGED vars
  BY <1>1, <1>8 DEF vars, lvars, tables, others, board, TypeOK, LiaisonTypeOK
<1>9. QED
  BY <1>3, <1>4, <1>5, <1>6, <1>7, <1>8 DEF Next

\* Every row, every local of a request, of a start and of the poll keeps its type,
\* for any liaisons, routes, editors and trains (domain/store.ts, adapters/ingest.ts).
THEOREM BoardTypeCorrect == Spec => []TypeOK
<1>1. QED
  BY BoardTypeInit, BoardTypeNext, PTL DEF Spec

-----------------------------------------------------------------------------
(* Legs are filled, never emptied: what a poll holds is a journey that is  *)
(* there, or one whose liaison was deleted, for an id is given once.       *)

\* A request that writes legs read a liaison that has both.
ReqFull ==
  \A r \in Request : req[r].at \in {"editOut", "editIn"}
                       => req[r].outbound # "none" /\ req[r].inbound # "none"

\* A step empties a leg, or gives an id again, only with the liaison it deletes.
LegsStay ==
  /\ used \subseteq used' /\ rows' \cap used \subseteq rows
  /\ \A i \in rows', d \in Direction : legs[i][d] # "none" => legs'[i][d] # "none"

LEMMA LegFilled ==
  ASSUME legs \in [Id -> [Direction -> Leg]], NEW i \in Id, NEW d \in Direction,
         NEW leg, leg # "none", WriteLeg(i, d, leg)
  PROVE  \A k \in Id, e \in Direction : legs[k][e] # "none" => legs'[k][e] # "none"
  BY DEF WriteLeg

LEMMA SameTables ==
  ASSUME UNCHANGED <<rows, used, legs>>
  PROVE  LegsStay
  BY DEF LegsStay

LEMMA LegWrittenStays ==
  ASSUME LiaisonTypeOK, UNCHANGED <<rows, used>>,
         NEW i \in Id, NEW d \in Direction, NEW leg, leg # "none",
         WriteLeg(i, d, leg) \/ UNCHANGED legs
  PROVE  LegsStay
<1>1. rows \subseteq Id /\ legs \in [Id -> [Direction -> Leg]]
  BY DEF LiaisonTypeOK
<1>2. \A k \in Id, e \in Direction : legs[k][e] # "none" => legs'[k][e] # "none"
  BY <1>1, LegFilled
<1>3. QED
  BY <1>1, <1>2 DEF LegsStay

LEMMA NewRowStays ==
  ASSUME LiaisonTypeOK, NEW i \in Id \ used, rows' = rows \cup {i}, used' = used \cup {i},
         UNCHANGED legs
  PROVE  LegsStay
  BY DEF LegsStay, LiaisonTypeOK

LEMMA BootStays ==
  ASSUME LiaisonTypeOK, NEW p \in Process, BootStep(p)
  PROVE  LegsStay
<1>1. CASE CountDefaults(p) \/ RepairDefault(p) \/ ReadFlag(p) \/ CountLiaisons(p) \/ SeedOldest(p)
           \/ SeedName(p) \/ StoreFlag(p)
  BY <1>1, SameTables DEF CountDefaults, RepairDefault, ReadFlag, CountLiaisons, SeedOldest, SeedName,
     StoreFlag, tables
<1>2. CASE SeedInsert(p)
  BY <1>2, NewRowStays DEF SeedInsert
<1>3. CASE \E d \in Direction : SeedLeg(p, d)
  <2>1. PICK d \in Direction : SeedLeg(p, d)
    BY <1>3
  <2>2. SeedRoute # "none" /\ boot[p].id \in Id
    BY RouteAssumption DEF LiaisonTypeOK, BootState
  <2>3. UNCHANGED <<rows, used>> /\ (WriteLeg(boot[p].id, d, SeedRoute) \/ UNCHANGED legs)
    BY <2>1 DEF SeedLeg
  <2>4. QED
    BY <2>2, <2>3, LegWrittenStays
<1>4. QED
  BY <1>1, <1>2, <1>3 DEF BootStep

LEMMA RequestStays ==
  ASSUME LiaisonTypeOK, ReqFull, NEW r \in Request, RequestStep(r) \/ DeleteLiaison(r)
  PROVE  LegsStay
<1>1. req[r].id \in Id
  BY DEF LiaisonTypeOK, ReqState
<1>2. ASSUME NEW at, NEW d \in Direction, NEW leg, leg # "none", NEW to, InsertLeg(r, at, d, leg, to)
      PROVE  LegsStay
  <2>1. UNCHANGED <<rows, used>> /\ (WriteLeg(req[r].id, d, leg) \/ UNCHANGED legs)
    BY <1>2 DEF InsertLeg
  <2>2. QED
    BY <1>1, <1>2, <2>1, LegWrittenStays
<1>3. CASE StartCreate(r) \/ StartSetDefault(r) \/ StartEdit(r) \/ StartEditFirst(r) \/ StartDelete(r)
  BY <1>3, SameTables DEF StartCreate, StartSetDefault, StartEdit, StartEditFirst, StartDelete, tables
<1>4. CASE ClearDefault(r) \/ SetDefault(r) \/ GetCurrent(r) \/ StoreName(r) \/ ReadDefault(r)
           \/ PromoteOldest(r) \/ RequestFails(r)
  BY <1>4, SameTables DEF ClearDefault, SetDefault, GetCurrent, StoreName, ReadDefault,
     PromoteOldest, RequestFails, tables
<1>5. CASE InsertLiaison(r)
  BY <1>5, NewRowStays DEF InsertLiaison
<1>6. CASE Creating(r)
  BY <1>2, <1>6 DEF Creating, Direction
<1>7. CASE Editing(r)
  <2>1. req[r].outbound # "none" /\ req[r].inbound # "none"
    BY <1>7 DEF Editing, InsertLeg, ReqFull
  <2>2. QED
    BY <1>2, <1>7, <2>1 DEF Editing, Direction
<1>8. CASE DeleteLiaison(r)
  <2>1. /\ rows' = rows \ {req[r].id} /\ UNCHANGED used
        /\ legs' = [legs EXCEPT ![req[r].id] = [d \in Direction |-> "none"]]
    BY <1>8 DEF DeleteLiaison
  <2>2. rows \subseteq Id /\ legs \in [Id -> [Direction -> Leg]]
    BY DEF LiaisonTypeOK
  <2>3. \A i \in rows' : legs'[i] = legs[i]
    BY <2>1, <2>2
  <2>4. QED
    BY <2>1, <2>3 DEF LegsStay
<1>9. QED
  BY <1>3, <1>4, <1>5, <1>6, <1>7, <1>8 DEF RequestStep

\* Every step of the system.
LEMMA EveryStepStays == TypeOK /\ ReqFull /\ [Next]_vars => LegsStay
<1> SUFFICES ASSUME TypeOK, ReqFull, [Next]_vars
             PROVE  LegsStay
  OBVIOUS
<1>1. LiaisonTypeOK
  BY DEF TypeOK
<1>2. CASE \E p \in Process : Started(p)
  BY <1>1, <1>2, BootStays DEF Started
<1>3. CASE Requested
  BY <1>1, <1>3, RequestStays DEF Requested, Delete
<1>4. CASE PollStep \/ PollFails \/ ClearStats \/ (\E p \in Process : Restart(p)) \/ UNCHANGED vars
  <2>1. UNCHANGED <<rows, used, legs>>
    BY <1>4 DEF PollStep, PollFails, ClearStats, Restart, Crash, StartPoll, FetchDepartures, SaveNext,
           Observe, Count, EndJourney, vars, lvars, tables
  <2>2. QED
    BY <2>1, SameTables
<1>5. QED
  BY <1>2, <1>3, <1>4 DEF Next

\* A request keeps the others' records, and comes to write legs from two places.
LEMMA RequestMoves ==
  ASSUME LiaisonTypeOK, ReqFull, NEW r \in Request, RequestStep(r) \/ DeleteLiaison(r)
  PROVE  /\ \A q \in Request \ {r} : req'[q] = req[q]
         /\ req'[r].at \in {"editOut", "editIn"}
              => req'[r].outbound # "none" /\ req'[r].inbound # "none"
<1>1. DOMAIN req = Request
  BY DEF LiaisonTypeOK
<1>2. CASE StartCreate(r) \/ StartSetDefault(r) \/ StartEdit(r) \/ StartDelete(r)
  BY <1>1, <1>2 DEF StartCreate, StartSetDefault, StartEdit, StartDelete, Req
<1>3. CASE StartEditFirst(r)
  <2>1. PICK b \in Body : req' = [req EXCEPT ![r] =
          IF Listed = {} THEN Req("insert", NoId, rows = {}, b.outbound, b.inbound)
                         ELSE Req("get", First, FALSE, b.outbound, b.inbound)]
    BY <1>3 DEF StartEditFirst
  <2>2. CASE Listed = {}
    <3>1. req'[r] = Req("insert", NoId, rows = {}, b.outbound, b.inbound)
      BY <1>1, <2>1, <2>2
    <3>2. req'[r].at = "insert"
      BY <3>1 DEF Req
    <3>3. QED
      BY <1>1, <2>1, <3>2
  <2>3. CASE Listed # {}
    <3>1. req'[r] = Req("get", First, FALSE, b.outbound, b.inbound)
      BY <1>1, <2>1, <2>3
    <3>2. req'[r].at = "get"
      BY <3>1 DEF Req
    <3>3. QED
      BY <1>1, <2>1, <3>2
  <2>4. QED
    BY <2>2, <2>3
<1>4. CASE InsertLiaison(r)
  BY <1>1, <1>4 DEF InsertLiaison, Req
<1>5. CASE ReadDefault(r)
  BY <1>1, <1>5 DEF ReadDefault, Req
<1>6. CASE SetDefault(r) \/ StoreName(r) \/ PromoteOldest(r) \/ RequestFails(r)
  BY <1>1, <1>6 DEF SetDefault, StoreName, PromoteOldest, RequestFails, Ends, Idle, Req
<1>7. CASE ClearDefault(r) \/ DeleteLiaison(r)
  BY <1>1, <1>7 DEF ClearDefault, DeleteLiaison, Ends, Goto, Idle, Req
<1>8. CASE Creating(r)
  BY <1>1, <1>8 DEF Creating, InsertLeg, Ends, Goto, Idle, Req
<1>9. CASE Editing(r)
  <2>1. req[r].outbound # "none" /\ req[r].inbound # "none"
    BY <1>9 DEF Editing, InsertLeg, ReqFull
  <2>2. Ends(r) \/ Goto(r, "name") \/ Goto(r, "editIn")
    BY <1>9 DEF Editing, InsertLeg
  <2>3. CASE Ends(r) \/ Goto(r, "name")
    BY <1>1, <2>3 DEF Ends, Goto, Idle, Req
  <2>4. CASE Goto(r, "editIn")
    BY <1>1, <2>1, <2>4 DEF Goto, Req
  <2>5. QED
    BY <2>2, <2>3, <2>4
<1>10. CASE GetCurrent(r)
  <2> DEFINE Merged(d, asked) == IF asked = "none" THEN legs[req[r].id][d] ELSE asked
             o == Merged("outbound", req[r].outbound)
             n == Merged("inbound", req[r].inbound)
  <2>1. CASE req[r].id \in Listed
    <3>1. req' = [req EXCEPT ![r] = Req("editOut", req[r].id, FALSE, o, n)]
      BY <1>10, <2>1 DEF GetCurrent
    <3>2. \A d \in Direction : legs[req[r].id][d] # "none"
      BY <2>1 DEF Listed, Complete
    <3>3. o # "none" /\ n # "none"
      BY <3>2 DEF Direction
    <3> HIDE DEF Merged, o, n
    <3>4. QED
      BY <1>1, <3>1, <3>3 DEF Req
  <2>2. CASE req[r].id \notin Listed
    BY <1>1, <1>10, <2>2 DEF GetCurrent, Ends, Idle, Req
  <2>3. QED
    BY <2>1, <2>2
<1>11. QED
  BY <1>2, <1>3, <1>4, <1>5, <1>6, <1>7, <1>8, <1>9, <1>10 DEF RequestStep

LEMMA FullNext == TypeOK /\ ReqFull /\ [Next]_vars => ReqFull'
<1> SUFFICES ASSUME TypeOK, ReqFull, [Next]_vars
             PROVE  ReqFull'
  OBVIOUS
<1>1. LiaisonTypeOK
  BY DEF TypeOK
<1>2. CASE Requested
  BY <1>1, <1>2, RequestMoves DEF Requested, Delete, ReqFull
<1>3. CASE \E p \in Process : Restart(p)
  <2>1. req' = [r \in Request |-> Idle] \/ req' = req
    BY <1>3 DEF Restart, Crash
  <2>2. Idle.at = "idle"
    BY DEF Idle, Req
  <2>3. QED
    BY <2>1, <2>2 DEF ReqFull
<1>4. CASE \E p \in Process : Started(p)
  BY <1>4, StartOfBoot DEF Started, ReqFull
<1>5. CASE PollStep \/ PollFails \/ ClearStats \/ UNCHANGED vars
  <2>1. UNCHANGED req
    BY <1>5 DEF PollStep, PollFails, ClearStats, StartPoll, FetchDepartures, SaveNext,
           Observe, Count, EndJourney, vars, lvars
  <2>2. QED
    BY <2>1 DEF ReqFull
<1>6. QED
  BY <1>2, <1>3, <1>4, <1>5 DEF Next

-----------------------------------------------------------------------------
\* A journey the poll took from the table is still there, or its liaison is gone.
Live(j) == j[1] \in used /\ (j[1] \in rows => Exists(j))
Polls == poll.at \in {"next", "observe", "count"}
PollLive == (\A w \in poll.todo : Live(w[1])) /\ (Polls => Live(poll.j))

LEMMA LiveStays ==
  ASSUME LegsStay, NEW j \in Journey, Live(j)
  PROVE  Live(j)'
<1>1. j[1] \in Id /\ j[2] \in Direction
  BY DEF Journey
<1>2. j[1] \in rows' => j[1] \in rows /\ legs[j[1]][j[2]] # "none"
  BY DEF LegsStay, Live, Exists
<1>3. QED
  BY <1>1, <1>2 DEF LegsStay, Live, Exists

LEMMA PollFieldsAll ==
  ASSUME NEW at, NEW todo, NEW j, NEW route, NEW answer, NEW train, NEW status
  PROVE  /\ Poll(at, todo, j, route, answer, train, status).at = at
         /\ Poll(at, todo, j, route, answer, train, status).status = status
  BY DEF Poll

\* What the poll goes on with is something it already held.
Narrows ==
  /\ poll'.todo \subseteq poll.todo
  /\ Polls' => \/ Polls /\ poll'.j = poll.j
               \/ \E w \in poll.todo : poll'.j = w[1]

LEMMA NarrowsStays ==
  ASSUME TypeOK, LeftInv, PollLive, LegsStay, Narrows
  PROVE  PollLive'
<1>1. poll.j \in Journey /\ \A w \in poll.todo : w[1] \in Journey
  BY DEF LeftInv, PollOK
<1>2. \A j \in Journey : Live(j) => Live(j)'
  BY LiveStays
<1>3. \A w \in poll.todo : Live(w[1])'
  BY <1>1, <1>2 DEF PollLive
<1>4. Polls' => \E j \in Journey : poll'.j = j /\ Live(j)
  BY <1>1 DEF Narrows, PollLive
<1>5. Polls' => Live(poll.j)'
  <2>1. SUFFICES ASSUME Polls'
                 PROVE  Live(poll.j)'
    OBVIOUS
  <2>2. PICK j \in Journey : poll'.j = j /\ Live(j)'
    BY <1>2, <1>4, <2>1
  <2>3. QED
    BY <2>2 DEF Live, Exists
<1>6. QED
  BY <1>3, <1>5 DEF Narrows, PollLive

LEMMA PollLiveNext == TypeOK /\ LeftInv /\ ReqFull /\ PollLive /\ [Next]_vars => PollLive'
<1> SUFFICES ASSUME TypeOK, LeftInv, ReqFull, PollLive, [Next]_vars
             PROVE  PollLive'
  OBVIOUS
<1>1. LegsStay
  BY EveryStepStays
<1>2. CASE UNCHANGED poll
  BY <1>1, <1>2, NarrowsStays DEF Narrows, Polls
<1>3. CASE poll' = NoPoll
  <2>1. poll'.todo = {} /\ poll'.at = "idle"
    BY <1>3, PollFields, PollFieldsAll DEF NoPoll, PollOf
  <2>2. QED
    BY <2>1 DEF PollLive, Polls
<1>4. CASE StartPoll
  <2> DEFINE open == {<<j, legs[j[1]][j[2]]>> : j \in {k \in Journey : k[2] \in scenario.open /\ Active(k)}}
  <2>1. poll' = PollOf("list", open) /\ UNCHANGED <<rows, used, legs>>
    BY <1>4 DEF StartPoll, lvars, tables
  <2>2. poll'.todo = open /\ poll'.at = "list"
    BY <2>1, PollFields, PollFieldsAll DEF PollOf
  <2>3. ASSUME NEW j \in Journey, Active(j)
        PROVE  Live(j)'
    <3>1. j[1] \in Id /\ j[2] \in Direction /\ Exists(j)
      BY <2>3, RouteAssumption DEF Journey, Active, Exists
    <3>2. j[1] \in rows
      BY <3>1 DEF LeftInv, BareInv, Bare, Exists
    <3>3. j[1] \in used
      BY <3>2 DEF TypeOK, LiaisonTypeOK
    <3>4. Live(j)
      BY <3>1, <3>3 DEF Live
    <3>5. QED
      BY <1>1, <3>4, LiveStays
  <2>4. \A w \in open : Live(w[1])'
    BY <2>3
  <2>5. QED
    BY <2>2, <2>4 DEF PollLive, Polls
<1>5. CASE FetchDepartures
  <2>1. PICK w \in poll.todo, a \in Answer :
          poll' = Poll("next", poll.todo \ {w}, w[1], w[2], a, 0, "none")
    BY <1>5 DEF FetchDepartures
  <2>2. poll'.todo = poll.todo \ {w} /\ poll'.j = w[1]
    BY <2>1, PollFields
  <2>3. QED
    BY <1>1, <2>2, NarrowsStays DEF Narrows
<1>6. ASSUME NEW at, NEW answer, NEW train, NEW status, Polls,
             poll' = Poll(at, poll.todo, poll.j, poll.route, answer, train, status)
      PROVE  PollLive'
  <2>1. poll'.todo = poll.todo /\ poll'.j = poll.j
    BY <1>6, PollFields
  <2>2. QED
    BY <1>1, <1>6, <2>1, NarrowsStays DEF Narrows
<1>7. CASE SaveNext
  <2>1. Polls
    BY <1>7 DEF SaveNext, Polls
  <2>2. poll' = At("observe") \/ poll' = NoPoll
    BY <1>7 DEF SaveNext
  <2>3. QED
    BY <1>3, <1>6, <2>1, <2>2 DEF At
<1>8. CASE Observe
  <2>1. Polls
    BY <1>8 DEF Observe, Polls
  <2>2. \/ poll' = NoPoll
        \/ \E at, answer, train, status :
             poll' = Poll(at, poll.todo, poll.j, poll.route, answer, train, status)
    BY <1>8 DEF Observe
  <2>3. QED
    BY <1>3, <1>6, <2>1, <2>2
<1>9. CASE Count
  <2>1. Polls /\ poll' = Poll("observe", poll.todo, poll.j, poll.route, poll.answer, 0, "none")
    BY <1>9 DEF Count, Polls
  <2>2. QED
    BY <1>6, <2>1
<1>10. CASE EndJourney
  <2>1. CASE poll.todo = {}
    BY <1>3, <1>10, <2>1 DEF EndJourney
  <2>2. CASE poll.todo # {}
    <3>1. poll' = PollOf("list", poll.todo)
      BY <1>10, <2>2 DEF EndJourney
    <3>2. poll'.todo = poll.todo /\ poll'.at = "list"
      BY <3>1, PollFields, PollFieldsAll DEF PollOf
    <3>3. QED
      BY <1>1, <3>2, NarrowsStays DEF Narrows, Polls
  <2>3. QED
    BY <2>1, <2>2
<1>11. CASE PollFails \/ \E p \in Process : Restart(p)
  BY <1>2, <1>3, <1>11 DEF PollFails, Restart
<1>12. CASE (\E p \in Process : Started(p)) \/ Requested \/ ClearStats \/ UNCHANGED vars
  BY <1>2, <1>12 DEF Started, Requested, Delete, ClearStats, vars
<1>13. QED
  BY <1>4, <1>5, <1>7, <1>8, <1>9, <1>10, <1>11, <1>12 DEF Next, PollStep

-----------------------------------------------------------------------------
\* The counters against the rows they count: a purge between the two statements
\* adds one, a fault there loses one, and an id is never given again.
OwedOf(i, c) == IF Owed(i, c) THEN 1 ELSE 0
Counts(i, c) ==
  /\ counts[i][c] + OwedOf(i, c) <= Cardinality(Rows(i, c)) + purges
  /\ Cardinality(Rows(i, c)) <= counts[i][c] + faults + OwedOf(i, c)
CountInv == \A i \in rows, c \in Counted : Counts(i, c)

LEMMA RowsFinite ==
  ASSUME NEW i, NEW c
  PROVE  IsFiniteSet(Rows(i, c)) /\ Cardinality(Rows(i, c)) \in Nat
<1>1. IsFiniteSet({"outbound", "inbound"})
  <2>1. IsFiniteSet({"outbound"} \cup {"inbound"})
    BY FS_Singleton, FS_AddElement
  <2>2. {"outbound", "inbound"} = {"outbound"} \cup {"inbound"}
    OBVIOUS
  <2>3. QED
    BY <2>1, <2>2
<1>2. IsFiniteSet(Direction \X Train)
  BY <1>1, TrainAssumption, FS_Product DEF Direction
<1>3. Rows(i, c) \subseteq Direction \X Train
  BY DEF Rows
<1>4. QED
  BY <1>2, <1>3, FS_Subset, FS_CardinalityType

LEMMA CountNumbers ==
  ASSUME TypeOK, NEW i \in Id, NEW c \in Counted
  PROVE  counts[i][c] \in Nat /\ purges \in Nat /\ faults \in Nat /\ OwedOf(i, c) \in {0, 1}
  BY DEF TypeOK, LiaisonTypeOK, OwedOf

\* A liaison none of whose rows, counters and debts change.
LEMMA CountsKept ==
  ASSUME NEW i, NEW c, Counts(i, c), UNCHANGED <<seen, purges, faults>>,
         counts'[i] = counts[i], Owed(i, c)' <=> Owed(i, c)
  PROVE  Counts(i, c)'
<1>1. Rows(i, c)' = Rows(i, c) /\ OwedOf(i, c)' = OwedOf(i, c)
  BY DEF Rows, OwedOf
<1>2. QED
  BY <1>1 DEF Counts

\* A fault forgives what was owed.
LEMMA CountsForgiven ==
  ASSUME TypeOK, NEW i \in Id, NEW c \in Counted, Counts(i, c), UNCHANGED <<seen, counts, purges>>,
         faults' = faults + 1, poll' = NoPoll
  PROVE  Counts(i, c)'
<1>1. Rows(i, c)' = Rows(i, c)
  BY DEF Rows
<1>2. ~Owed(i, c)'
  BY PollFieldsAll DEF NoPoll, PollOf, Owed
<1>3. counts[i][c] \in Nat /\ purges \in Nat /\ faults \in Nat /\ OwedOf(i, c) \in {0, 1}
      /\ Cardinality(Rows(i, c)) \in Nat
  BY CountNumbers, RowsFinite
<1>4. OwedOf(i, c)' = 0
  BY <1>2 DEF OwedOf
<1>5. QED
  BY <1>1, <1>3, <1>4 DEF Counts

\* A fault elsewhere loosens the bound.
LEMMA CountsLoosen ==
  ASSUME TypeOK, NEW i \in Id, NEW c \in Counted, Counts(i, c),
         UNCHANGED <<seen, counts, purges, poll>>, faults' = faults + 1
  PROVE  Counts(i, c)'
<1>1. Rows(i, c)' = Rows(i, c) /\ OwedOf(i, c)' = OwedOf(i, c)
  BY DEF Rows, OwedOf, Owed
<1>2. counts[i][c] \in Nat /\ purges \in Nat /\ faults \in Nat /\ OwedOf(i, c) \in {0, 1}
      /\ Cardinality(Rows(i, c)) \in Nat
  BY CountNumbers, RowsFinite
<1>3. QED
  BY <1>1, <1>2 DEF Counts

\* A liaison the board knows nothing about.
LEMMA CountsBare ==
  ASSUME TypeOK, NEW i \in Id, NEW c \in Counted, ~Owed(i, c) \/ purges > 0, Clean(i)
  PROVE  Counts(i, c)
<1>1. counts[i][c] = 0
  BY DEF Clean
<1>2. "none" # c
  BY StatusAssumption DEF Counted
<1>3. Rows(i, c) = {}
  <2>1. ASSUME NEW w \in Direction \X Train
        PROVE  seen[<<i, w[1]>>][w[2]] = Unseen
    BY DEF Clean
  <2>2. Unseen.first = "none"
    BY DEF Unseen
  <2>3. QED
    BY <1>2, <2>1, <2>2 DEF Rows
<1>4. Cardinality(Rows(i, c)) = 0
  BY <1>3, FS_EmptySet
<1>5. purges \in Nat /\ faults \in Nat /\ OwedOf(i, c) \in {0, 1} /\ (~Owed(i, c) => OwedOf(i, c) = 0)
  BY CountNumbers DEF OwedOf
<1>6. QED
  BY <1>1, <1>4, <1>5 DEF Counts

\* upsertBoardTrainObservation, first statement: a row is created at most once.
LEMMA ObserveCounts ==
  ASSUME TypeOK, Observe, NEW i \in Id, NEW c \in Counted, Counts(i, c)
  PROVE  Counts(i, c)'
<1>1. ~Owed(i, c) /\ OwedOf(i, c) = 0 /\ UNCHANGED <<counts, purges, faults>>
  BY DEF Observe, Owed, OwedOf, lvars, others
<1>2. PICK t \in DOMAIN poll.answer :
        LET s == poll.answer[t]
            left == [u \in DOMAIN poll.answer \ {t} |-> poll.answer[u]]
            created == seen[poll.j][t] = Unseen
        IN IF Exists(poll.j)
             THEN /\ seen' = [seen EXCEPT ![poll.j][t] =
                       [status |-> s, first |-> IF created THEN s ELSE @.first]]
                  /\ poll' = Poll(IF created THEN "count" ELSE "observe",
                                  poll.todo, poll.j, poll.route, left, t, s)
             ELSE poll' = NoPoll /\ UNCHANGED seen
  BY DEF Observe
<1> DEFINE s == poll.answer[t]
           left == [u \in DOMAIN poll.answer \ {t} |-> poll.answer[u]]
           w == <<poll.j[2], t>>
<1>3. /\ poll.j \in Journey /\ poll.answer \in Answer
      /\ seen \in [Journey -> [Train -> Seen]]
  BY DEF TypeOK, PollState
<1>4. t \in Train /\ s \in Status
  BY <1>3, AnswerOf
<1>5. poll.j[1] \in Id /\ poll.j[2] \in Direction /\ poll.j = <<poll.j[1], poll.j[2]>>
  BY <1>3 DEF Journey
<1>6. counts[i][c] \in Nat /\ purges \in Nat /\ faults \in Nat /\ Cardinality(Rows(i, c)) \in Nat
  BY CountNumbers, RowsFinite
<1> HIDE DEF left
<1>7. CASE ~Exists(poll.j)
  <2>1. poll' = NoPoll /\ UNCHANGED seen
    BY <1>2, <1>7
  <2>2. ~Owed(i, c)'
    BY <2>1, PollFieldsAll DEF NoPoll, PollOf, Owed
  <2>3. QED
    BY <1>1, <2>1, <2>2, CountsKept
<1>8. CASE Exists(poll.j) /\ seen[poll.j][t] # Unseen
  <2>1. /\ seen' = [seen EXCEPT ![poll.j][t] = [status |-> s, first |-> seen[poll.j][t].first]]
        /\ poll' = Poll("observe", poll.todo, poll.j, poll.route, left, t, s)
    BY <1>2, <1>8 DEF left
  <2>2. ~Owed(i, c)'
    BY <2>1, PollFieldsAll DEF Owed
  <2>3. \A j \in Journey, u \in Train : seen'[j][u].first = seen[j][u].first
    BY <1>3, <1>4, <2>1
  <2>4. Rows(i, c)' = Rows(i, c)
    BY <2>3 DEF Rows, Journey
  <2>5. OwedOf(i, c)' = 0
    BY <2>2 DEF OwedOf
  <2>6. QED
    BY <1>1, <2>4, <2>5 DEF Counts
<1>9. CASE Exists(poll.j) /\ seen[poll.j][t] = Unseen
  <2>1. /\ seen' = [seen EXCEPT ![poll.j][t] = [status |-> s, first |-> s]]
        /\ poll' = Poll("count", poll.todo, poll.j, poll.route, left, t, s)
    BY <1>2, <1>9 DEF left
  <2>2. /\ \A j \in Journey, u \in Train : <<j, u>> # <<poll.j, t>> => seen'[j][u] = seen[j][u]
        /\ seen'[poll.j][t].first = s /\ seen[poll.j][t].first = "none"
    BY <1>3, <1>4, <1>9, <2>1 DEF Unseen
  <2>3. poll'.at = "count" /\ poll'.j = poll.j /\ poll'.status = s
    BY <2>1, PollFields, PollFieldsAll
  <2>4. CASE i = poll.j[1] /\ c = s
    <3>1. Owed(i, c)'
      BY <2>3, <2>4 DEF Owed
    <3>2. Rows(i, c)' = Rows(i, c) \cup {w}
      BY <1>4, <1>5, <2>2, <2>4 DEF Rows, Journey
    <3>3. w \notin Rows(i, c)
      <4>1. "none" # c
        BY StatusAssumption DEF Counted
      <4>2. QED
        BY <1>5, <2>2, <2>4, <4>1 DEF Rows
    <3>4. Cardinality(Rows(i, c)') = Cardinality(Rows(i, c)) + 1
      BY <3>2, <3>3, RowsFinite, FS_AddElement
    <3>5. OwedOf(i, c)' = 1
      BY <3>1 DEF OwedOf
    <3>6. QED
      BY <1>1, <1>6, <3>4, <3>5 DEF Counts
  <2>5. CASE ~(i = poll.j[1] /\ c = s)
    <3>1. ~Owed(i, c)'
      BY <2>3, <2>5 DEF Owed
    <3>2. Rows(i, c)' = Rows(i, c)
      <4>1. "none" # c
        BY StatusAssumption DEF Counted
      <4>2. ASSUME NEW v \in Direction \X Train
            PROVE  seen'[<<i, v[1]>>][v[2]].first = c <=> seen[<<i, v[1]>>][v[2]].first = c
        <5>1. <<i, v[1]>> \in Journey /\ v[2] \in Train
          BY DEF Journey
        <5>2. CASE <<i, v[1]>> = poll.j /\ v[2] = t
          BY <1>5, <2>2, <2>5, <4>1, <5>2
        <5>3. CASE ~(<<i, v[1]>> = poll.j /\ v[2] = t)
          BY <2>2, <5>1, <5>3
        <5>4. QED
          BY <5>2, <5>3
      <4>3. QED
        BY <4>2 DEF Rows
    <3>3. OwedOf(i, c)' = 0
      BY <3>1 DEF OwedOf
    <3>4. QED
      BY <1>1, <3>2, <3>3 DEF Counts
  <2>6. QED
    BY <2>4, <2>5
<1>10. QED
  BY <1>7, <1>8, <1>9

\* Its second statement: what was owed is paid, or the liaison is gone.
LEMMA PaidCounts ==
  ASSUME TypeOK, LeftInv, PollLive, Count, NEW i \in rows, NEW c \in Counted, Counts(i, c)
  PROVE  Counts(i, c)'
<1>1. /\ poll.at = "count" /\ UNCHANGED <<seen, purges, faults>>
      /\ counts' = IF Exists(poll.j) /\ poll.status \in Counted
                     THEN [counts EXCEPT ![poll.j[1]][poll.status] = @ + 1] ELSE counts
      /\ poll' = Poll("observe", poll.todo, poll.j, poll.route, poll.answer, 0, "none")
  BY DEF Count, lvars, others
<1>2. i \in Id
  BY DEF TypeOK, LiaisonTypeOK
<1>3. counts[i][c] \in Nat /\ purges \in Nat /\ faults \in Nat /\ Cardinality(Rows(i, c)) \in Nat
  BY <1>2, CountNumbers, RowsFinite
<1>4. OwedOf(i, c)' = 0
  BY <1>1, PollFieldsAll DEF OwedOf, Owed
<1>5. Rows(i, c)' = Rows(i, c)
  BY <1>1 DEF Rows
<1>6. counts \in [Id -> [Counted -> Nat]]
  BY DEF TypeOK
<1>7. CASE Owed(i, c)
  <2>1. Exists(poll.j) /\ poll.j[1] = i /\ poll.status = c /\ OwedOf(i, c) = 1
    BY <1>1, <1>7 DEF Owed, OwedOf, PollLive, Polls, Live
  <2>2. counts'[i][c] = counts[i][c] + 1
    BY <1>1, <1>2, <1>6, <2>1
  <2>3. QED
    BY <1>1, <1>3, <1>4, <1>5, <2>1, <2>2 DEF Counts
<1>8. CASE ~Owed(i, c)
  <2>1. ~(poll.j[1] = i /\ poll.status = c) /\ OwedOf(i, c) = 0
    BY <1>1, <1>8 DEF Owed, OwedOf
  <2>2. counts'[i][c] = counts[i][c]
    BY <1>1, <1>2, <1>6, <2>1
  <2>3. QED
    BY <1>1, <1>3, <1>4, <1>5, <2>1, <2>2 DEF Counts
<1>9. QED
  BY <1>7, <1>8

LEMMA PollCounts ==
  ASSUME TypeOK, LeftInv, PollLive, CountInv, PollStep \/ PollFails
  PROVE  CountInv'
<1>1. SUFFICES ASSUME NEW i \in rows, NEW c \in Counted
               PROVE  Counts(i, c)'
  <2>1. UNCHANGED rows
    BY DEF PollStep, PollFails, StartPoll, FetchDepartures, SaveNext, Observe, Count, EndJourney,
           lvars, tables
  <2>2. QED
    BY <2>1 DEF CountInv
<1>2. Counts(i, c) /\ i \in Id
  BY DEF CountInv, TypeOK, LiaisonTypeOK
<1>3. ASSUME UNCHANGED <<seen, counts, purges, faults>>, poll.at # "count", poll'.at # "count"
      PROVE  Counts(i, c)'
  BY <1>2, <1>3, CountsKept DEF Owed
<1>4. CASE StartPoll
  <2>1. \E todo : poll' = PollOf("list", todo)
    BY <1>4 DEF StartPoll
  <2>2. poll'.at = "list"
    BY <2>1, PollFieldsAll DEF PollOf
  <2>3. QED
    BY <1>3, <1>4, <2>2 DEF StartPoll, lvars, others, board
<1>5. CASE FetchDepartures
  <2>1. \E todo, j, route, a : poll' = Poll("next", todo, j, route, a, 0, "none")
    BY <1>5 DEF FetchDepartures
  <2>2. poll'.at = "next"
    BY <2>1, PollFieldsAll
  <2>3. QED
    BY <1>3, <1>5, <2>2 DEF FetchDepartures, lvars, others, board
<1>6. CASE SaveNext
  <2>1. poll' = At("observe") \/ poll' = NoPoll
    BY <1>6 DEF SaveNext
  <2>2. poll'.at \in {"observe", "idle"}
    BY <2>1, PollFieldsAll DEF At, NoPoll, PollOf
  <2>3. QED
    BY <1>3, <1>6, <2>2 DEF SaveNext, lvars, others
<1>7. CASE Observe
  BY <1>2, <1>7, ObserveCounts
<1>8. CASE Count
  BY <1>2, <1>8, PaidCounts
<1>9. CASE EndJourney
  <2>1. poll' = NoPoll \/ poll' = PollOf("list", poll.todo)
    BY <1>9 DEF EndJourney
  <2>2. poll'.at \in {"list", "idle"}
    BY <2>1, PollFieldsAll DEF NoPoll, PollOf
  <2>3. QED
    BY <1>3, <1>9, <2>2 DEF EndJourney, lvars, others, board
<1>10. CASE PollFails
  BY <1>2, <1>10, CountsForgiven DEF PollFails, board
<1>11. QED
  BY <1>4, <1>5, <1>6, <1>7, <1>8, <1>9, <1>10 DEF PollStep

\* A liaison that was just inserted is new to the board and to the poll.
LEMMA EditedCounts ==
  ASSUME TypeOK, LeftInv, LeftInv', PollLive, CountInv, TypeOK', LegsStay,
         UNCHANGED <<poll, purges, faults>>,
         \A i \in rows \cap rows' : counts'[i] = counts[i]
                                    /\ \A d \in Direction : seen'[<<i, d>>] = seen[<<i, d>>],
         \A i \in rows' \ rows : UNCHANGED <<counts, seen, next>>
  PROVE  CountInv'
<1>1. SUFFICES ASSUME NEW i \in rows', NEW c \in Counted
               PROVE  Counts(i, c)'
  BY DEF CountInv
<1>2. CASE i \in rows
  <2>1. Counts(i, c)
    BY <1>2 DEF CountInv
  <2>2. Rows(i, c)' = Rows(i, c) /\ counts'[i] = counts[i]
    BY <1>2 DEF Rows
  <2>3. OwedOf(i, c)' = OwedOf(i, c)
    BY DEF OwedOf, Owed
  <2>4. QED
    BY <2>1, <2>2, <2>3 DEF Counts
<1>3. CASE i \notin rows
  <2>1. i \in Id \ rows /\ i \notin used
    BY <1>3 DEF LegsStay, TypeOK, LiaisonTypeOK
  <2>2. ~Owed(i, c)
    BY <2>1 DEF PollLive, Polls, Live, Owed
  <2>3. Clean(i)
    BY <2>1 DEF LeftInv, BareInv
  <2>4. Counts(i, c)
    BY <2>1, <2>2, <2>3, CountsBare
  <2>5. UNCHANGED <<seen, counts>>
    BY <1>3
  <2>6. QED
    BY <2>4, <2>5, CountsKept DEF Owed
<1>4. QED
  BY <1>2, <1>3

LEMMA CountNext ==
  TypeOK /\ LeftInv /\ ReqFull /\ PollLive /\ CountInv /\ [Next]_vars => CountInv'
<1> SUFFICES ASSUME TypeOK, LeftInv, ReqFull, PollLive, CountInv, [Next]_vars
             PROVE  CountInv'
  OBVIOUS
<1>1. TypeOK' /\ LeftInv' /\ LegsStay
  BY BoardTypeNext, LeftNext, EveryStepStays
<1>2. CASE \E p \in Process : Started(p)
  BY <1>1, <1>2, StartOfBoot, EditedCounts DEF Started, board
<1>3. CASE Requested
  <2>1. PICK r \in Request : (RequestStep(r) /\ UNCHANGED <<board, poll, purges, scenario>>) \/ Delete(r)
    BY <1>3 DEF Requested
  <2>2. CASE RequestStep(r) /\ ~RequestFails(r) /\ UNCHANGED <<board, poll, purges>>
    <3>1. UNCHANGED faults
      BY <2>2 DEF RequestStep, StartCreate, StartSetDefault, StartEdit, StartEditFirst, StartDelete,
         InsertLiaison, ClearDefault, SetDefault, GetCurrent, StoreName, ReadDefault,
         PromoteOldest, Creating, Editing, InsertLeg, others
    <3>2. QED
      BY <1>1, <2>2, <3>1, EditedCounts DEF board
  <2>3. CASE RequestFails(r) /\ UNCHANGED <<board, poll, purges>>
    <3>1. UNCHANGED <<rows, seen, counts, poll, purges>> /\ faults' = faults + 1
      BY <2>3 DEF RequestFails, tables, board
    <3>2. \A i \in rows, c \in Counted : i \in Id /\ Counts(i, c)
      BY DEF CountInv, TypeOK, LiaisonTypeOK
    <3>3. QED
      BY <3>1, <3>2, CountsLoosen DEF CountInv
  <2>4. CASE Delete(r)
    <3> DEFINE k == req[r].id
    <3>1. /\ rows' = rows \ {k} /\ UNCHANGED <<poll, purges, faults>>
          /\ seen' = [j \in Journey |-> IF j[1] = k THEN [t \in Train |-> Unseen] ELSE seen[j]]
          /\ counts' = [counts EXCEPT ![k] = [c \in Counted |-> 0]]
      BY <2>4 DEF Delete, DeleteLiaison, others
    <3>2. \A i \in rows' : i # k /\ i \in Id /\ i \in rows
      BY <3>1 DEF TypeOK, LiaisonTypeOK
    <3>3. counts \in [Id -> [Counted -> Nat]]
      BY DEF TypeOK
    <3> HIDE DEF k
    <3>4. \A i \in rows', d \in Direction : seen'[<<i, d>>] = seen[<<i, d>>]
      BY <3>1, <3>2 DEF Journey
    <3>5. \A i \in rows' : counts'[i] = counts[i]
      BY <3>1, <3>2, <3>3
    <3>6. QED
      BY <1>1, <3>1, <3>2, <3>4, <3>5, EditedCounts
  <2>5. QED
    BY <2>1, <2>2, <2>3, <2>4
<1>4. CASE PollStep \/ PollFails
  BY <1>4, PollCounts
<1>5. CASE ClearStats
  <2>1. /\ UNCHANGED <<rows, poll, faults>> /\ purges' = purges + 1
        /\ seen' = [j \in Journey |-> [t \in Train |-> Unseen]]
        /\ counts' = [i \in Id |-> [c \in Counted |-> 0]]
    BY <1>5 DEF ClearStats, lvars, tables, others
  <2>2. ASSUME NEW i \in rows, NEW c \in Counted
        PROVE  Counts(i, c)'
    <3>1. i \in Id /\ purges \in Nat /\ faults \in Nat /\ OwedOf(i, c) \in {0, 1}
      BY CountNumbers DEF TypeOK, LiaisonTypeOK
    <3>2. OwedOf(i, c)' = OwedOf(i, c) /\ counts'[i][c] = 0
      BY <2>1, <3>1 DEF OwedOf, Owed
    <3>3. Cardinality(Rows(i, c)') = 0
      <4>1. Unseen.first # c
        BY StatusAssumption DEF Unseen, Counted
      <4>2. \A w \in Direction \X Train : seen'[<<i, w[1]>>][w[2]] = Unseen
        BY <2>1, <3>1 DEF Journey
      <4>3. Rows(i, c)' = {}
        BY <4>1, <4>2 DEF Rows
      <4>4. QED
        BY <4>3, FS_EmptySet
    <3>4. QED
      BY <2>1, <3>1, <3>2, <3>3 DEF Counts
  <2>3. QED
    BY <2>1, <2>2 DEF CountInv
<1>6. CASE \E p \in Process : Restart(p)
  <2>1. /\ UNCHANGED <<rows, seen, counts, purges>> /\ faults' = faults + 1
        /\ (poll' = NoPoll \/ poll' = poll)
    BY <1>6 DEF Restart, Crash, tables, board
  <2>2. \A i \in rows, c \in Counted : i \in Id /\ Counts(i, c)
    BY DEF CountInv, TypeOK, LiaisonTypeOK
  <2>3. CASE poll' = NoPoll
    BY <2>1, <2>2, <2>3, CountsForgiven DEF CountInv
  <2>4. CASE poll' = poll
    BY <2>1, <2>2, <2>4, CountsLoosen DEF CountInv
  <2>5. QED
    BY <2>1, <2>3, <2>4
<1>7. CASE UNCHANGED vars
  BY <1>1, <1>7, EditedCounts DEF vars, lvars, tables, others, board
<1>8. QED
  BY <1>2, <1>3, <1>4, <1>5, <1>6, <1>7 DEF Next

BoardInv == TypeOK /\ LeftInv /\ ReqFull /\ PollLive /\ CountInv

LEMMA BoardInvInit == Init => BoardInv
<1> SUFFICES ASSUME Init
             PROVE  BoardInv
  OBVIOUS
<1>1. TypeOK /\ LeftInv
  BY BoardTypeInit, LeftInit
<1>2. ReqFull
  BY DEF Init, LiaisonInit, ReqFull, Idle, Req
<1>3. poll.todo = {} /\ poll.at = "idle"
  BY PollFields, PollFieldsAll DEF Init, NoPoll, PollOf
<1>4. PollLive
  BY <1>3 DEF PollLive, Polls
<1>5. CountInv
  BY DEF CountInv, Init, LiaisonInit
<1>6. QED
  BY <1>1, <1>2, <1>4, <1>5 DEF BoardInv

LEMMA BoardInvNext == BoardInv /\ [Next]_vars => BoardInv'
  BY BoardTypeNext, LeftNext, FullNext, PollLiveNext, CountNext DEF BoardInv

\* The counters of a liaison count each of its trains once, whatever polls, edits,
\* deletions and restarts come between its statements: at most one is added by a
\* purge, at most one lost by a fault (upsertBoardTrainObservation, clearStats).
THEOREM TrainsAreCountedOnce == Spec => []CountedOnce
<1>1. BoardInv => CountedOnce
  <2> SUFFICES ASSUME BoardInv, NEW i \in rows, NEW c \in Counted
               PROVE  /\ counts[i][c] <= Cardinality(Rows(i, c)) + purges
                      /\ Cardinality(Rows(i, c)) <= counts[i][c] + faults + (IF Owed(i, c) THEN 1 ELSE 0)
    BY DEF CountedOnce
  <2>1. TypeOK /\ Counts(i, c) /\ i \in Id
    BY DEF BoardInv, CountInv, TypeOK, LiaisonTypeOK
  <2>2. counts[i][c] \in Nat /\ purges \in Nat /\ OwedOf(i, c) \in {0, 1}
        /\ Cardinality(Rows(i, c)) \in Nat
    BY <2>1, CountNumbers, RowsFinite
  <2>3. QED
    BY <2>1, <2>2 DEF Counts, OwedOf
<1>2. QED
  BY <1>1, BoardInvInit, BoardInvNext, PTL DEF Spec

-----------------------------------------------------------------------------
(* The flag of the seed: the API stores it before it serves anyone, so a   *)
(* start that begins after that reads it.                                  *)

Seeds(p) == boot[p].at \in {"liaison", "insert", "oldest", "rename", "outbound", "inbound", "done"}
SeedInv ==
  /\ edits > 0 \/ Up("api") => seeded
  /\ \A p \in Process : /\ Seeds(p) /\ ~boot[p].force => seeded
                        /\ boot[p].late => seeded
                        /\ boot[p].late /\ Seeds(p) => ~boot[p].force

LEMMA SeedInit == Init => SeedInv
<1> SUFFICES ASSUME Init
             PROVE  SeedInv
  OBVIOUS
<1>1. edits = 0 /\ \A p \in Process : boot[p] = Down
  BY DEF Init, LiaisonInit
<1>2. Down.at = "down" /\ ~Down.late
  BY DEF Down, Boot
<1>3. QED
  BY <1>1, <1>2 DEF SeedInv, Seeds, Up, Process

LEMMA BootFlags ==
  ASSUME NEW at, NEW many, NEW force \in BOOLEAN, NEW i, NEW late \in BOOLEAN
  PROVE  /\ Boot(at, many, force, i, late).at = at
         /\ Boot(at, many, force, i, late).force <=> force
         /\ Boot(at, many, force, i, late).late <=> late
  BY DEF Boot

\* A step of a start: where it goes, and what it still knows of the flag.
SeedMoves(p) ==
  \/ boot'[p].at \notin {"liaison", "insert", "oldest", "rename", "outbound", "inbound", "done"}
     /\ (boot'[p].at = "up" => seeded') /\ (boot'[p].late => seeded')
  \/ Seeds(p) /\ (boot'[p].force <=> boot[p].force) /\ (boot'[p].late <=> boot[p].late)
     /\ boot'[p].at # "up"
  \/ (boot'[p].force <=> ~seeded') /\ (boot'[p].late => seeded') /\ boot'[p].at # "up"

LEMMA SeedMoved ==
  ASSUME NEW p \in Process, SeedInv, OwnBoot(p), SeedMoves(p), UNCHANGED edits, seeded => seeded'
  PROVE  SeedInv'
<1>1. ASSUME NEW q \in Process
      PROVE  /\ Seeds(q)' /\ ~boot'[q].force => seeded'
             /\ boot'[q].late => seeded'
             /\ boot'[q].late /\ Seeds(q)' => ~boot'[q].force
  <2>1. CASE q # p
    <3>1. boot'[q] = boot[q] /\ (Seeds(q)' <=> Seeds(q))
      BY <2>1 DEF OwnBoot, Seeds
    <3>2. QED
      BY <3>1 DEF SeedInv
  <2>2. CASE q = p
    BY <2>2 DEF SeedInv, SeedMoves, Seeds
  <2>3. QED
    BY <2>1, <2>2
<1>2. Up("api")' => seeded'
  <2>1. CASE p = "api"
    BY <2>1 DEF SeedMoves, Up, SeedInv
  <2>2. CASE p # "api"
    BY <2>2 DEF OwnBoot, Up, SeedInv, Process
  <2>3. QED
    BY <2>1, <2>2
<1>3. edits' > 0 => seeded'
  BY DEF SeedInv
<1>4. QED
  BY <1>1, <1>2, <1>3 DEF SeedInv

LEMMA SeedNext == TypeOK /\ SeedInv /\ [Next]_vars => SeedInv'
<1> SUFFICES ASSUME TypeOK, SeedInv, [Next]_vars
             PROVE  SeedInv'
  OBVIOUS
<1>1. /\ edits \in Nat /\ seeded \in BOOLEAN /\ DOMAIN boot = Process
      /\ \A p \in Process : boot[p].force \in BOOLEAN /\ boot[p].late \in BOOLEAN
  BY DEF TypeOK, LiaisonTypeOK, BootState
<1>2. Down.at = "down" /\ ~Down.late /\ Running.at = "up" /\ ~Running.late
  BY DEF Down, Running, Boot
<1>3. CASE UNCHANGED <<boot, seeded, edits>>
  BY <1>3 DEF SeedInv, Seeds, Up
<1>4. ASSUME NEW p \in Process, PutBoot(p, Down), UNCHANGED edits, UNCHANGED seeded
      PROVE  SeedInv'
  <2>1. OwnBoot(p) /\ boot'[p] = Down
    BY <1>1, <1>4, BootPut
  <2>2. SeedMoves(p)
    BY <1>2, <2>1 DEF SeedMoves
  <2>3. QED
    BY <1>4, <2>1, <2>2, SeedMoved
<1>5. ASSUME NEW p \in Process, PutBoot(p, Running), UNCHANGED edits, seeded', seeded => seeded'
      PROVE  SeedInv'
  <2>1. OwnBoot(p) /\ boot'[p] = Running
    BY <1>1, <1>5, BootPut
  <2>2. SeedMoves(p)
    BY <1>2, <1>5, <2>1 DEF SeedMoves
  <2>3. QED
    BY <1>5, <2>1, <2>2, SeedMoved
<1>6. ASSUME NEW p \in Process, NEW at \in {"insert", "oldest", "rename", "outbound", "inbound", "done"},
             NEW i, PutBoot(p, Boot(at, "none", boot[p].force, i, boot[p].late)), Seeds(p),
             UNCHANGED edits, UNCHANGED seeded
      PROVE  SeedInv'
  <2> DEFINE b == Boot(at, "none", boot[p].force, i, boot[p].late)
  <2>1. b.at = at /\ (b.force <=> boot[p].force) /\ (b.late <=> boot[p].late)
    BY <1>1, BootFlags
  <2> HIDE DEF b
  <2>2. OwnBoot(p) /\ boot'[p] = b
    BY <1>1, <1>6, BootPut DEF b
  <2>3. SeedMoves(p)
    BY <1>6, <2>1, <2>2 DEF SeedMoves
  <2>4. QED
    BY <1>6, <2>2, <2>3, SeedMoved
<1>7. ASSUME NEW p \in Process, Started(p)
      PROVE  SeedInv'
  <2>1. BootStep(p) /\ UNCHANGED edits
    BY <1>7, StartOfBoot DEF Started
  <2>2. CASE CountDefaults(p)
    <3> DEFINE many == IF isDefault = {} THEN "none"
                       ELSE IF \E i \in isDefault : isDefault = {i} THEN "one" ELSE "many"
               late == edits > 0
               force == FALSE
               b == Boot("repair", many, force, NoId, late)
    <3>1. PutBoot(p, b) /\ UNCHANGED seeded
      BY <2>2 DEF CountDefaults, tables
    <3>2. force \in BOOLEAN /\ late \in BOOLEAN /\ (late => seeded)
      BY <1>1 DEF SeedInv
    <3> HIDE DEF many, late, force
    <3>3. b.at = "repair" /\ (b.late <=> late)
      BY <3>2, BootFlags
    <3> HIDE DEF b
    <3>4. OwnBoot(p) /\ boot'[p] = b
      BY <1>1, <3>1, BootPut
    <3>5. SeedMoves(p)
      BY <3>1, <3>2, <3>3, <3>4 DEF SeedMoves
    <3>6. QED
      BY <2>1, <3>1, <3>4, <3>5, SeedMoved
  <2>3. CASE RepairDefault(p)
    <3> DEFINE b == Boot("flag", "none", boot[p].force, boot[p].id, boot[p].late)
    <3>1. PutBoot(p, b) /\ UNCHANGED seeded
      BY <2>3 DEF RepairDefault, GotoBoot
    <3>2. b.at = "flag" /\ (b.late <=> boot[p].late)
      BY <1>1, BootFlags
    <3> HIDE DEF b
    <3>3. OwnBoot(p) /\ boot'[p] = b
      BY <1>1, <3>1, BootPut
    <3>4. SeedMoves(p)
      BY <3>1, <3>2, <3>3 DEF SeedMoves, SeedInv
    <3>5. QED
      BY <2>1, <3>1, <3>3, <3>4, SeedMoved
  <2>4. CASE ReadFlag(p)
    <3> DEFINE force == ~seeded
               late == boot[p].late
               b == Boot("liaison", "none", force, NoId, late)
    <3>1. PutBoot(p, b) /\ UNCHANGED seeded
      BY <2>4 DEF ReadFlag, tables
    <3>6. force \in BOOLEAN /\ late \in BOOLEAN /\ (force <=> ~seeded) /\ (late <=> boot[p].late)
      BY <1>1
    <3> HIDE DEF force, late
    <3>7. b.at = "liaison" /\ (b.force <=> force) /\ (b.late <=> late)
      BY <3>6, BootFlags
    <3>2. b.at = "liaison" /\ (b.force <=> ~seeded) /\ (b.late <=> boot[p].late)
      BY <3>6, <3>7
    <3> HIDE DEF b
    <3>3. OwnBoot(p) /\ boot'[p] = b
      BY <1>1, <3>1, BootPut
    <3>4. SeedMoves(p)
      BY <3>1, <3>2, <3>3 DEF SeedMoves, SeedInv
    <3>5. QED
      BY <2>1, <3>1, <3>3, <3>4, SeedMoved
  <2>5. CASE CountLiaisons(p)
    <3>1. Seeds(p) /\ UNCHANGED seeded
      BY <2>5 DEF CountLiaisons, Seeds, tables
    <3>2. CASE rows = {} \/ boot[p].force
      <4>1. \E at \in {"insert", "oldest"} : GotoBoot(p, at)
        BY <2>5, <3>2 DEF CountLiaisons
      <4>2. QED
        BY <1>6, <2>1, <3>1, <4>1 DEF GotoBoot
    <3>3. CASE ~(rows = {} \/ boot[p].force)
      <4>1. PutBoot(p, Running)
        BY <2>5, <3>3 DEF CountLiaisons
      <4>2. seeded
        BY <3>1, <3>3 DEF SeedInv
      <4>3. QED
        BY <1>5, <2>1, <3>1, <4>1, <4>2
    <3>4. QED
      BY <3>2, <3>3
  <2>6. CASE SeedInsert(p)
    <3>1. Seeds(p) /\ UNCHANGED seeded
      BY <2>6 DEF SeedInsert, Seeds
    <3>2. \E i : PutBoot(p, Boot("outbound", "none", boot[p].force, i, boot[p].late))
      BY <2>6 DEF SeedInsert
    <3>3. QED
      BY <1>6, <2>1, <3>1, <3>2
  <2>7. CASE SeedOldest(p)
    <3>1. Seeds(p) /\ UNCHANGED seeded
      BY <2>7 DEF SeedOldest, Seeds, tables
    <3>2. PutBoot(p, Down) \/ \E i : PutBoot(p, Boot("rename", "none", boot[p].force, i, boot[p].late))
      BY <2>7 DEF SeedOldest
    <3>3. QED
      BY <1>4, <1>6, <2>1, <3>1, <3>2
  <2>8. CASE SeedName(p)
    <3>1. Seeds(p) /\ UNCHANGED seeded /\ GotoBoot(p, "outbound")
      BY <2>8 DEF SeedName, Seeds
    <3>2. QED
      BY <1>6, <2>1, <3>1 DEF GotoBoot
  <2>9. CASE \E d \in Direction : SeedLeg(p, d)
    <3>1. PICK d \in Direction : SeedLeg(p, d)
      BY <2>9
    <3>2. Seeds(p) /\ UNCHANGED seeded
      BY <3>1 DEF SeedLeg, Seeds, Direction
    <3>3. \/ PutBoot(p, Down) \/ (PutBoot(p, Running) /\ ~boot[p].force)
          \/ \E at \in {"inbound", "done"} : GotoBoot(p, at)
      BY <3>1 DEF SeedLeg
    <3>4. ~boot[p].force => seeded
      BY <3>2 DEF SeedInv
    <3>5. CASE PutBoot(p, Down)
      BY <1>4, <2>1, <3>2, <3>5
    <3>6. CASE PutBoot(p, Running) /\ ~boot[p].force
      BY <1>5, <2>1, <3>2, <3>4, <3>6
    <3>7. CASE \E at \in {"inbound", "done"} : GotoBoot(p, at)
      BY <1>6, <2>1, <3>2, <3>7 DEF GotoBoot
    <3>8. QED
      BY <3>3, <3>5, <3>6, <3>7
  <2>10. CASE StoreFlag(p)
    <3>1. seeded' = TRUE /\ PutBoot(p, Running)
      BY <2>10 DEF StoreFlag
    <3>2. QED
      BY <1>5, <2>1, <3>1
  <2>11. QED
    BY <2>1, <2>2, <2>3, <2>4, <2>5, <2>6, <2>7, <2>8, <2>9, <2>10 DEF BootStep
<1>8. CASE Requested
  <2>1. PICK r \in Request : RequestStep(r) \/ Delete(r)
    BY <1>8 DEF Requested
  <2>2. UNCHANGED <<boot, seeded>>
    BY <2>1 DEF RequestStep, Delete, DeleteLiaison, StartCreate, StartSetDefault, StartEdit,
       StartEditFirst, StartDelete, InsertLiaison, ClearDefault, SetDefault, GetCurrent, StoreName,
       ReadDefault, PromoteOldest, RequestFails, Creating, Editing, InsertLeg, tables, others
  <2>3. UNCHANGED edits \/ Up("api")
    BY <2>1 DEF RequestStep, Delete, DeleteLiaison, StartCreate, StartSetDefault, StartEdit,
       StartEditFirst, StartDelete, InsertLiaison, ClearDefault, SetDefault, GetCurrent, StoreName,
       ReadDefault, PromoteOldest, RequestFails, Creating, Editing, InsertLeg, others, Starts
  <2>4. QED
    BY <2>2, <2>3 DEF SeedInv, Seeds, Up
<1>9. CASE PollStep \/ PollFails \/ ClearStats \/ UNCHANGED vars
  BY <1>3, <1>9 DEF PollStep, PollFails, ClearStats, StartPoll, FetchDepartures, SaveNext, Observe,
     Count, EndJourney, vars, lvars, tables, others
<1>10. CASE \E p \in Process : Restart(p)
  BY <1>4, <1>10 DEF Restart, Crash, tables
<1>11. QED
  BY <1>7, <1>8, <1>9, <1>10 DEF Next

\* A start that began after an editor was served fills an absent leg, and no other.
LEMMA StartKeepsLegs ==
  ASSUME TypeOK, SeedInv, [Next]_vars, NEW p \in Process, boot[p].late, boot'[p] # boot[p],
         NEW j \in Journey, Exists(j)
  PROVE  legs'[j[1]][j[2]] = legs[j[1]][j[2]]
<1>1. /\ boot[p].force \in BOOLEAN /\ legs \in [Id -> [Direction -> Leg]] /\ boot[p].id \in Id
      /\ DOMAIN boot = Process
  BY DEF TypeOK, LiaisonTypeOK, BootState
<1>2. CASE Started(p)
  <2>1. CASE \E d \in Direction : SeedLeg(p, d)
    <3>1. PICK d \in Direction : SeedLeg(p, d)
      BY <2>1
    <3>2. boot[p].at = d /\ ~boot[p].force
      BY <3>1 DEF SeedLeg, SeedInv, Seeds, Direction
    <3>3. CASE boot[p].id \in rows /\ legs[boot[p].id][d] = "none"
      <4>1. WriteLeg(boot[p].id, d, SeedRoute)
        BY <3>1, <3>3 DEF SeedLeg
      <4>2. j[1] \in Id /\ j[2] \in Direction /\ ~(j[1] = boot[p].id /\ j[2] = d)
        BY <3>3 DEF Journey, Exists
      <4>3. QED
        BY <1>1, <4>1, <4>2 DEF WriteLeg
    <3>4. CASE ~(boot[p].id \in rows /\ legs[boot[p].id][d] = "none")
      BY <3>1, <3>2, <3>4 DEF SeedLeg
    <3>5. QED
      BY <3>3, <3>4
  <2>2. CASE ~\E d \in Direction : SeedLeg(p, d)
    <3>1. UNCHANGED legs
      BY <1>2, <2>2 DEF Started, BootStep, CountDefaults, RepairDefault, ReadFlag, CountLiaisons,
         SeedInsert, SeedOldest, SeedName, StoreFlag, tables
    <3>2. QED
      BY <3>1
  <2>3. QED
    BY <2>1, <2>2
<1>3. ASSUME NEW q \in Process, Started(q), q # p
      PROVE  boot'[p] = boot[p]
  <2>1. \E b : PutBoot(q, b)
    BY <1>3 DEF Started, BootStep, CountDefaults, RepairDefault, ReadFlag, CountLiaisons, SeedInsert,
       SeedOldest, SeedName, SeedLeg, StoreFlag, GotoBoot
  <2>2. QED
    BY <1>1, <1>3, <2>1, BootPut DEF OwnBoot
<1>4. CASE Requested
  <2>1. UNCHANGED boot
    BY <1>4 DEF Requested, RequestStep, Delete, DeleteLiaison, StartCreate, StartSetDefault, StartEdit,
       StartEditFirst, StartDelete, InsertLiaison, ClearDefault, SetDefault, GetCurrent, StoreName,
       ReadDefault, PromoteOldest, RequestFails, Creating, Editing, InsertLeg, others
  <2>2. QED
    BY <2>1
<1>5. CASE PollStep \/ PollFails \/ ClearStats \/ (\E q \in Process : Restart(q)) \/ UNCHANGED vars
  <2>1. UNCHANGED legs
    BY <1>5 DEF PollStep, PollFails, ClearStats, StartPoll, FetchDepartures, SaveNext, Observe,
       Count, EndJourney, Restart, Crash, vars, lvars, tables
  <2>2. QED
    BY <2>1
<1>6. QED
  BY <1>2, <1>3, <1>4, <1>5 DEF Next

\* Whatever the editors, the crashes and the starts of the two processes beside each
\* other: a start that began after an editor was served changes no leg that exists (seed).
THEOREM EditsOutliveStarts == Spec => EditsSurviveRestart
<1>1. TypeOK /\ SeedInv /\ [Next]_vars
        => [\A p \in Process : boot[p].late /\ boot'[p] # boot[p]
              => \A j \in Journey : Exists(j) => legs'[j[1]][j[2]] = legs[j[1]][j[2]]]_vars
  BY StartKeepsLegs
<1>2. TypeOK /\ SeedInv /\ [Next]_vars => TypeOK' /\ SeedInv'
  BY BoardTypeNext, SeedNext
<1>3. Init => TypeOK /\ SeedInv
  BY BoardTypeInit, SeedInit
<1>4. QED
  BY <1>1, <1>2, <1>3, PTL DEF Spec, EditsSurviveRestart

-----------------------------------------------------------------------------
(* A liaison without both legs is being created, by the request or by a    *)
(* start, or was stranded by a fault.                                      *)

Creates(r) == req[r].at \in {"newOut", "newIn"}
BootCreates(p) == boot[p].at \in {"outbound", "inbound"}
Busy(r) == {i \in Id : \/ Creates(r) /\ i = req[r].id
                       \/ \E p \in Process : BootCreates(p) /\ i = boot[p].id}
Half == rows \ Listed
Stranded(r) == Half \ Busy(r)

\* The outbound leg is written before the inbound one.
HasOutbound(i) == i \in used /\ (i \in rows => legs[i]["outbound"] # "none")
OutboundFirst(r) ==
  /\ req[r].at = "newIn" => HasOutbound(req[r].id)
  /\ \A p \in Process : boot[p].at = "inbound" => HasOutbound(boot[p].id)
HalfInv(r) == OutboundFirst(r) /\ Cardinality(Stranded(r)) <= faults

LEMMA HalfInit ==
  ASSUME NEW r \in Request, Init
  PROVE  HalfInv(r)
<1>1. rows = {} /\ faults = 0 /\ req = [q \in Request |-> Idle] /\ boot = [p \in Process |-> Down]
  BY DEF Init, LiaisonInit
<1>2. req[r].at = "idle" /\ \A p \in Process : boot[p].at = "down"
  BY <1>1, StillFields DEF Idle, Req
<1>3. Stranded(r) = {}
  BY <1>1 DEF Stranded, Half
<1>4. QED
  BY <1>1, <1>2, <1>3, FS_EmptySet DEF HalfInv, OutboundFirst

LEMMA StrandedFinite ==
  ASSUME TypeOK, NEW r
  PROVE  IsFiniteSet(Stranded(r)) /\ Cardinality(Stranded(r)) \in Nat /\ faults \in Nat
<1>1. Stranded(r) \subseteq Id
  BY DEF Stranded, Half, TypeOK, LiaisonTypeOK
<1>2. IsFiniteSet(Stranded(r))
  BY <1>1, IdAssumption, FS_Subset
<1>3. QED
  BY <1>2, FS_CardinalityType DEF TypeOK, LiaisonTypeOK

\* No more liaisons are stranded than before, but one a fault.
LEMMA NoMoreStranded ==
  ASSUME TypeOK, TypeOK', NEW r, HalfInv(r),
         \/ faults' = faults /\ Stranded(r)' \subseteq Stranded(r)
         \/ faults' = faults + 1 /\ \E i : Stranded(r)' \subseteq Stranded(r) \cup {i}
  PROVE  (Cardinality(Stranded(r)) <= faults)'
<1>1. /\ IsFiniteSet(Stranded(r)) /\ Cardinality(Stranded(r)) \in Nat /\ faults \in Nat
      /\ Cardinality(Stranded(r)) <= faults
  BY StrandedFinite DEF HalfInv
<1>2. IsFiniteSet(Stranded(r)') /\ Cardinality(Stranded(r)') \in Nat
  <2>1. Stranded(r)' \subseteq Id
    BY DEF Stranded, Half, TypeOK, LiaisonTypeOK
  <2>2. QED
    BY <2>1, IdAssumption, FS_Subset, FS_CardinalityType
<1>3. CASE faults' = faults /\ Stranded(r)' \subseteq Stranded(r)
  <2>1. Cardinality(Stranded(r)') <= Cardinality(Stranded(r))
    BY <1>1, <1>3, FS_Subset
  <2>2. QED
    BY <1>1, <1>2, <1>3, <2>1
<1>4. CASE faults' = faults + 1 /\ \E i : Stranded(r)' \subseteq Stranded(r) \cup {i}
  <2>1. PICK i : Stranded(r)' \subseteq Stranded(r) \cup {i}
    BY <1>4
  <2>2. /\ IsFiniteSet(Stranded(r) \cup {i})
        /\ Cardinality(Stranded(r) \cup {i}) <= Cardinality(Stranded(r)) + 1
        /\ Cardinality(Stranded(r) \cup {i}) \in Nat
    BY <1>1, FS_AddElement
  <2>3. Cardinality(Stranded(r)') <= Cardinality(Stranded(r) \cup {i})
    BY <2>1, <2>2, FS_Subset
  <2>4. QED
    BY <1>1, <1>2, <1>4, <2>2, <2>3
<1>5. QED
  BY <1>3, <1>4

\* Legs are never emptied, so a liaison that has both keeps them while it is there.
LEMMA HalfStays ==
  ASSUME TypeOK, TypeOK', LegsStay, NEW i \in Half', i \in used
  PROVE  i \in Half
<1>1. i \in rows' /\ i \in rows
  BY DEF Half, LegsStay
<1>2. Complete(i) => Complete(i)'
  BY <1>1 DEF LegsStay, Complete
<1>3. QED
  BY <1>1, <1>2 DEF Half, Listed

LEMMA StrandedShrinks ==
  ASSUME TypeOK, TypeOK', LegsStay, NEW r,
         \A i \in rows' : i \notin used => i \in Busy(r)',
         \A i \in Busy(r) \ Busy(r)' : i \notin Half'
  PROVE  Stranded(r)' \subseteq Stranded(r)
<1>1. SUFFICES ASSUME NEW i \in Half', i \notin Busy(r)'
               PROVE  i \in Half /\ i \notin Busy(r)
  BY DEF Stranded
<1>2. i \in used
  BY <1>1 DEF Half
<1>3. QED
  BY <1>1, <1>2, HalfStays

\* An outbound leg is kept while its liaison is there.
OutboundThen(i) == i \in used' /\ (i \in rows' => legs'[i]["outbound"] # "none")
LEMMA OutboundStays ==
  ASSUME LegsStay, NEW i, HasOutbound(i)
  PROVE  OutboundThen(i)
  BY DEF LegsStay, HasOutbound, OutboundThen, Direction

\* A step of the start of p: a row it creates is its own, and one it leaves is not half.
LEMMA BootHalf ==
  ASSUME TypeOK, TypeOK', LegsStay, NEW r, HalfInv(r), NEW p \in Process, OwnBoot(p),
         UNCHANGED <<req, faults>>,
         boot'[p].at = "inbound" => OutboundThen(boot'[p].id),
         \A i \in rows' : i \notin used => BootCreates(p)' /\ i = boot'[p].id,
         BootCreates(p) /\ ~(BootCreates(p)' /\ boot'[p].id = boot[p].id) => boot[p].id \notin Half'
  PROVE  HalfInv(r)'
<1>1. OutboundFirst(r)
  BY DEF HalfInv
<1>2. req'[r].at = "newIn" => OutboundThen(req'[r].id)
  BY <1>1, OutboundStays DEF OutboundFirst
<1>3. ASSUME NEW q \in Process, boot'[q].at = "inbound"
      PROVE  OutboundThen(boot'[q].id)
  <2>1. CASE q = p
    BY <1>3, <2>1
  <2>2. CASE q # p
    <3>1. boot'[q] = boot[q]
      BY <2>2 DEF OwnBoot
    <3>2. HasOutbound(boot[q].id)
      BY <1>1, <1>3, <3>1 DEF OutboundFirst
    <3>3. QED
      BY <3>1, <3>2, OutboundStays
  <2>3. QED
    BY <2>1, <2>2
<1>4. OutboundFirst(r)'
  BY <1>2, <1>3 DEF OutboundFirst, OutboundThen, HasOutbound
<1>5. \A i \in rows' : i \notin used => i \in Busy(r)'
  BY DEF Busy, TypeOK, LiaisonTypeOK
<1>6. ASSUME NEW i \in Busy(r), i \notin Busy(r)'
      PROVE  i \notin Half'
  <2>1. ~(Creates(r) /\ i = req[r].id)
    BY <1>6 DEF Busy, Creates
  <2>2. PICK q \in Process : BootCreates(q) /\ i = boot[q].id
    BY <2>1 DEF Busy
  <2>3. ~(BootCreates(q)' /\ i = boot'[q].id)
    BY <1>6 DEF Busy
  <2>4. q = p
    BY <2>2, <2>3 DEF OwnBoot, BootCreates
  <2>5. QED
    BY <2>2, <2>3, <2>4
<1>7. Stranded(r)' \subseteq Stranded(r)
  BY <1>5, <1>6, StrandedShrinks
<1>8. QED
  BY <1>4, <1>7, NoMoreStranded DEF HalfInv

LEMMA StartHalf ==
  ASSUME TypeOK, TypeOK', LegsStay, NEW r \in Request, HalfInv(r), NEW p \in Process, Started(p)
  PROVE  HalfInv(r)'
<1>1. UNCHANGED <<req, faults>> /\ BootStep(p)
  BY StartOfBoot DEF Started
<1>2. /\ boot[p].id \in Id /\ rows \subseteq used /\ rows' \subseteq used'
      /\ legs \in [Id -> [Direction -> Leg]] /\ DOMAIN boot = Process
  BY DEF TypeOK, LiaisonTypeOK, BootState
<1>3. ASSUME ~BootCreates(p), OwnBoot(p), boot'[p].at # "inbound", UNCHANGED rows
      PROVE  HalfInv(r)'
  BY <1>1, <1>2, <1>3, BootHalf
<1>4. ASSUME ~BootCreates(p), NEW at, at # "inbound", GotoBoot(p, at), UNCHANGED rows
      PROVE  HalfInv(r)'
  BY <1>2, <1>3, <1>4, BootGoes
<1>5. ASSUME ~BootCreates(p), NEW b, b.at # "inbound", PutBoot(p, b), UNCHANGED rows
      PROVE  HalfInv(r)'
  BY <1>2, <1>3, <1>5, BootPut
<1>6. CASE CountDefaults(p) \/ ReadFlag(p)
  <2>1. ~BootCreates(p) /\ UNCHANGED rows
    BY <1>6 DEF CountDefaults, ReadFlag, BootCreates, tables
  <2>2. \E many, force, late : \/ PutBoot(p, Boot("repair", many, force, NoId, late))
                               \/ PutBoot(p, Boot("liaison", many, force, NoId, late))
    BY <1>6 DEF CountDefaults, ReadFlag
  <2>3. QED
    BY <1>5, <2>1, <2>2, BootFields
<1>7. CASE RepairDefault(p) \/ CountLiaisons(p) \/ SeedOldest(p) \/ SeedName(p) \/ StoreFlag(p)
  <2>1. ~BootCreates(p) /\ UNCHANGED rows
    BY <1>7 DEF RepairDefault, CountLiaisons, SeedOldest, SeedName, StoreFlag, BootCreates, tables
  <2>2. \/ \E at : at # "inbound" /\ GotoBoot(p, at)
        \/ PutBoot(p, Down) \/ PutBoot(p, Running)
        \/ \E force, i, late : PutBoot(p, Boot("rename", "none", force, i, late))
    BY <1>7 DEF RepairDefault, CountLiaisons, SeedOldest, SeedName, StoreFlag
  <2>3. QED
    BY <1>4, <1>5, <2>1, <2>2, StillFields, BootFields
<1>8. CASE SeedInsert(p)
  <2>1. PICK i \in Id \ used :
          rows' = rows \cup {i} /\ PutBoot(p, Boot("outbound", "none", boot[p].force, i, boot[p].late))
    BY <1>8 DEF SeedInsert
  <2> DEFINE b == Boot("outbound", "none", boot[p].force, i, boot[p].late)
  <2>2. b.at = "outbound" /\ b.id = i
    BY BootFields
  <2> HIDE DEF b
  <2>3. OwnBoot(p) /\ boot'[p] = b
    BY <1>2, <2>1, BootPut DEF b
  <2>4. ~BootCreates(p)
    BY <1>8 DEF SeedInsert, BootCreates
  <2>5. BootCreates(p)'
    BY <2>2, <2>3 DEF BootCreates
  <2>6. QED
    BY <1>1, <1>2, <2>1, <2>2, <2>3, <2>4, <2>5, BootHalf
<1>9. CASE \E d \in Direction : SeedLeg(p, d)
  <2>1. PICK d \in Direction : SeedLeg(p, d)
    BY <1>9
  <2>2. boot[p].at = d /\ UNCHANGED rows
    BY <2>1 DEF SeedLeg
  <2>3. CASE boot[p].id \notin rows
    <3>1. PutBoot(p, Down)
      BY <2>1, <2>3 DEF SeedLeg
    <3>2. OwnBoot(p) /\ boot'[p].at = "down"
      BY <1>2, <3>1, BootPut, StillFields
    <3>3. boot[p].id \notin Half'
      BY <2>2, <2>3 DEF Half
    <3>4. QED
      BY <1>1, <1>2, <2>2, <3>2, <3>3, BootHalf
  <2>4. CASE boot[p].id \in rows /\ d = "outbound"
    <3>1. GotoBoot(p, "inbound")
      BY <2>1, <2>4 DEF SeedLeg
    <3>2. OwnBoot(p) /\ boot'[p].at = "inbound" /\ boot'[p].id = boot[p].id
      BY <1>2, <3>1, BootGoes
    <3>3. legs'[boot[p].id]["outbound"] # "none"
      BY <1>2, <2>1, <2>4, RouteAssumption DEF SeedLeg, WriteLeg, Direction
    <3>4. BootCreates(p)' /\ OutboundThen(boot'[p].id)
      BY <1>2, <2>2, <2>4, <3>2, <3>3 DEF BootCreates, OutboundThen
    <3>5. QED
      BY <1>1, <1>2, <2>2, <3>2, <3>4, BootHalf
  <2>5. CASE boot[p].id \in rows /\ d = "inbound"
    <3>1. PutBoot(p, Running) \/ GotoBoot(p, "done")
      BY <2>1, <2>5 DEF SeedLeg
    <3>2. OwnBoot(p) /\ boot'[p].at \in {"up", "done"}
      BY <1>2, <3>1, BootPut, BootGoes, StillFields
    <3>3. legs[boot[p].id]["outbound"] # "none"
      BY <2>2, <2>5 DEF HalfInv, OutboundFirst, HasOutbound
    <3>4. legs'[boot[p].id]["outbound"] # "none" /\ legs'[boot[p].id]["inbound"] # "none"
      BY <1>2, <2>1, <2>5, <3>3, RouteAssumption DEF SeedLeg, WriteLeg, Direction
    <3>5. ASSUME NEW i, i = boot[p].id
          PROVE  i \notin Half'
      <4>1. \A e \in Direction : legs'[i][e] # "none"
        BY <3>4, <3>5 DEF Direction
      <4>2. QED
        BY <4>1 DEF Half, Listed, Complete
    <3>6. QED
      BY <1>1, <1>2, <2>2, <3>2, <3>5, BootHalf
  <2>6. QED
    BY <2>3, <2>4, <2>5 DEF Direction
<1>10. QED
  BY <1>1, <1>6, <1>7, <1>8, <1>9 DEF BootStep

\* A step of the request: likewise, while the starts stand.
LEMMA EditHalf ==
  ASSUME TypeOK, TypeOK', LegsStay, NEW r, HalfInv(r), UNCHANGED <<boot, faults>>,
         req'[r].at = "newIn" => OutboundThen(req'[r].id),
         \A i \in rows' : i \notin used => Creates(r)' /\ i = req'[r].id,
         Creates(r) /\ ~(Creates(r)' /\ req'[r].id = req[r].id) => req[r].id \notin Half'
  PROVE  HalfInv(r)'
<1>1. OutboundFirst(r)
  BY DEF HalfInv
<1>2. \A p \in Process : boot[p].at = "inbound" => OutboundThen(boot[p].id)
  BY <1>1, OutboundStays DEF OutboundFirst
<1>3. OutboundFirst(r)'
  BY <1>2 DEF OutboundFirst, OutboundThen, HasOutbound
<1>4. \A i \in rows' : i \notin used => i \in Busy(r)'
  BY DEF Busy, TypeOK, LiaisonTypeOK
<1>5. ASSUME NEW i \in Busy(r), i \notin Busy(r)'
      PROVE  i \notin Half'
  <2>1. ~\E p \in Process : BootCreates(p) /\ i = boot[p].id
    BY <1>5 DEF Busy, BootCreates
  <2>2. Creates(r) /\ i = req[r].id
    BY <2>1 DEF Busy
  <2>3. ~(Creates(r)' /\ i = req'[r].id)
    BY <1>5 DEF Busy
  <2>4. QED
    BY <2>2, <2>3
<1>6. Stranded(r)' \subseteq Stranded(r)
  BY <1>4, <1>5, StrandedShrinks
<1>7. QED
  BY <1>3, <1>6, NoMoreStranded DEF HalfInv

LEMMA RequestHalf ==
  ASSUME TypeOK, TypeOK', LegsStay, NEW r \in Request, HalfInv(r), UNCHANGED boot,
         RequestStep(r) \/ DeleteLiaison(r)
  PROVE  HalfInv(r)'
<1>1. /\ req[r] \in ReqState /\ req[r].id \in Id /\ rows \subseteq used /\ DOMAIN req = Request
      /\ legs \in [Id -> [Direction -> Leg]] /\ rows' \subseteq used'
  BY DEF TypeOK, LiaisonTypeOK, ReqState
<1>2. ASSUME ~Creates(r), req'[r].at # "newIn", rows' \subseteq rows, UNCHANGED faults
      PROVE  HalfInv(r)'
  BY <1>1, <1>2, EditHalf
<1>3. CASE StartCreate(r) \/ StartSetDefault(r) \/ StartEdit(r) \/ StartDelete(r)
  <2>1. req[r].at = "idle" /\ UNCHANGED <<rows, faults>>
    BY <1>3 DEF StartCreate, StartSetDefault, StartEdit, StartDelete, Starts, tables
  <2>2. req'[r].at \in {"insert", "clear", "get", "read"}
    BY <1>1, <1>3 DEF StartCreate, StartSetDefault, StartEdit, StartDelete, Req
  <2>3. QED
    BY <1>2, <2>1, <2>2 DEF Creates
<1>4. CASE StartEditFirst(r)
  <2>1. req[r].at = "idle" /\ UNCHANGED <<rows, faults>>
    BY <1>4 DEF StartEditFirst, Starts, tables
  <2>2. PICK b \in Body : req' = [req EXCEPT ![r] =
          IF Listed = {} THEN Req("insert", NoId, rows = {}, b.outbound, b.inbound)
                         ELSE Req("get", First, FALSE, b.outbound, b.inbound)]
    BY <1>4 DEF StartEditFirst
  <2>3. req'[r].at # "newIn"
    <3>1. CASE Listed = {}
      <4>1. req'[r] = Req("insert", NoId, rows = {}, b.outbound, b.inbound)
        BY <1>1, <2>2, <3>1
      <4>2. QED
        BY <4>1 DEF Req
    <3>2. CASE Listed # {}
      <4>1. req'[r] = Req("get", First, FALSE, b.outbound, b.inbound)
        BY <1>1, <2>2, <3>2
      <4>2. QED
        BY <4>1 DEF Req
    <3>3. QED
      BY <3>1, <3>2
  <2>4. QED
    BY <1>2, <2>1, <2>3 DEF Creates
<1>5. CASE ClearDefault(r) \/ SetDefault(r) \/ GetCurrent(r) \/ StoreName(r) \/ ReadDefault(r)
           \/ PromoteOldest(r) \/ Editing(r) \/ DeleteLiaison(r)
  <2>1. /\ req[r].at \in {"clear", "set", "get", "name", "read", "promote", "editOut", "editIn", "delete"}
        /\ rows' \subseteq rows /\ UNCHANGED faults
    BY <1>5 DEF ClearDefault, SetDefault, GetCurrent, StoreName, ReadDefault, PromoteOldest, Editing,
       InsertLeg, DeleteLiaison, tables, others
  <2>2. req'[r].at \in {"set", "idle", "editOut", "delete", "promote", "editIn", "name"}
    <3>1. CASE ClearDefault(r) \/ SetDefault(r) \/ StoreName(r) \/ ReadDefault(r) \/ PromoteOldest(r)
      BY <1>1, <3>1 DEF ClearDefault, SetDefault, StoreName, ReadDefault, PromoteOldest, Ends, Goto, Idle, Req
    <3>2. CASE GetCurrent(r)
      BY <1>1, <3>2 DEF GetCurrent, Ends, Idle, Req
    <3>3. CASE Editing(r)
      BY <1>1, <3>3 DEF Editing, InsertLeg, Ends, Goto, Idle, Req
    <3>4. CASE DeleteLiaison(r)
      BY <1>1, <3>4 DEF DeleteLiaison, Ends, Goto, Idle, Req
    <3>5. QED
      BY <1>5, <3>1, <3>2, <3>3, <3>4
  <2>3. QED
    BY <1>2, <2>1, <2>2 DEF Creates
<1>6. CASE InsertLiaison(r)
  <2>1. PICK k \in Id \ used : rows' = rows \cup {k} /\
          req' = [req EXCEPT ![r] = Req("newOut", k, req[r].flag, req[r].outbound, req[r].inbound)]
    BY <1>6 DEF InsertLiaison
  <2>2. req'[r].at = "newOut" /\ req'[r].id = k /\ req[r].at = "insert" /\ UNCHANGED faults
    BY <1>1, <1>6, <2>1 DEF InsertLiaison, Req, others
  <2>3. Creates(r)' /\ ~Creates(r)
    BY <2>2 DEF Creates
  <2>4. QED
    BY <1>1, <2>1, <2>2, <2>3, EditHalf
<1>7. CASE Creating(r)
  <2>1. /\ UNCHANGED <<rows, faults>> /\ req[r].at \in {"newOut", "newIn"}
        /\ req[r].id \notin rows => Ends(r)
        /\ req[r].id \in rows =>
             \/ /\ req[r].at = "newOut" /\ Goto(r, "newIn")
                /\ WriteLeg(req[r].id, "outbound", "inactive")
             \/ /\ req[r].at = "newIn" /\ (Ends(r) \/ Goto(r, "get"))
                /\ WriteLeg(req[r].id, "inbound", "inactive")
    BY <1>7 DEF Creating, InsertLeg, others
  <2>2. CASE req[r].id \notin rows
    <3>1. req'[r].at = "idle"
      BY <1>1, <2>1, <2>2 DEF Ends, Idle, Req
    <3>2. req[r].id \notin Half'
      BY <2>1, <2>2 DEF Half
    <3>3. QED
      BY <1>1, <2>1, <3>1, <3>2, EditHalf
  <2>3. CASE req[r].id \in rows /\ req[r].at = "newOut"
    <3>1. req'[r].at = "newIn" /\ req'[r].id = req[r].id
      BY <1>1, <2>1, <2>3 DEF Goto, Req
    <3>2. legs'[req[r].id]["outbound"] # "none"
      BY <1>1, <2>1, <2>3 DEF WriteLeg, Direction
    <3>3. Creates(r)' /\ OutboundThen(req'[r].id)
      BY <1>1, <2>1, <2>3, <3>1, <3>2 DEF Creates, OutboundThen
    <3>4. QED
      BY <1>1, <2>1, <3>1, <3>3, EditHalf
  <2>4. CASE req[r].id \in rows /\ req[r].at = "newIn"
    <3>1. req'[r].at \in {"idle", "get"}
      BY <1>1, <2>1, <2>4 DEF Ends, Goto, Idle, Req
    <3>2. legs[req[r].id]["outbound"] # "none" /\ WriteLeg(req[r].id, "inbound", "inactive")
      BY <2>1, <2>4 DEF HalfInv, OutboundFirst, HasOutbound
    <3>3. ASSUME NEW i, i = req[r].id
          PROVE  i \notin Half'
      <4>1. \A d \in Direction : legs'[i][d] # "none"
        BY <1>1, <3>2, <3>3 DEF WriteLeg, Direction
      <4>2. QED
        BY <4>1 DEF Half, Listed, Complete
    <3>4. QED
      BY <1>1, <2>1, <3>1, <3>3, EditHalf
  <2>5. QED
    BY <2>1, <2>2, <2>3, <2>4
<1>8. CASE RequestFails(r)
  <2>1. UNCHANGED <<rows, legs, used>> /\ faults' = faults + 1 /\ req'[r].at = "idle"
    BY <1>1, <1>8 DEF RequestFails, tables, Ends, Idle, Req
  <2>2. OutboundFirst(r)'
    BY <2>1 DEF HalfInv, OutboundFirst, HasOutbound
  <2>3. Half' = Half
    BY <2>1 DEF Half, Listed, Complete
  <2>4. Stranded(r)' \subseteq Stranded(r) \cup {req[r].id}
    BY <2>3 DEF Stranded, Busy, BootCreates
  <2>5. QED
    BY <2>1, <2>2, <2>4, NoMoreStranded DEF HalfInv
<1>9. QED
  BY <1>3, <1>4, <1>5, <1>6, <1>7, <1>8 DEF RequestStep

\* A process that stops strands the liaison of its start, or of its request.
LEMMA CrashHalf ==
  ASSUME TypeOK, TypeOK', NEW r \in Request, DefaultRows(r), HalfInv(r), NEW p \in Process, Crash(p)
  PROVE  HalfInv(r)'
<1>1. UNCHANGED <<rows, legs, used>> /\ faults' = faults + 1 /\ PutBoot(p, Down)
  BY DEF Crash, tables
<1>2. OwnBoot(p) /\ boot'[p].at = "down"
  BY <1>1, BootPut, StillFields DEF TypeOK, LiaisonTypeOK
<1>3. IF p = "api" THEN req'[r].at = "idle" ELSE UNCHANGED req
  BY DEF Crash, Idle, Req
<1>4. OutboundFirst(r)'
  BY <1>1, <1>2, <1>3 DEF OwnBoot, HalfInv, OutboundFirst, HasOutbound
<1>5. Half' = Half
  BY <1>1 DEF Half, Listed, Complete
<1>6. \A i \in Busy(r) \ Busy(r)' : \/ BootCreates(p) /\ i = boot[p].id
                                    \/ p = "api" /\ Creates(r) /\ i = req[r].id
  BY <1>2, <1>3 DEF OwnBoot, Busy, Creates, BootCreates
<1>7. ~(p = "api" /\ Creates(r) /\ BootCreates(p))
  BY DEF DefaultRows, Up, Creates, BootCreates
<1>8. \E i : Busy(r) \subseteq Busy(r)' \cup {i}
  <2>1. CASE BootCreates(p)
    BY <1>6, <1>7, <2>1
  <2>2. CASE ~BootCreates(p)
    BY <1>6, <2>2
  <2>3. QED
    BY <2>1, <2>2
<1>9. \E i : Stranded(r)' \subseteq Stranded(r) \cup {i}
  BY <1>5, <1>8 DEF Stranded
<1>10. QED
  BY <1>1, <1>4, <1>9, NoMoreStranded DEF HalfInv

LEMMA HalfNext ==
  ASSUME NEW r, Request = {r}
  PROVE  BoardInv /\ DefaultInv(r) /\ HalfInv(r) /\ [Next]_vars => HalfInv(r)'
<1> SUFFICES ASSUME BoardInv, DefaultInv(r), HalfInv(r), [Next]_vars
             PROVE  HalfInv(r)'
  OBVIOUS
<1>1. TypeOK /\ TypeOK' /\ LegsStay /\ r \in Request
  BY BoardInvNext, EveryStepStays DEF BoardInv
<1>2. CASE \E p \in Process : Started(p)
  BY <1>1, <1>2, StartHalf
<1>3. CASE Requested
  <2>1. RequestStep(r) \/ DeleteLiaison(r)
    BY <1>3 DEF Requested, Delete
  <2>2. UNCHANGED boot
    BY <2>1, EditorSteps DEF Editor
  <2>3. QED
    BY <1>1, <2>1, <2>2, RequestHalf
<1>4. CASE PollStep \/ PollFails \/ ClearStats \/ UNCHANGED vars
  <2>1. UNCHANGED <<rows, legs, used, req, boot>>
    BY <1>4 DEF PollStep, PollFails, ClearStats, StartPoll, FetchDepartures, SaveNext, Observe, Count,
       EndJourney, vars, lvars, tables, others
  <2>2. faults' = faults \/ faults' = faults + 1
    BY <1>4 DEF PollStep, PollFails, ClearStats, StartPoll, FetchDepartures, SaveNext, Observe, Count,
       EndJourney, vars, lvars, others
  <2>3. OutboundFirst(r)'
    BY <2>1 DEF HalfInv, OutboundFirst, HasOutbound
  <2>4. Stranded(r)' = Stranded(r)
    BY <2>1 DEF Stranded, Half, Listed, Complete, Busy, Creates, BootCreates
  <2>5. QED
    BY <1>1, <2>2, <2>3, <2>4, NoMoreStranded DEF HalfInv
<1>5. CASE \E p \in Process : Restart(p)
  BY <1>1, <1>5, CrashHalf DEF Restart, DefaultInv
<1>6. QED
  BY <1>2, <1>3, <1>4, <1>5 DEF Next

\* While one editor works, at rest the liaisons that no page lists and no request
\* repairs are at most as many as the faults so far, whatever the liaisons and the
\* starts of the two processes beside the editor's requests (createLiaison, seed).
THEOREM HalfLiaisonsAreFaults ==
  ASSUME NEW r, Request = {r}
  PROVE  Spec => []HalfLiaisons
<1>1. Init => BoardInv /\ DefaultInv(r) /\ HalfInv(r)
  BY BoardInvInit, DefaultInit, HalfInit
<1>2. BoardInv /\ DefaultInv(r) /\ HalfInv(r) /\ [Next]_vars
        => BoardInv' /\ DefaultInv(r)' /\ HalfInv(r)'
  BY BoardInvNext, DefaultNext, HalfNext
<1>3. HalfInv(r) => HalfLiaisons
  <2> SUFFICES ASSUME HalfInv(r), AtRest
               PROVE  Cardinality(rows \ Listed) <= faults
    BY DEF HalfLiaisons
  <2>1. ~Creates(r) /\ \A p \in Process : ~BootCreates(p)
    BY DEF AtRest, Starting, Creates, BootCreates
  <2>2. Stranded(r) = rows \ Listed
    BY <2>1 DEF Stranded, Half, Busy
  <2>3. QED
    BY <2>2 DEF HalfInv
<1>4. QED
  BY <1>1, <1>2, <1>3, PTL DEF Spec
=============================================================================
