------------------------------ MODULE Liaisons ------------------------------
(***************************************************************************)
(* Liaisons and their two legs, the requests that edit them, and the start *)
(* of a process, which repairs and seeds them (domain/store.ts,            *)
(* db/pool.ts, index.ts, worker-ingest.ts, routes/admin.ts).  The API and  *)
(* the worker start on their own, each beside whatever the other does.     *)
(* There is no transaction: every SQL statement is a step, and what a      *)
(* request or a start read before stays in its record.                     *)
(***************************************************************************)
EXTENDS Naturals, FiniteSets

CONSTANTS
  Id,          \* the rows liaisons may have; an id is given once
  Route,       \* the stations and schedule of an active leg
  SeedRoute,   \* Nice - Monaco
  Request,     \* requests of liaison editors
  Body,        \* what an edit may ask of the legs; "none" asks nothing
  Scenarios    \* bounds: what happens together in a behaviour

\* index.ts, worker-ingest.ts
Process == {"api", "worker"}
Direction == {"outbound", "inbound"}
\* A leg: absent, inactive, or active on a route.  "none" in a body: not asked for.
Leg == Route \cup {"none", "inactive"}

ASSUME IdAssumption == IsFiniteSet(Id) /\ Id # {}
ASSUME RouteAssumption == SeedRoute \in Route /\ Route \cap {"none", "inactive"} = {}
ASSUME BodyAssumption == Body \subseteq [outbound : Leg, inbound : Leg]
ASSUME LiaisonBounds == \A s \in Scenarios : s.edits \in Nat /\ s.faults \in Nat

VARIABLES
  rows,       \* ids of the liaisons table
  isDefault,  \* rows with is_default
  stamp,      \* the place of a row in the order of updated_at
  legs,       \* the journeys table
  used,       \* ids given so far
  seeded,     \* app_meta has station_board_v1
  boot,       \* the processes: where their start is, what it read
  req,        \* the requests: where they are, what they read
  disturbed,  \* two writers of the default met, or one was cut short (history)
  edits, faults,
  scenario    \* bound: how many requests, and crashes and failed statements

tables == <<rows, isDefault, stamp, legs, used, seeded>>
others == <<boot, disturbed, edits, faults>>
lvars == <<tables, req, others, scenario>>

BootState == [at : {"down", "repair", "flag", "liaison", "insert", "oldest",
                    "rename", "outbound", "inbound", "done", "up"},
              many : {"none", "one", "many"}, force : BOOLEAN, id : Id,
              late : BOOLEAN]  \* it began after an editor was served (history)
ReqState == [at : {"idle", "insert", "newOut", "newIn", "clear", "set", "get",
                   "editOut", "editIn", "name", "read", "delete", "promote"},
             id : Id, flag : BOOLEAN, outbound : Leg, inbound : Leg]

Boot(at, many, force, i, late) ==
  [at |-> at, many |-> many, force |-> force, id |-> i, late |-> late]
Req(at, i, flag, o, n) ==
  [at |-> at, id |-> i, flag |-> flag, outbound |-> o, inbound |-> n]
NoId == CHOOSE i \in Id : TRUE
Idle == Req("idle", NoId, FALSE, "none", "none")
Goto(r, at) == req' = [req EXCEPT ![r] = Req(at, @.id, @.flag, @.outbound, @.inbound)]
Ends(r) == req' = [req EXCEPT ![r] = Idle]
Down == Boot("down", "none", FALSE, NoId, FALSE)
Running == Boot("up", "none", FALSE, NoId, FALSE)
PutBoot(p, b) == boot' = [boot EXCEPT ![p] = b]
GotoBoot(p, at) == PutBoot(p, Boot(at, "none", boot[p].force, boot[p].id, boot[p].late))

Up(p) == boot[p].at = "up"
Starting(p) == boot[p].at \notin {"down", "up"}
AtRest ==
  /\ Up("api") /\ \A r \in Request : req[r].at = "idle"
  /\ \A p \in Process : ~Starting(p)

\* A start that has counted and not yet acted on the count, a request between its first
\* look at the default or its first write of it and its last.
Judging(p) == boot[p].at \in {"repair", "insert"}
Changing(r) ==
  req[r].at \in {"set", "delete", "promote"} \/ (req[r].at = "insert" /\ req[r].flag)
\* The start of p, a request, begins to look at the default beside another writer.
MeetsAtStart(p) ==
  (\E q \in Process \ {p} : Judging(q)) \/ (\E r \in Request : Changing(r))
MeetsAtRequest == disturbed' = (disturbed \/ \E p \in Process : Judging(p))

\* toLiaison: a liaison is read with both its legs, or not at all.
Complete(i) == \A d \in Direction : legs[i][d] # "none"
Listed == {i \in rows : Complete(i)}
\* ORDER BY updated_at ASC LIMIT 1
Oldest(S) == CHOOSE i \in S : \A j \in S : stamp[i] <= stamp[j]

\* updated_at = now(): last in that order
Touch(i) == stamp' = [j \in Id |-> IF j = i THEN Cardinality(Id)
                                 ELSE IF stamp[j] > stamp[i] THEN stamp[j] - 1 ELSE stamp[j]]
NoTouch == UNCHANGED stamp
\* INSERT ... ON CONFLICT (liaison_id, direction) DO UPDATE
WriteLeg(i, d, leg) == legs' = [legs EXCEPT ![i][d] = leg]

LiaisonInit ==
  /\ rows = {} /\ isDefault = {} /\ used = {} /\ seeded = FALSE
  /\ stamp = [i \in Id |-> 0]
  /\ legs = [i \in Id |-> [d \in Direction |-> "none"]]
  /\ boot = [p \in Process |-> Down]
  /\ req = [r \in Request |-> Idle]
  /\ disturbed = FALSE /\ edits = 0 /\ faults = 0 /\ scenario \in Scenarios

-----------------------------------------------------------------------------
\* The start of a process: migrate, then seed.

\* ensureLiaisonDefaultColumn: how many rows are the default?
CountDefaults(p) ==
  /\ boot[p].at = "down"
  /\ PutBoot(p, Boot("repair", IF isDefault = {} THEN "none"
                               ELSE IF \E i \in isDefault : isDefault = {i} THEN "one" ELSE "many",
                     FALSE, NoId, edits > 0))
  /\ disturbed' = MeetsAtStart(p)
  /\ UNCHANGED <<tables, req, edits, faults>>

RepairDefault(p) ==
  /\ boot[p].at = "repair"
  /\ isDefault' = CASE boot[p].many = "none" /\ rows # {} -> isDefault \cup {Oldest(rows)}
                    [] boot[p].many = "many" /\ isDefault # {} -> {Oldest(isDefault)}
                    [] OTHER -> isDefault
  /\ GotoBoot(p, "flag")
  /\ UNCHANGED <<rows, stamp, legs, used, seeded, req, disturbed, edits, faults>>

\* seed: defaults are forced as long as the flag is not stored.
ReadFlag(p) ==
  /\ boot[p].at = "flag"
  /\ PutBoot(p, Boot("liaison", "none", ~seeded, NoId, boot[p].late))
  /\ UNCHANGED <<tables, req, disturbed, edits, faults>>

CountLiaisons(p) ==
  /\ boot[p].at = "liaison"
  /\ IF rows = {} \/ boot[p].force
       THEN GotoBoot(p, IF rows = {} THEN "insert" ELSE "oldest") ELSE PutBoot(p, Running)
  /\ disturbed' = (disturbed \/ (rows = {} /\ MeetsAtStart(p)))
  /\ UNCHANGED <<tables, req, edits, faults>>

SeedInsert(p) ==
  /\ boot[p].at = "insert"
  /\ \E i \in Id \ used :
       /\ rows' = rows \cup {i} /\ isDefault' = isDefault \cup {i}
       /\ used' = used \cup {i} /\ Touch(i)
       /\ PutBoot(p, Boot("outbound", "none", boot[p].force, i, boot[p].late))
  /\ UNCHANGED <<legs, seeded, req, disturbed, edits, faults>>

\* The oldest liaison takes the legs; without one the start ends in an error.
SeedOldest(p) ==
  /\ boot[p].at = "oldest"
  /\ PutBoot(p, IF rows = {} THEN Down
                ELSE Boot("rename", "none", boot[p].force, Oldest(rows), boot[p].late))
  /\ UNCHANGED <<tables, req, disturbed, edits, faults>>

SeedName(p) ==
  /\ boot[p].at = "rename"
  /\ IF boot[p].id \in rows THEN Touch(boot[p].id) ELSE NoTouch
  /\ GotoBoot(p, "outbound")
  /\ UNCHANGED <<rows, isDefault, legs, used, seeded, req, disturbed, edits, faults>>

\* The legs of the seed: forced, or kept when they exist.  The foreign key rejects one
\* of a liaison that is gone, and the start ends in an error.
SeedLeg(p, d) ==
  /\ boot[p].at = d
  /\ IF boot[p].id \in rows /\ (boot[p].force \/ legs[boot[p].id][d] = "none")
       THEN WriteLeg(boot[p].id, d, SeedRoute) ELSE UNCHANGED legs
  /\ IF boot[p].id \notin rows THEN PutBoot(p, Down)
     ELSE IF d = "inbound" /\ ~boot[p].force THEN PutBoot(p, Running)
     ELSE GotoBoot(p, IF d = "outbound" THEN "inbound" ELSE "done")
  /\ UNCHANGED <<rows, isDefault, stamp, used, seeded, req, disturbed, edits, faults>>

\* Mutant: the flag is never stored.
StoreNoFlag(p) ==
  /\ boot[p].at = "done" /\ PutBoot(p, Running)
  /\ UNCHANGED <<tables, req, disturbed, edits, faults>>

StoreFlag(p) ==
  /\ boot[p].at = "done"
  /\ seeded' = TRUE /\ PutBoot(p, Running)
  /\ UNCHANGED <<rows, isDefault, stamp, legs, used, req, disturbed, edits, faults>>

BootStep(p) ==
  \/ CountDefaults(p) \/ RepairDefault(p) \/ ReadFlag(p)
  \/ CountLiaisons(p) \/ SeedInsert(p) \/ SeedOldest(p) \/ SeedName(p)
  \/ \E d \in Direction : SeedLeg(p, d)
  \/ StoreFlag(p)

-----------------------------------------------------------------------------
Starts(r) == Up("api") /\ req[r].at = "idle" /\ edits < scenario.edits /\ edits' = edits + 1

\* createLiaison: COUNT; INSERT; the outbound leg; the inbound leg.

StartCreate(r) ==
  /\ Starts(r) /\ used # Id
  /\ req' = [req EXCEPT ![r] = Req("insert", NoId, rows = {}, "none", "none")]
  /\ IF rows = {} THEN MeetsAtRequest ELSE UNCHANGED disturbed
  /\ UNCHANGED <<tables, boot, faults>>

InsertLiaison(r) ==
  /\ req[r].at = "insert"
  /\ \E i \in Id \ used :
       /\ rows' = rows \cup {i} /\ used' = used \cup {i} /\ Touch(i)
       /\ isDefault' = IF req[r].flag THEN isDefault \cup {i} ELSE isDefault
       /\ req' = [req EXCEPT ![r] = Req("newOut", i, @.flag, @.outbound, @.inbound)]
  /\ UNCHANGED <<legs, seeded, others>>

\* insertLeg; the foreign key rejects it when the liaison is gone.
InsertLeg(r, at, d, leg, next) ==
  /\ req[r].at = at
  /\ IF req[r].id \in rows
       THEN WriteLeg(req[r].id, d, leg) /\ (IF next = "idle" THEN Ends(r) ELSE Goto(r, next))
       ELSE Ends(r) /\ UNCHANGED legs
  /\ UNCHANGED <<rows, isDefault, stamp, used, seeded, others>>

\* Mutant: the inbound leg is left for the first edit.
CreatingOutbound(r) == InsertLeg(r, "newOut", "outbound", "inactive", "idle")

Creating(r) ==
  \/ InsertLeg(r, "newOut", "outbound", "inactive", "newIn")
  \/ InsertLeg(r, "newIn", "inbound", "inactive", IF req[r].outbound = "none" /\ req[r].inbound = "none"
                                                  THEN "idle" ELSE "get")

\* setDefaultLiaison: SELECT (404); clear the others; set this one.
StartSetDefault(r) ==
  /\ Starts(r)
  /\ \E i \in Listed : req' = [req EXCEPT ![r] = Req("clear", i, FALSE, "none", "none")]
  /\ UNCHANGED <<tables, boot, disturbed, faults>>

ClearDefault(r) ==
  /\ req[r].at = "clear"
  /\ isDefault' = {} /\ Goto(r, "set") /\ MeetsAtRequest
  /\ UNCHANGED <<rows, stamp, legs, used, seeded, boot, edits, faults>>

SetDefault(r) ==
  /\ req[r].at = "set"
  /\ IF req[r].id \in rows THEN isDefault' = isDefault \cup {req[r].id} /\ Touch(req[r].id)
                           ELSE UNCHANGED isDefault /\ NoTouch
  /\ Ends(r)
  /\ UNCHANGED <<rows, legs, used, seeded, others>>

\* upsertLiaison: SELECT (404); both legs with what the body changes; the name.
StartEdit(r) ==
  /\ Starts(r)
  /\ \E i \in used, b \in Body :
       req' = [req EXCEPT ![r] = Req("get", i, FALSE, b.outbound, b.inbound)]
  /\ UNCHANGED <<tables, boot, disturbed, faults>>

\* upsertJourney: one leg of the first listed liaison, created when there is none.
First == Oldest(IF Listed \cap isDefault # {} THEN Listed \cap isDefault ELSE Listed)

StartEditFirst(r) ==
  /\ Starts(r) /\ (Listed # {} \/ used # Id)
  /\ \E b \in {c \in Body : c.outbound = "none" \/ c.inbound = "none"} :
       req' = [req EXCEPT ![r] = IF Listed = {}
                 THEN Req("insert", NoId, rows = {}, b.outbound, b.inbound)
                 ELSE Req("get", First, FALSE, b.outbound, b.inbound)]
  /\ IF rows = {} THEN MeetsAtRequest ELSE UNCHANGED disturbed
  /\ UNCHANGED <<tables, boot, faults>>

GetCurrent(r) ==
  /\ req[r].at = "get"
  /\ LET i == req[r].id
         Merged(d, asked) == IF asked = "none" THEN legs[i][d] ELSE asked
     IN IF i \in Listed
          THEN req' = [req EXCEPT ![r] = Req("editOut", i, FALSE, Merged("outbound", @.outbound),
                                                                Merged("inbound", @.inbound))]
          ELSE Ends(r)
  /\ UNCHANGED <<tables, others>>

Editing(r) ==
  \/ InsertLeg(r, "editOut", "outbound", req[r].outbound, "editIn")
  \/ InsertLeg(r, "editIn", "inbound", req[r].inbound, "name")

StoreName(r) ==
  /\ req[r].at = "name"
  /\ IF req[r].id \in rows THEN Touch(req[r].id) ELSE NoTouch
  /\ Ends(r)
  /\ UNCHANGED <<rows, isDefault, legs, used, seeded, others>>

\* deleteLiaison: COUNT (400 on the last); was it the default?; DELETE (404); promote.
StartDelete(r) ==
  /\ Starts(r) /\ Cardinality(rows) > 1
  /\ \E i \in used : req' = [req EXCEPT ![r] = Req("read", i, FALSE, "none", "none")]
  /\ UNCHANGED <<tables, boot, disturbed, faults>>

ReadDefault(r) ==
  /\ req[r].at = "read"
  /\ req' = [req EXCEPT ![r] = Req("delete", @.id, @.id \in isDefault, "none", "none")]
  /\ MeetsAtRequest
  /\ UNCHANGED <<tables, boot, edits, faults>>

\* ON DELETE CASCADE takes the legs.
DeleteLiaison(r) ==
  /\ req[r].at = "delete"
  /\ rows' = rows \ {req[r].id} /\ isDefault' = isDefault \ {req[r].id}
  /\ legs' = [legs EXCEPT ![req[r].id] = [d \in Direction |-> "none"]]
  /\ IF req[r].id \in rows /\ req[r].flag THEN Goto(r, "promote") ELSE Ends(r)
  /\ UNCHANGED <<stamp, used, seeded, others>>

\* Mutant: the request ends without a new default.
PromoteNothing(r) ==
  /\ req[r].at = "promote" /\ Ends(r) /\ UNCHANGED <<tables, others>>

PromoteOldest(r) ==
  /\ req[r].at = "promote"
  /\ isDefault' = IF rows = {} THEN isDefault ELSE isDefault \cup {Oldest(rows)}
  /\ Ends(r)
  /\ UNCHANGED <<rows, stamp, legs, used, seeded, others>>

\* A statement is rejected and the request answers 500.
RequestFails(r) ==
  /\ req[r].at # "idle" /\ faults < scenario.faults
  /\ Ends(r) /\ disturbed' = (disturbed \/ Changing(r)) /\ faults' = faults + 1
  /\ UNCHANGED <<tables, boot, edits>>

RequestStep(r) ==
  \/ StartCreate(r) \/ InsertLiaison(r) \/ Creating(r)
  \/ StartSetDefault(r) \/ ClearDefault(r) \/ SetDefault(r)
  \/ StartEdit(r) \/ StartEditFirst(r) \/ GetCurrent(r) \/ Editing(r) \/ StoreName(r)
  \/ StartDelete(r) \/ ReadDefault(r) \/ PromoteOldest(r)
  \/ RequestFails(r)

\* A process stops: the requests of the API are lost, what they wrote stays.
Crash(p) ==
  /\ boot[p].at # "down" /\ faults < scenario.faults
  /\ PutBoot(p, Down) /\ faults' = faults + 1
  /\ req' = IF p = "api" THEN [r \in Request |-> Idle] ELSE req
  /\ disturbed' = (disturbed \/ Judging(p))
  /\ UNCHANGED <<tables, edits>>
=============================================================================
