------------------------------ MODULE Accounts ------------------------------
(***************************************************************************)
(* Accounts, sessions and the requests that read and write them            *)
(* (domain/store.ts, domain/auth.ts, domain/access.ts, routes/admin.ts).   *)
(*                                                                         *)
(* A request is a sequence of SQL statements without a transaction; every  *)
(* one of them is a step, and what was read before stays in the request's  *)
(* variables.  A password hash is its password: only bcrypt compares them. *)
(***************************************************************************)
EXTENDS Naturals, FiniteSets

CONSTANTS
  User,          \* the rows admin_accounts may have
  FirstAdmin,    \* the account of the seed
  Password,
  FirstPassword,
  Patchers,      \* requests that edit an account, one at a time each
  Clients,       \* requests of every other kind
  Bodies,        \* what an edit may ask for
  MaxSessions,   \* bound: sessions opened
  MaxPatches,    \* bound: edits
  MaxFaults      \* bound: crashes and failed queries

Request == Patchers \cup Clients
Session == 1..MaxSessions
Role == {"reader", "liaison_editor", "admin"}

\* An edit leaves what it does not name.
Body == [role : Role \cup {"same"}, disabled : {"yes", "no", "same"},
         password : Password \cup {"same"}]

ASSUME UserAssumption == IsFiniteSet(User) /\ FirstAdmin \in User
ASSUME PasswordAssumption == FirstPassword \in Password /\ "same" \notin Password
ASSUME RequestAssumption == Patchers \cap Clients = {}
ASSUME BodiesAssumption == Bodies \subseteq Body
ASSUME BoundAssumption == MaxSessions \in Nat /\ MaxPatches \in Nat /\ MaxFaults \in Nat

VARIABLES
  accounts,   \* accounts[u]: the row of u
  sessions,   \* sessions[s]: the row of s
  opened,     \* sessions opened
  stale,      \* sessions whose account was disabled since they were opened (history)
  pc,         \* where a request is
  target,     \* the account it works on
  body,       \* what it was asked for
  row,        \* the row it read
  patches, faults

tables == <<accounts, sessions, opened, stale>>
locals == <<pc, target, body, row>>
vars == <<tables, locals, patches, faults>>

AccountRow == [exists : BOOLEAN, role : Role, disabled : BOOLEAN, password : Password]
NoAccount == [exists |-> FALSE, role |-> "admin", disabled |-> FALSE, password |-> FirstPassword]
SessionRow == [state : {"none", "live", "expired", "deleted"}, user : User]
Asked(role, disabled, password) ==
  [role |-> role, disabled |-> disabled, password |-> password]
NoBody == Asked("same", "same", "same")

Row(role, disabled, password) ==
  [exists |-> TRUE, role |-> role, disabled |-> disabled, password |-> password]

With(state, u) == [state |-> state, user |-> u]

WithPassword(w, p) ==
  [exists |-> w.exists, role |-> w.role, disabled |-> w.disabled, password |-> p]

IsActiveAdmin(r) == r.exists /\ r.role = "admin" /\ ~r.disabled
ActiveAdmins == {u \in User : IsActiveAdmin(accounts[u])}

Goto(r, l) == pc' = [pc EXCEPT ![r] = l]

\* The request answers: what it read is gone.
Answer(r) ==
  /\ Goto(r, "idle")
  /\ target' = [target EXCEPT ![r] = FirstAdmin]
  /\ body' = [body EXCEPT ![r] = NoBody]
  /\ row' = [row EXCEPT ![r] = NoAccount]

Init ==
  /\ accounts = [u \in User |-> IF u = FirstAdmin THEN Row("admin", FALSE, FirstPassword)
                                ELSE NoAccount]
  /\ sessions = [s \in Session |-> With("none", FirstAdmin)]
  /\ opened = 0 /\ stale = {}
  /\ pc = [r \in Request |-> "idle"]
  /\ target = [r \in Request |-> FirstAdmin]
  /\ body = [r \in Request |-> NoBody]
  /\ row = [r \in Request |-> NoAccount]
  /\ patches = 0 /\ faults = 0

-----------------------------------------------------------------------------
(* Sessions.                                                               *)

\* verifyLogin: the row is read once, then compared.
VerifyLogin(r) ==
  /\ r \in Clients /\ pc[r] = "idle"
  /\ \E u \in User :
       /\ accounts[u].exists /\ ~accounts[u].disabled
       /\ target' = [target EXCEPT ![r] = u]
  /\ Goto(r, "open")
  /\ UNCHANGED <<tables, body, row, patches, faults>>

\* createSession, whatever became of the account since.
CreateSession(r) ==
  /\ pc[r] = "open" /\ opened < MaxSessions
  /\ opened' = opened + 1
  /\ sessions' = [sessions EXCEPT ![opened + 1] = With("live", target[r])]
  /\ Answer(r)
  /\ UNCHANGED <<accounts, stale, patches, faults>>

Expire(s) ==
  /\ sessions[s].state = "live"
  /\ sessions' = [sessions EXCEPT ![s] = With("expired", @.user)]
  /\ UNCHANGED <<accounts, opened, stale, locals, patches, faults>>

\* deleteSession, and getSession when it finds the session expired or its account
\* disabled.
DeleteSession(s) ==
  /\ sessions[s].state \in {"live", "expired"}
  /\ sessions' = [sessions EXCEPT ![s] = With("deleted", @.user)]
  /\ UNCHANGED <<accounts, opened, stale, locals, patches, faults>>

\* getSession finds a live session of an enabled account in one of the roles.
Authorized(u, roles) ==
  /\ \E s \in Session : sessions[s] = With("live", u)
  /\ accounts[u].exists /\ ~accounts[u].disabled /\ accounts[u].role \in roles

-----------------------------------------------------------------------------
(* Creating an account and changing one's own password.                    *)

\* requireAdmin, then createUser: the user name is UNIQUE.
StartCreate(r) ==
  /\ r \in Clients /\ pc[r] = "idle"
  /\ \E a \in User : Authorized(a, {"admin"})
  /\ \E u \in User : target' = [target EXCEPT ![r] = u]
  /\ \E w \in Role : body' = [body EXCEPT ![r] = Asked(w, "same", "same")]
  /\ Goto(r, "create")
  /\ UNCHANGED <<tables, row, patches, faults>>

CreateUser(r) ==
  /\ pc[r] = "create"
  /\ accounts' = IF accounts[target[r]].exists THEN accounts
                 ELSE [accounts EXCEPT ![target[r]] = Row(body[r].role, FALSE, FirstPassword)]
  /\ Answer(r)
  /\ UNCHANGED <<sessions, opened, stale, patches, faults>>

\* requireRole, then changeAdminPassword reads the hash and the current password fits.
StartPassword(r) ==
  /\ r \in Clients /\ pc[r] = "idle"
  /\ \E u \in User, w \in Password :
       /\ Authorized(u, Role)
       /\ target' = [target EXCEPT ![r] = u]
       /\ body' = [body EXCEPT ![r] = Asked("same", "same", w)]
  /\ Goto(r, "password")
  /\ UNCHANGED <<tables, row, patches, faults>>

ChangePassword(r) ==
  /\ pc[r] = "password"
  /\ accounts' = [accounts EXCEPT ![target[r]] = WithPassword(@, body[r].password)]
  /\ Answer(r)
  /\ UNCHANGED <<sessions, opened, stale, patches, faults>>

-----------------------------------------------------------------------------
(* patchUser: read, count, write, and end the sessions.                    *)

StartPatch(r) ==
  /\ r \in Patchers /\ pc[r] = "idle" /\ patches < MaxPatches
  /\ patches' = patches + 1
  /\ \E a \in User : Authorized(a, {"admin"})
  /\ \E u \in User, b \in Bodies :
       /\ target' = [target EXCEPT ![r] = u]
       /\ body' = [body EXCEPT ![r] = b]
  /\ Goto(r, "read")
  /\ UNCHANGED <<tables, row, faults>>

\* SELECT the row: none, and the request is refused.
ReadAccount(r) ==
  /\ pc[r] = "read"
  /\ IF accounts[target[r]].exists
     THEN /\ row' = [row EXCEPT ![r] = accounts[target[r]]]
          /\ Goto(r, "count")
          /\ UNCHANGED <<target, body>>
     ELSE Answer(r)
  /\ UNCHANGED <<tables, patches, faults>>

\* Mutant: what the edit does not name is written all the same.
NextRoleAsAsked(w, b) == b.role

NextRole(w, b) == IF b.role = "same" THEN w.role ELSE b.role
NextPassword(w, b) == IF b.password = "same" THEN w.password ELSE b.password
NextDisabled(w, b) == IF b.disabled = "same" THEN w.disabled ELSE b.disabled = "yes"

\* Mutant: only disabling the last administrator is refused.
WouldDisableLastAdmin(w, b, n) ==
  IsActiveAdmin(w) /\ n <= 1 /\ NextDisabled(w, b)

WouldRemoveLastAdmin(w, b, n) ==
  /\ IsActiveAdmin(w) /\ n <= 1
  /\ NextDisabled(w, b) \/ NextRole(w, b) # "admin"

\* SELECT COUNT(*) of the active administrators.
CountAdmins(r) ==
  /\ pc[r] = "count"
  /\ IF WouldRemoveLastAdmin(row[r], body[r], Cardinality(ActiveAdmins))
     THEN Answer(r)
     ELSE Goto(r, "update") /\ UNCHANGED <<target, body, row>>
  /\ UNCHANGED <<tables, patches, faults>>

\* Mutant: an edit that also changes the role ends no session.
UpdateKeepsSessions(r) ==
  LET u == target[r]
      next == Row(NextRole(row[r], body[r]), NextDisabled(row[r], body[r]),
                  NextPassword(row[r], body[r]))
  IN /\ pc[r] = "update"
     /\ accounts' = [accounts EXCEPT ![u] = next]
     /\ stale' = IF next.disabled /\ ~accounts[u].disabled
                 THEN stale \cup {s \in Session : sessions[s].user = u
                                                 /\ sessions[s].state # "none"}
                 ELSE stale
     /\ IF next.disabled /\ ~row[r].disabled /\ next.role = row[r].role
        THEN Goto(r, "purge") /\ UNCHANGED <<target, body, row>>
        ELSE Answer(r)
     /\ UNCHANGED <<sessions, opened, patches, faults>>

\* UPDATE every column, from the edit or from the row that was read.
UpdateAccount(r) ==
  LET u == target[r]
      next == Row(NextRole(row[r], body[r]), NextDisabled(row[r], body[r]),
                  NextPassword(row[r], body[r]))
  IN /\ pc[r] = "update"
     /\ accounts' = [accounts EXCEPT ![u] = next]
     /\ stale' = IF next.disabled /\ ~accounts[u].disabled
                 THEN stale \cup {s \in Session : sessions[s].user = u
                                                 /\ sessions[s].state # "none"}
                 ELSE stale
     /\ IF next.disabled /\ ~row[r].disabled
        THEN Goto(r, "purge") /\ UNCHANGED <<target, body, row>>
        ELSE Answer(r)
     /\ UNCHANGED <<sessions, opened, patches, faults>>

\* DELETE the sessions of an account that was just disabled.
PurgeSessions(r) ==
  /\ pc[r] = "purge"
  /\ sessions' = [s \in Session |->
       IF sessions[s].user = target[r] /\ sessions[s].state # "none"
       THEN With("deleted", target[r]) ELSE sessions[s]]
  /\ Answer(r)
  /\ UNCHANGED <<accounts, opened, stale, patches, faults>>

\* A crash of the API or a query that rejects: the request ends where it is.
Fault(r) ==
  /\ pc[r] # "idle" /\ faults < MaxFaults
  /\ faults' = faults + 1
  /\ Answer(r)
  /\ UNCHANGED <<tables, patches>>

PatchStep(r) ==
  \/ StartPatch(r) \/ ReadAccount(r) \/ CountAdmins(r) \/ UpdateAccount(r) \/ PurgeSessions(r)

ClientStep(r) ==
  \/ VerifyLogin(r) \/ CreateSession(r) \/ StartCreate(r) \/ CreateUser(r)
  \/ StartPassword(r) \/ ChangePassword(r)

Next ==
  \/ \E r \in Request : PatchStep(r) \/ ClientStep(r) \/ Fault(r)
  \/ \E s \in Session : Expire(s) \/ DeleteSession(s)

Spec == Init /\ [][Next]_vars

-----------------------------------------------------------------------------
(* Properties.                                                             *)

PC == {"idle", "open", "create", "password", "read", "count", "update", "purge"}

\* Every row and every local variable has its type.
TypeOK ==
  /\ accounts \in [User -> AccountRow]
  /\ sessions \in [Session -> SessionRow]
  /\ opened \in 0..MaxSessions /\ stale \subseteq Session
  /\ pc \in [Request -> PC]
  /\ target \in [Request -> User]
  /\ body \in [Request -> Body]
  /\ row \in [Request -> AccountRow]
  /\ patches \in Nat /\ faults \in Nat

\* An active administrator always remains (openspec/specs/auth/spec.md:150,
\* wouldRemoveLastAdmin).
AdminRemains == ActiveAdmins # {}

\* Disabling an account ends the sessions opened before, for good: none of them is
\* live when the account is enabled again (patchUser's DELETE after its UPDATE).
DisableEndsSessions ==
  faults = 0 =>
    \A s \in stale : sessions[s].state = "live" =>
      \E r \in Patchers : pc[r] = "purge" /\ target[r] = sessions[s].user
=============================================================================
