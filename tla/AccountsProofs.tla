--------------------------- MODULE AccountsProofs ---------------------------
(***************************************************************************)
(* Whatever the number of accounts, sessions and other requests: while one *)
(* request at a time edits accounts, an active administrator remains and   *)
(* an account that is disabled loses its sessions for good.  With two      *)
(* concurrent edits the first statement is false (run last_admin).         *)
(***************************************************************************)
EXTENDS Accounts, FiniteSetTheorems, TLAPS

\* At most one edit is under way.
OneEdit == \A p, q \in Patchers : p = q

-----------------------------------------------------------------------------
(* Types.                                                                  *)

LEMMA RowType ==
  ASSUME NEW w \in Role, NEW d \in BOOLEAN, NEW p \in Password
  PROVE  /\ Row(w, d, p) \in AccountRow
         /\ Row(w, d, p).exists /\ Row(w, d, p).role = w /\ Row(w, d, p).disabled = d
  BY DEF Row, AccountRow

LEMMA WithPasswordType ==
  ASSUME NEW r \in AccountRow, NEW p \in Password
  PROVE  /\ WithPassword(r, p) \in AccountRow
         /\ WithPassword(r, p).exists = r.exists /\ WithPassword(r, p).role = r.role
         /\ WithPassword(r, p).disabled = r.disabled
  BY DEF WithPassword, AccountRow

LEMMA WithType ==
  ASSUME NEW u \in User, NEW l \in {"none", "live", "expired", "deleted"}
  PROVE  With(l, u) \in SessionRow /\ With(l, u).state = l /\ With(l, u).user = u
  BY DEF With, SessionRow

LEMMA AskedType ==
  ASSUME NEW w \in Role \cup {"same"}, NEW d \in {"yes", "no", "same"},
         NEW p \in Password \cup {"same"}
  PROVE  /\ Asked(w, d, p) \in Body
         /\ Asked(w, d, p).role = w /\ Asked(w, d, p).password = p
  BY DEF Asked, Body

LEMMA Blank == NoBody \in Body /\ NoAccount \in AccountRow
  BY PasswordAssumption, AskedType DEF NoBody, NoAccount, AccountRow, Role

LEMMA NextTypes ==
  ASSUME NEW w \in AccountRow, NEW b \in Body
  PROVE  /\ NextRole(w, b) \in Role /\ NextPassword(w, b) \in Password
         /\ NextDisabled(w, b) \in BOOLEAN
  BY DEF NextRole, NextPassword, NextDisabled, AccountRow, Body

\* What a creation or a change of password asks for is there.
BodyFits ==
  \A r \in Request : /\ pc[r] = "create" => body[r].role \in Role
                     /\ pc[r] = "password" => body[r].password \in Password

TypeInv == TypeOK /\ BodyFits

LEMMA TypeInit == Init => TypeOK
<1> SUFFICES ASSUME Init
             PROVE  TypeOK
  OBVIOUS
<1>1. Row("admin", FALSE, FirstPassword) \in AccountRow
  BY PasswordAssumption, RowType DEF Role
<1>2. With("none", FirstAdmin) \in SessionRow
  BY UserAssumption, WithType
<1>3. 0 \in 0..MaxSessions
  BY BoundAssumption
<1>. QED
  BY <1>1, <1>2, <1>3, Blank, UserAssumption DEF Init, TypeOK, PC

LEMMA AnswerType ==
  ASSUME TypeOK, NEW r \in Request, Answer(r)
  PROVE  /\ pc' \in [Request -> PC] /\ target' \in [Request -> User]
         /\ body' \in [Request -> Body] /\ row' \in [Request -> AccountRow]
  BY Blank, UserAssumption DEF Answer, Goto, TypeOK, PC

LEMMA TypeNext == TypeInv /\ [Next]_vars => TypeOK'
<1> SUFFICES ASSUME TypeOK, BodyFits, [Next]_vars
             PROVE  TypeOK'
  BY DEF TypeInv
<1> USE DEF TypeOK
<1>1. ASSUME NEW r \in Request, PatchStep(r)
      PROVE  TypeOK'
  <2>1. CASE StartPatch(r)
    <3>1. PICK u \in User, b \in Bodies : /\ target' = [target EXCEPT ![r] = u]
                                          /\ body' = [body EXCEPT ![r] = b]
      BY <2>1 DEF StartPatch
    <3>2. b \in Body
      BY BodiesAssumption
    <3>3. target' \in [Request -> User] /\ body' \in [Request -> Body]
      BY <3>1, <3>2
    <3>4. pc' \in [Request -> PC] /\ patches' \in Nat
      BY <2>1 DEF StartPatch, Goto, PC
    <3>. QED
      BY <2>1, <3>3, <3>4 DEF StartPatch, tables
  <2>2. CASE ReadAccount(r)
    <3>1. CASE accounts[target[r]].exists
      BY <2>2, <3>1 DEF ReadAccount, Goto, tables, PC
    <3>2. CASE ~accounts[target[r]].exists
      BY <2>2, <3>2, AnswerType DEF ReadAccount, tables
    <3>. QED
      BY <3>1, <3>2
  <2>3. CASE CountAdmins(r)
    <3>1. Answer(r) \/ (Goto(r, "update") /\ UNCHANGED <<target, body, row>>)
      BY <2>3 DEF CountAdmins
    <3>2. UNCHANGED <<tables, patches, faults>>
      BY <2>3 DEF CountAdmins
    <3>. QED
      BY <3>1, <3>2, AnswerType DEF Goto, tables, PC
  <2>4. CASE UpdateAccount(r)
    <3>1. accounts' \in [User -> AccountRow]
      <4>1. row[r] \in AccountRow /\ body[r] \in Body
        OBVIOUS
      <4>2. Row(NextRole(row[r], body[r]), NextDisabled(row[r], body[r]),
                NextPassword(row[r], body[r])) \in AccountRow
        BY <4>1, NextTypes, RowType
      <4>3. accounts' = [accounts EXCEPT ![target[r]] =
              Row(NextRole(row[r], body[r]), NextDisabled(row[r], body[r]),
                  NextPassword(row[r], body[r]))]
        BY <2>4 DEF UpdateAccount
      <4>. QED
        BY <4>2, <4>3
    <3>2. stale' \subseteq Session
      BY <2>4 DEF UpdateAccount
    <3>3. Answer(r) \/ (Goto(r, "purge") /\ UNCHANGED <<target, body, row>>)
      BY <2>4 DEF UpdateAccount
    <3>4. UNCHANGED <<sessions, opened, patches, faults>>
      BY <2>4 DEF UpdateAccount
    <3>. QED
      BY <3>1, <3>2, <3>3, <3>4, AnswerType DEF Goto, PC
  <2>5. CASE PurgeSessions(r)
    <3>1. With("deleted", target[r]) \in SessionRow
      BY WithType
    <3>2. sessions' \in [Session -> SessionRow]
      BY <2>5, <3>1 DEF PurgeSessions
    <3>. QED
      BY <2>5, <3>2, AnswerType DEF PurgeSessions
  <2>. QED
    BY <1>1, <2>1, <2>2, <2>3, <2>4, <2>5 DEF PatchStep
<1>2. ASSUME NEW r \in Request, ClientStep(r)
      PROVE  TypeOK'
  <2>1. CASE VerifyLogin(r)
    BY <2>1 DEF VerifyLogin, Goto, tables, PC
  <2>2. CASE CreateSession(r)
    <3>1. opened' \in 0..MaxSessions /\ opened + 1 \in Session
      BY <2>2, BoundAssumption DEF CreateSession, Session
    <3>2. With("live", target[r]) \in SessionRow
      BY WithType
    <3>3. sessions' = [sessions EXCEPT ![opened + 1] = With("live", target[r])]
      BY <2>2 DEF CreateSession
    <3>. QED
      BY <2>2, <3>1, <3>2, <3>3, AnswerType DEF CreateSession
  <2>3. CASE StartCreate(r)
    <3>1. PICK u \in User : target' = [target EXCEPT ![r] = u]
      BY <2>3 DEF StartCreate
    <3>2. PICK w \in Role : body' = [body EXCEPT ![r] = Asked(w, "same", "same")]
      BY <2>3 DEF StartCreate
    <3>3. Asked(w, "same", "same") \in Body
      BY AskedType
    <3>4. target' \in [Request -> User] /\ body' \in [Request -> Body]
      BY <3>1, <3>2, <3>3
    <3>. QED
      BY <2>3, <3>4 DEF StartCreate, Goto, tables, PC
  <2>4. CASE CreateUser(r)
    <3>1. Row(body[r].role, FALSE, FirstPassword) \in AccountRow
      BY <2>4, PasswordAssumption, RowType DEF CreateUser, BodyFits
    <3>2. accounts' \in [User -> AccountRow]
      BY <2>4, <3>1 DEF CreateUser
    <3>. QED
      BY <2>4, <3>2, AnswerType DEF CreateUser
  <2>5. CASE StartPassword(r)
    <3>1. PICK u \in User, w \in Password :
            /\ target' = [target EXCEPT ![r] = u]
            /\ body' = [body EXCEPT ![r] = Asked("same", "same", w)]
      BY <2>5 DEF StartPassword
    <3>2. Asked("same", "same", w) \in Body
      BY AskedType
    <3>3. target' \in [Request -> User] /\ body' \in [Request -> Body]
      BY <3>1, <3>2
    <3>. QED
      BY <2>5, <3>3 DEF StartPassword, Goto, tables, PC
  <2>6. CASE ChangePassword(r)
    <3>1. WithPassword(accounts[target[r]], body[r].password) \in AccountRow
      BY <2>6, WithPasswordType DEF ChangePassword, BodyFits
    <3>2. accounts' = [accounts EXCEPT ![target[r]] =
            WithPassword(accounts[target[r]], body[r].password)]
      BY <2>6 DEF ChangePassword
    <3>3. accounts' \in [User -> AccountRow]
      BY <3>1, <3>2
    <3>. QED
      BY <2>6, <3>3, AnswerType DEF ChangePassword
  <2>. QED
    BY <1>2, <2>1, <2>2, <2>3, <2>4, <2>5, <2>6 DEF ClientStep
<1>3. ASSUME NEW r \in Request, Fault(r)
      PROVE  TypeOK'
  BY <1>3, AnswerType DEF Fault, tables
<1>4. ASSUME NEW s \in Session, Expire(s) \/ DeleteSession(s)
      PROVE  TypeOK'
  <2>1. With("expired", sessions[s].user) \in SessionRow
    BY WithType DEF SessionRow
  <2>2. With("deleted", sessions[s].user) \in SessionRow
    BY WithType DEF SessionRow
  <2>3. sessions' \in [Session -> SessionRow]
    BY <1>4, <2>1, <2>2 DEF Expire, DeleteSession
  <2>. QED
    BY <1>4, <2>3 DEF Expire, DeleteSession, locals
<1>5. CASE UNCHANGED vars
  BY <1>5 DEF vars, tables, locals
<1>. QED
  BY <1>1, <1>2, <1>3, <1>4, <1>5 DEF Next

LEMMA BodyNext == TypeInv /\ [Next]_vars => BodyFits'
<1> SUFFICES ASSUME TypeOK, BodyFits, [Next]_vars
             PROVE  BodyFits'
  BY DEF TypeInv
<1> USE DEF TypeOK, BodyFits, Goto
<1>1. ASSUME NEW r \in Request, Answer(r)
      PROVE  BodyFits'
  BY <1>1 DEF Answer
<1>2. ASSUME NEW r \in Request, PatchStep(r)
      PROVE  BodyFits'
  <2>1. CASE StartPatch(r)
    <3>1. PICK b \in Bodies : body' = [body EXCEPT ![r] = b]
      BY <2>1 DEF StartPatch
    <3>2. pc' = [pc EXCEPT ![r] = "read"]
      BY <2>1 DEF StartPatch
    <3>. QED
      BY <3>1, <3>2
  <2>2. CASE ReadAccount(r) \/ CountAdmins(r) \/ UpdateAccount(r) \/ PurgeSessions(r)
    <3>1. \/ Answer(r)
          \/ \E l \in {"count", "update", "purge"} :
               pc' = [pc EXCEPT ![r] = l] /\ body' = body
      BY <2>2 DEF ReadAccount, CountAdmins, UpdateAccount, PurgeSessions
    <3>. QED
      BY <1>1, <3>1
  <2>. QED
    BY <1>2, <2>1, <2>2 DEF PatchStep
<1>3. ASSUME NEW r \in Request, ClientStep(r)
      PROVE  BodyFits'
  <2>1. CASE VerifyLogin(r)
    BY <2>1 DEF VerifyLogin
  <2>2. CASE StartCreate(r)
    <3>1. PICK w \in Role : body' = [body EXCEPT ![r] = Asked(w, "same", "same")]
      BY <2>2 DEF StartCreate
    <3>2. Asked(w, "same", "same").role \in Role
      BY AskedType
    <3>3. pc' = [pc EXCEPT ![r] = "create"]
      BY <2>2 DEF StartCreate
    <3>. QED
      BY <3>1, <3>2, <3>3
  <2>3. CASE StartPassword(r)
    <3>1. PICK w \in Password : body' = [body EXCEPT ![r] = Asked("same", "same", w)]
      BY <2>3 DEF StartPassword
    <3>2. Asked("same", "same", w).password \in Password
      BY DEF Asked
    <3>3. pc' = [pc EXCEPT ![r] = "password"]
      BY <2>3 DEF StartPassword
    <3>. QED
      BY <3>1, <3>2, <3>3
  <2>4. CASE CreateSession(r) \/ CreateUser(r) \/ ChangePassword(r)
    BY <1>1, <2>4 DEF CreateSession, CreateUser, ChangePassword
  <2>. QED
    BY <1>3, <2>1, <2>2, <2>3, <2>4 DEF ClientStep
<1>4. ASSUME NEW r \in Request, Fault(r)
      PROVE  BodyFits'
  BY <1>1, <1>4 DEF Fault
<1>5. CASE (\E s \in Session : Expire(s) \/ DeleteSession(s)) \/ UNCHANGED vars
  BY <1>5 DEF Expire, DeleteSession, locals, vars
<1>. QED
  BY <1>2, <1>3, <1>4, <1>5 DEF Next

LEMMA TypeInvHolds == Spec => []TypeInv
<1>1. Init => TypeInv
  BY TypeInit DEF TypeInv, BodyFits, Init
<1>2. TypeInv /\ [Next]_vars => TypeInv'
  BY TypeNext, BodyNext DEF TypeInv
<1>. QED
  BY <1>1, <1>2, PTL DEF Spec

\* Every row and every local variable has its type.
THEOREM TypeCorrect == Spec => []TypeOK
<1>1. TypeInv => TypeOK
  BY DEF TypeInv
<1>. QED
  BY <1>1, TypeInvHolds, PTL

-----------------------------------------------------------------------------
(* An active administrator remains.                                        *)

PatchPC == {"idle", "read", "count", "update", "purge"}
ClientPC == {"idle", "open", "create", "password"}

\* An edit is only at the steps of an edit, other requests never are.
Places ==
  /\ \A r \in Patchers : pc[r] \in PatchPC
  /\ \A r \in Clients : pc[r] \in ClientPC

\* What the edit under way read is still what the table holds, the password apart.
RowIsCurrent ==
  \A r \in Patchers : pc[r] \in {"count", "update"} =>
    /\ accounts[target[r]].exists /\ row[r].exists
    /\ row[r].role = accounts[target[r]].role
    /\ row[r].disabled = accounts[target[r]].disabled

Demotes(r) == NextDisabled(row[r], body[r]) \/ NextRole(row[r], body[r]) # "admin"

\* An edit that is about to take the role of an active administrator away, or to
\* disable it, leaves another one.
AnotherRemains ==
  \A r \in Patchers :
    pc[r] = "update" /\ IsActiveAdmin(accounts[target[r]]) /\ Demotes(r) =>
      \E u \in User \ {target[r]} : IsActiveAdmin(accounts[u])

AdminInv == TypeInv /\ Places /\ RowIsCurrent /\ AnotherRemains /\ AdminRemains

\* A set of accounts that holds one and counts more than one holds another.
LEMMA SecondAdmin ==
  ASSUME NEW S \in SUBSET User, NEW u \in S, ~(Cardinality(S) <= 1)
  PROVE  \E v \in S : v # u
<1> SUFFICES ASSUME S = {u}
             PROVE  FALSE
  OBVIOUS
<1>1. Cardinality(S) = 1
  BY FS_Singleton
<1>. QED
  BY <1>1

\* Whatever keeps every administrator where it is keeps the promises of the edit.
LEMMA AccountsGrow ==
  ASSUME AdminInv,
         \A u \in User : accounts[u].exists =>
            /\ accounts'[u].exists /\ accounts'[u].role = accounts[u].role
            /\ accounts'[u].disabled = accounts[u].disabled,
         \A p \in Patchers : /\ target'[p] = target[p] /\ body'[p] = body[p]
                             /\ row'[p] = row[p] /\ pc'[p] = pc[p]
  PROVE  RowIsCurrent' /\ AnotherRemains' /\ AdminRemains'
<1> USE DEF AdminInv
<1>1. \A u \in User : IsActiveAdmin(accounts[u]) => IsActiveAdmin(accounts'[u])
  BY DEF IsActiveAdmin
<1>2. AdminRemains'
  BY <1>1 DEF AdminRemains, ActiveAdmins
<1>3. \A p \in Patchers : target[p] \in User
  BY DEF TypeInv, TypeOK, Request
<1>4. RowIsCurrent'
  BY <1>3 DEF RowIsCurrent
<1>5. AnotherRemains'
  <2> SUFFICES ASSUME NEW p \in Patchers, pc'[p] = "update",
                      IsActiveAdmin(accounts'[target'[p]]), Demotes(p)'
               PROVE  \E u \in User \ {target'[p]} : IsActiveAdmin(accounts'[u])
    BY DEF AnotherRemains
  <2>1. Demotes(p)
    BY DEF Demotes
  <2>2. IsActiveAdmin(accounts[target[p]])
    BY <1>3 DEF IsActiveAdmin, RowIsCurrent
  <2>. QED
    BY <1>1, <2>1, <2>2 DEF AnotherRemains
<1>. QED
  BY <1>2, <1>4, <1>5

LEMMA PlacesNext == TypeInv /\ Places /\ [Next]_vars => Places'
<1> SUFFICES ASSUME TypeOK, Places, [Next]_vars
             PROVE  Places'
  BY DEF TypeInv
<1> USE DEF TypeOK, Places, PatchPC, ClientPC, Request
<1>1. ASSUME NEW r \in Request, Answer(r)
      PROVE  Places'
  BY <1>1 DEF Answer, Goto
<1>2. ASSUME NEW r \in Request, PatchStep(r)
      PROVE  Places'
  <2>1. r \notin Clients
    BY <1>2, RequestAssumption
       DEF PatchStep, StartPatch, ReadAccount, CountAdmins, UpdateAccount, PurgeSessions
  <2>2. \/ Answer(r)
        \/ \E l \in {"read", "count", "update", "purge"} : pc' = [pc EXCEPT ![r] = l]
    BY <1>2 DEF PatchStep, StartPatch, ReadAccount, CountAdmins, UpdateAccount,
                PurgeSessions, Goto
  <2>. QED
    BY <1>1, <2>1, <2>2
<1>3. ASSUME NEW r \in Request, ClientStep(r)
      PROVE  Places'
  <2>1. r \notin Patchers
    BY <1>3, RequestAssumption
       DEF ClientStep, VerifyLogin, CreateSession, StartCreate, CreateUser,
           StartPassword, ChangePassword
  <2>2. \/ Answer(r)
        \/ \E l \in {"open", "create", "password"} : pc' = [pc EXCEPT ![r] = l]
    BY <1>3 DEF ClientStep, VerifyLogin, CreateSession, StartCreate, CreateUser,
                StartPassword, ChangePassword, Goto
  <2>. QED
    BY <1>1, <2>1, <2>2
<1>4. ASSUME NEW r \in Request, Fault(r)
      PROVE  Places'
  BY <1>1, <1>4 DEF Fault
<1>5. CASE (\E s \in Session : Expire(s) \/ DeleteSession(s)) \/ UNCHANGED vars
  BY <1>5 DEF Expire, DeleteSession, locals, vars
<1>. QED
  BY <1>2, <1>3, <1>4, <1>5 DEF Next

\* A request that edits nothing removes no administrator.
LEMMA OthersRemoveNobody ==
  ASSUME AdminInv,
         \/ \E r \in Request : ClientStep(r) \/ (r \in Clients /\ Fault(r))
         \/ \E s \in Session : Expire(s) \/ DeleteSession(s)
         \/ UNCHANGED vars
  PROVE  RowIsCurrent' /\ AnotherRemains' /\ AdminRemains'
<1> USE DEF AdminInv, TypeInv, TypeOK
<1>1. ASSUME NEW r \in Clients,
             \A p \in Patchers : p # r =>
               /\ target'[p] = target[p] /\ body'[p] = body[p]
               /\ row'[p] = row[p] /\ pc'[p] = pc[p]
      PROVE  \A p \in Patchers : /\ target'[p] = target[p] /\ body'[p] = body[p]
                                 /\ row'[p] = row[p] /\ pc'[p] = pc[p]
  BY <1>1, RequestAssumption
<1>2. ASSUME NEW r \in Request, ClientStep(r)
      PROVE  RowIsCurrent' /\ AnotherRemains' /\ AdminRemains'
  <2>1. r \in Clients
    BY <1>2 DEF ClientStep, VerifyLogin, CreateSession, StartCreate, CreateUser,
                StartPassword, ChangePassword, Places, PatchPC, Request
  <2>2. \A p \in Patchers : p # r => /\ target'[p] = target[p] /\ body'[p] = body[p]
                                     /\ row'[p] = row[p] /\ pc'[p] = pc[p]
    BY <1>2 DEF ClientStep, VerifyLogin, CreateSession, StartCreate, CreateUser,
                StartPassword, ChangePassword, Answer, Goto, Request
  <2>3. \A u \in User : accounts[u].exists =>
          /\ accounts'[u].exists /\ accounts'[u].role = accounts[u].role
          /\ accounts'[u].disabled = accounts[u].disabled
    <3>1. CASE CreateUser(r)
      BY <3>1 DEF CreateUser
    <3>2. CASE ChangePassword(r)
      <4>1. accounts' = [accounts EXCEPT ![target[r]] =
              WithPassword(accounts[target[r]], body[r].password)]
        BY <3>2 DEF ChangePassword
      <4>2. body[r].password \in Password
        BY <3>2 DEF ChangePassword, BodyFits
      <4>. QED
        BY <4>1, <4>2, WithPasswordType
    <3>3. CASE accounts' = accounts
      BY <3>3
    <3>. QED
      BY <1>2, <3>1, <3>2, <3>3 DEF ClientStep, VerifyLogin, CreateSession, StartCreate,
         StartPassword, tables
  <2>. QED
    BY <2>1, <2>2, <2>3, <1>1, AccountsGrow
<1>3. ASSUME NEW r \in Clients, Fault(r)
      PROVE  RowIsCurrent' /\ AnotherRemains' /\ AdminRemains'
  <2>1. \A p \in Patchers : p # r => /\ target'[p] = target[p] /\ body'[p] = body[p]
                                     /\ row'[p] = row[p] /\ pc'[p] = pc[p]
    BY <1>3 DEF Fault, Answer, Goto, Request
  <2>2. accounts' = accounts
    BY <1>3 DEF Fault, tables
  <2>. QED
    BY <1>1, <2>1, <2>2, AccountsGrow
<1>4. ASSUME NEW s \in Session, Expire(s) \/ DeleteSession(s)
      PROVE  RowIsCurrent' /\ AnotherRemains' /\ AdminRemains'
  BY <1>4, AccountsGrow DEF Expire, DeleteSession, locals
<1>5. CASE UNCHANGED vars
  BY <1>5, AccountsGrow DEF vars, tables, locals
<1>. QED
  BY <1>2, <1>3, <1>4, <1>5

\* The count refuses the edit that would leave nobody.
LEMMA CountLeavesAnother ==
  ASSUME OneEdit, AdminInv, NEW r \in Patchers, CountAdmins(r)
  PROVE  RowIsCurrent' /\ AnotherRemains' /\ AdminRemains'
<1> USE DEF AdminInv, TypeInv, TypeOK
<1>1. accounts' = accounts /\ AdminRemains'
  BY DEF CountAdmins, tables, AdminRemains, ActiveAdmins
<1>2. \A p \in Patchers : p = r
  BY DEF OneEdit
<1>3. r \in Request /\ target[r] \in User
  BY DEF Request
<1>4. CASE WouldRemoveLastAdmin(row[r], body[r], Cardinality(ActiveAdmins))
  BY <1>1, <1>2, <1>3, <1>4
     DEF CountAdmins, Answer, Goto, RowIsCurrent, AnotherRemains
<1>5. CASE ~WouldRemoveLastAdmin(row[r], body[r], Cardinality(ActiveAdmins))
  <2>1. pc' = [pc EXCEPT ![r] = "update"] /\ UNCHANGED <<target, body, row>>
    BY <1>5 DEF CountAdmins, Goto
  <2>2. pc[r] = "count"
    BY DEF CountAdmins
  <2>3. RowIsCurrent'
    BY <1>1, <1>2, <2>1, <2>2 DEF RowIsCurrent
  <2>4. ASSUME IsActiveAdmin(accounts[target[r]]), Demotes(r)
        PROVE  \E u \in User \ {target[r]} : IsActiveAdmin(accounts[u])
    <3>1. IsActiveAdmin(row[r])
      BY <2>2, <2>4, <1>3 DEF IsActiveAdmin, RowIsCurrent
    <3>2. ~(Cardinality(ActiveAdmins) <= 1)
      BY <1>5, <2>4, <3>1 DEF WouldRemoveLastAdmin, Demotes
    <3>3. target[r] \in ActiveAdmins /\ ActiveAdmins \in SUBSET User
      BY <2>4, <1>3 DEF ActiveAdmins
    <3>4. \E v \in ActiveAdmins : v # target[r]
      BY <3>2, <3>3, SecondAdmin
    <3>. QED
      BY <3>4 DEF ActiveAdmins
  <2>5. AnotherRemains'
    <3> SUFFICES ASSUME IsActiveAdmin(accounts[target[r]]), Demotes(r)'
                 PROVE  \E u \in User \ {target[r]} : IsActiveAdmin(accounts[u])
      BY <1>1, <1>2, <2>1 DEF AnotherRemains
    <3>1. Demotes(r)
      BY <2>1 DEF Demotes
    <3>. QED
      BY <2>4, <3>1
  <2>. QED
    BY <1>1, <2>3, <2>5
<1>. QED
  BY <1>4, <1>5

\* The write leaves the administrator the count saw.
LEMMA UpdateLeavesOne ==
  ASSUME OneEdit, AdminInv, NEW r \in Patchers, UpdateAccount(r)
  PROVE  RowIsCurrent' /\ AnotherRemains' /\ AdminRemains'
<1> USE DEF AdminInv, TypeInv, TypeOK
<1> DEFINE n == Row(NextRole(row[r], body[r]), NextDisabled(row[r], body[r]),
                    NextPassword(row[r], body[r]))
<1>1. \A p \in Patchers : p = r
  BY DEF OneEdit
<1>2. r \in Request /\ target[r] \in User /\ row[r] \in AccountRow /\ body[r] \in Body
  BY DEF Request
<1>3. pc'[r] \notin {"count", "update"}
  BY <1>2 DEF UpdateAccount, Answer, Goto
<1>4. RowIsCurrent' /\ AnotherRemains'
  BY <1>1, <1>3 DEF RowIsCurrent, AnotherRemains
<1>5. pc[r] = "update" /\ accounts' = [accounts EXCEPT ![target[r]] = n]
  BY DEF UpdateAccount
<1>6. n.exists /\ n.role = NextRole(row[r], body[r]) /\ n.disabled = NextDisabled(row[r], body[r])
  BY <1>2, NextTypes, RowType
<1> HIDE DEF n
<1>7. AdminRemains'
  <2>1. CASE IsActiveAdmin(n)
    BY <1>2, <1>5, <2>1 DEF AdminRemains, ActiveAdmins
  <2>2. CASE ~IsActiveAdmin(n)
    <3>1. Demotes(r)
      BY <1>6, <2>2 DEF IsActiveAdmin, Demotes
    <3>2. PICK u \in User \ {target[r]} : IsActiveAdmin(accounts[u])
      BY <1>5, <3>1 DEF AnotherRemains, AdminRemains, ActiveAdmins
    <3>3. accounts'[u] = accounts[u]
      BY <1>5, <3>2
    <3>. QED
      BY <3>2, <3>3 DEF AdminRemains, ActiveAdmins
  <2>. QED
    BY <2>1, <2>2
<1>. QED
  BY <1>4, <1>7

LEMMA AdminInit == Init => AdminInv
<1> SUFFICES ASSUME Init
             PROVE  AdminInv
  OBVIOUS
<1>1. TypeInv /\ Places /\ RowIsCurrent /\ AnotherRemains
  BY TypeInit DEF Init, TypeInv, BodyFits, Places, PatchPC, ClientPC, Request,
     RowIsCurrent, AnotherRemains
<1>2. accounts[FirstAdmin] = Row("admin", FALSE, FirstPassword)
  BY UserAssumption DEF Init
<1>3. IsActiveAdmin(accounts[FirstAdmin])
  BY <1>2 DEF IsActiveAdmin, Row
<1>. QED
  BY <1>1, <1>3, UserAssumption DEF AdminInv, AdminRemains, ActiveAdmins

LEMMA AdminNext ==
  ASSUME OneEdit
  PROVE  AdminInv /\ [Next]_vars => AdminInv'
<1> SUFFICES ASSUME AdminInv, [Next]_vars
             PROVE  AdminInv'
  OBVIOUS
<1>1. TypeInv' /\ Places'
  BY TypeNext, BodyNext, PlacesNext DEF AdminInv, TypeInv
<1>2. ASSUME NEW r \in Patchers, PatchStep(r) \/ Fault(r)
      PROVE  RowIsCurrent' /\ AnotherRemains' /\ AdminRemains'
  <2> USE DEF AdminInv, TypeInv, TypeOK
  <2>1. \A p \in Patchers : p = r
    BY DEF OneEdit
  <2>2. r \in Request
    BY DEF Request
  <2>3. CASE StartPatch(r) \/ PurgeSessions(r) \/ Fault(r)
    <3>1. pc'[r] \notin {"count", "update"} /\ accounts' = accounts
      BY <2>2, <2>3 DEF StartPatch, PurgeSessions, Fault, Answer, Goto, tables
    <3>. QED
      BY <2>1, <3>1 DEF RowIsCurrent, AnotherRemains, AdminRemains, ActiveAdmins
  <2>4. CASE ReadAccount(r)
    <3>1. accounts' = accounts /\ pc'[r] # "update"
      BY <2>2, <2>4 DEF ReadAccount, Answer, Goto, tables
    <3>2. pc'[r] = "count" => /\ accounts[target[r]].exists /\ target' = target
                              /\ row'[r] = accounts[target[r]]
      BY <2>2, <2>4 DEF ReadAccount, Answer, Goto
    <3>. QED
      BY <2>1, <3>1, <3>2 DEF RowIsCurrent, AnotherRemains, AdminRemains, ActiveAdmins
  <2>5. CASE CountAdmins(r)
    BY <2>5, CountLeavesAnother
  <2>6. CASE UpdateAccount(r)
    BY <2>6, UpdateLeavesOne
  <2>. QED
    BY <1>2, <2>3, <2>4, <2>5, <2>6 DEF PatchStep
<1>3. ASSUME NEW r \in Clients
      PROVE  ~PatchStep(r)
  BY RequestAssumption DEF AdminInv, Places, ClientPC, PatchStep, StartPatch, ReadAccount,
     CountAdmins, UpdateAccount, PurgeSessions
<1>4. \/ \E r \in Patchers : PatchStep(r) \/ Fault(r)
      \/ \E r \in Request : ClientStep(r) \/ (r \in Clients /\ Fault(r))
      \/ \E s \in Session : Expire(s) \/ DeleteSession(s)
      \/ UNCHANGED vars
  BY <1>3 DEF Next, Request
<1>5. RowIsCurrent' /\ AnotherRemains' /\ AdminRemains'
  BY <1>2, <1>4, OthersRemoveNobody
<1>. QED
  BY <1>1, <1>5 DEF AdminInv

\* While one request at a time edits accounts, an active administrator remains,
\* whatever logs in, creates accounts, changes passwords, crashes or fails
\* (openspec/specs/auth/spec.md:150, patchUser).
THEOREM AdminAlwaysRemains ==
  ASSUME OneEdit
  PROVE  Spec => []AdminRemains
<1>1. AdminInv => AdminRemains
  BY DEF AdminInv
<1>. QED
  BY <1>1, AdminInit, AdminNext, PTL DEF Spec

-----------------------------------------------------------------------------
(* Disabling an account ends its sessions.                                 *)

\* Only opened sessions have a row, and only those can be left behind.
OpenedSessions ==
  /\ \A s \in Session : s > opened => sessions[s].state = "none"
  /\ \A s \in stale : sessions[s].state # "none"

PurgePending(u) == \E r \in Patchers : pc[r] = "purge" /\ target[r] = u

EndInv == AdminInv /\ OpenedSessions /\ DisableEndsSessions

LEMMA OpenedNext == AdminInv /\ OpenedSessions /\ [Next]_vars => OpenedSessions'
<1> SUFFICES ASSUME TypeOK, OpenedSessions, [Next]_vars
             PROVE  OpenedSessions'
  BY DEF AdminInv, TypeInv
<1> USE DEF OpenedSessions, TypeOK
<1>1. CASE UNCHANGED <<sessions, opened, stale>>
  BY <1>1
<1>2. ASSUME NEW r \in Request, CreateSession(r)
      PROVE  OpenedSessions'
  <2>1. opened \in Nat /\ opened + 1 \in Session
    BY <1>2, BoundAssumption DEF CreateSession, Session
  <2>2. With("live", target[r]).state = "live"
    BY DEF With
  <2>3. /\ sessions' = [sessions EXCEPT ![opened + 1] = With("live", target[r])]
        /\ opened' = opened + 1 /\ stale' = stale
    BY <1>2 DEF CreateSession
  <2>4. \A s \in Session : s \in Nat
    BY BoundAssumption DEF Session
  <2>. QED
    BY <2>1, <2>2, <2>3, <2>4
<1>3. ASSUME NEW r \in Request, UpdateAccount(r)
      PROVE  OpenedSessions'
  BY <1>3 DEF UpdateAccount
<1>4. ASSUME NEW r \in Request, PurgeSessions(r)
      PROVE  OpenedSessions'
  <2>1. \A s \in Session : \/ sessions'[s] = sessions[s]
                           \/ sessions[s].state # "none" /\ sessions'[s].state = "deleted"
    BY <1>4 DEF PurgeSessions, With
  <2>2. opened' = opened /\ stale' = stale
    BY <1>4 DEF PurgeSessions
  <2>. QED
    BY <2>1, <2>2
<1>5. ASSUME NEW s \in Session, Expire(s) \/ DeleteSession(s)
      PROVE  OpenedSessions'
  <2>1. \E l \in {"expired", "deleted"} :
          sessions' = [sessions EXCEPT ![s] = With(l, sessions[s].user)]
    BY <1>5 DEF Expire, DeleteSession
  <2>2. sessions[s].state # "none" /\ opened' = opened /\ stale' = stale
    BY <1>5 DEF Expire, DeleteSession
  <2>3. \A l : With(l, sessions[s].user).state = l
    BY DEF With
  <2>. QED
    BY <2>1, <2>2, <2>3
<1>. QED
  BY <1>1, <1>2, <1>3, <1>4, <1>5
     DEF Next, PatchStep, ClientStep, StartPatch, ReadAccount, CountAdmins, VerifyLogin,
         StartCreate, CreateUser, StartPassword, ChangePassword, Fault, tables, vars

\* A request that edits nothing ends, opens or expires one session at most.
LEMMA OthersKeepEnds ==
  ASSUME EndInv,
         \/ \E r \in Request : ClientStep(r) \/ Fault(r)
         \/ \E s \in Session : Expire(s) \/ DeleteSession(s)
         \/ UNCHANGED vars
  PROVE  DisableEndsSessions'
<1> USE DEF EndInv, AdminInv, TypeInv, TypeOK
<1>1. ASSUME NEW r \in Request, Fault(r)
      PROVE  DisableEndsSessions'
  <2>1. faults' = faults + 1 /\ faults \in Nat
    BY <1>1 DEF Fault
  <2>2. faults' # 0
    BY <2>1
  <2>. QED
    BY <2>2 DEF DisableEndsSessions
<1>2. ASSUME \A p \in Patchers : pc'[p] = pc[p] /\ target'[p] = target[p],
             faults' = faults, stale' = stale,
             \A s \in stale : \/ sessions'[s] = sessions[s]
                              \/ sessions'[s].state # "live"
      PROVE  DisableEndsSessions'
  BY <1>2 DEF DisableEndsSessions
<1>3. ASSUME NEW r \in Request, ClientStep(r)
      PROVE  DisableEndsSessions'
  <2>1. r \in Clients /\ r \notin Patchers
    BY <1>3, RequestAssumption
       DEF ClientStep, VerifyLogin, CreateSession, StartCreate, CreateUser,
           StartPassword, ChangePassword, Places, PatchPC, Request
  <2>2. \A p \in Patchers : pc'[p] = pc[p] /\ target'[p] = target[p]
    BY <1>3, <2>1 DEF ClientStep, VerifyLogin, CreateSession, StartCreate, CreateUser,
                StartPassword, ChangePassword, Answer, Goto, Request
  <2>3. faults' = faults /\ stale' = stale
    BY <1>3 DEF ClientStep, VerifyLogin, CreateSession, StartCreate, CreateUser,
                StartPassword, ChangePassword, tables
  <2>4. \A s \in stale : sessions'[s] = sessions[s]
    <3>1. CASE CreateSession(r)
      <4>1. opened \in Nat /\ opened + 1 \in Session
        BY <3>1, BoundAssumption DEF CreateSession, Session
      <4>2. opened + 1 \notin stale
        BY <4>1 DEF OpenedSessions
      <4>. QED
        BY <3>1, <4>2 DEF CreateSession
    <3>2. CASE ~CreateSession(r)
      BY <1>3, <3>2 DEF ClientStep, VerifyLogin, StartCreate, CreateUser,
                        StartPassword, ChangePassword, tables
    <3>. QED
      BY <3>1, <3>2
  <2>. QED
    BY <1>2, <2>2, <2>3, <2>4
<1>4. ASSUME NEW s \in Session, Expire(s) \/ DeleteSession(s)
      PROVE  DisableEndsSessions'
  <2>1. \E l \in {"expired", "deleted"} :
          sessions' = [sessions EXCEPT ![s] = With(l, sessions[s].user)]
    BY <1>4 DEF Expire, DeleteSession
  <2>2. \A l : With(l, sessions[s].user).state = l
    BY DEF With
  <2>3. UNCHANGED <<pc, target, faults, stale>>
    BY <1>4 DEF Expire, DeleteSession, locals
  <2>. QED
    BY <1>2, <2>1, <2>2, <2>3
<1>5. CASE UNCHANGED vars
  BY <1>2, <1>5 DEF vars, tables, locals
<1>. QED
  BY <1>1, <1>3, <1>4, <1>5

\* The edit that disables an account still has its sessions to delete, because what
\* it read of the account is what it overwrites.
LEMMA UpdateEnds ==
  ASSUME OneEdit, EndInv, NEW r \in Patchers, UpdateAccount(r)
  PROVE  DisableEndsSessions'
<1> USE DEF EndInv, AdminInv, TypeInv, TypeOK
<1> DEFINE n == Row(NextRole(row[r], body[r]), NextDisabled(row[r], body[r]),
                    NextPassword(row[r], body[r]))
<1> SUFFICES ASSUME faults = 0, NEW s \in stale', sessions[s].state = "live"
             PROVE  PurgePending(sessions[s].user)'
  BY DEF UpdateAccount, DisableEndsSessions, PurgePending
<1>1. s \notin stale
  BY DEF UpdateAccount, DisableEndsSessions, OneEdit
<1>2. n.disabled /\ ~accounts[target[r]].disabled /\ sessions[s].user = target[r]
  BY <1>1 DEF UpdateAccount
<1>3. ~row[r].disabled
  BY <1>2 DEF UpdateAccount, RowIsCurrent
<1>4. pc' = [pc EXCEPT ![r] = "purge"] /\ target' = target /\ sessions' = sessions
  BY <1>2, <1>3 DEF UpdateAccount, Goto
<1>. QED
  BY <1>2, <1>4 DEF PurgePending, Request

LEMMA EndNext ==
  ASSUME OneEdit
  PROVE  EndInv /\ [Next]_vars => EndInv'
<1> SUFFICES ASSUME EndInv, [Next]_vars
             PROVE  EndInv'
  OBVIOUS
<1>1. AdminInv' /\ OpenedSessions'
  BY AdminNext, OpenedNext DEF EndInv
<1>2. ASSUME NEW r \in Request, PatchStep(r)
      PROVE  DisableEndsSessions'
  <2> USE DEF EndInv, AdminInv, TypeInv, TypeOK
  <2>1. r \in Patchers /\ \A p \in Patchers : p = r
    BY <1>2 DEF OneEdit, PatchStep, StartPatch, ReadAccount, CountAdmins, UpdateAccount,
                PurgeSessions, Places, ClientPC, Request
  <2>2. CASE StartPatch(r) \/ ReadAccount(r) \/ CountAdmins(r)
    <3>1. UNCHANGED <<sessions, stale, faults>> /\ pc[r] # "purge"
      BY <2>2 DEF StartPatch, ReadAccount, CountAdmins, tables
    <3>. QED
      BY <2>1, <3>1 DEF DisableEndsSessions
  <2>3. CASE UpdateAccount(r)
    BY <2>1, <2>3, UpdateEnds
  <2>4. CASE PurgeSessions(r)
    <3>1. UNCHANGED <<stale, faults>>
      BY <2>4 DEF PurgeSessions
    <3>2. ASSUME faults = 0, NEW s \in stale
          PROVE  sessions'[s].state # "live"
      <4>1. CASE sessions[s].user = target[r]
        BY <2>4, <4>1 DEF PurgeSessions, OpenedSessions, With
      <4>2. CASE sessions[s].user # target[r]
        BY <2>1, <2>4, <3>2, <4>2 DEF PurgeSessions, DisableEndsSessions
      <4>. QED
        BY <4>1, <4>2
    <3>. QED
      BY <3>1, <3>2 DEF DisableEndsSessions
  <2>. QED
    BY <1>2, <2>2, <2>3, <2>4 DEF PatchStep
<1>3. DisableEndsSessions'
  BY <1>2, OthersKeepEnds DEF Next
<1>. QED
  BY <1>1, <1>3 DEF EndInv

\* While one request at a time edits accounts and none is cut short, the sessions
\* opened before an account was disabled never serve again (patchUser's DELETE).
THEOREM DisableEnds ==
  ASSUME OneEdit
  PROVE  Spec => []DisableEndsSessions
<1>1. Init => EndInv
  BY AdminInit DEF EndInv, OpenedSessions, DisableEndsSessions, Init, With
<1>2. EndInv => DisableEndsSessions
  BY DEF EndInv
<1>. QED
  BY <1>1, <1>2, EndNext, PTL DEF Spec
=============================================================================
