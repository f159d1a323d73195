--------------------------- MODULE ConsoleProofs ---------------------------
(***************************************************************************)
(* Whatever the answers' order, the number of requests on their way, the   *)
(* liaisons, the history and the limits: a signed-in user is not shown as  *)
(* signed out, the dashboard settles on one scope, the panel and the cell  *)
(* of a day tell the same, and between two logins that release it no key   *)
(* makes more attempts in a window than its limits let through.            *)
(***************************************************************************)
EXTENDS Console, SequenceTheorems, FiniteSetTheorems, WellFoundedInduction, TLAPS

-----------------------------------------------------------------------------
(* Who is signed in.                                                       *)

SignTypes ==
  /\ session \in BOOLEAN /\ lost \in BOOLEAN
  /\ me \in {"loading", "none", "user"}
  /\ meCall \in {"none", "sent", "user", "nobody"}
  /\ form \in {"none", "right", "wrong", "checked", "verified", "signed in", "refused"}
  /\ leaving \in {"none", "sent", "done"}

\* One question about the user is open at a time: the mount's, the form's or the
\* logout's; an answer that says nobody is of a session that had ended.
SignInv ==
  /\ SignTypes
  /\ me = "loading" <=> meCall # "none"
  /\ form # "none" => me = "none"
  /\ leaving # "none" => me = "user"
  /\ meCall = "nobody" \/ leaving = "done" => ~session
  /\ me = "none" /\ session /\ form # "signed in" => lost

LEMMA SignInvInit == SignInit => SignInv
  BY DEF SignInit, SignInv, SignTypes

LEMMA Mount ==
  ASSUME SignInv, ServeMe \/ ServeConfig \/ MeAnswers \/ MeFails \/ ConfigAnswers
  PROVE  SignInv'
<1>1. CASE ServeMe
  BY <1>1 DEF SignInv, SignTypes, ServeMe, server, browser
<1>2. CASE ServeConfig
  BY <1>2 DEF SignInv, SignTypes, ServeConfig, server, browser
<1>3. CASE MeAnswers
  BY <1>3 DEF SignInv, SignTypes, MeAnswers, server
<1>4. CASE MeFails
  BY <1>4 DEF SignInv, SignTypes, MeFails, server
<1>5. CASE ConfigAnswers
  BY <1>5 DEF SignInv, SignTypes, ConfigAnswers, server
<1>6. QED
  BY <1>1, <1>2, <1>3, <1>4, <1>5

LEMMA Form ==
  ASSUME SignInv, SubmitLogin \/ ReceiveLogin \/ VerifyLogin \/ OpenSession \/ LoginAnswers \/ LoginFails
  PROVE  SignInv'
<1>1. CASE SubmitLogin
  <2>1. me = "none"
    BY <1>1 DEF SubmitLogin, ShowGate, Loading, CanEnter, SignInv, SignTypes
  <2>2. QED
    BY <1>1, <2>1 DEF SignInv, SignTypes, SubmitLogin, server, browser
<1>2. CASE ReceiveLogin \/ VerifyLogin \/ OpenSession
  <2>1. /\ form # "none"
        /\ \/ session' = TRUE /\ form' = "signed in"
           \/ form' \in {"checked", "verified", "refused"} /\ form # "signed in" /\ session' = session
        /\ UNCHANGED <<me, lost, meCall, leaving>>
    BY <1>2 DEF ReceiveLogin, VerifyLogin, OpenSession, browser
  <2>2. me = "none" /\ meCall = "none" /\ leaving = "none"
    BY <2>1 DEF SignInv, SignTypes
  <2>3. CASE session' = TRUE /\ form' = "signed in"
    BY <2>1, <2>2, <2>3 DEF SignInv, SignTypes
  <2>4. CASE form' \in {"checked", "verified", "refused"} /\ form # "signed in" /\ session' = session
    BY <2>1, <2>2, <2>4 DEF SignInv, SignTypes
  <2>5. QED
    BY <2>1, <2>3, <2>4
<1>3. CASE LoginAnswers
  <2>1. me = "none" /\ meCall = "none" /\ leaving = "none"
    BY <1>3 DEF LoginAnswers, SignInv, SignTypes
  <2>2. QED
    BY <1>3, <2>1 DEF SignInv, SignTypes, LoginAnswers, server
<1>4. CASE LoginFails
  BY <1>4 DEF SignInv, SignTypes, LoginFails, server, browser
<1>5. QED
  BY <1>1, <1>2, <1>3, <1>4

LEMMA Leave ==
  ASSUME SignInv, Logout \/ ServeLogout \/ LogoutAnswers
  PROVE  SignInv'
<1>1. CASE Logout
  BY <1>1 DEF SignInv, SignTypes, Logout, server, browser
<1>2. CASE ServeLogout
  BY <1>2 DEF SignInv, SignTypes, ServeLogout, browser
<1>3. CASE LogoutAnswers
  <2>1. meCall = "none" /\ form = "none" /\ (leaving = "done" => ~session)
    BY <1>3 DEF LogoutAnswers, SignInv, SignTypes
  <2>2. QED
    BY <1>3, <2>1 DEF SignInv, SignTypes, LogoutAnswers, server
<1>4. QED
  BY <1>1, <1>2, <1>3

\* What none of the six variables changes.
LEMMA SignStutter ==
  ASSUME SignInv, UNCHANGED <<session, lost, me, meCall, form, leaving>>
  PROVE  SignInv'
  BY DEF SignInv, SignTypes

LEMMA SignInvStep == SignInv /\ (SignStep \/ Reload) => SignInv'
<1> SUFFICES ASSUME SignInv, SignStep \/ Reload
             PROVE  SignInv'
  OBVIOUS
<1>1. CASE ServeMe \/ ServeConfig \/ MeAnswers \/ MeFails \/ ConfigAnswers
  BY <1>1, Mount
<1>2. CASE SubmitLogin \/ ReceiveLogin \/ VerifyLogin \/ OpenSession \/ LoginAnswers \/ LoginFails
  BY <1>2, Form
<1>3. CASE Logout \/ ServeLogout \/ LogoutAnswers
  BY <1>3, Leave
<1>4. CASE OthersTry \/ OthersVerify
  BY <1>4, SignStutter DEF OthersTry, OthersVerify, browser, calls
<1>5. CASE ContinueAsVisitor
  BY <1>5, SignStutter DEF ContinueAsVisitor, server, calls
<1>6. CASE RequestLogin
  BY <1>6, SignStutter DEF RequestLogin, server, calls
<1>7. CASE SessionEnds
  BY <1>7 DEF SignInv, SignTypes, SessionEnds, browser, calls
<1>8. CASE Tick
  BY <1>8, SignStutter DEF Tick, browser, calls
<1>9. CASE Reload
  BY <1>9 DEF SignInv, SignTypes, Reload, server
<1>10. QED
  BY <1>1, <1>2, <1>3, <1>4, <1>5, <1>6, <1>7, <1>8, <1>9 DEF SignStep

LEMMA SignInvNext == SignInv /\ [Next]_vars => SignInv'
<1> SUFFICES ASSUME SignInv, [Next]_vars
             PROVE  SignInv'
  OBVIOUS
<1>1. CASE SignInStep \/ ReloadPage
  BY <1>1, SignInvStep DEF SignInStep, ReloadPage
<1>2. CASE UNCHANGED signVars
  BY <1>2, SignStutter DEF signVars, server, browser, calls
<1>3. CASE LoadAnswers \/ LoadFails
  BY <1>3, <1>2 DEF LoadAnswers, LoadFails
<1>4. CASE OpenDashboard \/ LeaveDashboard \/ Pick \/ Refresh \/ SelectDay
  BY <1>4, <1>2 DEF OpenDashboard, LeaveDashboard, Pick, Refresh, SelectDay
<1>5. CASE RunEffects \/ DayAnswers \/ DayFails \/ LateAnswers \/ DeleteLiaison
  BY <1>5, <1>2 DEF RunEffects, DayAnswers, DayFails, LateAnswers, DeleteLiaison
<1>6. CASE UNCHANGED vars
  BY <1>6, <1>2 DEF vars
<1>7. QED
  BY <1>1, <1>3, <1>4, <1>5, <1>6 DEF Next

(***************************************************************************)
(* A user whose session lives is never shown as signed out unless a call   *)
(* about it failed, whatever the login windows and the other callers.      *)
(***************************************************************************)
THEOREM SignedInAlways == Spec => []SignedInStays
<1>1. Init => SignInv
  BY SignInvInit DEF Init
<1>2. SignInv => SignedInStays
  BY DEF SignInv, SignTypes, SignedInStays
<1>3. QED
  BY <1>1, <1>2, SignInvNext, PTL DEF Spec

-----------------------------------------------------------------------------
(* The requests of the dashboard.                                          *)

Choice == Scope \cup {"none"}
LoadRow == [asked : Choice, again : BOOLEAN, left : BOOLEAN]
Board == [scope : Choice, options : SUBSET Liaison]

LEMMA LoadType ==
  ASSUME NEW a \in Choice, NEW b \in BOOLEAN, NEW c \in BOOLEAN
  PROVE  /\ Load(a, b, c) \in LoadRow
         /\ Load(a, b, c).asked = a /\ Load(a, b, c).again = b /\ Load(a, b, c).left = c
  BY DEF Load, LoadRow

\* A sequence without its i-th element.
LEMMA Without1 ==
  ASSUME NEW S, NEW s \in Seq(S), NEW i \in DOMAIN s
  PROVE  /\ RemoveAt(s, i) \in Seq(S)
         /\ Len(RemoveAt(s, i)) = Len(s) - 1
         /\ \A k \in 1 .. Len(s) - 1 :
              RemoveAt(s, i)[k] = IF k < i THEN s[k] ELSE s[k + 1]
<1>1. /\ Len(s) \in Nat /\ DOMAIN s = 1 .. Len(s) /\ i \in 1 .. Len(s)
      /\ \A k \in 1 .. Len(s) : s[k] \in S
  BY LenProperties, ElementOfSeq
<1> DEFINE a == SubSeq(s, 1, i - 1)
           b == SubSeq(s, i + 1, Len(s))
<1>2. /\ a \in Seq(S) /\ Len(a) = i - 1
      /\ \A k \in 1 .. i - 1 : a[k] = s[k]
  <2>1. \A k \in 1 .. i - 1 : s[k] \in S
    BY <1>1
  <2>2. 1 \in Int /\ i - 1 \in Int
    BY <1>1
  <2>3. /\ a \in Seq(S) /\ Len(a) = (IF 1 <= i - 1 THEN (i - 1) - 1 + 1 ELSE 0)
        /\ \A k \in 1 .. (i - 1) - 1 + 1 : a[k] = s[1 + k - 1]
    BY <2>1, <2>2, SubSeqProperties
  <2>4. QED
    BY <2>3, <1>1
<1>3. /\ b \in Seq(S) /\ Len(b) = Len(s) - i
      /\ \A k \in 1 .. Len(s) - i : b[k] = s[i + k]
  <2>1. \A k \in i + 1 .. Len(s) : s[k] \in S
    BY <1>1
  <2>2. i + 1 \in Int /\ Len(s) \in Int
    BY <1>1
  <2>3. /\ b \in Seq(S)
        /\ Len(b) = (IF i + 1 <= Len(s) THEN Len(s) - (i + 1) + 1 ELSE 0)
        /\ \A k \in 1 .. Len(s) - (i + 1) + 1 : b[k] = s[(i + 1) + k - 1]
    BY <2>1, <2>2, SubSeqProperties
  <2>4. QED
    BY <2>3, <1>1
<1> HIDE DEF a, b
<1>4. /\ a \o b \in Seq(S) /\ Len(a \o b) = Len(a) + Len(b)
      /\ \A k \in 1 .. Len(a) + Len(b) :
           (a \o b)[k] = IF k <= Len(a) THEN a[k] ELSE b[k - Len(a)]
  BY <1>2, <1>3, ConcatProperties
<1>5. RemoveAt(s, i) = a \o b
  BY DEF RemoveAt, a, b
<1>6. Len(a \o b) = Len(s) - 1
  BY <1>1, <1>2, <1>3, <1>4
<1>7. ASSUME NEW k \in 1 .. Len(s) - 1
      PROVE  (a \o b)[k] = IF k < i THEN s[k] ELSE s[k + 1]
  <2>1. k \in 1 .. Len(a) + Len(b)
    BY <1>1, <1>2, <1>3
  <2>2. CASE k < i
    BY <2>1, <2>2, <1>1, <1>2, <1>3, <1>4
  <2>3. CASE ~(k < i)
    <3>1. k - Len(a) \in 1 .. Len(s) - i /\ i + (k - Len(a)) = k + 1 /\ ~(k <= Len(a))
      BY <2>3, <1>1, <1>2
    <3>2. b[k - Len(a)] = s[i + (k - Len(a))]
      BY <3>1, <1>3
    <3>3. QED
      BY <2>1, <2>3, <3>1, <3>2, <1>4
  <2>4. QED
    BY <2>2, <2>3
<1>8. QED
  BY <1>4, <1>5, <1>6, <1>7

\* A request that counts is still there when another one goes.
LEMMA OthersWait ==
  ASSUME NEW s \in Seq(LoadRow), NEW i \in DOMAIN s, NEW j \in DOMAIN s, i # j
  PROVE  \E k \in DOMAIN RemoveAt(s, i) : RemoveAt(s, i)[k] = s[j]
<1>1. Len(s) \in Nat /\ DOMAIN s = 1 .. Len(s)
  BY LenProperties
<1>2. DOMAIN RemoveAt(s, i) = 1 .. Len(s) - 1
  BY Without1, LenProperties
<1>3. CASE j < i
  <2>1. j \in 1 .. Len(s) - 1
    BY <1>1, <1>3
  <2>2. RemoveAt(s, i)[j] = s[j]
    BY <2>1, <1>3, Without1
  <2>3. QED
    BY <2>1, <2>2, <1>2
<1>4. CASE j > i
  <2>1. j - 1 \in 1 .. Len(s) - 1 /\ ~(j - 1 < i) /\ (j - 1) + 1 = j
    BY <1>1, <1>4
  <2>2. RemoveAt(s, i)[j - 1] = s[(j - 1) + 1]
    BY <2>1, Without1
  <2>3. QED
    BY <2>1, <2>2, <1>2
<1>5. QED
  BY <1>1, <1>3, <1>4

DashTypes ==
  /\ default \in Liaison /\ liaisons \subseteq Liaison
  /\ scope \in Choice /\ stored \in Choice /\ data \in Board
  /\ stray \in BOOLEAN /\ failed \in BOOLEAN
  /\ loads \in Seq(LoadRow)

LEMMA Appended ==
  ASSUME NEW S, NEW s \in Seq(S), NEW e \in S
  PROVE  /\ Append(s, e) \in Seq(S) /\ Len(Append(s, e)) = Len(s) + 1
         /\ Append(s, e)[Len(s) + 1] = e
  OBVIOUS

LEMMA Replaced ==
  ASSUME NEW S, NEW s \in Seq(S), NEW i \in 1 .. Len(s), NEW e \in S
  PROVE  /\ ReplaceAt(s, i, e) \in Seq(S) /\ Len(ReplaceAt(s, i, e)) = Len(s)
         /\ \A j \in 1 .. Len(s) : ReplaceAt(s, i, e)[j] = IF j = i THEN e ELSE s[j]
  BY ExceptSeq DEF ReplaceAt

LEMMA OneWaits ==
  ASSUME DashTypes, NEW a \in Choice, Ask(a)
  PROVE  loads' \in Seq(LoadRow) /\ Loads' # {}
<1>1. Load(a, FALSE, FALSE) \in LoadRow /\ ~Load(a, FALSE, FALSE).left
  BY LoadType
<1>2. loads \in Seq(LoadRow) /\ loads' = Append(loads, Load(a, FALSE, FALSE))
  BY DEF Ask, DashTypes
<1>3. /\ loads' \in Seq(LoadRow) /\ Len(loads') = Len(loads) + 1
      /\ loads'[Len(loads) + 1] = Load(a, FALSE, FALSE)
  BY <1>1, <1>2, Appended
<1>4. Len(loads) + 1 \in DOMAIN loads'
  BY <1>2, <1>3, LenProperties
<1>5. QED
  BY <1>1, <1>3, <1>4 DEF Loads

\* Dropping a request of a page that was left, or keeping one for a second try,
\* leaves those that count.
LEMMA LeftGoes ==
  ASSUME DashTypes, NEW i \in DOMAIN loads, loads' = Dropped(i)
  PROVE  /\ loads' \in Seq(LoadRow)
         /\ loads[i].left /\ Loads # {} => Loads' # {}
<1>1. loads \in Seq(LoadRow) /\ loads' = RemoveAt(loads, i)
  BY DEF DashTypes, Dropped
<1>2. loads' \in Seq(LoadRow)
  BY <1>1, Without1
<1>3. ASSUME loads[i].left, Loads # {}
      PROVE  Loads' # {}
  <2>1. PICK j \in DOMAIN loads : ~loads[j].left
    BY <1>3 DEF Loads
  <2>2. i # j
    BY <1>3, <2>1
  <2>3. PICK k \in DOMAIN RemoveAt(loads, i) : RemoveAt(loads, i)[k] = loads[j]
    BY <1>1, <2>2, OthersWait
  <2>4. k \in DOMAIN loads' /\ ~loads'[k].left
    BY <1>1, <2>1, <2>3
  <2>5. QED
    BY <2>4 DEF Loads
<1>4. QED
  BY <1>2, <1>3

LEMMA SecondTry ==
  ASSUME DashTypes, NEW i \in DOMAIN loads,
         loads' = ReplaceAt(loads, i, Load(loads[i].asked, TRUE, loads[i].left))
  PROVE  loads' \in Seq(LoadRow) /\ Loads' = Loads
<1> DEFINE row == Load(loads[i].asked, TRUE, loads[i].left)
<1>1. /\ loads \in Seq(LoadRow) /\ Len(loads) \in Nat /\ DOMAIN loads = 1 .. Len(loads)
      /\ i \in 1 .. Len(loads) /\ loads[i] \in LoadRow
  BY LenProperties, ElementOfSeq DEF DashTypes
<1>2. row \in LoadRow /\ row.left = loads[i].left
  <2>1. loads[i].asked \in Choice /\ loads[i].left \in BOOLEAN
    BY <1>1 DEF LoadRow
  <2>2. QED
    BY <2>1, LoadType
<1> HIDE DEF row
<1>3. loads' = ReplaceAt(loads, i, row)
  BY DEF row
<1>4. /\ loads' \in Seq(LoadRow) /\ Len(loads') = Len(loads)
      /\ \A j \in 1 .. Len(loads) : loads'[j] = IF j = i THEN row ELSE loads[j]
  <2> DEFINE kept == ReplaceAt(loads, i, row)
  <2>1. /\ kept \in Seq(LoadRow) /\ Len(kept) = Len(loads)
        /\ \A j \in 1 .. Len(loads) : kept[j] = IF j = i THEN row ELSE loads[j]
    <3>1. loads \in Seq(LoadRow) /\ i \in 1 .. Len(loads) /\ row \in LoadRow
      BY <1>1, <1>2
    <3>2. QED
      BY <3>1, ExceptSeq DEF ReplaceAt
  <2>2. loads' = kept
    BY <1>3
  <2> HIDE DEF kept
  <2>3. QED
    BY <2>1, <2>2
<1>5. DOMAIN loads' = DOMAIN loads
  BY <1>1, <1>4, LenProperties
<1>6. \A j \in DOMAIN loads : loads'[j].left = loads[j].left
  BY <1>1, <1>2, <1>4
<1>7. QED
  BY <1>4, <1>5, <1>6 DEF Loads
-----------------------------------------------------------------------------
(* The dashboard's figures.                                                *)

DashInv == DashTypes /\ ScopeAgrees /\ SkeletonEnds

\* What the invariant reads.
seen == <<default, liaisons, scope, stored, data, stray, failed, page, loads>>

LEMMA DashStutter == DashInv /\ UNCHANGED seen => DashInv'
  BY DEF DashInv, DashTypes, ScopeAgrees, SkeletonEnds, HasData, Loads, seen

LEMMA OverviewScope ==
  ASSUME DashTypes, NEW a \in Choice
  PROVE  Overview(a) \in Board /\ Overview(a).scope \in Choice /\ Overview(a) # Nothing
<1> DEFINE of == IF a = "none" THEN default ELSE a
<1>1. of \in Scope /\ liaisons \in SUBSET Liaison
  BY DEF DashTypes, Choice, Scope
<1>2. of # "none"
  BY <1>1, ScopeAssumption DEF Scope
<1>3. Overview(a) = [scope |-> of, options |-> liaisons]
  BY DEF Overview
<1> HIDE DEF of
<1>4. QED
  BY <1>1, <1>2, <1>3 DEF Board, Choice, Nothing

LEMMA NothingShown == Nothing \in Board /\ "none" \in Choice
  BY DEF Nothing, Board, Choice

LEMMA Answer == DashInv /\ LoadAnswers => DashInv'
<1> SUFFICES ASSUME DashInv, LoadAnswers
             PROVE  DashInv'
  OBVIOUS
<1>1. PICK i \in DOMAIN loads :
        LET asked == IF loads[i].again THEN "none" ELSE loads[i].asked
        IN /\ asked \in liaisons \cup {"all", "none"}
           /\ Show(i, Overview(asked)) /\ UNCHANGED <<signVars, others, heat>>
  BY DEF LoadAnswers
<1> DEFINE asked == IF loads[i].again THEN "none" ELSE loads[i].asked
           ov == Overview(asked)
<1>2. DashTypes
  BY DEF DashInv
<1>3. asked \in Choice
  BY <1>1, <1>2 DEF DashTypes, Choice, Scope
<1>4. ov \in Board /\ ov.scope \in Choice /\ ov # Nothing
  BY <1>2, <1>3, OverviewScope
<1>5. Show(i, ov) /\ UNCHANGED others
  BY <1>1
<1> HIDE DEF ov, asked
<1>6. loads' \in Seq(LoadRow) /\ (loads[i].left /\ Loads # {} => Loads' # {})
  BY <1>2, <1>5, LeftGoes DEF Show
<1>7. UNCHANGED <<default, liaisons, failed, page>> /\ stored' = ov.scope
  BY <1>5 DEF Show, others
<1>8. CASE loads[i].left
  <2>1. UNCHANGED <<scope, data>> /\ stray' = TRUE
    BY <1>5, <1>8 DEF Show
  <2>2. DashTypes'
    BY <1>2, <1>4, <1>6, <1>7, <2>1 DEF DashTypes
  <2>3. ScopeAgrees' /\ SkeletonEnds'
    BY <1>6, <1>7, <1>8, <2>1 DEF DashInv, ScopeAgrees, SkeletonEnds, HasData
  <2>4. QED
    BY <2>2, <2>3 DEF DashInv
<1>9. CASE ~loads[i].left
  <2>1. data' = ov /\ scope' = ov.scope
    BY <1>5, <1>9 DEF Show
  <2>2. stray' \in BOOLEAN
    <3>1. stray' = loads[i].left
      BY <1>5 DEF Show
    <3>2. loads[i] \in LoadRow
      BY <1>2, ElementOfSeq, LenProperties DEF DashTypes
    <3>3. loads[i].left \in BOOLEAN
      BY <3>2 DEF LoadRow
    <3>4. QED
      BY <3>1, <3>3
  <2>3. DashTypes'
    BY <1>2, <1>4, <1>6, <1>7, <2>1, <2>2 DEF DashTypes
  <2>4. ScopeAgrees' /\ SkeletonEnds'
    BY <1>4, <1>7, <2>1 DEF ScopeAgrees, SkeletonEnds, HasData
  <2>5. QED
    BY <2>3, <2>4 DEF DashInv
<1>10. QED
  BY <1>8, <1>9

LEMMA Failure == DashInv /\ LoadFails => DashInv'
<1> SUFFICES ASSUME DashInv, LoadFails
             PROVE  DashInv'
  OBVIOUS
<1>1. DashTypes
  BY DEF DashInv
<1>2. PICK i \in DOMAIN loads :
        \/ /\ loads' = ReplaceAt(loads, i, Load(loads[i].asked, TRUE, loads[i].left))
           /\ UNCHANGED <<others, stored, page, scope, stray, data, failed>>
        \/ /\ loads' = Dropped(i)
           /\ IF loads[i].left THEN UNCHANGED <<data, failed, loading, heat>> ELSE GiveUp
           /\ UNCHANGED <<others, stored, page, scope, stray>>
  BY DEF LoadFails
<1>3. CASE /\ loads' = ReplaceAt(loads, i, Load(loads[i].asked, TRUE, loads[i].left))
           /\ UNCHANGED <<others, stored, page, scope, stray, data, failed>>
  <2>1. loads' \in Seq(LoadRow) /\ Loads' = Loads
    BY <1>1, <1>3, SecondTry
  <2>2. DashTypes'
    BY <1>1, <1>3, <2>1 DEF DashTypes, others
  <2>3. ScopeAgrees' /\ SkeletonEnds'
    BY <1>3, <2>1 DEF DashInv, ScopeAgrees, SkeletonEnds, HasData
  <2>4. QED
    BY <2>2, <2>3 DEF DashInv
<1>4. CASE /\ loads' = Dropped(i)
           /\ IF loads[i].left THEN UNCHANGED <<data, failed, loading, heat>> ELSE GiveUp
           /\ UNCHANGED <<others, stored, page, scope, stray>>
  <2>1. loads' \in Seq(LoadRow) /\ (loads[i].left /\ Loads # {} => Loads' # {})
    BY <1>1, <1>4, LeftGoes
  <2>2. CASE loads[i].left
    <3>1. UNCHANGED <<data, failed>>
      BY <1>4, <2>2
    <3>2. DashTypes'
      BY <1>1, <1>4, <2>1, <3>1 DEF DashTypes, others
    <3>3. ScopeAgrees' /\ SkeletonEnds'
      BY <1>4, <2>1, <2>2, <3>1 DEF DashInv, ScopeAgrees, SkeletonEnds, HasData
    <3>4. QED
      BY <3>2, <3>3 DEF DashInv
  <2>3. CASE ~loads[i].left
    <3>1. data' = Nothing /\ failed' = TRUE
      BY <1>4, <2>3 DEF GiveUp
    <3>2. DashTypes'
      BY <1>1, <1>4, <2>1, <3>1, NothingShown DEF DashTypes, others
    <3>3. ScopeAgrees' /\ SkeletonEnds'
      BY <3>1 DEF ScopeAgrees, SkeletonEnds, HasData
    <3>4. QED
      BY <3>2, <3>3 DEF DashInv
  <2>4. QED
    BY <2>2, <2>3
<1>5. QED
  BY <1>2, <1>3, <1>4

\* A request leaves.
LEMMA Asking == DashInv /\ (OpenDashboard \/ Pick \/ Refresh) => DashInv'
<1> SUFFICES ASSUME DashInv, OpenDashboard \/ Pick \/ Refresh
             PROVE  DashInv'
  OBVIOUS
<1>1. DashTypes
  BY DEF DashInv
<1>2. /\ UNCHANGED <<default, liaisons>>
      /\ \E a \in Choice : Ask(a)
      /\ scope' \in Choice /\ stored' \in Choice /\ data' \in Board
      /\ stray' \in BOOLEAN /\ failed' \in BOOLEAN
  <2>1. CASE OpenDashboard
    BY <1>1, <2>1, NothingShown DEF OpenDashboard, DashTypes, others
  <2>2. CASE Pick
    <3>1. PICK choice \in data.options \cup {"all"} :
            scope' = choice /\ stored' = choice /\ Ask(choice)
      BY <2>2 DEF Pick
    <3>2. choice \in Choice
      BY <1>1, <3>1 DEF DashTypes, Board, Choice, Scope
    <3>3. UNCHANGED <<default, liaisons, data>> /\ stray' = FALSE /\ failed' = FALSE
      BY <2>2 DEF Pick, others
    <3>4. QED
      BY <1>1, <3>1, <3>2, <3>3 DEF DashTypes
  <2>3. CASE Refresh
    BY <1>1, <2>3 DEF Refresh, DashTypes, others
  <2>4. QED
    BY <2>1, <2>2, <2>3
<1>3. PICK a \in Choice : Ask(a)
  BY <1>2
<1>4. loads' \in Seq(LoadRow) /\ Loads' # {}
  BY <1>1, <1>3, OneWaits
<1>5. DashTypes'
  BY <1>1, <1>2, <1>4 DEF DashTypes
<1>6. ScopeAgrees' /\ SkeletonEnds'
  BY <1>4 DEF ScopeAgrees, SkeletonEnds
<1>7. QED
  BY <1>5, <1>6 DEF DashInv

\* The page goes away; its requests go on, but none counts any more.
LEMMA Leaving ==
  ASSUME DashInv, NEW next, next # "dashboard", Unmount(next), UNCHANGED others
  PROVE  DashInv'
<1>1. DashTypes
  BY DEF DashInv
<1>2. loads' \in Seq(LoadRow)
  <2>1. loads' = Left
    BY DEF Unmount
  <2>2. Len(loads) \in Nat /\ DOMAIN loads = 1 .. Len(loads)
    BY <1>1, LenProperties DEF DashTypes
  <2>3. ASSUME NEW i \in 1 .. Len(loads)
        PROVE  Load(loads[i].asked, loads[i].again, TRUE) \in LoadRow
    <3>1. loads[i] \in LoadRow
      BY <1>1, <2>3, ElementOfSeq DEF DashTypes
    <3>2. loads[i].asked \in Choice /\ loads[i].again \in BOOLEAN
      BY <3>1 DEF LoadRow
    <3>3. QED
      BY <3>2, LoadType
  <2>4. Left = [i \in 1 .. Len(loads) |-> Load(loads[i].asked, loads[i].again, TRUE)]
    BY <2>2 DEF Left
  <2>5. Left \in Seq(LoadRow)
    <3>1. Left \in [1 .. Len(loads) -> LoadRow]
      BY <2>3, <2>4
    <3>2. QED
      BY <2>2, <3>1, SeqDef
  <2>6. QED
    BY <2>1, <2>5
<1>3. /\ page' = next /\ scope' = "none" /\ data' = Nothing /\ failed' = FALSE
      /\ UNCHANGED <<stored, stray, default, liaisons>>
  BY DEF Unmount, others
<1>4. DashTypes'
  BY <1>1, <1>2, <1>3, NothingShown DEF DashTypes
<1>5. ScopeAgrees' /\ SkeletonEnds'
  BY <1>3 DEF ScopeAgrees, SkeletonEnds, HasData
<1>6. QED
  BY <1>4, <1>5 DEF DashInv

LEMMA PageLeaves == DashInv /\ (LeaveDashboard \/ SignInStep \/ ReloadPage) => DashInv'
<1> SUFFICES ASSUME DashInv, LeaveDashboard \/ SignInStep \/ ReloadPage
             PROVE  DashInv'
  OBVIOUS
<1>1. CASE LeaveDashboard
  <2>1. Unmount("other") /\ UNCHANGED others
    BY <1>1 DEF LeaveDashboard
  <2>2. "other" # "dashboard"
    OBVIOUS
  <2>3. QED
    BY <2>1, <2>2, Leaving
<1>2. CASE SignInStep
  <2>1. UNCHANGED others /\ (Unmount("none") \/ UNCHANGED <<dash, heat>>)
    BY <1>2 DEF SignInStep
  <2>2. CASE Unmount("none")
    <3>1. "none" # "dashboard"
      OBVIOUS
    <3>2. QED
      BY <2>1, <2>2, <3>1, Leaving
  <2>3. CASE UNCHANGED <<dash, heat>>
    BY <2>1, <2>3, DashStutter DEF dash, others, seen
  <2>4. QED
    BY <2>1, <2>2, <2>3
<1>3. CASE ReloadPage
  <2>1. /\ page' = "none" /\ loads' = <<>> /\ scope' = "none" /\ data' = Nothing
        /\ failed' = FALSE /\ UNCHANGED <<stored, stray, default, liaisons>>
    BY <1>3 DEF ReloadPage, others
  <2>2. loads' \in Seq(LoadRow)
    BY <2>1
  <2>3. DashTypes'
    BY <2>1, <2>2, NothingShown DEF DashInv, DashTypes
  <2>4. ScopeAgrees' /\ SkeletonEnds'
    BY <2>1 DEF ScopeAgrees, SkeletonEnds, HasData
  <2>5. QED
    BY <2>3, <2>4 DEF DashInv
<1>4. QED
  BY <1>1, <1>2, <1>3

LEMMA OtherLiaisons == DashInv /\ DeleteLiaison => DashInv'
<1> SUFFICES ASSUME DashInv, DeleteLiaison
             PROVE  DashInv'
  OBVIOUS
<1>1. default' \in Liaison /\ liaisons' \subseteq Liaison
  BY DEF DashInv, DashTypes, DeleteLiaison
<1>2. UNCHANGED <<scope, stored, data, stray, failed, page, loads>>
  BY DEF DeleteLiaison, dash
<1>3. QED
  BY <1>1, <1>2 DEF DashInv, DashTypes, ScopeAgrees, SkeletonEnds, HasData, Loads

LEMMA DashInvNext == DashInv /\ [Next]_vars => DashInv'
<1> SUFFICES ASSUME DashInv, [Next]_vars
             PROVE  DashInv'
  OBVIOUS
<1>1. CASE LoadAnswers
  BY <1>1, Answer
<1>2. CASE LoadFails
  BY <1>2, Failure
<1>3. CASE OpenDashboard \/ Pick \/ Refresh
  BY <1>3, Asking
<1>4. CASE LeaveDashboard \/ SignInStep \/ ReloadPage
  BY <1>4, PageLeaves
<1>5. CASE DeleteLiaison
  BY <1>5, OtherLiaisons
<1>6. CASE SelectDay \/ RunEffects \/ DayAnswers \/ DayFails \/ LateAnswers \/ UNCHANGED vars
  <2>1. UNCHANGED <<others, dash>>
    BY <1>6 DEF SelectDay, RunEffects, DayAnswers, DayFails, LateAnswers, vars
  <2>2. QED
    BY <2>1, DashStutter DEF dash, others, seen
<1>7. QED
  BY <1>1, <1>2, <1>3, <1>4, <1>5, <1>6 DEF Next

LEMMA DashInvInit == Init => DashInv
<1> SUFFICES ASSUME Init
             PROVE  DashInv
  OBVIOUS
<1>1. loads \in Seq(LoadRow)
  BY DEF Init
<1>2. DashTypes
  BY <1>1, NothingShown, ConsoleAssumption DEF Init, DashTypes, Choice
<1>3. ScopeAgrees /\ SkeletonEnds
  BY DEF Init, ScopeAgrees, SkeletonEnds, HasData
<1>4. QED
  BY <1>2, <1>3 DEF DashInv

LEMMA DashAlways == Spec => []DashInv
  BY DashInvInit, DashInvNext, PTL DEF Spec

(***************************************************************************)
(* However many loads are on their way and in whatever order they are      *)
(* answered, fail or are asked again, the figures, the picker and the      *)
(* stored scope end up the same.                                           *)
(***************************************************************************)
THEOREM ScopeSettles == Spec => []ScopeAgrees
<1>1. DashInv => ScopeAgrees
  BY DEF DashInv
<1>2. QED
  BY <1>1, DashAlways, PTL

(***************************************************************************)
(* The skeleton always has a request that will end it, or gives way to the *)
(* error and its button.                                                   *)
(***************************************************************************)
THEOREM SkeletonAlwaysEnds == Spec => []SkeletonEnds
<1>1. DashInv => SkeletonEnds
  BY DEF DashInv
<1>2. QED
  BY <1>1, DashAlways, PTL
-----------------------------------------------------------------------------
(* The panel of a day.                                                     *)

\* The fetch that counts is of the deps; once a day is asked for, its spinner is
\* the fetch's, and the detail, when it comes, is of those deps.
HeatInv ==
  /\ heat.spinner \in BOOLEAN /\ heat.problem \in BOOLEAN
  /\ heat.deps = DayOfScope(heat.deps.day, heat.deps.scope)
  /\ heat.fetch # NoFetch => heat.fetch = heat.deps /\ heat.deps.day # 0
  /\ heat.deps.day # 0 =>
       /\ heat.spinner <=> heat.fetch # NoFetch
       /\ ~(heat.spinner /\ heat.problem)
       /\ heat.spinner \/ heat.problem \/ heat.detail # NoDetail
       /\ heat.detail # NoDetail => heat.detail = heat.deps

LEMMA HeatFields ==
  ASSUME NEW s, NEW d, NEW x, NEW p, NEW w, NEW f, NEW l
  PROVE  LET h == Heatmap(s, d, x, p, w, f, l)
         IN /\ h.selected = s /\ h.deps = d /\ h.detail = x /\ h.problem = p
            /\ h.spinner = w /\ h.fetch = f /\ h.late = l
  BY DEF Heatmap

LEMMA DayFields ==
  ASSUME NEW d, NEW s
  PROVE  /\ DayOfScope(d, s).day = d /\ DayOfScope(d, s).scope = s
         /\ d # 0 => DayOfScope(d, s) # NoFetch /\ DayOfScope(d, s) # NoDetail
  BY DEF DayOfScope, NoFetch, NoDetail

LEMMA HeatUnmounted == heat' = Unmounted => HeatInv'
<1> SUFFICES ASSUME heat' = Unmounted
             PROVE  HeatInv'
  OBVIOUS
<1>1. /\ heat'.deps = NoFetch /\ heat'.fetch = NoFetch
      /\ heat'.problem = FALSE /\ heat'.spinner = FALSE
  BY DEF Unmounted, Heatmap
<1>2. NoFetch = DayOfScope(0, "none") /\ NoFetch.day = 0 /\ NoFetch.scope = "none"
  BY DayFields DEF NoFetch
<1>3. QED
  BY <1>1, <1>2 DEF HeatInv

LEMMA HeatInit == Init => HeatInv
<1> SUFFICES ASSUME heat = Unmounted
             PROVE  HeatInv
  BY DEF Init
<1>1. /\ heat.deps = NoFetch /\ heat.fetch = NoFetch
      /\ heat.problem = FALSE /\ heat.spinner = FALSE
  BY DEF Unmounted, Heatmap
<1>2. NoFetch = DayOfScope(0, "none") /\ NoFetch.day = 0 /\ NoFetch.scope = "none"
  BY DayFields DEF NoFetch
<1>3. QED
  BY <1>1, <1>2 DEF HeatInv

LEMMA HeatKept ==
  HeatInv /\ (SelectDay \/ LateAnswers \/ UNCHANGED heat) => HeatInv'
<1> SUFFICES ASSUME HeatInv, SelectDay \/ LateAnswers \/ UNCHANGED heat
             PROVE  HeatInv'
  OBVIOUS
<1>1. /\ heat'.deps = heat.deps /\ heat'.detail = heat.detail /\ heat'.problem = heat.problem
      /\ heat'.spinner = heat.spinner /\ heat'.fetch = heat.fetch
  <2>1. CASE SelectDay
    BY <2>1, HeatFields DEF SelectDay
  <2>2. CASE LateAnswers
    BY <2>2, HeatFields DEF LateAnswers
  <2>3. CASE UNCHANGED heat
    BY <2>3
  <2>4. QED
    BY <2>1, <2>2, <2>3
<1>2. QED
  BY <1>1 DEF HeatInv

LEMMA DetailComes == HeatInv /\ (DayAnswers \/ DayFails) => HeatInv'
<1> SUFFICES ASSUME HeatInv, DayAnswers \/ DayFails
             PROVE  HeatInv'
  OBVIOUS
<1>1. heat.fetch = heat.deps /\ heat.deps.day # 0 /\ heat.spinner = TRUE /\ heat.problem = FALSE
  BY DEF HeatInv, DayAnswers, DayFails
<1>2. heat'.deps = heat.deps /\ heat'.fetch = NoFetch /\ heat'.spinner = FALSE
  BY DEF DayAnswers, DayFails, Heatmap
<1>3. CASE DayAnswers
  <2>1. heat'.detail = Detailed(heat.fetch) /\ heat'.problem = FALSE
    BY <1>1, <1>3 DEF DayAnswers, Heatmap
  <2>2. Detailed(heat.fetch) = heat.deps
    BY <1>1 DEF Detailed, HeatInv
  <2>3. heat.deps # NoDetail
    BY <1>1, DayFields DEF HeatInv
  <2>4. QED
    BY <1>1, <1>2, <2>1, <2>2, <2>3 DEF HeatInv
<1>4. CASE DayFails
  <2>1. heat'.detail = heat.detail /\ heat'.problem = TRUE
    BY <1>4 DEF DayFails, Heatmap
  <2>2. QED
    BY <1>1, <1>2, <2>1 DEF HeatInv
<1>5. QED
  BY <1>3, <1>4

LEMMA EffectsRun == HeatInv /\ RunEffects => HeatInv'
<1> SUFFICES ASSUME HeatInv, RunEffects
             PROVE  HeatInv'
  OBVIOUS
<1> DEFINE deps == DayOfScope(heat.selected, scope)
           other == heat.deps.scope # scope
           asks == heat.selected # 0
<1>1. /\ heat'.deps = deps
      /\ heat'.detail = IF other \/ asks THEN NoDetail ELSE heat.detail
      /\ heat'.problem = (heat.problem /\ ~other /\ ~asks)
      /\ heat'.spinner = (asks \/ (~other /\ heat.spinner))
      /\ heat'.fetch = IF asks THEN deps ELSE NoFetch
  BY HeatFields DEF RunEffects
<1>2. /\ deps.day = heat.selected /\ deps = DayOfScope(deps.day, deps.scope)
      /\ asks => deps # NoFetch
  BY DayFields
<1>3. CASE asks
  <2>1. /\ heat'.detail = NoDetail /\ heat'.problem = FALSE /\ heat'.spinner = TRUE
        /\ heat'.fetch = deps /\ heat'.deps = deps
    BY <1>1, <1>3
  <2>2. deps.day # 0
    BY <1>2, <1>3
  <2> HIDE DEF deps
  <2>3. QED
    BY <1>2, <1>3, <2>1, <2>2 DEF HeatInv
<1>4. CASE ~asks
  <2>1. heat'.fetch = NoFetch /\ heat'.deps = deps
    BY <1>1, <1>4
  <2>2. deps.day = 0
    BY <1>2, <1>4
  <2>3. heat'.problem \in BOOLEAN /\ heat'.spinner \in BOOLEAN
    BY <1>1
  <2> HIDE DEF deps
  <2>4. QED
    BY <1>2, <2>1, <2>2, <2>3 DEF HeatInv
<1>5. QED
  BY <1>3, <1>4

LEMMA HeatNext == HeatInv /\ [Next]_vars => HeatInv'
<1> SUFFICES ASSUME HeatInv, [Next]_vars
             PROVE  HeatInv'
  OBVIOUS
<1>1. CASE UNCHANGED heat
  BY <1>1, HeatKept
<1>2. CASE heat' = Unmounted
  BY <1>2, HeatUnmounted
<1>3. CASE LoadAnswers \/ OpenDashboard \/ Pick \/ Refresh \/ DeleteLiaison
  BY <1>1, <1>3 DEF LoadAnswers, OpenDashboard, Pick, Refresh, DeleteLiaison
<1>4. CASE LoadFails
  BY <1>1, <1>2, <1>4 DEF LoadFails, GiveUp
<1>5. CASE SignInStep \/ ReloadPage \/ LeaveDashboard
  BY <1>1, <1>2, <1>5 DEF SignInStep, ReloadPage, LeaveDashboard, Unmount
<1>6. CASE SelectDay \/ LateAnswers
  BY <1>6, HeatKept
<1>7. CASE DayAnswers \/ DayFails
  BY <1>7, DetailComes
<1>8. CASE RunEffects
  BY <1>8, EffectsRun
<1>9. CASE UNCHANGED vars
  BY <1>1, <1>9 DEF vars
<1>10. QED
  BY <1>3, <1>4, <1>5, <1>6, <1>7, <1>8, <1>9 DEF Next

LEMMA OfDay == HeatInv => DetailIsOfDay
<1> SUFFICES ASSUME HeatInv, Settled, heat.selected # 0
             PROVE  /\ \E shown \in {"loading", "error", "detail"} : Panel = {shown}
                    /\ Panel = {"loading"} <=> heat.fetch # NoFetch
                    /\ heat.fetch # NoFetch => heat.fetch = heat.deps
                    /\ Panel = {"detail"} => heat.detail = Detailed(heat.deps)
  BY DEF DetailIsOfDay
<1>1. heat.deps.day # 0
  BY DayFields DEF Settled
<1>2. /\ heat.spinner \in BOOLEAN /\ heat.problem \in BOOLEAN
      /\ heat.spinner <=> heat.fetch # NoFetch
      /\ ~(heat.spinner /\ heat.problem)
      /\ heat.spinner \/ heat.problem \/ heat.detail # NoDetail
  BY <1>1 DEF HeatInv
<1>3. heat.fetch # NoFetch => heat.fetch = heat.deps
  BY DEF HeatInv
<1>4. CASE heat.spinner
  <2>1. Panel = {"loading"}
    BY <1>2, <1>4 DEF Panel
  <2>2. QED
    BY <1>2, <1>3, <1>4, <2>1
<1>5. CASE ~heat.spinner /\ heat.problem
  <2>1. Panel = {"error"}
    BY <1>2, <1>5 DEF Panel
  <2>2. QED
    BY <1>2, <1>3, <1>5, <2>1
<1>6. CASE ~heat.spinner /\ ~heat.problem
  <2>1. Panel = {"detail"} /\ heat.detail # NoDetail
    BY <1>2, <1>6 DEF Panel
  <2>2. heat.detail = Detailed(heat.deps)
    BY <1>1, <2>1 DEF HeatInv, Detailed
  <2>3. QED
    BY <1>2, <1>3, <1>6, <2>1, <2>2
<1>7. QED
  BY <1>4, <1>5, <1>6

(***************************************************************************)
(* In whatever order the days' answers come, fail or are aborted: a        *)
(* selected day shows one thing, and a detail only of its day and scope.   *)
(***************************************************************************)
THEOREM PanelIsOfDay == Spec => []DetailIsOfDay
  BY HeatInit, HeatNext, OfDay, PTL DEF Spec

-----------------------------------------------------------------------------
(* A table of buckets.                                                     *)


\* What holds of 0, and of n + 1 where it holds of n, holds of every number.
LEMMA Counting ==
  ASSUME NEW S, 0 \in S, \A n \in Nat : n \in S => n + 1 \in S
  PROVE  \A n \in Nat : n \in S
<1> DEFINE Bad == Nat \ S
<1> SUFFICES ASSUME Bad # {}
             PROVE  FALSE
  OBVIOUS
<1>1. PICK n \in Bad : \A m \in Bad : ~(<<m, n>> \in OpToRel(<, Nat))
  BY NatLessThanWellFounded, WFMin
<1>2. n \in Nat /\ n # 0 /\ n - 1 \in Nat /\ (n - 1) + 1 = n
  OBVIOUS
<1>3. n - 1 \in Bad
  BY <1>2
<1>4. <<n - 1, n>> \in OpToRel(<, Nat)
  BY <1>2 DEF OpToRel
<1>. QED
  BY <1>1, <1>3, <1>4

\* A penalty is a window or more.
LEMMA PenaltyLasts ==
  ASSUME NEW n \in 1 .. 4
  PROVE  Window * 2^(n - 1) \in Nat /\ Window * 2^(n - 1) >= Window
<1>1. 2^0 = 1 /\ 2^1 = 2 /\ 2^2 = 4 /\ 2^3 = 8
  BY SMT
<1>2. CASE n = 1
  <2>1. n - 1 = 0
    BY <1>2
  <2>2. QED
    BY <1>1, <2>1, LimitAssumption
<1>3. CASE n = 2
  <2>1. n - 1 = 1
    BY <1>3
  <2>2. QED
    BY <1>1, <2>1, LimitAssumption
<1>4. CASE n = 3
  <2>1. n - 1 = 2
    BY <1>4
  <2>2. QED
    BY <1>1, <2>1, LimitAssumption
<1>5. CASE n = 4
  <2>1. n - 1 = 3
    BY <1>5
  <2>2. QED
    BY <1>1, <2>1, LimitAssumption
<1>6. QED
  BY <1>2, <1>3, <1>4, <1>5

\* The buckets kept so far, as the program goes through the table.
KeptUpTo(t, keys, kept, n) ==
  kept = [i \in 0 .. n |-> IF i = 0 THEN <<>>
                           ELSE IF t[i].key \in keys THEN Append(kept[i - 1], t[i]) ELSE kept[i - 1]]

LEMMA KeptExists ==
  ASSUME NEW t, NEW keys, NEW n \in Nat
  PROVE  \E kept : KeptUpTo(t, keys, kept, n)
<1> DEFINE S == {m \in Nat : \E kept : KeptUpTo(t, keys, kept, m)}
<1>1. 0 \in S
  <2> DEFINE k0 == [i \in 0 .. 0 |-> <<>>]
  <2>1. KeptUpTo(t, keys, k0, 0)
    BY DEF KeptUpTo
  <2>2. QED
    BY <2>1
<1>2. ASSUME NEW m \in Nat, m \in S
      PROVE  m + 1 \in S
  <2>1. PICK kept : KeptUpTo(t, keys, kept, m)
    BY <1>2
  <2> DEFINE last == IF t[m + 1].key \in keys THEN Append(kept[m], t[m + 1]) ELSE kept[m]
             more == [i \in 0 .. m + 1 |-> IF i = m + 1 THEN last ELSE kept[i]]
  <2>2. DOMAIN kept = 0 .. m
    BY <2>1 DEF KeptUpTo
  <2>3. ASSUME NEW i \in 0 .. m + 1
        PROVE  more[i] = IF i = 0 THEN <<>>
                         ELSE IF t[i].key \in keys THEN Append(more[i - 1], t[i]) ELSE more[i - 1]
    <3>1. CASE i = m + 1
      <4>1. i # 0 /\ i - 1 = m /\ m \in 0 .. m + 1 /\ m # m + 1
        BY <3>1
      <4>2. more[i - 1] = kept[m] /\ more[i] = last
        BY <4>1, <3>1
      <4>3. QED
        BY <4>1, <4>2, <3>1
    <3>2. CASE i = 0
      <4>1. more[i] = kept[0] /\ 0 \in 0 .. m
        BY <3>2
      <4>2. kept[0] = <<>>
        BY <2>1, <4>1 DEF KeptUpTo
      <4>3. QED
        BY <4>1, <4>2, <3>2
    <3>3. CASE i # m + 1 /\ i # 0
      <4>1. i \in 0 .. m /\ i - 1 \in 0 .. m /\ i - 1 \in 0 .. m + 1 /\ i - 1 # m + 1
        BY <3>3
      <4>2. more[i] = kept[i] /\ more[i - 1] = kept[i - 1]
        BY <4>1, <3>3
      <4>3. kept[i] = IF t[i].key \in keys THEN Append(kept[i - 1], t[i]) ELSE kept[i - 1]
        BY <2>1, <3>3, <4>1 DEF KeptUpTo
      <4>4. QED
        BY <4>2, <4>3, <3>3
    <3>4. QED
      BY <3>1, <3>2, <3>3
  <2> HIDE DEF more
  <2>4. DOMAIN more = 0 .. m + 1 /\ more = [i \in 0 .. m + 1 |-> more[i]]
    BY DEF more
  <2>5. KeptUpTo(t, keys, more, m + 1)
    BY <2>3, <2>4 DEF KeptUpTo
  <2>6. QED
    BY <2>5
<1>3. QED
  <2> HIDE DEF S
  <2>1. \A m \in Nat : m \in S
    BY <1>1, <1>2, Counting
  <2>2. QED
    BY <2>1 DEF S

\* A table without some keys: the buckets of the others.
LEMMA KeptBuckets ==
  ASSUME NEW R, NEW t \in Seq(R), NEW keys
  PROVE  /\ Kept(t, keys) \in Seq(R)
         /\ Len(Kept(t, keys)) <= Len(t)
         /\ \A i \in DOMAIN Kept(t, keys) :
              \E k \in DOMAIN t : Kept(t, keys)[i] = t[k] /\ t[k].key \in keys
         /\ \A k \in DOMAIN t : t[k].key \in keys => \E i \in DOMAIN Kept(t, keys) : Kept(t, keys)[i] = t[k]
         /\ (\A i, j \in DOMAIN t : t[i].key = t[j].key => i = j) =>
              \A i, j \in DOMAIN Kept(t, keys) : Kept(t, keys)[i].key = Kept(t, keys)[j].key => i = j
<1> DEFINE n == Len(t)
           kept[i \in 0 .. n] == IF i = 0 THEN <<>>
             ELSE IF t[i].key \in keys THEN Append(kept[i - 1], t[i]) ELSE kept[i - 1]
           Single == \A i, j \in DOMAIN t : t[i].key = t[j].key => i = j
           Good(m) ==
             /\ kept[m] \in Seq(R)
             /\ Len(kept[m]) <= m
             /\ \A i \in DOMAIN kept[m] : \E k \in 1 .. m : kept[m][i] = t[k] /\ t[k].key \in keys
             /\ \A k \in 1 .. m : t[k].key \in keys => \E i \in DOMAIN kept[m] : kept[m][i] = t[k]
             /\ Single => \A i, j \in DOMAIN kept[m] : kept[m][i].key = kept[m][j].key => i = j
           S == {m \in Nat : m <= n => Good(m)}
<1>1. n \in Nat /\ DOMAIN t = 1 .. n /\ \A i \in 1 .. n : t[i] \in R
  BY LenProperties, ElementOfSeq
<1>2. Kept(t, keys) = kept[n]
  BY DEF Kept
<1>3. kept = [i \in 0 .. n |-> IF i = 0 THEN <<>>
               ELSE IF t[i].key \in keys THEN Append(kept[i - 1], t[i]) ELSE kept[i - 1]]
  <2>1. \E f : f = [i \in 0 .. n |-> IF i = 0 THEN <<>>
               ELSE IF t[i].key \in keys THEN Append(f[i - 1], t[i]) ELSE f[i - 1]]
    <3>1. \E f : KeptUpTo(t, keys, f, n)
      BY <1>1, KeptExists
    <3>2. QED
      BY <3>1, Zenon DEF KeptUpTo
  <2>2. QED
    BY <2>1, Zenon
<1> HIDE DEF kept
<1>4. 0 \in S
  <2>1. kept[0] = <<>>
    BY <1>1, <1>3
  <2>2. <<>> \in Seq(R) /\ Len(<<>>) = 0 /\ DOMAIN <<>> = {} /\ 1 .. 0 = {}
    OBVIOUS
  <2>3. Good(0)
    BY <2>1, <2>2
  <2> HIDE DEF Good
  <2>4. QED
    BY <2>3
<1>5. ASSUME NEW m \in Nat, m \in S
      PROVE  m + 1 \in S
  <2> HIDE DEF Good
  <2> SUFFICES ASSUME m + 1 <= n
               PROVE  Good(m + 1)
    OBVIOUS
  <2>1. Good(m)
    BY <1>1, <1>5
  <2> USE DEF Good
  <2>2. m + 1 \in 1 .. n /\ m + 1 \in 0 .. n /\ m + 1 # 0 /\ (m + 1) - 1 = m /\ t[m + 1] \in R
    BY <1>1
  <2>3. kept[m + 1] = IF t[m + 1].key \in keys THEN Append(kept[m], t[m + 1]) ELSE kept[m]
    BY <1>3, <2>2
  <2>4. CASE t[m + 1].key \notin keys
    <3>1. kept[m + 1] = kept[m]
      BY <2>3, <2>4
    <3>2. \A k \in 1 .. m + 1 : k \in 1 .. m \/ k = m + 1
      OBVIOUS
    <3>3. \A k \in 1 .. m : k \in 1 .. m + 1
      OBVIOUS
    <3>4. QED
      BY <2>1, <2>4, <3>1, <3>2, <3>3
  <2>5. CASE t[m + 1].key \in keys
    <3> DEFINE a == kept[m]
               b == kept[m + 1]
    <3>1. a \in Seq(R) /\ Len(a) \in Nat /\ DOMAIN a = 1 .. Len(a) /\ Len(a) <= m
      BY <2>1
    <3>2. b = Append(a, t[m + 1])
      BY <2>3, <2>5
    <3>3. /\ b \in Seq(R) /\ Len(b) = Len(a) + 1 /\ DOMAIN b = 1 .. Len(a) + 1
          /\ b[Len(a) + 1] = t[m + 1]
          /\ \A i \in 1 .. Len(a) : b[i] = a[i]
      BY <2>2, <3>1, <3>2
    <3>4. \A i \in DOMAIN b : i \in DOMAIN a \/ i = Len(a) + 1
      BY <3>1, <3>3
    <3>5. \A i \in DOMAIN a : i \in DOMAIN b /\ b[i] = a[i]
      BY <3>1, <3>3
    <3>6. Len(a) + 1 \in DOMAIN b
      BY <3>1, <3>3
    <3>7. m + 1 \in 1 .. m + 1 /\ \A k \in 1 .. m : k \in 1 .. m + 1 /\ k # m + 1 /\ k \in 1 .. n
      BY <1>1
    <3>8. \A k \in 1 .. m + 1 : k \in 1 .. m \/ k = m + 1
      OBVIOUS
    <3>9. \A i \in DOMAIN a : \E k \in 1 .. m : a[i] = t[k] /\ t[k].key \in keys
      BY <2>1
    <3>10. \A k \in 1 .. m : t[k].key \in keys => \E i \in DOMAIN a : a[i] = t[k]
      BY <2>1
    <3>11. Single => \A i, j \in DOMAIN a : a[i].key = a[j].key => i = j
      BY <2>1
    <3> HIDE DEF a, b
    <3>12. Len(b) <= m + 1
      BY <3>1, <3>3
    <3>13. \A i \in DOMAIN b : \E k \in 1 .. m + 1 : b[i] = t[k] /\ t[k].key \in keys
      BY <2>5, <3>3, <3>4, <3>5, <3>7, <3>9
    <3>14. \A k \in 1 .. m + 1 : t[k].key \in keys => \E i \in DOMAIN b : b[i] = t[k]
      BY <3>3, <3>5, <3>6, <3>8, <3>10
    <3>15. ASSUME Single, NEW i \in DOMAIN b, NEW j \in DOMAIN b, b[i].key = b[j].key
           PROVE  i = j
      <4>1. ASSUME NEW x \in DOMAIN a
            PROVE  b[x].key # t[m + 1].key
        <5>1. PICK k \in 1 .. m : a[x] = t[k]
          BY <3>9
        <5>2. k \in DOMAIN t /\ m + 1 \in DOMAIN t /\ k # m + 1
          BY <1>1, <2>2, <3>7
        <5>3. t[k].key # t[m + 1].key
          BY <5>2, <3>15
        <5>4. QED
          BY <5>1, <5>3, <3>5
      <4>2. QED
        BY <4>1, <3>3, <3>4, <3>5, <3>11, <3>15
    <3>16. QED
      BY <3>3, <3>12, <3>13, <3>14, <3>15 DEF b
  <2>6. QED
    BY <2>4, <2>5
<1>6. Good(n)
  <2> HIDE DEF S
  <2>1. \A m \in Nat : m \in S
    BY <1>4, <1>5, Counting
  <2> HIDE DEF Good
  <2>2. QED
    BY <1>1, <2>1 DEF S
<1>7. QED
  BY <1>1, <1>2, <1>6

\* A set of the first numbers that has none without those below it.
LEMMA Prefix ==
  ASSUME NEW n \in Nat, NEW I \in SUBSET (1 .. n),
         \A i \in I : \A j \in 1 .. i : j \in I
  PROVE  \E m \in 0 .. n : I = 1 .. m
<1> SUFFICES ASSUME \A m \in 0 .. n : I # 1 .. m
             PROVE  FALSE
  OBVIOUS
<1> DEFINE S == {m \in Nat : 1 .. m \subseteq I}
<1>1. 0 \in S
  OBVIOUS
<1>2. ASSUME NEW m \in Nat, m \in S
      PROVE  m + 1 \in S
  <2>1. 1 .. m \subseteq I
    BY <1>2
  <2>2. m <= n
    <3>1. m = 0 \/ m \in 1 .. m
      OBVIOUS
    <3>2. m \in 1 .. m => m \in 1 .. n
      BY <2>1
    <3>3. QED
      BY <3>1, <3>2
  <2>3. PICK i \in I : i \notin 1 .. m
    <3>1. I # 1 .. m
      BY <2>2
    <3>2. QED
      BY <2>1, <3>1, Zenon
  <2>4. m + 1 \in 1 .. i
    BY <2>3
  <2>5. m + 1 \in I
    BY <2>4
  <2>6. QED
    BY <2>1, <2>5
<1> HIDE DEF S
<1>3. n + 1 \in S
  BY <1>1, <1>2, Counting
<1>4. QED
  BY <1>3 DEF S

Log(s) == s \in Seq(Ages) /\ \A i, j \in DOMAIN s : i < j => s[i] <= s[j]

\* The attempts that stay in the span are the newest.
LEMMA AgedLog ==
  ASSUME NEW s, Log(s)
  PROVE  /\ Log(Aged(s)) /\ Len(Aged(s)) <= Len(s)
         /\ \A i \in 1 .. Len(Aged(s)) : Aged(s)[i] = s[i] + 1
<1> DEFINE I == {k \in DOMAIN s : s[k] + 1 \in Ages}
<1>1. /\ Len(s) \in Nat /\ DOMAIN s = 1 .. Len(s) /\ \A i \in 1 .. Len(s) : s[i] \in Ages
      /\ Window \in Nat /\ Window >= 1 /\ Ages = 0 .. Window - 1
  BY LimitAssumption DEF Log, Ages
<1>2. ASSUME NEW i \in I, NEW j \in 1 .. i
      PROVE  j \in I
  <2>1. i \in 1 .. Len(s) /\ j \in 1 .. Len(s) /\ (j < i \/ j = i)
    BY <1>1
  <2>2. s[i] + 1 \in 0 .. Window - 1 /\ s[j] \in 0 .. Window - 1 /\ s[i] \in 0 .. Window - 1
    BY <1>1, <2>1
  <2>3. s[j] <= s[i]
    BY <1>1, <2>1, <2>2 DEF Log
  <2>4. s[j] + 1 \in 0 .. Window - 1
    BY <1>1, <2>2, <2>3
  <2>5. QED
    BY <1>1, <2>1, <2>4
<1>3. I \in SUBSET (1 .. Len(s))
  BY <1>1
<1>4. PICK m \in 0 .. Len(s) : I = 1 .. m
  <2> HIDE DEF I
  <2>1. QED
    BY <1>1, <1>2, <1>3, Prefix
<1>5. Aged(s) = [i \in 1 .. m |-> s[i] + 1]
  BY <1>4 DEF Aged
<1>6. \A i \in 1 .. m : s[i] + 1 \in Ages
  BY <1>4
<1>7. Aged(s) \in Seq(Ages) /\ Len(Aged(s)) = m /\ DOMAIN Aged(s) = 1 .. m
  BY <1>1, <1>5, <1>6
<1>8. \A i \in 1 .. m : i \in 1 .. Len(s) /\ Aged(s)[i] = s[i] + 1 /\ s[i] \in Nat
  BY <1>1, <1>5
<1>9. ASSUME NEW i \in DOMAIN Aged(s), NEW j \in DOMAIN Aged(s), i < j
      PROVE  Aged(s)[i] <= Aged(s)[j]
  <2>1. s[i] <= s[j]
    BY <1>1, <1>7, <1>8, <1>9 DEF Log
  <2>2. QED
    BY <1>7, <1>8, <2>1
<1>10. QED
  BY <1>1, <1>7, <1>8, <1>9 DEF Log

\* One more attempt.
LEMMA NewLog ==
  ASSUME NEW s, Log(s)
  PROVE  /\ Log(<<0>> \o s) /\ Len(<<0>> \o s) = Len(s) + 1
         /\ (<<0>> \o s)[1] = 0
         /\ \A i \in 1 .. Len(s) : (<<0>> \o s)[i + 1] = s[i]
<1> DEFINE r == <<0>> \o s
<1>1. /\ Len(s) \in Nat /\ DOMAIN s = 1 .. Len(s) /\ \A i \in 1 .. Len(s) : s[i] \in Ages
      /\ 0 \in Ages /\ Ages \subseteq Nat
  BY LimitAssumption DEF Log, Ages
<1>2. s \in Seq(Ages) /\ <<0>> \in Seq(Ages) /\ Len(<<0>>) = 1
  BY <1>1 DEF Log
<1>3. /\ r \in Seq(Ages) /\ Len(r) = Len(s) + 1 /\ DOMAIN r = 1 .. Len(s) + 1 /\ r[1] = 0
      /\ \A i \in 1 .. Len(s) : r[i + 1] = s[i]
  BY <1>2
<1>4. ASSUME NEW i \in DOMAIN r, NEW j \in DOMAIN r, i < j
      PROVE  r[i] <= r[j]
  <2>1. j - 1 \in 1 .. Len(s) /\ (j - 1) + 1 = j
    BY <1>1, <1>3, <1>4
  <2>2. r[j] = s[j - 1] /\ r[j] \in Nat
    BY <1>1, <1>3, <2>1
  <2>3. CASE i = 1
    BY <1>3, <2>2, <2>3
  <2>4. CASE i # 1
    <3>1. i - 1 \in 1 .. Len(s) /\ (i - 1) + 1 = i /\ i - 1 < j - 1
      BY <1>1, <1>3, <1>4, <2>4
    <3>2. r[i] = s[i - 1] /\ s[i - 1] <= s[j - 1]
      BY <1>1, <1>3, <2>1, <3>1 DEF Log
    <3>3. QED
      BY <2>2, <3>2
  <2>5. QED
    BY <2>3, <2>4
<1>5. QED
  BY <1>3, <1>4 DEF Log

-----------------------------------------------------------------------------
(* The login windows.                                                      *)

Limit(key) == IF key = Name THEN MaxUser ELSE MaxIp
Row == [key : Key, count : Nat, left : Nat, strikes : 0 .. MaxStrikes]
Single(t) == \A i, j \in DOMAIN t : t[i].key = t[j].key => i = j
Table(t) == t \in Seq(Row) /\ Single(t) /\ Len(t) <= MaxBuckets

\* A window that may let through more has let through those of its span, and what the
\* windows before it did is older than it and less than the limit; one that is used up
\* stays until its attempts are out of the span.
InWindow(ages, b, limit) ==
  IF b.count < limit
  THEN /\ b.left <= Window
       /\ \E m \in 0 .. Len(ages) : /\ m <= b.count /\ Len(ages) - m < limit
                                    /\ \A i \in m + 1 .. Len(ages) : ages[i] + b.left >= Window
  ELSE Len(ages) < 2 * limit /\ \A i \in 1 .. Len(ages) : ages[i] + b.left >= Window
Holds(ages, b, limit) == b.count <= limit /\ InWindow(ages, b, limit)
Fits(t, tries, key) ==
  /\ Log(tries[key])
  /\ key \notin Keys(t) => Len(tries[key]) < Limit(key)
  /\ \A i \in DOMAIN t : t[i].key = key => Holds(tries[key], t[i], Limit(key))
Within(t, tries) == tries \in [Key -> Seq(Ages)] /\ \A key \in Key : Fits(t, tries, key)

LEMMA Limits ==
  ASSUME NEW key
  PROVE  Limit(key) \in Nat /\ Limit(key) >= 1
  BY LimitAssumption DEF Limit

LEMMA LogLen ==
  ASSUME NEW s, Log(s)
  PROVE  /\ Len(s) \in Nat /\ DOMAIN s = 1 .. Len(s)
         /\ \A i \in 1 .. Len(s) : s[i] \in Nat /\ s[i] < Window
         /\ Window \in Nat /\ Window >= 1
<1>1. Window \in Nat /\ Window >= 1 /\ Ages = 0 .. Window - 1
  BY LimitAssumption DEF Ages
<1>2. Len(s) \in Nat /\ DOMAIN s = 1 .. Len(s) /\ \A i \in 1 .. Len(s) : s[i] \in Ages
  BY DEF Log
<1>3. QED
  BY <1>1, <1>2

\* When a window is over, fewer attempts than the limit are in the span.
LEMMA OverIsFew ==
  ASSUME NEW s, Log(s), NEW b \in Row, NEW limit \in Nat, limit >= 1,
         Holds(s, b, limit), b.left = 0
  PROVE  Len(s) < limit
<1>1. /\ Len(s) \in Nat /\ Window \in Nat
      /\ \A i \in 1 .. Len(s) : s[i] \in Nat /\ s[i] < Window
  BY LogLen
<1>2. b.count \in Nat
  BY DEF Row
<1>3. CASE b.count < limit
  <2>1. PICK m \in 0 .. Len(s) : /\ m <= b.count
                                 /\ \A i \in m + 1 .. Len(s) : s[i] + 0 >= Window
    BY <1>3 DEF Holds, InWindow
  <2>2. ASSUME m < Len(s)
        PROVE  FALSE
    <3>1. Len(s) \in m + 1 .. Len(s) /\ Len(s) \in 1 .. Len(s)
      BY <1>1, <2>2
    <3>2. s[Len(s)] + 0 >= Window /\ s[Len(s)] \in Nat /\ s[Len(s)] < Window
      BY <1>1, <2>1, <3>1
    <3>3. QED
      BY <1>1, <3>2
  <2>3. QED
    BY <1>1, <1>2, <1>3, <2>1, <2>2
<1>4. CASE ~(b.count < limit)
  <2>1. \A i \in 1 .. Len(s) : s[i] + 0 >= Window
    BY <1>4 DEF Holds, InWindow
  <2>2. ASSUME Len(s) # 0
        PROVE  FALSE
    <3>1. Len(s) \in 1 .. Len(s)
      BY <1>1, <2>2
    <3>2. s[Len(s)] + 0 >= Window /\ s[Len(s)] \in Nat /\ s[Len(s)] < Window
      BY <1>1, <2>1, <3>1
    <3>3. QED
      BY <1>1, <3>2
  <2>3. QED
    BY <1>1, <2>2
<1>5. QED
  BY <1>3, <1>4

LEMMA TableRows ==
  ASSUME NEW t, Table(t)
  PROVE  /\ Len(t) \in Nat /\ DOMAIN t = 1 .. Len(t) /\ Len(t) <= MaxBuckets
         /\ \A i \in DOMAIN t : t[i] \in Row
  BY LenProperties, ElementOfSeq DEF Table

\* The buckets that a table without some keys keeps.
LEMMA KeptTable ==
  ASSUME NEW t, Table(t), NEW keys
  PROVE  /\ Table(Kept(t, keys)) /\ Len(Kept(t, keys)) <= Len(t)
         /\ Keys(Kept(t, keys)) = Keys(t) \cap keys
         /\ \A i \in DOMAIN Kept(t, keys) : \E k \in DOMAIN t : Kept(t, keys)[i] = t[k]
<1> DEFINE u == Kept(t, keys)
<1>1. t \in Seq(Row) /\ Single(t) /\ Len(t) <= MaxBuckets /\ Len(t) \in Nat /\ MaxBuckets \in Nat
  BY TableRows, LimitAssumption DEF Table
<1>2. /\ u \in Seq(Row) /\ Len(u) <= Len(t)
      /\ \A i \in DOMAIN u : \E k \in DOMAIN t : u[i] = t[k] /\ t[k].key \in keys
      /\ \A k \in DOMAIN t : t[k].key \in keys => \E i \in DOMAIN u : u[i] = t[k]
  BY <1>1, KeptBuckets
<1>3. Single(u)
  BY <1>1, KeptBuckets DEF Single
<1> HIDE DEF u
<1>4. Table(u)
  BY <1>1, <1>2, <1>3 DEF Table
<1>5. Keys(u) = Keys(t) \cap keys
  <2>1. ASSUME NEW k \in Keys(u)
        PROVE  k \in Keys(t) /\ k \in keys
    BY <1>2, <2>1, Zenon DEF Keys
  <2>2. ASSUME NEW k \in Keys(t), k \in keys
        PROVE  k \in Keys(u)
    <3>1. PICK j \in DOMAIN t : k = t[j].key
      BY <2>2 DEF Keys
    <3>2. PICK i \in DOMAIN u : u[i] = t[j]
      BY <1>2, <2>2, <3>1
    <3>3. QED
      BY <3>1, <3>2 DEF Keys
  <2>3. QED
    BY <2>1, <2>2
<1>6. QED
  BY <1>2, <1>4, <1>5 DEF u

\* The last n buckets.
LEMMA TailTable ==
  ASSUME NEW t, Table(t), NEW n \in Nat, n <= Len(t)
  PROVE  LET u == SubSeq(t, Len(t) - n + 1, Len(t))
         IN /\ Table(u) /\ Len(u) = n
            /\ \A i \in DOMAIN u : \E k \in DOMAIN t : u[i] = t[k]
<1> DEFINE u == SubSeq(t, Len(t) - n + 1, Len(t))
           d == Len(t) - n
<1>1. /\ t \in Seq(Row) /\ Single(t) /\ Len(t) \in Nat /\ DOMAIN t = 1 .. Len(t)
      /\ Len(t) <= MaxBuckets /\ MaxBuckets \in Nat /\ d \in Nat
      /\ \A i \in 1 .. Len(t) : t[i] \in Row
  BY TableRows, LimitAssumption DEF Table
<1>2. /\ u \in Seq(Row) /\ Len(u) = n /\ DOMAIN u = 1 .. n
      /\ \A i \in 1 .. n : u[i] = t[d + i] /\ d + i \in DOMAIN t
  BY <1>1
<1>3. ASSUME NEW i \in DOMAIN u, NEW j \in DOMAIN u, u[i].key = u[j].key
      PROVE  i = j
  <2>1. i \in 1 .. n /\ j \in 1 .. n /\ t[d + i].key = t[d + j].key /\ d + i \in DOMAIN t /\ d + j \in DOMAIN t
    BY <1>2, <1>3
  <2>2. d + i = d + j
    BY <1>1, <2>1 DEF Single
  <2>3. QED
    BY <1>1, <2>1, <2>2
<1> HIDE DEF u, d
<1>4. Table(u)
  BY <1>1, <1>2, <1>3 DEF Table, Single
<1>5. \A i \in DOMAIN u : \E k \in DOMAIN t : u[i] = t[k]
  BY <1>2
<1>6. QED
  BY <1>2, <1>4, <1>5 DEF u

\* The sweep makes room, keeps the buckets it keeps as they are, and drops a window that
\* is not over only when the table is full of such.
LEMMA Swept ==
  ASSUME NEW t, Table(t)
  PROVE  /\ Table(Sweep(t)) /\ Len(Sweep(t)) < MaxBuckets
         /\ \A i \in DOMAIN Sweep(t) : \E k \in DOMAIN t : Sweep(t)[i] = t[k]
         /\ \A k \in DOMAIN t : t[k].key \in Keys(Sweep(t)) \/ Expired(t[k]) \/ Full(t)
<1> DEFINE alive == {t[i].key : i \in {k \in DOMAIN t : ~Expired(t[k])}}
<1>1. MaxBuckets \in Nat /\ MaxBuckets >= 1 /\ Len(t) \in Nat /\ Len(t) <= MaxBuckets
  BY TableRows, LimitAssumption
<1>2. /\ Live(t) = Kept(t, alive)
      /\ Table(Live(t)) /\ Keys(Live(t)) = Keys(t) \cap alive
      /\ \A i \in DOMAIN Live(t) : \E k \in DOMAIN t : Live(t)[i] = t[k]
  <2>1. Live(t) = Kept(t, alive)
    BY DEF Live
  <2> HIDE DEF alive
  <2>2. QED
    BY <2>1, KeptTable
<1>3. Len(Live(t)) \in Nat /\ Len(Live(t)) <= MaxBuckets
  BY <1>2, TableRows
<1>4. CASE Len(t) < MaxBuckets
  <2>1. Sweep(t) = t
    BY <1>4 DEF Sweep
  <2>2. QED
    BY <1>4, <2>1 DEF Keys
<1>5. CASE ~(Len(t) < MaxBuckets) /\ Len(Live(t)) < MaxBuckets
  <2>1. Sweep(t) = Live(t)
    BY <1>5 DEF Sweep
  <2>2. ASSUME NEW k \in DOMAIN t, ~Expired(t[k])
        PROVE  t[k].key \in Keys(Live(t))
    <3>1. t[k].key \in alive /\ t[k].key \in Keys(t)
      BY <2>2 DEF Keys
    <3>2. QED
      BY <1>2, <3>1
  <2> HIDE DEF alive
  <2>3. QED
    BY <1>2, <1>5, <2>1, <2>2
<1>6. CASE ~(Len(t) < MaxBuckets) /\ ~(Len(Live(t)) < MaxBuckets)
  <2> DEFINE l == Live(t)
             n == MaxBuckets - 1
             u == SubSeq(l, Len(l) - n + 1, Len(l))
  <2>1. n \in Nat /\ n <= Len(l) /\ Len(l) - n + 1 = Len(l) - MaxBuckets + 2
    BY <1>1, <1>3, <1>6
  <2>2. Sweep(t) = u
    BY <1>6, <2>1 DEF Sweep
  <2>3. /\ Table(u) /\ Len(u) = n
        /\ \A i \in DOMAIN u : \E k \in DOMAIN l : u[i] = l[k]
    BY <1>2, <2>1, TailTable
  <2>4. Full(t)
    BY <1>1, <1>3, <1>6 DEF Full
  <2>5. n < MaxBuckets
    BY <1>1
  <2> HIDE DEF u, l, n
  <2>6. \A i \in DOMAIN u : \E k \in DOMAIN t : u[i] = t[k]
    BY <1>2, <2>3 DEF l
  <2>7. QED
    BY <2>2, <2>3, <2>4, <2>5, <2>6
<1>7. QED
  BY <1>4, <1>5, <1>6

LEMMA RowFields ==
  ASSUME NEW b \in Row
  PROVE  /\ b.key \in Key /\ b.count \in Nat /\ b.left \in Nat /\ b.strikes \in 0 .. MaxStrikes
  BY DEF Row

LEMMA FitsRow ==
  ASSUME NEW t, NEW tries, NEW i \in DOMAIN t, Fits(t, tries, t[i].key)
  PROVE  Log(tries[t[i].key]) /\ Holds(tries[t[i].key], t[i], Limit(t[i].key))
  BY DEF Fits

\* Nothing held: an empty log fits whatever the table says.
LEMMA NoLog ==
  ASSUME NEW limit \in Nat, limit >= 1, NEW b \in Row, b.count <= limit,
         b.count < limit => b.left <= Window
  PROVE  Log(None) /\ Len(None) < limit /\ Holds(None, b, limit)
<1>1. None \in Seq(Ages) /\ Len(None) = 0 /\ DOMAIN None = {} /\ 1 .. 0 = {}
  BY DEF None
<1>2. Log(None)
  BY <1>1 DEF Log
<1>3. CASE b.count < limit
  <2>1. 0 \in 0 .. Len(None) /\ 0 <= b.count /\ Len(None) - 0 < limit /\ 0 + 1 .. Len(None) = {}
    BY <1>1, RowFields
  <2>2. InWindow(None, b, limit)
    BY <1>3, <2>1 DEF InWindow
  <2>3. QED
    BY <1>1, <1>2, <2>2 DEF Holds
<1>4. CASE ~(b.count < limit)
  <2>1. InWindow(None, b, limit)
    BY <1>1, <1>4 DEF InWindow
  <2>2. QED
    BY <1>1, <1>2, <2>1 DEF Holds
<1>5. QED
  BY <1>3, <1>4

\* After the sweep the counters still fit; what a full table forgets is not held against
\* its key.
Pruned(t, tries) == [k \in Key |-> IF k \in Forgotten(t) THEN None ELSE tries[k]]

LEMMA SweptFits ==
  ASSUME NEW t, Table(t), NEW tries, Within(t, tries)
  PROVE  Within(Sweep(t), Pruned(t, tries))
<1> DEFINE u == Sweep(t)
           p == Pruned(t, tries)
<1>1. /\ Table(u)
      /\ \A i \in DOMAIN u : \E k \in DOMAIN t : u[i] = t[k]
      /\ \A k \in DOMAIN t : t[k].key \in Keys(u) \/ Expired(t[k]) \/ Full(t)
  BY Swept
<1>2. /\ tries \in [Key -> Seq(Ages)]
      /\ \A k \in Key : Fits(t, tries, k)
  BY DEF Within
<1>3. p \in [Key -> Seq(Ages)]
  <2>1. None \in Seq(Ages)
    BY DEF None
  <2>2. QED
    BY <1>2, <2>1 DEF Pruned
<1>4. \A i \in DOMAIN t : t[i] \in Row
  BY TableRows
<1>5. ASSUME NEW key \in Key
      PROVE  Fits(u, p, key)
  <2>1. Limit(key) \in Nat /\ Limit(key) >= 1
    BY Limits
  <2>2. CASE key \in Forgotten(t)
    <3>1. p[key] = None
      BY <2>2 DEF Pruned
    <3>2. key \notin Keys(u)
      BY <2>2 DEF Forgotten
    <3>3. \A i \in DOMAIN u : u[i].key # key
      BY <3>2 DEF Keys
    <3>4. Log(None) /\ Len(None) = 0
      BY DEF None, Log
    <3>5. QED
      BY <2>1, <3>1, <3>3, <3>4 DEF Fits
  <2>3. CASE key \notin Forgotten(t)
    <3>1. p[key] = tries[key]
      BY <2>3 DEF Pruned
    <3>2. Fits(t, tries, key)
      BY <1>2
    <3>3. Log(tries[key])
      BY <3>2 DEF Fits
    <3>4. ASSUME NEW i \in DOMAIN u, u[i].key = key
          PROVE  Holds(tries[key], u[i], Limit(key))
      <4>1. PICK k \in DOMAIN t : u[i] = t[k]
        BY <1>1
      <4>2. QED
        BY <3>2, <3>4, <4>1 DEF Fits
    <3>5. ASSUME key \notin Keys(u)
          PROVE  Len(tries[key]) < Limit(key)
      <4>1. CASE key \notin Keys(t)
        BY <3>2, <4>1 DEF Fits
      <4>2. CASE key \in Keys(t)
        <5>1. PICK k \in DOMAIN t : t[k].key = key
          BY <4>2 DEF Keys
        <5>2. ~Full(t)
          BY <2>3, <3>5, <4>2 DEF Forgotten
        <5>3. t[k].left = 0 /\ t[k] \in Row
          BY <1>1, <1>4, <3>5, <5>1, <5>2 DEF Expired
        <5>4. Holds(tries[key], t[k], Limit(key))
          BY <3>2, <5>1 DEF Fits
        <5>5. QED
          BY <2>1, <3>3, <5>3, <5>4, OverIsFew
      <4>3. QED
        BY <4>1, <4>2
    <3>6. QED
      BY <3>1, <3>3, <3>4, <3>5 DEF Fits
  <2>4. QED
    BY <2>2, <2>3
<1> HIDE DEF u, p
<1>6. Within(u, p)
  BY <1>3, <1>5 DEF Within
<1>7. QED
  BY <1>6 DEF u, p

\* A fresh window holds fewer attempts than the limit.
Fresh(key, strikes) == [key |-> key, count |-> 0, left |-> Window, strikes |-> strikes]

LEMMA FreshHolds ==
  ASSUME NEW s, Log(s), NEW key \in Key, NEW n \in 0 .. MaxStrikes, Len(s) < Limit(key)
  PROVE  Fresh(key, n) \in Row /\ Fresh(key, n).key = key /\ Holds(s, Fresh(key, n), Limit(key))
<1> DEFINE b == Fresh(key, n)
<1>1. /\ Len(s) \in Nat /\ Window \in Nat /\ \A i \in 1 .. Len(s) : s[i] \in Nat
      /\ Limit(key) \in Nat /\ Limit(key) >= 1
  BY LogLen, Limits
<1>2. b \in Row /\ b.key = key /\ b.count = 0 /\ b.left = Window
  BY <1>1 DEF Row, Fresh
<1> HIDE DEF b
<1>3. /\ 0 \in 0 .. Len(s) /\ 0 <= 0 /\ Len(s) - 0 < Limit(key)
      /\ \A i \in 0 + 1 .. Len(s) : s[i] + Window >= Window
  BY <1>1
<1>4. InWindow(s, b, Limit(key))
  BY <1>1, <1>2, <1>3 DEF InWindow
<1>5. Holds(s, b, Limit(key))
  BY <1>1, <1>2, <1>4 DEF Holds
<1>6. QED
  BY <1>2, <1>5 DEF b

LEMMA OpenedFits ==
  ASSUME NEW t, Table(t), Len(t) < MaxBuckets, NEW tries, Within(t, tries), NEW key \in Key
  PROVE  /\ Table(Open(t, key)) /\ key \in Keys(Open(t, key))
         /\ Within(Open(t, key), tries)
<1> DEFINE u == Open(t, key)
<1>1. /\ t \in Seq(Row) /\ Single(t) /\ Len(t) \in Nat /\ DOMAIN t = 1 .. Len(t) /\ MaxBuckets \in Nat
      /\ \A i \in DOMAIN t : t[i] \in Row
  BY TableRows, LimitAssumption DEF Table
<1>2. /\ tries \in [Key -> Seq(Ages)]
      /\ \A k \in Key : Fits(t, tries, k)
  BY DEF Within
<1>3. 0 \in 0 .. MaxStrikes
  BY DEF MaxStrikes
<1>4. CASE key \notin Keys(t)
  <2> DEFINE f == Fresh(key, 0)
  <2>1. u = Append(t, f)
    BY <1>4 DEF Open, Fresh
  <2>2. Log(tries[key]) /\ Len(tries[key]) < Limit(key)
    BY <1>2, <1>4 DEF Fits
  <2>3. f \in Row /\ f.key = key /\ Holds(tries[key], f, Limit(key))
    BY <1>3, <2>2, FreshHolds
  <2> HIDE DEF f
  <2>4. /\ u \in Seq(Row) /\ Len(u) = Len(t) + 1 /\ DOMAIN u = 1 .. Len(t) + 1
        /\ u[Len(t) + 1] = f /\ \A i \in DOMAIN t : u[i] = t[i]
    BY <1>1, <2>1, <2>3
  <2>5. \A i \in DOMAIN t : t[i].key # key
    BY <1>4 DEF Keys
  <2> HIDE DEF u
  <2>6. \A i \in DOMAIN u : i \in DOMAIN t \/ i = Len(t) + 1
    BY <1>1, <2>4
  <2>7. Single(u)
    BY <1>1, <2>3, <2>4, <2>5, <2>6 DEF Single
  <2>8. Table(u)
    BY <1>1, <2>4, <2>7 DEF Table
  <2>9. key \in Keys(u)
    <3>1. Len(t) + 1 \in DOMAIN u
      BY <1>1, <2>4
    <3>2. QED
      BY <2>3, <2>4, <3>1 DEF Keys
  <2>10. ASSUME NEW k \in Key
         PROVE  Fits(u, tries, k)
    <3>1. Fits(t, tries, k)
      BY <1>2
    <3>2. k \notin Keys(u) => k \notin Keys(t)
      <4>1. DOMAIN t \subseteq DOMAIN u
        BY <1>1, <2>4
      <4>2. QED
        BY <2>4, <4>1 DEF Keys
    <3>3. ASSUME NEW i \in DOMAIN u, u[i].key = k
          PROVE  Holds(tries[k], u[i], Limit(k))
      <4>1. CASE i \in DOMAIN t
        BY <2>4, <3>1, <3>3, <4>1 DEF Fits
      <4>2. CASE i = Len(t) + 1
        BY <2>3, <2>4, <3>3, <4>2
      <4>3. QED
        BY <2>6, <4>1, <4>2
    <3>4. QED
      BY <3>1, <3>2, <3>3 DEF Fits
  <2>11. Within(u, tries)
    BY <1>2, <2>10 DEF Within
  <2>12. QED
    BY <2>8, <2>9, <2>11 DEF u
<1>5. CASE key \in Keys(t)
  <2> DEFINE fewer(b) == Fresh(key, IF b.strikes = 0 THEN 0 ELSE b.strikes - 1)
  <2>1. u = [i \in DOMAIN t |-> IF t[i].key = key /\ Expired(t[i]) THEN fewer(t[i]) ELSE t[i]]
    BY <1>5 DEF Open, Fresh
  <2>2. ASSUME NEW i \in DOMAIN t
        PROVE  /\ u[i] \in Row /\ u[i].key = t[i].key
               /\ Holds(tries[t[i].key], u[i], Limit(t[i].key))
    <3>1. t[i] \in Row /\ t[i].key \in Key
      BY <1>1, RowFields
    <3>2. Log(tries[t[i].key]) /\ Holds(tries[t[i].key], t[i], Limit(t[i].key))
      BY <1>2, <3>1, FitsRow
    <3>3. CASE t[i].key = key /\ Expired(t[i])
      <4> DEFINE n == IF t[i].strikes = 0 THEN 0 ELSE t[i].strikes - 1
      <4>1. u[i] = Fresh(key, n)
        BY <2>1, <3>3
      <4>2. n \in 0 .. MaxStrikes
        BY <3>1, RowFields DEF MaxStrikes
      <4>3. Len(tries[key]) < Limit(key)
        BY <3>1, <3>2, <3>3, OverIsFew, Limits DEF Expired
      <4> HIDE DEF n
      <4>4. QED
        BY <3>2, <3>3, <4>1, <4>2, <4>3, FreshHolds
    <3>4. CASE ~(t[i].key = key /\ Expired(t[i]))
      BY <2>1, <3>1, <3>2, <3>4
    <3>5. QED
      BY <3>3, <3>4
  <2>3. DOMAIN u = 1 .. Len(t) /\ DOMAIN u = DOMAIN t
    BY <1>1, <2>1
  <2>4. u \in Seq(Row) /\ Len(u) = Len(t)
    <3>1. u = [i \in 1 .. Len(t) |-> u[i]] /\ \A i \in 1 .. Len(t) : u[i] \in Row
      BY <1>1, <2>1, <2>2, <2>3
    <3> HIDE DEF u
    <3>2. QED
      BY <1>1, <3>1
  <2> HIDE DEF u
  <2>5. Single(u)
    BY <1>1, <2>2, <2>3 DEF Single
  <2>6. Table(u)
    BY <1>1, <2>4, <2>5 DEF Table
  <2>7. Keys(u) = Keys(t)
    <3>1. \A k : k \in Keys(u) <=> \E i \in DOMAIN t : k = t[i].key
      BY <2>2, <2>3 DEF Keys
    <3>2. QED
      BY <3>1 DEF Keys
  <2>8. ASSUME NEW k \in Key
        PROVE  Fits(u, tries, k)
    <3>1. Fits(t, tries, k)
      BY <1>2
    <3>2. QED
      BY <2>2, <2>3, <2>7, <3>1 DEF Fits
  <2>9. Within(u, tries)
    BY <1>2, <2>8 DEF Within
  <2>10. QED
    BY <1>5, <2>6, <2>7, <2>9 DEF u
<1>6. QED
  BY <1>4, <1>5

\* A window's last attempt, or one before.
LEMMA CountRow ==
  ASSUME NEW b \in Row, NEW limit \in Nat, b.count < limit
  PROVE  /\ Count(b, limit) \in Row
         /\ Count(b, limit).key = b.key /\ Count(b, limit).count = b.count + 1
         /\ b.count + 1 < limit => Count(b, limit).left = b.left
         /\ ~(b.count + 1 < limit) => Count(b, limit).left >= Window
<1> DEFINE n == IF b.strikes < MaxStrikes THEN b.strikes + 1 ELSE MaxStrikes
           penalty == Window * 2^(n - 1)
           c == [b EXCEPT !.count = b.count + 1]
           left == IF penalty > b.left THEN penalty ELSE b.left
<1>1. /\ b.key \in Key /\ b.count \in Nat /\ b.left \in Nat /\ b.strikes \in 0 .. 4
      /\ Window \in Nat
  BY RowFields, LimitAssumption DEF MaxStrikes
<1>2. n \in 1 .. 4 /\ n \in 0 .. MaxStrikes
  BY <1>1 DEF MaxStrikes
<1>3. penalty \in Nat /\ penalty >= Window
  <2> HIDE DEF n
  <2>1. QED
    BY <1>2, PenaltyLasts
<1>4. Count(b, limit) = IF c.count < limit THEN c
                        ELSE [c EXCEPT !.strikes = n, !.left = IF penalty > b.left THEN penalty ELSE b.left]
  BY DEF Count
<1> HIDE DEF n, penalty
<1>5. left \in Nat /\ left >= Window
  BY <1>1, <1>3
<1>6. c \in Row /\ c.key = b.key /\ c.count = b.count + 1 /\ c.left = b.left
  BY <1>1 DEF Row
<1>7. CASE b.count + 1 < limit
  BY <1>1, <1>4, <1>6, <1>7
<1>8. CASE ~(b.count + 1 < limit)
  <2> DEFINE d == [c EXCEPT !.strikes = n, !.left = left]
  <2>1. Count(b, limit) = d
    BY <1>4, <1>6, <1>8
  <2> HIDE DEF left, c
  <2>2. d \in Row /\ d.key = b.key /\ d.count = b.count + 1 /\ d.left = left
    BY <1>2, <1>5, <1>6 DEF Row
  <2>3. QED
    BY <1>5, <1>8, <2>1, <2>2
<1>9. QED
  BY <1>7, <1>8

LEMMA CountHolds ==
  ASSUME NEW s, Log(s), NEW b \in Row, NEW limit \in Nat, limit >= 1,
         Holds(s, b, limit), b.count < limit
  PROVE  Log(<<0>> \o s) /\ Holds(<<0>> \o s, Count(b, limit), limit)
<1> DEFINE r == <<0>> \o s
           c == Count(b, limit)
<1>1. /\ Len(s) \in Nat /\ Window \in Nat
      /\ \A i \in 1 .. Len(s) : s[i] \in Nat
  BY LogLen
<1>2. /\ Log(r) /\ Len(r) = Len(s) + 1 /\ r[1] = 0
      /\ \A i \in 1 .. Len(s) : r[i + 1] = s[i]
  BY NewLog
<1>3. /\ c \in Row /\ c.count = b.count + 1
      /\ b.count + 1 < limit => c.left = b.left
      /\ ~(b.count + 1 < limit) => c.left >= Window
  BY CountRow
<1>4. b.count \in Nat /\ b.left \in Nat /\ c.left \in Nat
  BY <1>3, RowFields
<1> HIDE DEF r, c
<1>5. PICK m \in 0 .. Len(s) : /\ m <= b.count /\ Len(s) - m < limit
                               /\ \A i \in m + 1 .. Len(s) : s[i] + b.left >= Window
  BY DEF Holds, InWindow
<1>6. b.left <= Window
  BY DEF Holds, InWindow
<1>7. CASE b.count + 1 < limit
  <2>1. m + 1 \in 0 .. Len(r) /\ m + 1 <= c.count /\ Len(r) - (m + 1) < limit
    BY <1>1, <1>2, <1>3, <1>4, <1>5
  <2>2. ASSUME NEW i \in (m + 1) + 1 .. Len(r)
        PROVE  r[i] + c.left >= Window
    <3>1. i - 1 \in m + 1 .. Len(s) /\ i - 1 \in 1 .. Len(s) /\ (i - 1) + 1 = i
      BY <1>1, <1>2
    <3>2. r[i] = s[i - 1] /\ s[i - 1] + b.left >= Window
      BY <1>2, <1>5, <3>1
    <3>3. QED
      BY <1>3, <1>7, <3>2
  <2>3. InWindow(r, c, limit)
    BY <1>3, <1>6, <1>7, <2>1, <2>2 DEF InWindow
  <2>4. QED
    BY <1>2, <1>3, <1>4, <1>7, <2>3 DEF Holds, r, c
<1>8. CASE ~(b.count + 1 < limit)
  <2>1. Len(r) < 2 * limit
    BY <1>1, <1>2, <1>4, <1>5
  <2>2. \A i \in 1 .. Len(r) : r[i] \in Nat
    BY <1>2, LogLen
  <2>3. \A i \in 1 .. Len(r) : r[i] + c.left >= Window
    BY <1>1, <1>3, <1>4, <1>8, <2>2
  <2>4. InWindow(r, c, limit)
    BY <1>3, <1>8, <2>1, <2>3 DEF InWindow
  <2>5. QED
    BY <1>2, <1>3, <1>4, <1>8, <2>4 DEF Holds, r, c
<1>9. QED
  BY <1>7, <1>8

\* One attempt on one key.
LEMMA Attempt ==
  ASSUME NEW t, Table(t), NEW tries, Within(t, tries), NEW key \in Key
  PROVE  /\ Table(Consume(t, key, Limit(key)))
         /\ Within(Consume(t, key, Limit(key)), Tried(tries, t, key, Limit(key)))
<1> DEFINE o == Opened(t, key)
           p == Pruned(t, tries)
           max == Limit(key)
           u == Consume(t, key, max)
           q == Tried(tries, t, key, max)
<1>1. Table(o) /\ key \in Keys(o) /\ Within(o, p)
  <2>1. Table(Sweep(t)) /\ Len(Sweep(t)) < MaxBuckets /\ Within(Sweep(t), p)
    BY Swept, SweptFits
  <2> HIDE DEF p
  <2>2. QED
    BY <2>1, OpenedFits DEF Opened
<1>2. /\ u = [i \in DOMAIN o |-> IF o[i].key = key /\ o[i].count < max THEN Count(o[i], max) ELSE o[i]]
      /\ q = IF Bucket(o, key).count < max THEN [p EXCEPT ![key] = <<0>> \o p[key]] ELSE p
  BY DEF Consume, Tried, Allows, Pruned
<1> HIDE DEF o, p, u, q
<1>3. /\ o \in Seq(Row) /\ Single(o) /\ Len(o) \in Nat /\ DOMAIN o = 1 .. Len(o) /\ Len(o) <= MaxBuckets
      /\ \A i \in DOMAIN o : o[i] \in Row
  BY <1>1, TableRows DEF Table
<1>4. /\ p \in [Key -> Seq(Ages)]
      /\ \A k \in Key : Fits(o, p, k)
  BY <1>1 DEF Within
<1>5. max \in Nat /\ max >= 1
  BY Limits
<1>6. PICK at \in DOMAIN o : Bucket(o, key) = o[at] /\ o[at].key = key
  BY <1>1 DEF Bucket, Keys
<1>7. \A i \in DOMAIN o : o[i].key = key => i = at
  BY <1>3, <1>6 DEF Single
<1>8. CASE ~(o[at].count < max)
  <2>1. \A i \in DOMAIN o : ~(o[i].key = key /\ o[i].count < max)
    BY <1>7, <1>8
  <2>2. u = o
    <3>1. \A i \in DOMAIN o : u[i] = o[i]
      BY <1>2, <2>1
    <3>2. DOMAIN u = DOMAIN o /\ o = [i \in DOMAIN o |-> o[i]] /\ u = [i \in DOMAIN o |-> u[i]]
      BY <1>2, <1>3
    <3>3. QED
      BY <3>1, <3>2
  <2>3. q = p
    BY <1>2, <1>6, <1>8
  <2>4. QED
    BY <1>1, <2>2, <2>3 DEF u, q
<1>9. CASE o[at].count < max
  <2>1. q = [p EXCEPT ![key] = <<0>> \o p[key]]
    BY <1>2, <1>6, <1>9
  <2>2. q[key] = <<0>> \o p[key] /\ \A k \in Key \ {key} : q[k] = p[k]
    BY <1>4, <2>1
  <2>3. /\ DOMAIN u = DOMAIN o /\ u[at] = Count(o[at], max)
        /\ \A i \in DOMAIN o : i # at => u[i] = o[i]
    BY <1>2, <1>6, <1>7, <1>9
  <2>4. Log(p[key]) /\ Holds(p[key], o[at], max)
    BY <1>4, <1>6 DEF Fits
  <2>5. Log(q[key]) /\ Holds(q[key], u[at], max)
    BY <1>3, <1>5, <1>9, <2>2, <2>3, <2>4, CountHolds
  <2>6. u[at] \in Row /\ u[at].key = key
    BY <1>3, <1>5, <1>6, <1>9, <2>3, CountRow
  <2>7. \A i \in DOMAIN o : u[i] \in Row /\ u[i].key = o[i].key
    BY <1>3, <1>6, <2>3, <2>6
  <2>8. u \in Seq(Row) /\ Len(u) = Len(o)
    <3>1. u = [i \in 1 .. Len(o) |-> u[i]]
      BY <1>2, <1>3
    <3>2. \A i \in 1 .. Len(o) : u[i] \in Row
      BY <1>3, <2>7
    <3>3. QED
      BY <1>3, <3>1, <3>2
  <2>9. Table(u)
    BY <1>3, <2>3, <2>7, <2>8 DEF Table, Single
  <2>10. ASSUME NEW k \in Key
         PROVE  Fits(u, q, k)
    <3>1. Fits(o, p, k)
      BY <1>4
    <3>2. CASE k = key
      <4>1. key \in Keys(u)
        BY <2>3, <2>6 DEF Keys
      <4>2. \A i \in DOMAIN u : u[i].key = key => i = at
        BY <1>7, <2>3, <2>7
      <4>3. QED
        BY <2>5, <3>2, <4>1, <4>2 DEF Fits
    <3>3. CASE k # key
      <4>1. q[k] = p[k]
        BY <2>2, <3>3
      <4>2. \A i \in DOMAIN u : u[i].key = k => i \in DOMAIN o /\ u[i] = o[i]
        BY <1>6, <2>3, <2>6, <3>3
      <4>3. k \notin Keys(u) => k \notin Keys(o)
        <5>1. \A i \in DOMAIN o : u[i].key = o[i].key
          BY <2>7
        <5>2. QED
          BY <2>3, <5>1 DEF Keys
      <4>4. QED
        BY <3>1, <4>1, <4>2, <4>3 DEF Fits
    <3>4. QED
      BY <3>2, <3>3
  <2>11. q \in [Key -> Seq(Ages)]
    <3>1. q[key] \in Seq(Ages)
      BY <2>5 DEF Log
    <3>2. QED
      BY <1>4, <2>1, <2>2, <3>1
  <2>12. Within(u, q)
    BY <2>10, <2>11 DEF Within
  <2>13. QED
    BY <2>9, <2>12 DEF u, q
<1>10. QED
  BY <1>8, <1>9

\* The two attempts of a login.
LEMMA LoginFits ==
  ASSUME Table(table), Within(table, recent), NEW ip \in {Here, There}
  PROVE  Table(CheckLogin(table, ip, Name)) /\ Within(CheckLogin(table, ip, Name), TriesAfter(ip))
<1>1. /\ ip \in Key /\ Name \in Key /\ Limit(ip) = MaxIp /\ Limit(Name) = MaxUser
  BY KeyAssumption DEF Key, Limit
<1> DEFINE t == Consume(table, ip, MaxIp)
           r == Tried(recent, table, ip, MaxIp)
<1>2. Table(t) /\ Within(t, r)
  BY <1>1, Attempt
<1>3. CheckLogin(table, ip, Name) = Consume(t, Name, MaxUser) /\ TriesAfter(ip) = Tried(r, t, Name, MaxUser)
  BY DEF CheckLogin, TriesAfter
<1> HIDE DEF t, r
<1>4. QED
  BY <1>1, <1>2, <1>3, Attempt

\* A successful login clears its two keys.
LEMMA Cleared ==
  ASSUME NEW t, Table(t), NEW tries, Within(t, tries), NEW key \in Key
  PROVE  /\ Table(Without(t, key)) /\ Within(Without(t, key), [tries EXCEPT ![key] = None])
<1> DEFINE u == Without(t, key)
           q == [tries EXCEPT ![key] = None]
<1>1. /\ Table(u) /\ Keys(u) = Keys(t) \cap (Keys(t) \ {key})
      /\ \A i \in DOMAIN u : \E k \in DOMAIN t : u[i] = t[k]
  <2> DEFINE K == Keys(t) \ {key}
  <2>1. u = Kept(t, K)
    BY DEF Without
  <2> HIDE DEF u, K
  <2>2. /\ Table(Kept(t, K)) /\ Keys(Kept(t, K)) = Keys(t) \cap K
        /\ \A i \in DOMAIN Kept(t, K) : \E k \in DOMAIN t : Kept(t, K)[i] = t[k]
    BY KeptTable
  <2>3. QED
    BY <2>1, <2>2 DEF K
<1>2. tries \in [Key -> Seq(Ages)] /\ \A k \in Key : Fits(t, tries, k)
  BY DEF Within
<1>3. None \in Seq(Ages) /\ Len(None) = 0 /\ Log(None)
  BY DEF None, Log
<1>4. q \in [Key -> Seq(Ages)] /\ q[key] = None /\ \A k \in Key \ {key} : q[k] = tries[k]
  BY <1>2, <1>3
<1> HIDE DEF u, q
<1>5. ASSUME NEW k \in Key
      PROVE  Fits(u, q, k)
  <2>1. Fits(t, tries, k) /\ Limit(k) \in Nat /\ Limit(k) >= 1
    BY <1>2, Limits
  <2>2. CASE k = key
    <3>1. \A i \in DOMAIN u : u[i].key # k
      BY <1>1, <2>2 DEF Keys
    <3>2. QED
      BY <1>3, <1>4, <2>1, <2>2, <3>1 DEF Fits
  <2>3. CASE k # key
    <3>1. q[k] = tries[k] /\ (k \notin Keys(u) => k \notin Keys(t))
      BY <1>1, <1>4, <2>3
    <3>2. \A i \in DOMAIN u : u[i].key = k => Holds(tries[k], u[i], Limit(k))
      BY <1>1, <2>1 DEF Fits
    <3>3. QED
      BY <2>1, <3>1, <3>2 DEF Fits
  <2>4. QED
    BY <2>2, <2>3
<1>6. Within(u, q)
  BY <1>4, <1>5 DEF Within
<1>7. QED
  BY <1>1, <1>6 DEF u, q

LEMMA ResetFits ==
  ASSUME Table(table), Within(table, recent), NEW ip \in {Here, There}, Releases(ip)
  PROVE  Table(table') /\ Within(table', recent')
<1>1. ip \in Key /\ Name \in Key
  BY DEF Key
<1> DEFINE u == Without(table, ip)
           q == [recent EXCEPT ![ip] = None]
<1>2. Table(u) /\ Within(u, q)
  BY <1>1, Cleared
<1>3. table' = Without(u, Name) /\ recent' = [q EXCEPT ![Name] = None]
  BY DEF Releases, ResetLogin
<1> HIDE DEF u, q
<1>4. QED
  BY <1>1, <1>2, <1>3, Cleared

\* A tick: windows run, attempts age.
LEMMA ElapseHolds ==
  ASSUME NEW s, Log(s), NEW b \in Row, NEW c \in Row, NEW limit \in Nat, limit >= 1,
         Holds(s, b, limit), c.count = b.count, c.left = IF b.left = 0 THEN 0 ELSE b.left - 1
  PROVE  Holds(Aged(s), c, limit)
<1> DEFINE r == Aged(s)
<1>1. /\ Log(r) /\ Len(r) <= Len(s)
      /\ \A i \in 1 .. Len(r) : r[i] = s[i] + 1
  BY AgedLog
<1>2. /\ Len(s) \in Nat /\ Window \in Nat /\ Window >= 1 /\ \A i \in 1 .. Len(s) : s[i] \in Nat
  BY LogLen
<1> HIDE DEF r
<1>3. Len(r) \in Nat
  BY <1>1, LogLen
<1>4. b.count \in Nat /\ b.left \in Nat /\ c.left \in Nat /\ b.count <= limit
  BY RowFields DEF Holds
<1>5. ASSUME NEW i \in 1 .. Len(r), s[i] + b.left >= Window
      PROVE  r[i] + c.left >= Window
  BY <1>1, <1>2, <1>3, <1>4, <1>5
<1>6. CASE b.count < limit
  <2>1. b.left <= Window
    BY <1>6 DEF Holds, InWindow
  <2>2. PICK m \in 0 .. Len(s) : /\ m <= b.count /\ Len(s) - m < limit
                                 /\ \A i \in m + 1 .. Len(s) : s[i] + b.left >= Window
    BY <1>6 DEF Holds, InWindow
  <2>3. \E k \in 0 .. Len(r) : /\ k <= b.count /\ Len(r) - k < limit
                               /\ \A i \in k + 1 .. Len(r) : i \in m + 1 .. Len(s) /\ i \in 1 .. Len(r)
    <3>1. CASE m <= Len(r)
      <4>1. m \in 0 .. Len(r) /\ Len(r) - m < limit
        BY <1>1, <1>2, <1>3, <2>2, <3>1
      <4>2. \A i \in m + 1 .. Len(r) : i \in m + 1 .. Len(s) /\ i \in 1 .. Len(r)
        BY <1>1, <1>2, <1>3
      <4>3. QED
        BY <2>2, <4>1, <4>2
    <3>2. CASE ~(m <= Len(r))
      <4>1. Len(r) \in 0 .. Len(r) /\ Len(r) <= b.count /\ Len(r) - Len(r) < limit
        BY <1>3, <1>4, <2>2, <3>2
      <4>2. \A i \in Len(r) + 1 .. Len(r) : FALSE
        BY <1>3
      <4>3. QED
        BY <4>1, <4>2
    <3>3. QED
      BY <3>1, <3>2
  <2>4. PICK k \in 0 .. Len(r) : /\ k <= b.count /\ Len(r) - k < limit
                                 /\ \A i \in k + 1 .. Len(r) : i \in m + 1 .. Len(s) /\ i \in 1 .. Len(r)
    BY <2>3
  <2>5. \A i \in k + 1 .. Len(r) : r[i] + c.left >= Window
    BY <1>5, <2>2, <2>4
  <2>6. c.left <= Window
    BY <1>2, <1>4, <2>1
  <2>7. InWindow(r, c, limit)
    BY <1>6, <2>4, <2>5, <2>6 DEF InWindow
  <2>8. QED
    BY <1>4, <2>7 DEF Holds, r
<1>7. CASE ~(b.count < limit)
  <2>1. Len(s) < 2 * limit /\ \A i \in 1 .. Len(s) : s[i] + b.left >= Window
    BY <1>7 DEF Holds, InWindow
  <2>2. Len(r) < 2 * limit
    BY <1>1, <1>2, <1>3, <2>1
  <2>3. \A i \in 1 .. Len(r) : i \in 1 .. Len(s)
    BY <1>1, <1>2, <1>3
  <2>4. \A i \in 1 .. Len(r) : r[i] + c.left >= Window
    BY <1>5, <2>1, <2>3
  <2>5. InWindow(r, c, limit)
    BY <1>7, <2>2, <2>4 DEF InWindow
  <2>6. QED
    BY <1>4, <2>5 DEF Holds, r
<1>8. QED
  BY <1>6, <1>7

LEMMA ElapseFits ==
  ASSUME NEW t, Table(t), NEW tries, Within(t, tries)
  PROVE  Table(Elapse(t)) /\ Within(Elapse(t), [k \in Key |-> Aged(tries[k])])
<1> DEFINE u == Elapse(t)
           q == [k \in Key |-> Aged(tries[k])]
           run(b) == [b EXCEPT !.left = IF b.left = 0 THEN 0 ELSE b.left - 1]
<1>1. /\ t \in Seq(Row) /\ Single(t) /\ Len(t) \in Nat /\ DOMAIN t = 1 .. Len(t) /\ Len(t) <= MaxBuckets
      /\ \A i \in DOMAIN t : t[i] \in Row
  BY TableRows DEF Table
<1>2. tries \in [Key -> Seq(Ages)] /\ \A k \in Key : Fits(t, tries, k) /\ Log(tries[k])
  BY DEF Within, Fits
<1>3. u = [i \in DOMAIN t |-> run(t[i])]
  BY DEF Elapse
<1>4. ASSUME NEW i \in DOMAIN t
      PROVE  /\ u[i] \in Row /\ u[i].key = t[i].key /\ u[i].count = t[i].count
             /\ u[i].left = IF t[i].left = 0 THEN 0 ELSE t[i].left - 1
  <2>1. t[i] \in Row /\ t[i].left \in Nat
    BY <1>1, RowFields
  <2>2. u[i] = run(t[i])
    BY <1>3
  <2>3. (IF t[i].left = 0 THEN 0 ELSE t[i].left - 1) \in Nat
    BY <2>1
  <2>4. QED
    BY <2>1, <2>2, <2>3 DEF Row
<1>5. DOMAIN u = DOMAIN t
  BY <1>3
<1>6. u \in Seq(Row) /\ Len(u) = Len(t)
  <2>1. u = [i \in 1 .. Len(t) |-> u[i]]
    BY <1>1, <1>3
  <2> HIDE DEF u
  <2>2. QED
    BY <1>1, <1>4, <2>1
<1> HIDE DEF u
<1>7. Table(u)
  BY <1>1, <1>4, <1>5, <1>6 DEF Table, Single
<1>8. ASSUME NEW k \in Key
      PROVE  /\ q[k] = Aged(tries[k]) /\ Log(q[k]) /\ Len(q[k]) <= Len(tries[k])
             /\ Len(q[k]) \in Nat /\ Len(tries[k]) \in Nat
  <2>1. q[k] = Aged(tries[k])
    OBVIOUS
  <2>2. Log(Aged(tries[k])) /\ Len(Aged(tries[k])) <= Len(tries[k])
    BY <1>2, AgedLog
  <2>3. Len(Aged(tries[k])) \in Nat /\ Len(tries[k]) \in Nat
    BY <1>2, <2>2, LogLen
  <2>4. QED
    BY <2>1, <2>2, <2>3
<1>9. q \in [Key -> Seq(Ages)]
  <2>1. \A k \in Key : Aged(tries[k]) \in Seq(Ages)
    BY <1>8 DEF Log
  <2>2. QED
    BY <2>1
<1> HIDE DEF q
<1>10. ASSUME NEW k \in Key
       PROVE  Fits(u, q, k)
  <2>1. Fits(t, tries, k) /\ Limit(k) \in Nat /\ Limit(k) >= 1
    BY <1>2, Limits
  <2>2. k \notin Keys(u) => k \notin Keys(t)
    BY <1>4, <1>5 DEF Keys
  <2>3. k \notin Keys(u) => Len(q[k]) < Limit(k)
    BY <1>8, <2>1, <2>2 DEF Fits
  <2>4. ASSUME NEW i \in DOMAIN u, u[i].key = k
        PROVE  Holds(q[k], u[i], Limit(k))
    <3>1. t[i] \in Row /\ u[i] \in Row /\ Holds(tries[k], t[i], Limit(k))
      BY <1>1, <1>4, <1>5, <2>1, <2>4 DEF Fits
    <3>2. QED
      BY <1>2, <1>4, <1>5, <1>8, <2>1, <3>1, ElapseHolds
  <2>5. QED
    BY <1>8, <2>3, <2>4 DEF Fits
<1>11. Within(u, q)
  BY <1>9, <1>10 DEF Within
<1>12. QED
  BY <1>7, <1>11 DEF u, q

-----------------------------------------------------------------------------
(* The limit of a login.                                                   *)

LimitInv == Table(table) /\ Within(table, recent)

LEMMA LimitInit == SignInit => LimitInv
<1> SUFFICES ASSUME SignInit
             PROVE  LimitInv
  OBVIOUS
<1>1. table = <<>> /\ recent = [k \in Key |-> None]
  BY DEF SignInit
<1>2. MaxBuckets \in Nat
  BY LimitAssumption
<1>3. Table(table)
  BY <1>1, <1>2 DEF Table, Single
<1>4. None \in Seq(Ages) /\ Len(None) = 0 /\ Log(None)
  BY DEF None, Log
<1>5. ASSUME NEW k \in Key
      PROVE  Fits(table, recent, k)
  <2>1. DOMAIN table = {} /\ recent[k] = None /\ Limit(k) \in Nat /\ Limit(k) >= 1
    BY <1>1, Limits
  <2>2. QED
    BY <1>4, <2>1 DEF Fits
<1>6. recent \in [Key -> Seq(Ages)]
  BY <1>1, <1>4
<1>7. QED
  BY <1>3, <1>5, <1>6 DEF LimitInv, Within

LEMMA LimitStep == LimitInv /\ (SignStep \/ Reload \/ UNCHANGED <<table, recent>>) => LimitInv'
<1> SUFFICES ASSUME LimitInv, SignStep \/ Reload \/ UNCHANGED <<table, recent>>
             PROVE  LimitInv'
  OBVIOUS
<1>1. Table(table) /\ Within(table, recent)
  BY DEF LimitInv
<1>2. ASSUME NEW ip \in {Here, There}, Checks(ip)
      PROVE  LimitInv'
  <2>1. Table(table') /\ Within(table', recent')
    BY <1>1, <1>2, LoginFits DEF Checks
  <2>2. QED
    BY <2>1 DEF LimitInv
<1>3. ASSUME NEW ip \in {Here, There}, Releases(ip)
      PROVE  LimitInv'
  <2>1. Table(table') /\ Within(table', recent')
    BY <1>1, <1>3, ResetFits
  <2>2. QED
    BY <2>1 DEF LimitInv
<1>4. CASE ReceiveLogin \/ OthersTry
  BY <1>2, <1>4 DEF ReceiveLogin, OthersTry
<1>5. CASE VerifyLogin \/ OthersVerify
  BY <1>3, <1>5 DEF VerifyLogin, OthersVerify
<1>6. CASE Tick
  <2>1. table' = Elapse(table) /\ recent' = [k \in Key |-> Aged(recent[k])]
    BY <1>6 DEF Tick
  <2>2. Table(table') /\ Within(table', recent')
    BY <1>1, <2>1, ElapseFits
  <2>3. QED
    BY <2>2 DEF LimitInv
<1>7. CASE UNCHANGED <<table, recent>>
  BY <1>1, <1>7 DEF LimitInv
<1>8. CASE \/ ServeMe \/ ServeConfig \/ MeAnswers \/ MeFails \/ ConfigAnswers
           \/ SubmitLogin \/ OpenSession \/ LoginAnswers \/ LoginFails
           \/ ContinueAsVisitor \/ RequestLogin
           \/ Logout \/ ServeLogout \/ LogoutAnswers
           \/ SessionEnds \/ Reload
  BY <1>7, <1>8 DEF server, ServeMe, ServeConfig, MeAnswers, MeFails, ConfigAnswers, SubmitLogin,
     OpenSession, LoginAnswers, LoginFails, ContinueAsVisitor, RequestLogin, Logout, ServeLogout,
     LogoutAnswers, SessionEnds, Reload
<1>9. QED
  BY <1>4, <1>5, <1>6, <1>7, <1>8 DEF SignStep

LEMMA LimitNext == LimitInv /\ [Next]_vars => LimitInv'
<1> SUFFICES ASSUME LimitInv, [Next]_vars
             PROVE  LimitInv'
  OBVIOUS
<1>1. \/ SignStep \/ Reload
      \/ UNCHANGED <<table, recent>>
  <2>1. CASE SignInStep \/ ReloadPage
    BY <2>1 DEF SignInStep, ReloadPage
  <2>2. CASE \/ LoadAnswers \/ LoadFails \/ OpenDashboard \/ LeaveDashboard \/ Pick \/ Refresh
             \/ SelectDay \/ RunEffects \/ DayAnswers \/ DayFails \/ LateAnswers \/ DeleteLiaison
    BY <2>2 DEF LoadAnswers, LoadFails, OpenDashboard, LeaveDashboard, Pick, Refresh, SelectDay,
       RunEffects, DayAnswers, DayFails, LateAnswers, DeleteLiaison, signVars, server
  <2>3. CASE UNCHANGED vars
    BY <2>3 DEF vars, signVars, server
  <2>4. QED
    BY <2>1, <2>2, <2>3 DEF Next
<1>2. QED
  BY <1>1, LimitStep

LEMMA FewTries ==
  ASSUME LimitInv, NEW key \in Key
  PROVE  Tries(key) < 2 * Limit(key)
<1>1. /\ Fits(table, recent, key) /\ Log(recent[key])
      /\ \A i \in DOMAIN table : table[i] \in Row
  BY TableRows DEF LimitInv, Within, Fits
<1>2. Len(recent[key]) \in Nat /\ Limit(key) \in Nat /\ Limit(key) >= 1
  BY <1>1, LogLen, Limits
<1>3. CASE key \notin Keys(table)
  BY <1>1, <1>2, <1>3 DEF Fits, Tries
<1>4. CASE key \in Keys(table)
  <2>1. PICK i \in DOMAIN table : table[i].key = key
    BY <1>4 DEF Keys
  <2>2. table[i] \in Row /\ Holds(recent[key], table[i], Limit(key))
    BY <1>1, <2>1 DEF Fits
  <2>3. table[i].count \in Nat
    BY <2>2, RowFields
  <2>4. QED
    BY <1>2, <2>2, <2>3 DEF Holds, InWindow, Tries
<1>5. QED
  BY <1>3, <1>4

\* Whatever the order of callers, successes, ticks and forgotten keys, for any limits,
\* window and size of the table: since its own last success an address, and since the
\* last success of anybody the name, lets through at most twice its limit less one in any
\* span of a window (checkLoginRateLimit, resetLoginRateLimit).
THEOREM LoginsAreLimited == Spec => []LoginLimited
<1>1. Init => LimitInv
  BY LimitInit DEF Init
<1>2. LimitInv => LoginLimited
  <2> SUFFICES ASSUME LimitInv
               PROVE  LoginLimited
    OBVIOUS
  <2>1. {Here, There, Name} = Key /\ Limit(Here) = MaxIp /\ Limit(There) = MaxIp /\ Limit(Name) = MaxUser
    BY KeyAssumption DEF Key, Limit
  <2>2. QED
    BY <2>1, FewTries DEF LoginLimited
<1>3. QED
  BY <1>1, <1>2, LimitNext, PTL DEF Spec

-----------------------------------------------------------------------------
(* The types of the tab.                                                   *)

\* What SignInv leaves open of the browser.
ViewTypes ==
  /\ visitor \in BOOLEAN /\ ack \in BOOLEAN /\ there \in BOOLEAN
  /\ config \in {"loading", "open", "closed"}
  /\ configCall \in {"none", "sent", "open", "closed"}

\* A request on its way counts only while the dashboard is open.
PageInv ==
  /\ default \in liaisons /\ changes \in 0 .. MaxChanges
  /\ page \in {"none", "other", "dashboard"} /\ (page # "none" => Inside)
  /\ loading \in BOOLEAN
  /\ Len(loads) <= MaxRequests
  /\ \A i \in DOMAIN loads : /\ loads[i].again => loads[i].asked \in Liaison
                             /\ ~loads[i].left => page = "dashboard"
  /\ heat.selected \in Day \cup {0}
  /\ HasData => page = "dashboard"

ConsoleInv == SignInv /\ LimitInv /\ DashInv /\ ViewTypes /\ PageInv

LEMMA ViewStep == ViewTypes /\ (SignStep \/ Reload \/ UNCHANGED signVars) => ViewTypes'
<1> SUFFICES ASSUME ViewTypes, SignStep \/ Reload \/ UNCHANGED signVars
             PROVE  ViewTypes'
  OBVIOUS
<1>1. CASE ServeMe \/ ServeConfig \/ MeAnswers \/ MeFails \/ ConfigAnswers
  BY <1>1 DEF ViewTypes, ServeMe, ServeConfig, MeAnswers, MeFails, ConfigAnswers, server, browser
<1>2. CASE SubmitLogin \/ LoginAnswers \/ LoginFails
  BY <1>2 DEF ViewTypes, SubmitLogin, LoginAnswers, LoginFails, server, browser
<1>3. CASE ReceiveLogin \/ VerifyLogin \/ OpenSession
  <2>1. UNCHANGED <<visitor, ack, there, config, configCall>>
    BY <1>3 DEF ReceiveLogin, VerifyLogin, OpenSession, browser
  <2>2. QED
    BY <2>1 DEF ViewTypes
<1>4. CASE OthersTry \/ OthersVerify \/ Tick \/ SessionEnds
  <2>1. UNCHANGED <<visitor, ack, config, configCall>>
    BY <1>4 DEF OthersTry, OthersVerify, Tick, SessionEnds, browser, calls
  <2>2. there' \in BOOLEAN
    <3>1. Allowed(There) \in BOOLEAN
      BY Zenon DEF Allowed, IpAllowed, UserAllowed, Allows
    <3>2. CASE OthersTry
      BY <3>1, <3>2 DEF OthersTry
    <3>3. CASE OthersVerify \/ Tick \/ SessionEnds
      BY <3>3 DEF OthersVerify, Tick, SessionEnds, ViewTypes
    <3>4. QED
      BY <1>4, <3>2, <3>3
  <2>3. QED
    BY <2>1, <2>2 DEF ViewTypes
<1>5. CASE ContinueAsVisitor \/ RequestLogin
  BY <1>5 DEF ViewTypes, ContinueAsVisitor, RequestLogin, server, calls
<1>6. CASE Logout \/ ServeLogout \/ LogoutAnswers
  BY <1>6 DEF ViewTypes, Logout, ServeLogout, LogoutAnswers, server, browser
<1>7. CASE Reload
  BY <1>7 DEF ViewTypes, Reload, server
<1>8. CASE UNCHANGED signVars
  BY <1>8 DEF ViewTypes, signVars, server, browser, calls
<1>9. QED
  BY <1>1, <1>2, <1>3, <1>4, <1>5, <1>6, <1>7, <1>8 DEF SignStep

LEMMA ViewNext == ViewTypes /\ [Next]_vars => ViewTypes'
<1> SUFFICES ASSUME ViewTypes, [Next]_vars
             PROVE  ViewTypes'
  OBVIOUS
<1>1. SignStep \/ Reload \/ UNCHANGED signVars
  <2>1. CASE SignInStep \/ ReloadPage
    BY <2>1 DEF SignInStep, ReloadPage
  <2>2. CASE \/ LoadAnswers \/ LoadFails \/ OpenDashboard \/ LeaveDashboard \/ Pick \/ Refresh
             \/ SelectDay \/ RunEffects \/ DayAnswers \/ DayFails \/ LateAnswers \/ DeleteLiaison
    BY <2>2 DEF LoadAnswers, LoadFails, OpenDashboard, LeaveDashboard, Pick, Refresh, SelectDay,
       RunEffects, DayAnswers, DayFails, LateAnswers, DeleteLiaison
  <2>3. CASE UNCHANGED vars
    BY <2>3 DEF vars
  <2>4. QED
    BY <2>1, <2>2, <2>3 DEF Next
<1>2. QED
  BY <1>1, ViewStep

LEMMA InsideKept ==
  ASSUME UNCHANGED signVars
  PROVE  Inside' <=> Inside
  BY DEF signVars, browser, Inside, Loading, CanEnter

\* The parts of PageInv, on a page whose requests are those of before or fewer.
LEMMA Rows ==
  ASSUME DashTypes
  PROVE  /\ loads \in Seq(LoadRow) /\ Len(loads) \in Nat /\ DOMAIN loads = 1 .. Len(loads)
         /\ \A i \in DOMAIN loads : loads[i] \in LoadRow
  BY LenProperties, ElementOfSeq DEF DashTypes

LEMMA DroppedRows ==
  ASSUME DashTypes, PageInv, NEW i \in DOMAIN loads, loads' = Dropped(i)
  PROVE  /\ Len(loads') <= MaxRequests
         /\ \A k \in DOMAIN loads' : \E j \in DOMAIN loads : loads'[k] = loads[j]
<1>1. /\ loads \in Seq(LoadRow) /\ Len(loads) \in Nat /\ DOMAIN loads = 1 .. Len(loads)
      /\ Len(loads) <= MaxRequests /\ MaxRequests \in Nat
  BY Rows, ConsoleAssumption DEF PageInv
<1>2. loads' = RemoveAt(loads, i)
  BY DEF Dropped
<1>3. /\ loads' \in Seq(LoadRow) /\ Len(loads') = Len(loads) - 1
      /\ \A k \in 1 .. Len(loads) - 1 : loads'[k] = IF k < i THEN loads[k] ELSE loads[k + 1]
  BY <1>1, <1>2, Without1
<1>4. DOMAIN loads' = 1 .. Len(loads) - 1
  BY <1>3, LenProperties
<1>5. ASSUME NEW k \in DOMAIN loads'
      PROVE  \E j \in DOMAIN loads : loads'[k] = loads[j]
  <2>1. k \in 1 .. Len(loads) - 1 /\ k \in DOMAIN loads /\ k + 1 \in DOMAIN loads
    BY <1>1, <1>4
  <2>2. QED
    BY <1>3, <2>1
<1>6. QED
  BY <1>1, <1>3, <1>5

LEMMA AskedRows ==
  ASSUME DashTypes, PageInv, NEW a \in Choice, Ask(a), page' = "dashboard"
  PROVE  /\ Len(loads') <= MaxRequests
         /\ \A i \in DOMAIN loads' : /\ loads'[i].again => loads'[i].asked \in Liaison
                                     /\ ~loads'[i].left => page' = "dashboard"
<1>1. /\ loads \in Seq(LoadRow) /\ Len(loads) \in Nat /\ DOMAIN loads = 1 .. Len(loads)
      /\ MaxRequests \in Nat
  BY Rows, ConsoleAssumption
<1> DEFINE row == Load(a, FALSE, FALSE)
<1>2. row \in LoadRow /\ row.again = FALSE
  BY LoadType
<1>3. Cardinality({heat.fetch, heat.late} \ {NoFetch}) \in Nat
  <2>1. IsFiniteSet({heat.fetch} \cup {heat.late})
    BY FS_Singleton, FS_AddElement
  <2>2. {heat.fetch, heat.late} \ {NoFetch} \subseteq {heat.fetch} \cup {heat.late}
    OBVIOUS
  <2>3. QED
    BY <2>1, <2>2, FS_Subset, FS_CardinalityType
<1>4. Len(loads) + 1 <= MaxRequests
  BY <1>1, <1>3 DEF Ask, Room
<1>5. loads' = Append(loads, row)
  BY DEF Ask
<1> HIDE DEF row
<1>6. /\ Len(loads') = Len(loads) + 1 /\ DOMAIN loads' = 1 .. Len(loads) + 1
      /\ loads'[Len(loads) + 1] = row
      /\ \A i \in 1 .. Len(loads) : loads'[i] = loads[i]
  BY <1>1, <1>2, <1>5
<1>7. ASSUME NEW i \in DOMAIN loads'
      PROVE  loads'[i].again => loads'[i].asked \in Liaison
  <2>1. CASE i = Len(loads) + 1
    BY <1>2, <1>6, <2>1
  <2>2. CASE i # Len(loads) + 1
    <3>1. i \in DOMAIN loads /\ loads'[i] = loads[i]
      BY <1>1, <1>6, <2>2
    <3>2. QED
      BY <3>1 DEF PageInv
  <2>3. QED
    BY <2>1, <2>2
<1>8. QED
  BY <1>4, <1>6, <1>7

LEMMA UnmountedHeat == Unmounted.selected = 0
  BY DEF Unmounted, Heatmap

LEMMA PageAnswers == DashInv /\ PageInv /\ (LoadAnswers \/ LoadFails) => PageInv'
<1> SUFFICES ASSUME DashInv, PageInv, LoadAnswers \/ LoadFails
             PROVE  PageInv'
  OBVIOUS
<1>1. DashTypes /\ UNCHANGED <<signVars, others, page>>
  BY DEF DashInv, LoadAnswers, LoadFails, Show
<1>2. Inside' <=> Inside
  BY <1>1, InsideKept
<1>3. PICK i \in DOMAIN loads :
        \/ /\ loads' = Dropped(i)
           /\ \/ UNCHANGED <<data, heat>>
              \/ ~loads[i].left /\ heat' = heat
              \/ data' = Nothing /\ heat' = Unmounted
        \/ /\ loads' = ReplaceAt(loads, i, Load(loads[i].asked, TRUE, loads[i].left))
           /\ loads[i].asked \in Liaison /\ UNCHANGED <<data, heat>>
  <2>1. CASE LoadAnswers
    <3>1. PICK i \in DOMAIN loads :
            LET asked == IF loads[i].again THEN "none" ELSE loads[i].asked
            IN Show(i, Overview(asked)) /\ UNCHANGED heat
      BY <2>1 DEF LoadAnswers
    <3>2. loads' = Dropped(i) /\ UNCHANGED heat /\ (loads[i].left => UNCHANGED data)
      BY <3>1 DEF Show
    <3>3. QED
      BY <3>2
  <2>2. CASE LoadFails
    <3>1. PICK i \in DOMAIN loads :
            \/ /\ loads[i].asked \in Liaison /\ ~loads[i].again
               /\ loads' = ReplaceAt(loads, i, Load(loads[i].asked, TRUE, loads[i].left))
               /\ UNCHANGED <<data, heat>>
            \/ /\ loads' = Dropped(i)
               /\ IF loads[i].left THEN UNCHANGED <<data, failed, loading, heat>> ELSE GiveUp
      BY <2>2 DEF LoadFails
    <3>2. CASE /\ loads[i].asked \in Liaison /\ ~loads[i].again
               /\ loads' = ReplaceAt(loads, i, Load(loads[i].asked, TRUE, loads[i].left))
               /\ UNCHANGED <<data, heat>>
      BY <3>2
    <3>3. CASE /\ loads' = Dropped(i)
               /\ IF loads[i].left THEN UNCHANGED <<data, failed, loading, heat>> ELSE GiveUp
      BY <3>3 DEF GiveUp
    <3>4. QED
      BY <3>1, <3>2, <3>3
  <2>3. QED
    BY <2>1, <2>2
<1>4. /\ default \in liaisons /\ changes \in 0 .. MaxChanges
      /\ page \in {"none", "other", "dashboard"} /\ (page # "none" => Inside)
      /\ heat.selected \in Day \cup {0}
      /\ HasData => page = "dashboard"
      /\ UNCHANGED <<liaisons, default, changes, page>>
  BY <1>1 DEF PageInv, others
<1>5. \A k \in DOMAIN loads : /\ loads[k].again => loads[k].asked \in Liaison
                              /\ ~loads[k].left => page = "dashboard"
  BY DEF PageInv
<1>6. heat' = heat \/ heat' = Unmounted
  BY <1>3
<1>7. heat'.selected \in Day \cup {0}
  BY <1>4, <1>6, UnmountedHeat
<1>8. data' # Nothing => page = "dashboard"
  BY <1>3, <1>4, <1>5 DEF HasData
<1>9. /\ Len(loads') <= MaxRequests
      /\ \A k \in DOMAIN loads' : /\ loads'[k].again => loads'[k].asked \in Liaison
                                  /\ ~loads'[k].left => page = "dashboard"
  <2>1. CASE loads' = Dropped(i)
    <3>1. /\ Len(loads') <= MaxRequests
          /\ \A k \in DOMAIN loads' : \E j \in DOMAIN loads : loads'[k] = loads[j]
      BY <1>1, <2>1, DroppedRows
    <3>2. QED
      BY <1>5, <3>1
  <2>2. CASE /\ loads' = ReplaceAt(loads, i, Load(loads[i].asked, TRUE, loads[i].left))
             /\ loads[i].asked \in Liaison
    <3> DEFINE row == Load(loads[i].asked, TRUE, loads[i].left)
    <3>1. /\ loads \in Seq(LoadRow) /\ Len(loads) \in Nat /\ DOMAIN loads = 1 .. Len(loads)
          /\ loads[i] \in LoadRow
      BY <1>1, Rows
    <3>2. loads[i].asked \in Choice /\ loads[i].left \in BOOLEAN
      BY <3>1 DEF LoadRow
    <3>3. row \in LoadRow /\ row.asked = loads[i].asked /\ row.left = loads[i].left
      BY <3>2, LoadType
    <3>4. loads' = ReplaceAt(loads, i, row)
      BY <2>2
    <3> HIDE DEF row
    <3>5. /\ loads' \in Seq(LoadRow) /\ Len(loads') = Len(loads)
          /\ \A j \in 1 .. Len(loads) : loads'[j] = IF j = i THEN row ELSE loads[j]
      <4> DEFINE new == ReplaceAt(loads, i, row)
      <4>1. /\ new \in Seq(LoadRow) /\ Len(new) = Len(loads)
            /\ \A j \in 1 .. Len(loads) : new[j] = IF j = i THEN row ELSE loads[j]
        BY <3>1, <3>3, ExceptSeq DEF ReplaceAt
      <4>2. loads' = new
        BY <3>4
      <4> HIDE DEF new
      <4>3. QED
        BY <4>1, <4>2
    <3>6. DOMAIN loads' = DOMAIN loads
      BY <3>1, <3>5, LenProperties
    <3>7. Len(loads') <= MaxRequests
      BY <3>5 DEF PageInv
    <3>8. ASSUME NEW k \in DOMAIN loads'
          PROVE  /\ loads'[k].again => loads'[k].asked \in Liaison
                 /\ ~loads'[k].left => page = "dashboard"
      <4>1. CASE k = i
        <5>1. loads'[k] = row /\ k \in 1 .. Len(loads)
          BY <3>1, <3>5, <4>1
        <5>2. row.asked \in Liaison /\ (~row.left => page = "dashboard")
          BY <1>5, <2>2, <3>3
        <5>3. QED
          BY <5>1, <5>2
      <4>2. CASE k # i
        BY <1>5, <3>1, <3>5, <3>6, <4>2
      <4>3. QED
        BY <4>1, <4>2
    <3>9. QED
      BY <3>7, <3>8
  <2>3. QED
    BY <1>3, <2>1, <2>2
<1>10. loading' \in BOOLEAN
  BY DEF PageInv, LoadAnswers, LoadFails, Show, GiveUp
<1>11. QED
  BY <1>2, <1>4, <1>7, <1>8, <1>9, <1>10 DEF PageInv, HasData

LEMMA PageAsks == DashInv /\ PageInv /\ (OpenDashboard \/ Pick \/ Refresh) => PageInv'
<1> SUFFICES ASSUME DashInv, PageInv, OpenDashboard \/ Pick \/ Refresh
             PROVE  PageInv'
  OBVIOUS
<1>1. DashTypes
  BY DEF DashInv
<1>2. /\ UNCHANGED <<signVars, others, heat>> /\ page' = "dashboard" /\ Inside
      /\ \E a \in Choice : Ask(a)
  <2>1. CASE OpenDashboard
    BY <1>1, <2>1 DEF OpenDashboard, DashTypes
  <2>2. CASE Pick
    <3>1. PICK choice \in data.options \cup {"all"} : Ask(choice)
      BY <2>2 DEF Pick
    <3>2. choice \in Choice
      BY <1>1, <3>1 DEF DashTypes, Board, Choice, Scope
    <3>3. UNCHANGED <<signVars, others, heat, page>> /\ page = "dashboard" /\ Inside
      BY <2>2 DEF Pick, Shown
    <3>4. QED
      BY <3>1, <3>2, <3>3
  <2>3. CASE Refresh
    BY <1>1, <2>3 DEF Refresh, DashTypes
  <2>4. QED
    BY <2>1, <2>2, <2>3
<1>3. Inside'
  BY <1>2, InsideKept
<1>4. /\ Len(loads') <= MaxRequests
      /\ \A i \in DOMAIN loads' : loads'[i].again => loads'[i].asked \in Liaison
  BY <1>1, <1>2, AskedRows
<1>5. /\ default \in liaisons /\ changes \in 0 .. MaxChanges /\ heat.selected \in Day \cup {0}
      /\ UNCHANGED <<liaisons, default, changes, heat>>
  BY <1>2 DEF PageInv, others
<1>6. loading' = TRUE
  BY DEF OpenDashboard, Pick, Refresh
<1>7. QED
  BY <1>2, <1>3, <1>4, <1>5, <1>6 DEF PageInv, HasData

LEMMA PageUnmounts ==
  ASSUME DashInv, PageInv, NEW next \in {"none", "other"}, Unmount(next), UNCHANGED others,
         next # "none" => Inside'
  PROVE  PageInv'
<1>1. /\ page' = next /\ data' = Nothing /\ loads' = Left /\ heat' = Unmounted
      /\ UNCHANGED <<liaisons, default, changes>> /\ loading' = FALSE
  BY DEF Unmount, others
<1>2. /\ loads \in Seq(LoadRow) /\ Len(loads) \in Nat /\ DOMAIN loads = 1 .. Len(loads)
      /\ \A i \in DOMAIN loads : loads[i] \in LoadRow
  BY Rows DEF DashInv
<1>3. ASSUME NEW i \in DOMAIN loads
      PROVE  /\ Left[i].asked = loads[i].asked /\ Left[i].left
             /\ Left[i].again => loads[i].again
  <2>1. loads[i].asked \in Choice /\ loads[i].again \in BOOLEAN
    BY <1>2 DEF LoadRow
  <2>2. Left[i] = Load(loads[i].asked, loads[i].again, TRUE)
    BY DEF Left
  <2>3. QED
    BY <2>1, <2>2 DEF Load
<1>4. DOMAIN Left = DOMAIN loads /\ Len(Left) = Len(loads)
  BY <1>2 DEF Left
<1>5. \A i \in DOMAIN loads : loads[i].again => loads[i].asked \in Liaison
  BY DEF PageInv
<1>6. \A i \in DOMAIN loads' : /\ loads'[i].again => loads'[i].asked \in Liaison
                               /\ loads'[i].left
  BY <1>1, <1>3, <1>4, <1>5
<1>7. Len(loads') <= MaxRequests
  BY <1>1, <1>4 DEF PageInv
<1>8. /\ default \in liaisons /\ changes \in 0 .. MaxChanges
  BY DEF PageInv
<1>9. heat'.selected = 0
  BY <1>1, UnmountedHeat
<1>10. QED
  BY <1>1, <1>6, <1>7, <1>8, <1>9 DEF PageInv, HasData

LEMMA PageLeft == DashInv /\ PageInv /\ (LeaveDashboard \/ SignInStep \/ ReloadPage) => PageInv'
<1> SUFFICES ASSUME DashInv, PageInv, LeaveDashboard \/ SignInStep \/ ReloadPage
             PROVE  PageInv'
  OBVIOUS
<1>1. CASE LeaveDashboard
  <2>1. Unmount("other") /\ UNCHANGED others /\ Inside'
    BY <1>1, InsideKept DEF LeaveDashboard
  <2>2. QED
    BY <2>1, PageUnmounts
<1>2. CASE SignInStep
  <2>1. /\ UNCHANGED others
        /\ \/ Unmount("none")
           \/ UNCHANGED <<dash, heat>> /\ (page = "none" \/ Inside')
    BY <1>2 DEF SignInStep
  <2>2. CASE Unmount("none")
    BY <2>1, <2>2, PageUnmounts
  <2>3. CASE UNCHANGED <<dash, heat>> /\ (page = "none" \/ Inside')
    <3>1. UNCHANGED <<liaisons, default, changes, page, loads, heat, data, loading>>
      BY <2>1, <2>3 DEF dash, others
    <3>2. QED
      BY <2>3, <3>1 DEF PageInv, HasData
  <2>4. QED
    BY <2>1, <2>2, <2>3
<1>3. CASE ReloadPage
  <2>1. /\ page' = "none" /\ loads' = <<>> /\ data' = Nothing /\ heat' = Unmounted
        /\ UNCHANGED <<liaisons, default, changes>> /\ loading' = FALSE
    BY <1>3 DEF ReloadPage, others
  <2>2. Len(loads') = 0 /\ DOMAIN loads' = {} /\ 0 <= MaxRequests
    BY <2>1, ConsoleAssumption
  <2>3. heat'.selected = 0
    BY <2>1, UnmountedHeat
  <2>4. default \in liaisons /\ changes \in 0 .. MaxChanges
    BY DEF PageInv
  <2>5. QED
    BY <2>1, <2>2, <2>3, <2>4 DEF PageInv, HasData
<1>4. QED
  BY <1>1, <1>2, <1>3

LEMMA PageHeat ==
  PageInv /\ (SelectDay \/ RunEffects \/ DayAnswers \/ DayFails \/ LateAnswers) => PageInv'
<1> SUFFICES ASSUME PageInv, SelectDay \/ RunEffects \/ DayAnswers \/ DayFails \/ LateAnswers
             PROVE  PageInv'
  OBVIOUS
<1>1. UNCHANGED <<signVars, others, dash>>
  BY DEF SelectDay, RunEffects, DayAnswers, DayFails, LateAnswers
<1>2. heat.selected \in Day \cup {0}
  BY DEF PageInv
<1>3. heat'.selected \in Day \cup {0}
  <2>1. CASE SelectDay
    <3>1. PICK day \in Day :
            heat' = Heatmap(IF heat.selected = day THEN 0 ELSE day, heat.deps, heat.detail,
                            heat.problem, heat.spinner, heat.fetch, heat.late)
      BY <2>1 DEF SelectDay
    <3>2. heat'.selected = IF heat.selected = day THEN 0 ELSE day
      BY <3>1 DEF Heatmap
    <3>3. QED
      BY <3>2
  <2>2. CASE RunEffects
    <3>1. heat'.selected = 0 \/ heat'.selected = heat.selected
      BY <2>2 DEF RunEffects, Heatmap
    <3>2. QED
      BY <1>2, <3>1
  <2>3. CASE DayAnswers \/ DayFails \/ LateAnswers
    <3>1. heat'.selected = heat.selected
      BY <2>3 DEF DayAnswers, DayFails, LateAnswers, Heatmap
    <3>2. QED
      BY <1>2, <3>1
  <2>4. QED
    BY <2>1, <2>2, <2>3
<1>4. UNCHANGED <<liaisons, default, changes, page, loads, data, loading>> /\ (Inside' <=> Inside)
  BY <1>1, InsideKept DEF others, dash
<1>5. QED
  BY <1>3, <1>4 DEF PageInv, HasData

LEMMA PageOthers == PageInv /\ (DeleteLiaison \/ UNCHANGED vars) => PageInv'
<1> SUFFICES ASSUME PageInv, DeleteLiaison \/ UNCHANGED vars
             PROVE  PageInv'
  OBVIOUS
<1>1. UNCHANGED <<signVars, dash, heat>>
  BY DEF DeleteLiaison, vars
<1>2. UNCHANGED <<page, loads, data, heat, loading>> /\ (Inside' <=> Inside)
  BY <1>1, InsideKept DEF dash
<1>3. default' \in liaisons' /\ changes' \in 0 .. MaxChanges
  <2>1. CASE DeleteLiaison
    BY <2>1, ConsoleAssumption DEF DeleteLiaison, PageInv
  <2>2. CASE UNCHANGED vars
    BY <2>2 DEF vars, others, PageInv
  <2>3. QED
    BY <2>1, <2>2
<1>4. QED
  <2>1. /\ page' \in {"none", "other", "dashboard"} /\ (page' # "none" => Inside')
        /\ loading' \in BOOLEAN /\ Len(loads') <= MaxRequests
        /\ heat'.selected \in Day \cup {0}
        /\ data' # Nothing => page' = "dashboard"
    BY <1>2 DEF PageInv, HasData
  <2>2. \A i \in DOMAIN loads' : /\ loads'[i].again => loads'[i].asked \in Liaison
                                 /\ ~loads'[i].left => page' = "dashboard"
    BY <1>2 DEF PageInv
  <2>3. QED
    BY <1>3, <2>1, <2>2 DEF PageInv, HasData

LEMMA PageInit == Init => PageInv
<1> SUFFICES ASSUME Init
             PROVE  PageInv
  OBVIOUS
<1>1. /\ default \in liaisons /\ changes = 0 /\ page = "none" /\ loads = <<>> /\ data = Nothing
      /\ heat.selected = 0 /\ loading = FALSE
  BY ConsoleAssumption, UnmountedHeat DEF Init
<1>2. Len(loads) = 0 /\ DOMAIN loads = {} /\ MaxRequests \in Nat /\ MaxChanges \in Nat
  BY <1>1, ConsoleAssumption
<1>3. changes \in 0 .. MaxChanges /\ Len(loads) <= MaxRequests
  BY <1>1, <1>2
<1>4. \A i \in DOMAIN loads : /\ loads[i].again => loads[i].asked \in Liaison
                              /\ ~loads[i].left => page = "dashboard"
  BY <1>2
<1>5. QED
  BY <1>1, <1>3, <1>4 DEF PageInv, HasData

LEMMA ConsoleInit == Init => ConsoleInv
<1>1. Init => ViewTypes
  BY DEF Init, SignInit, ViewTypes
<1>2. QED
  BY <1>1, SignInvInit, LimitInit, DashInvInit, PageInit DEF Init, ConsoleInv

LEMMA ConsoleNext == ConsoleInv /\ [Next]_vars => ConsoleInv'
<1> SUFFICES ASSUME ConsoleInv, [Next]_vars
             PROVE  ConsoleInv'
  OBVIOUS
<1>1. SignInv' /\ LimitInv' /\ DashInv' /\ ViewTypes'
  BY SignInvNext, LimitNext, DashInvNext, ViewNext DEF ConsoleInv
<1>2. PageInv'
  BY PageAnswers, PageAsks, PageLeft, PageHeat, PageOthers DEF ConsoleInv, Next
<1>3. QED
  BY <1>1, <1>2 DEF ConsoleInv

\* A table holds one bucket per key.
LEMMA TableKeys ==
  ASSUME NEW t, Table(t)
  PROVE  Cardinality(Keys(t)) = Len(t) /\ Keys(t) \subseteq Key
<1>1. /\ Len(t) \in Nat /\ DOMAIN t = 1 .. Len(t) /\ Single(t)
      /\ \A i \in DOMAIN t : t[i] \in Row
  BY TableRows DEF Table
<1> DEFINE f == [i \in 1 .. Len(t) |-> t[i].key]
<1>2. f \in Bijection(1 .. Len(t), Keys(t))
  <2>1. f \in [1 .. Len(t) -> Keys(t)]
    BY <1>1 DEF Keys
  <2>2. \A i, j \in 1 .. Len(t) : f[i] = f[j] => i = j
    BY <1>1 DEF Single
  <2>3. \A k \in Keys(t) : \E i \in 1 .. Len(t) : f[i] = k
    BY <1>1 DEF Keys
  <2> HIDE DEF f
  <2>4. QED
    BY <2>1, <2>2, <2>3 DEF Bijection, Injection, Surjection, IsInjective
<1>3. ExistsBijection(1 .. Len(t), Keys(t))
  BY <1>2, Zenon DEF ExistsBijection
<1>4. Keys(t) \subseteq Key
  BY <1>1, RowFields DEF Keys
<1>5. QED
  BY <1>1, <1>3, <1>4, FS_CountingElements

\* The browser, the windows and the dashboard keep their types, for any liaisons,
\* histories and limits: one bucket per key, no more than the table holds, no more
\* requests than the bound, a page only where the gate let in (AuthContext,
\* DashboardPage, rate-limit.ts).
THEOREM ConsoleTypeCorrect == Spec => []TypeOK
<1>1. Init => ConsoleInv
  BY ConsoleInit
<1>2. ConsoleInv => TypeOK
  <2> SUFFICES ASSUME ConsoleInv
               PROVE  TypeOK
    OBVIOUS
  <2>1. Table(table) /\ \A i \in DOMAIN table : table[i] \in Row
    BY TableRows DEF ConsoleInv, LimitInv
  <2>2. /\ Cardinality(Keys(table)) = Len(table) /\ Keys(table) \subseteq Key
        /\ Len(table) <= MaxBuckets
        /\ \A i \in DOMAIN table : table[i].strikes \in 0 .. MaxStrikes
    BY <2>1, TableKeys, RowFields DEF Table
  <2>3. SignTypeOK
    BY <2>2 DEF ConsoleInv, SignInv, SignTypes, ViewTypes, SignTypeOK
  <2>4. \A i \in DOMAIN loads : loads[i].asked \in Scope \cup {"none"}
    <3>1. \A i \in DOMAIN loads : loads[i] \in LoadRow
      BY Rows DEF ConsoleInv, DashInv
    <3>2. QED
      BY <3>1 DEF LoadRow, Choice
  <2>5. QED
    BY <2>3, <2>4 DEF ConsoleInv, PageInv, DashInv, DashTypes, Choice, Board, TypeOK
<1>3. QED
  BY <1>1, <1>2, ConsoleNext, PTL DEF Spec

-----------------------------------------------------------------------------
(* Sums.                                                                   *)

Some(s) == CHOOSE x \in s : TRUE
Small(S, n) == {s \in SUBSET S : Cardinality(s) <= n}
SumUpTo(S, v, sum, n) ==
  sum = [s \in Small(S, n) |-> IF s = {} THEN 0 ELSE v[Some(s)] + sum[s \ {Some(s)}]]

LEMMA OneLess ==
  ASSUME NEW S, IsFiniteSet(S), NEW s \in SUBSET S, s # {}
  PROVE  /\ Some(s) \in s /\ Some(s) \in S /\ s \ {Some(s)} \in SUBSET S
         /\ Cardinality(s) \in Nat /\ Cardinality(s) >= 1
         /\ Cardinality(s \ {Some(s)}) = Cardinality(s) - 1
<1>1. Some(s) \in s
  BY DEF Some
<1>2. IsFiniteSet(s)
  BY FS_Subset
<1>3. /\ Cardinality(s) \in Nat
      /\ Cardinality(s \ {Some(s)}) = IF Some(s) \in s THEN Cardinality(s) - 1 ELSE Cardinality(s)
  BY <1>2, FS_CardinalityType, FS_RemoveElement
<1>4. Cardinality(s) # 0
  BY <1>2, FS_EmptySet
<1>5. QED
  BY <1>1, <1>3, <1>4

LEMMA SumExists ==
  ASSUME NEW S, IsFiniteSet(S), NEW v, NEW n \in Nat
  PROVE  \E sum : SumUpTo(S, v, sum, n)
<1> DEFINE N == {m \in Nat : \E sum : SumUpTo(S, v, sum, m)}
<1>1. 0 \in N
  <2> DEFINE z == [s \in Small(S, 0) |-> 0]
  <2>1. ASSUME NEW s \in Small(S, 0)
        PROVE  s = {}
    <3>1. s \in SUBSET S /\ Cardinality(s) <= 0
      BY DEF Small
    <3>2. s # {} => Cardinality(s) \in Nat /\ Cardinality(s) >= 1
      BY <3>1, OneLess
    <3>3. QED
      BY <3>1, <3>2
  <2>2. SumUpTo(S, v, z, 0)
    <3>1. \A s \in Small(S, 0) : z[s] = IF s = {} THEN 0 ELSE v[Some(s)] + z[s \ {Some(s)}]
      BY <2>1
    <3>2. z = [s \in Small(S, 0) |-> z[s]]
      OBVIOUS
    <3> HIDE DEF z
    <3>3. QED
      BY <3>1, <3>2, Zenon DEF SumUpTo
  <2> HIDE DEF z
  <2>3. QED
    BY <2>2
<1>2. ASSUME NEW m \in Nat, m \in N
      PROVE  m + 1 \in N
  <2>1. PICK sum : SumUpTo(S, v, sum, m)
    BY <1>2
  <2> DEFINE more == [s \in Small(S, m + 1) |-> IF s = {} THEN 0 ELSE v[Some(s)] + sum[s \ {Some(s)}]]
  <2>2. ASSUME NEW s \in Small(S, m + 1), s # {}
        PROVE  s \ {Some(s)} \in Small(S, m) /\ s \ {Some(s)} \in Small(S, m + 1)
    <3>1. s \in SUBSET S /\ Cardinality(s) <= m + 1
      BY DEF Small
    <3>2. s \ {Some(s)} \in SUBSET S /\ Cardinality(s) \in Nat /\ Cardinality(s \ {Some(s)}) = Cardinality(s) - 1
      BY <2>2, <3>1, OneLess
    <3>3. Cardinality(s \ {Some(s)}) <= m /\ Cardinality(s \ {Some(s)}) <= m + 1
      BY <3>1, <3>2
    <3>4. QED
      BY <3>2, <3>3 DEF Small
  <2>3. ASSUME NEW s \in Small(S, m)
        PROVE  more[s] = sum[s]
    <3>1. sum[s] = IF s = {} THEN 0 ELSE v[Some(s)] + sum[s \ {Some(s)}]
      BY <2>1 DEF SumUpTo
    <3>2. s \in Small(S, m + 1)
      <4>1. s \in SUBSET S /\ Cardinality(s) <= m /\ IsFiniteSet(s)
        BY FS_Subset DEF Small
      <4>2. Cardinality(s) \in Nat
        BY <4>1, FS_CardinalityType
      <4>3. QED
        BY <4>1, <4>2 DEF Small
    <3>3. QED
      BY <3>1, <3>2
  <2>4. \A s \in Small(S, m + 1) :
          more[s] = IF s = {} THEN 0 ELSE v[Some(s)] + more[s \ {Some(s)}]
    <3> SUFFICES ASSUME NEW s \in Small(S, m + 1)
                 PROVE  more[s] = IF s = {} THEN 0 ELSE v[Some(s)] + more[s \ {Some(s)}]
      OBVIOUS
    <3>1. more[s] = IF s = {} THEN 0 ELSE v[Some(s)] + sum[s \ {Some(s)}]
      OBVIOUS
    <3>2. s # {} => more[s \ {Some(s)}] = sum[s \ {Some(s)}]
      BY <2>2, <2>3
    <3> HIDE DEF more
    <3>3. QED
      BY <3>1, <3>2
  <2>5. more = [s \in Small(S, m + 1) |-> more[s]]
    OBVIOUS
  <2> HIDE DEF more
  <2>6. SumUpTo(S, v, more, m + 1)
    BY <2>4, <2>5, Zenon DEF SumUpTo
  <2>7. QED
    BY <2>6
<1>3. QED
  <2> HIDE DEF N
  <2>1. \A m \in Nat : m \in N
    BY <1>1, <1>2, Counting
  <2>2. QED
    BY <2>1 DEF N

\* A sum over a set, as the folds of the community modules write it.
SumOver(S, v, sum) ==
  sum = [s \in SUBSET S |-> IF s = {} THEN 0 ELSE v[Some(s)] + sum[s \ {Some(s)}]]

LEMMA SumOverExists ==
  ASSUME NEW S, IsFiniteSet(S), NEW v
  PROVE  \E sum : SumOver(S, v, sum)
<1>1. Cardinality(S) \in Nat
  BY FS_CardinalityType
<1>2. Small(S, Cardinality(S)) = SUBSET S
  <2>1. \A s \in SUBSET S : Cardinality(s) <= Cardinality(S)
    BY FS_Subset
  <2>2. QED
    BY <2>1 DEF Small
<1>3. PICK sum : SumUpTo(S, v, sum, Cardinality(S))
  BY <1>1, SumExists
<1>4. SumOver(S, v, sum)
  BY <1>2, <1>3 DEF SumUpTo, SumOver
<1>5. QED
  BY <1>4

\* It is a number, and more than none when one of the set is.
LEMMA SumPositive ==
  ASSUME NEW S, IsFiniteSet(S), NEW v, \A e \in S : v[e] \in Nat,
         NEW sum, SumOver(S, v, sum)
  PROVE  sum[S] \in Nat /\ (sum[S] > 0 <=> \E e \in S : v[e] > 0)
<1> DEFINE Good(s) == sum[s] \in Nat /\ (sum[s] > 0 <=> \E e \in s : v[e] > 0)
           N == {m \in Nat : \A s \in SUBSET S : Cardinality(s) = m => Good(s)}
<1>1. \A s \in SUBSET S : sum[s] = IF s = {} THEN 0 ELSE v[Some(s)] + sum[s \ {Some(s)}]
  BY DEF SumOver
<1>2. 0 \in N
  <2>1. ASSUME NEW s \in SUBSET S, Cardinality(s) = 0
        PROVE  Good(s)
    <3>1. s = {}
      <4>1. s # {} => Cardinality(s) >= 1
        BY OneLess
      <4>2. QED
        BY <2>1, <4>1
    <3>2. sum[s] = 0
      BY <1>1, <3>1
    <3>3. QED
      BY <3>1, <3>2
  <2>2. QED
    BY <2>1
<1>3. ASSUME NEW m \in Nat, m \in N
      PROVE  m + 1 \in N
  <2>1. ASSUME NEW s \in SUBSET S, Cardinality(s) = m + 1
        PROVE  Good(s)
    <3> DEFINE x == Some(s)
               r == s \ {x}
    <3>1. s # {}
      BY <2>1, FS_EmptySet
    <3>2. x \in s /\ x \in S /\ r \in SUBSET S /\ Cardinality(r) = m
      BY <2>1, <3>1, OneLess
    <3>3. sum[r] \in Nat /\ (sum[r] > 0 <=> \E e \in r : v[e] > 0)
      BY <1>3, <3>2
    <3>4. sum[s] = v[x] + sum[r] /\ v[x] \in Nat
      BY <1>1, <3>1, <3>2
    <3>5. \A e \in s : e = x \/ e \in r
      BY <3>2
    <3>6. \A e \in r : e \in s
      OBVIOUS
    <3> HIDE DEF x, r
    <3>7. sum[s] \in Nat /\ (sum[s] > 0 <=> v[x] > 0 \/ sum[r] > 0)
      BY <3>3, <3>4
    <3>8. (\E e \in s : v[e] > 0) <=> v[x] > 0 \/ \E e \in r : v[e] > 0
      BY <3>2, <3>5, <3>6
    <3>9. QED
      BY <3>3, <3>7, <3>8
  <2> HIDE DEF Good
  <2>2. QED
    BY <2>1
<1>4. Good(S)
  <2> HIDE DEF N
  <2>1. \A m \in Nat : m \in N
    BY <1>2, <1>3, Counting
  <2>2. Cardinality(S) \in Nat /\ S \in SUBSET S
    BY FS_CardinalityType
  <2> HIDE DEF Good
  <2>3. QED
    BY <2>1, <2>2 DEF N
<1>5. QED
  BY <1>4

\* The weights of a set of events.
LEMMA WeightsPositive ==
  ASSUME NEW S, IsFiniteSet(S), \A e \in S : Weight(e) \in Nat
  PROVE  /\ MapThenSumSet(Weight, S) \in Nat
         /\ MapThenSumSet(Weight, S) > 0 <=> \E e \in S : Weight(e) > 0
<1> DEFINE v == [e \in S |-> Weight(e)]
           Is(f) == f = [s \in SUBSET S |->
                          IF s = {} THEN 0 ELSE Weight(Some(s)) + f[s \ {Some(s)}]]
           it == CHOOSE f : Is(f)
<1>1. MapThenSumSet(Weight, S) = it[S]
  BY DEF MapThenSumSet, MapThenFoldSet, Some
<1>2. ASSUME NEW f
      PROVE  Is(f) <=> SumOver(S, v, f)
  <2>1. [s \in SUBSET S |-> IF s = {} THEN 0 ELSE Weight(Some(s)) + f[s \ {Some(s)}]]
        = [s \in SUBSET S |-> IF s = {} THEN 0 ELSE v[Some(s)] + f[s \ {Some(s)}]]
    <3>1. \A s \in SUBSET S : s # {} => Some(s) \in S
      BY DEF Some
    <3>2. \A s \in SUBSET S : s # {} => v[Some(s)] = Weight(Some(s))
      BY <3>1
    <3> HIDE DEF v
    <3>3. QED
      BY <3>2
  <2>2. QED
    BY <2>1 DEF SumOver
<1> HIDE DEF Is
<1>3. \E f : Is(f)
  <2> HIDE DEF v
  <2>1. QED
    BY <1>2, SumOverExists
<1>4. Is(it)
  BY <1>3
<1>5. SumOver(S, v, it)
  BY <1>2, <1>4
<1>6. \A e \in S : v[e] = Weight(e)
  OBVIOUS
<1> HIDE DEF v, it
<1>7. it[S] \in Nat /\ (it[S] > 0 <=> \E e \in S : v[e] > 0)
  BY <1>5, <1>6, SumPositive
<1>8. QED
  BY <1>1, <1>6, <1>7

LEMMA OnTimeNumber ==
  ASSUME NEW day, NEW of, \A l \in Liaison : OnTime(day, l) \in Nat
  PROVE  OnTimeTrains(day, of) \in Nat
<1> DEFINE v == [l \in Liaison |-> IF InScope(l, of) THEN OnTime(day, l) ELSE 0]
           Is(f) == f = [s \in SUBSET Liaison |->
                          IF s = {} THEN 0
                          ELSE (IF InScope(Some(s), of) THEN OnTime(day, Some(s)) ELSE 0)
                               + f[s \ {Some(s)}]]
           it == CHOOSE f : Is(f)
<1>1. OnTimeTrains(day, of) = it[Liaison]
  BY DEF OnTimeTrains, MapThenSumSet, MapThenFoldSet, Some
<1>2. ASSUME NEW f
      PROVE  Is(f) <=> SumOver(Liaison, v, f)
  <2>1. [s \in SUBSET Liaison |->
           IF s = {} THEN 0
           ELSE (IF InScope(Some(s), of) THEN OnTime(day, Some(s)) ELSE 0) + f[s \ {Some(s)}]]
        = [s \in SUBSET Liaison |-> IF s = {} THEN 0 ELSE v[Some(s)] + f[s \ {Some(s)}]]
    <3>1. \A s \in SUBSET Liaison : s # {} => Some(s) \in Liaison
      BY DEF Some
    <3>2. \A s \in SUBSET Liaison : s # {} =>
            v[Some(s)] = IF InScope(Some(s), of) THEN OnTime(day, Some(s)) ELSE 0
      BY <3>1
    <3> HIDE DEF v
    <3>3. QED
      BY <3>2
  <2>2. QED
    BY <2>1 DEF SumOver
<1> HIDE DEF Is
<1>3. \E f : Is(f)
  <2> HIDE DEF v
  <2>1. QED
    BY <1>2, SumOverExists, HistoryAssumption
<1>4. Is(it)
  BY <1>3
<1>5. SumOver(Liaison, v, it)
  BY <1>2, <1>4
<1>6. \A l \in Liaison : v[l] \in Nat
  OBVIOUS
<1> HIDE DEF v, it
<1>7. it[Liaison] \in Nat
  BY <1>5, <1>6, SumPositive, HistoryAssumption
<1>8. QED
  BY <1>1, <1>7

\* A score is diluted, never to nothing.
LEMMA DilutedPositive ==
  ASSUME NEW score \in Nat, NEW n \in Nat
  PROVE  Diluted(score, n) \in Nat /\ (Diluted(score, n) > 0 <=> score > 0)
<1> DEFINE q == (4 * score + 2 + n) \div (2 * (2 + n))
<1>1. q \in Nat
  <2>1. 4 * score + 2 + n \in Nat /\ 2 * (2 + n) \in Nat /\ 2 * (2 + n) > 0
    OBVIOUS
  <2>2. \A x \in Nat, y \in Nat : y > 0 => x \div y \in Nat
    OBVIOUS
  <2>3. QED
    BY <2>1, <2>2
<1>2. Diluted(score, n) = IF score = 0 THEN 0 ELSE IF q = 0 THEN 1 ELSE q
  BY DEF Diluted
<1> HIDE DEF q
<1>3. QED
  BY <1>1, <1>2

LEMMA LevelPositive ==
  ASSUME NEW count \in Nat
  PROVE  Level(count) > 0 <=> count > 0
  BY DEF Level

-----------------------------------------------------------------------------
(* Days in Paris.                                                          *)

\* A day begins at its midnight and ends at the next, also when the clocks change.
LEMMA DayBounds ==
  ASSUME NEW t \in Int, NEW day \in Int
  PROVE  /\ Midnight(day) \in Int
         /\ DayOf(t) = day <=> Midnight(day) <= t /\ t < Midnight(day + 1)
         /\ DayOf(t) \in Int
         /\ Midnight(day) <= t <=> day <= DayOf(t)
<1>1. PICK a \in Int : SummerFrom = 24 * a + 1
  BY ClockAssumption
<1>2. PICK b \in Int : SummerTo = 24 * b + 1
  BY ClockAssumption
<1> DEFINE off(d) == IF a < d /\ d <= b THEN 2 ELSE 1
<1>3. ASSUME NEW d \in Int
      PROVE  /\ Offset(24 * d) = off(d) /\ Offset(24 * d - 1) = off(d)
             /\ Offset(24 * d - 2) = off(d)
  BY <1>1, <1>2, <1>3 DEF Offset
<1>4. ASSUME NEW d \in Int
      PROVE  Midnight(d) = 24 * d - off(d)
  <2> DEFINE guess[i \in 0 .. 4] ==
               IF i = 0 THEN 24 * d ELSE guess[i - 1] + 24 * d - Local(guess[i - 1])
  <2>1. Midnight(d) = guess[4]
    BY DEF Midnight
  <2>2. guess = [i \in 0 .. 4 |-> IF i = 0 THEN 24 * d ELSE guess[i - 1] + 24 * d - Local(guess[i - 1])]
    <3> DEFINE o == off(d)
               g == [i \in 0 .. 4 |-> IF i = 0 THEN 24 * d ELSE 24 * d - o]
    <3>1. o \in {1, 2} /\ Offset(24 * d) = o /\ Offset(24 * d - o) = o
      BY <1>3
    <3> HIDE DEF o
    <3>2. /\ 24 * d + 24 * d - Local(24 * d) = 24 * d - o
          /\ (24 * d - o) + 24 * d - Local(24 * d - o) = 24 * d - o
      BY <3>1 DEF Local
    <3>3. \A i \in 0 .. 4 : g[i] = IF i = 0 THEN 24 * d ELSE g[i - 1] + 24 * d - Local(g[i - 1])
      <4> SUFFICES ASSUME NEW i \in 0 .. 4
                   PROVE  g[i] = IF i = 0 THEN 24 * d ELSE g[i - 1] + 24 * d - Local(g[i - 1])
        OBVIOUS
      <4>1. CASE i = 0
        BY <4>1
      <4>2. CASE i = 1
        <5>1. g[i - 1] = 24 * d /\ g[i] = 24 * d - o
          BY <4>2
        <5> HIDE DEF g
        <5>2. QED
          BY <3>2, <4>2, <5>1
      <4>3. CASE i > 1
        <5>1. g[i - 1] = 24 * d - o /\ g[i] = 24 * d - o
          BY <4>3
        <5> HIDE DEF g
        <5>2. QED
          BY <3>2, <4>3, <5>1
      <4>4. QED
        BY <4>1, <4>2, <4>3
    <3>4. g = [i \in 0 .. 4 |-> g[i]]
      OBVIOUS
    <3> HIDE DEF g
    <3>5. g = [i \in 0 .. 4 |-> IF i = 0 THEN 24 * d ELSE g[i - 1] + 24 * d - Local(g[i - 1])]
      BY <3>3, <3>4
    <3>6. QED
      BY <3>5, Zenon
  <2> HIDE DEF guess
  <2> DEFINE o == off(d)
  <2>3. o \in {1, 2} /\ Offset(24 * d) = o /\ Offset(24 * d - o) = o
    BY <1>3
  <2> HIDE DEF o
  <2>4. guess[0] = 24 * d
    BY <2>2
  <2>5. guess[1] = 24 * d - o
    BY <2>2, <2>3, <2>4 DEF Local
  <2>6. guess[2] = 24 * d - o
    BY <2>2, <2>3, <2>5 DEF Local
  <2>7. guess[3] = 24 * d - o
    BY <2>2, <2>3, <2>6 DEF Local
  <2>8. guess[4] = 24 * d - o
    BY <2>2, <2>3, <2>7 DEF Local
  <2>9. QED
    BY <2>1, <2>8 DEF o
<1>5. Offset(t) \in {1, 2}
  BY DEF Offset
<1>6. ASSUME NEW d \in Int
      PROVE  Midnight(d) <= t <=> 24 * d <= Local(t)
  <2>1. off(d) \in {1, 2}
    OBVIOUS
  <2>2. t = 24 * d - 1 \/ t = 24 * d - 2 => Offset(t) = off(d)
    BY <1>3
  <2> HIDE DEF off
  <2>3. QED
    BY <1>4, <1>5, <2>1, <2>2 DEF Local
<1>7. Local(t) \in Int
  BY <1>5 DEF Local
<1>8. DayOf(t) \in Int /\ \A d \in Int : DayOf(t) = d <=> 24 * d <= Local(t) /\ Local(t) < 24 * d + 24
  BY <1>7 DEF DayOf
<1>9. Midnight(day) \in Int /\ Midnight(day + 1) \in Int
  BY <1>4
<1>10. QED
  <2> DEFINE x == Local(t)
             y == DayOf(t)
             m == Midnight(day)
             n == Midnight(day + 1)
  <2>1. /\ x \in Int /\ y \in Int /\ m \in Int /\ n \in Int
        /\ m <= t <=> 24 * day <= x
        /\ n <= t <=> 24 * (day + 1) <= x
        /\ y = day <=> 24 * day <= x /\ x < 24 * day + 24
        /\ 24 * y <= x /\ x < 24 * y + 24
    BY <1>6, <1>7, <1>8, <1>9
  <2> HIDE DEF x, y, m, n
  <2>2. /\ y = day <=> m <= t /\ t < n
        /\ m <= t <=> day <= y
    BY <2>1
  <2>3. QED
    BY <2>1, <2>2 DEF x, y, m, n

-----------------------------------------------------------------------------
(* The cell of a day and its detail.                                       *)

\* What is fetched or shown is of a day that can be selected.
DayInv ==
  /\ heat.fetch # NoFetch => heat.fetch.day \in Day
  /\ heat.detail # NoDetail => heat.detail.day \in Day

LEMMA DayUnmounted ==
  /\ Unmounted.fetch = NoFetch /\ Unmounted.detail = NoDetail
  BY DEF Unmounted, Heatmap

LEMMA DayKept ==
  DayInv /\ (SelectDay \/ DayAnswers \/ DayFails \/ LateAnswers \/ UNCHANGED heat) => DayInv'
<1> SUFFICES ASSUME DayInv,
                    SelectDay \/ DayAnswers \/ DayFails \/ LateAnswers \/ UNCHANGED heat
             PROVE  DayInv'
  OBVIOUS
<1>1. CASE SelectDay \/ LateAnswers \/ UNCHANGED heat
  <2>1. heat'.fetch = heat.fetch /\ heat'.detail = heat.detail
    BY <1>1 DEF SelectDay, LateAnswers, Heatmap
  <2>2. QED
    BY <2>1 DEF DayInv
<1>2. CASE DayAnswers
  <2>1. heat'.fetch = NoFetch /\ heat'.detail = Detailed(heat.fetch) /\ heat.fetch # NoFetch
    BY <1>2 DEF DayAnswers, Heatmap
  <2>2. heat'.detail.day \in Day
    BY <2>1, DayFields DEF Detailed, DayInv
  <2>3. QED
    BY <2>1, <2>2 DEF DayInv
<1>3. CASE DayFails
  <2>1. heat'.fetch = NoFetch /\ heat'.detail = heat.detail
    BY <1>3 DEF DayFails, Heatmap
  <2>2. QED
    BY <2>1 DEF DayInv
<1>4. QED
  BY <1>1, <1>2, <1>3

LEMMA DayAsked == PageInv /\ DayInv /\ RunEffects => DayInv'
<1> SUFFICES ASSUME heat.selected \in Day \cup {0}, DayInv, RunEffects
             PROVE  DayInv'
  BY DEF PageInv
<1> DEFINE deps == DayOfScope(heat.selected, scope)
<1>1. /\ heat'.detail = NoDetail \/ heat'.detail = heat.detail
      /\ heat'.fetch = NoFetch \/ (heat.selected # 0 /\ heat'.fetch = deps)
  BY DEF RunEffects, Heatmap
<1>2. deps.day = heat.selected
  BY DayFields
<1> HIDE DEF deps
<1>3. QED
  BY <1>1, <1>2 DEF DayInv

LEMMA DayNext == PageInv /\ DayInv /\ [Next]_vars => DayInv'
<1> SUFFICES ASSUME PageInv, DayInv, [Next]_vars
             PROVE  DayInv'
  OBVIOUS
<1>1. CASE UNCHANGED heat
  BY <1>1, DayKept
<1>2. CASE heat' = Unmounted
  BY <1>2, DayUnmounted DEF DayInv
<1>3. CASE LoadAnswers \/ OpenDashboard \/ Pick \/ Refresh \/ DeleteLiaison
  BY <1>1, <1>3 DEF LoadAnswers, OpenDashboard, Pick, Refresh, DeleteLiaison
<1>4. CASE LoadFails
  BY <1>1, <1>2, <1>4 DEF LoadFails, GiveUp
<1>5. CASE SignInStep \/ ReloadPage \/ LeaveDashboard
  BY <1>1, <1>2, <1>5 DEF SignInStep, ReloadPage, LeaveDashboard, Unmount
<1>6. CASE SelectDay \/ DayAnswers \/ DayFails \/ LateAnswers
  BY <1>6, DayKept
<1>7. CASE RunEffects
  BY <1>7, DayAsked
<1>8. CASE UNCHANGED vars
  BY <1>1, <1>8 DEF vars
<1>9. QED
  BY <1>3, <1>4, <1>5, <1>6, <1>7, <1>8 DEF Next

\* What the counters and the detail read is finite, whatever the bounds.
LEMMA SinceFinite ==
  ASSUME NEW from, NEW now, NEW of
  PROVE  /\ IsFiniteSet(Since(from, now, of))
         /\ \A s \in SUBSET Since(from, now, of) : IsFiniteSet(s)
<1>1. Since(from, now, of) \in SUBSET History
  BY DEF Since
<1>2. IsFiniteSet(History)
  BY HistoryAssumption
<1>3. QED
  BY <1>1, <1>2, FS_Subset

\* A delay or a cancellation weighs something, and nothing else does.
LEMMA WeightOfKind ==
  ASSUME NEW e \in History
  PROVE  Weight(e) \in Nat /\ (Weight(e) > 0 <=> e.kind \in {"delay", "cancellation"})
<1>1. e.delay \in Nat
  BY HistoryAssumption
<1>2. CASE e.kind = "delay"
  BY <1>1, <1>2 DEF Weight
<1>3. CASE e.kind = "cancellation"
  BY <1>3 DEF Weight
<1>4. CASE e.kind # "delay" /\ e.kind # "cancellation"
  BY <1>4 DEF Weight
<1>5. QED
  BY <1>2, <1>3, <1>4

LEMMA DaysAreNumbers == DayOf(Now) \in Int /\ Now \in Int /\ Day \subseteq Int
<1>1. Now \in Int
  BY ConsoleAssumption
<1>2. DayOf(Now) \in Int
  BY <1>1, DayBounds
<1>3. \A e \in History : DayOf(e.at) \in Int
  <2>1. \A e \in History : e.at \in Int
    BY HistoryAssumption
  <2>2. QED
    BY <2>1, DayBounds
<1>4. QED
  BY <1>1, <1>2, <1>3 DEF Day

\* The heatmap and the detail of a day that is over read the same events.
LEMMA CellOfPast ==
  ASSUME NEW day \in Day, NEW of, day < DayOf(Now), day > DayOf(HeatFrom(Now))
  PROVE  Level(Heat(day, Now, of)) > 0 <=> DayDetail(day, Now, of) # {}
<1> DEFINE E == {e \in Since(HeatFrom(Now), Now, of) : DayOf(e.at) = day}
           L == DayDetail(day, Now, of)
           score == MapThenSumSet(Weight, E)
           trains == OnTimeTrains(day, of)
<1>1. day \in Int /\ DayOf(Now) \in Int /\ Now \in Int
  BY DaysAreNumbers
<1>2. \A e \in History : e.at \in Int
  BY HistoryAssumption
<1>3. IsFiniteSet(E) /\ \A e \in E : e \in History
  BY SinceFinite DEF Since
<1>4. \A e \in E : Weight(e) \in Nat
  BY <1>3, WeightOfKind
<1>5. score \in Nat /\ (score > 0 <=> \E e \in E : Weight(e) > 0)
  <2> HIDE DEF E
  <2>1. QED
    BY <1>3, <1>4, WeightsPositive
<1>6. trains \in Nat
  <2>1. PICK e \in History : day = DayOf(e.at)
    BY <1>1 DEF Day
  <2>2. \A l \in Liaison : OnTime(day, l) \in Nat
    BY <2>1, HistoryAssumption
  <2>3. QED
    BY <2>2, OnTimeNumber
<1>7. Heat(day, Now, of) = Diluted(score, trains)
  BY DEF Heat
<1>8. Level(Heat(day, Now, of)) > 0 <=> \E e \in E : Weight(e) > 0
  <2> HIDE DEF E, score, trains
  <2>1. /\ Diluted(score, trains) \in Nat
        /\ Diluted(score, trains) > 0 <=> score > 0
    BY <1>5, <1>6, DilutedPositive
  <2>2. QED
    BY <1>5, <1>7, <2>1, LevelPositive
<1>9. ASSUME NEW e \in History
      PROVE  e \in L <=> e \in E /\ e.kind \in {"delay", "cancellation"}
  <2>1. DayOf(e.at) = day <=> Midnight(day) <= e.at /\ e.at < Midnight(day + 1)
    BY <1>1, <1>2, DayBounds
  <2>2. HeatFrom(Now) \in Int
    BY <1>1, ClockAssumption DEF HeatFrom
  <2>3. Midnight(day) \in Int /\ DayOf(HeatFrom(Now)) \in Int
        /\ (Midnight(day) <= HeatFrom(Now) <=> day <= DayOf(HeatFrom(Now)))
    BY <1>1, <2>2, DayBounds
  <2>4. HeatFrom(Now) < Midnight(day)
    BY <1>1, <2>2, <2>3
  <2>5. Midnight(day) <= e.at => HeatFrom(Now) <= e.at
    BY <1>2, <2>2, <2>3, <2>4
  <2>6. QED
    BY <2>1, <2>5 DEF DayDetail, Since
<1>10. \A e \in L : e \in History
  BY DEF DayDetail, Since
<1>11. L # {} <=> \E e \in E : e.kind \in {"delay", "cancellation"}
  <2> HIDE DEF E, L
  <2>1. QED
    BY <1>3, <1>9, <1>10
<1>12. \A e \in E : Weight(e) > 0 <=> e.kind \in {"delay", "cancellation"}
  BY <1>3, WeightOfKind
<1>13. QED
  <2> HIDE DEF E, L
  <2>1. (\E e \in E : Weight(e) > 0) <=> \E e \in E : e.kind \in {"delay", "cancellation"}
    BY <1>12
  <2>2. QED
    BY <1>8, <1>11, <2>1 DEF L

\* The counters of today and its detail read the same events.
LEMMA CountsOfToday ==
  ASSUME NEW of
  PROVE  LET day == DayOf(Now)
             today == PeriodStats(Midnight(day), Now, of)
         IN today.delays + today.cancellations = Cardinality(DayDetail(day, Now, of))
<1> DEFINE day == DayOf(Now)
           S == Since(Midnight(day), Now, of)
           late == {e \in S : e.kind = "delay"}
           gone == {e \in S : e.kind = "cancellation"}
           today == PeriodStats(Midnight(day), Now, of)
<1>1. day \in Int /\ Now \in Int
  BY DaysAreNumbers
<1>2. today.delays = Cardinality(late) /\ today.cancellations = Cardinality(gone)
  BY DEF PeriodStats
<1>3. IsFiniteSet(late) /\ IsFiniteSet(gone)
  BY SinceFinite
<1>4. late \cap gone = {}
  OBVIOUS
<1>5. DayDetail(day, Now, of) = late \cup gone
  <2>1. Now < Midnight(day + 1) /\ Midnight(day + 1) \in Int
    <3> HIDE DEF day
    <3>1. DayOf(Now) = day <=> Midnight(day) <= Now /\ Now < Midnight(day + 1)
      BY <1>1, DayBounds
    <3>2. Midnight(day + 1) \in Int
      BY <1>1, DayBounds
    <3>3. QED
      BY <3>1, <3>2 DEF day
  <2>2. ASSUME NEW e \in S
        PROVE  e.at < Midnight(day + 1)
    <3>1. e \in History /\ e.at <= Now
      BY <2>2 DEF Since
    <3>2. e.at \in Int
      BY <3>1, HistoryAssumption
    <3>3. QED
      BY <1>1, <2>1, <3>1, <3>2
  <2>3. DayDetail(day, Now, of) = {e \in S : e.at < Midnight(day + 1) /\ e.kind \in {"delay", "cancellation"}}
    BY DEF DayDetail
  <2> HIDE DEF S
  <2>4. QED
    BY <2>2, <2>3
<1>6. Cardinality(late \cup gone) = Cardinality(late) + Cardinality(gone)
  <2> HIDE DEF late, gone
  <2>1. /\ Cardinality(late \cup gone)
             = Cardinality(late) + Cardinality(gone) - Cardinality(late \cap gone)
        /\ Cardinality(late) \in Nat /\ Cardinality(gone) \in Nat
    BY <1>3, FS_Union, FS_CardinalityType
  <2>2. Cardinality(late \cap gone) = 0
    BY <1>4, FS_EmptySet
  <2>3. QED
    BY <2>1, <2>2
<1>7. QED
  <2> HIDE DEF late, gone, today
  <2>1. today.delays + today.cancellations = Cardinality(DayDetail(day, Now, of))
    BY <1>2, <1>5, <1>6
  <2>2. QED
    BY <2>1 DEF today

LEMMA CellOfDetail == DayInv => CellTellsDay
<1> DEFINE d == heat.detail
           today == PeriodStats(Midnight(DayOf(Now)), Now, data.scope)
<1> SUFFICES ASSUME DayInv, d # NoDetail, data.scope = d.scope
             PROVE  /\ d.day < DayOf(Now) /\ d.day > DayOf(HeatFrom(Now)) =>
                         (Level(Heat(d.day, Now, data.scope)) > 0
                            <=> DayDetail(d.day, Now, d.scope) # {})
                    /\ d.day = DayOf(Now) =>
                         today.delays + today.cancellations
                           = Cardinality(DayDetail(d.day, Now, d.scope))
  BY DEF CellTellsDay
<1>1. d.day \in Day
  BY DEF DayInv
<1>2. d.day < DayOf(Now) /\ d.day > DayOf(HeatFrom(Now)) =>
        (Level(Heat(d.day, Now, d.scope)) > 0 <=> DayDetail(d.day, Now, d.scope) # {})
  BY <1>1, CellOfPast
<1>3. PeriodStats(Midnight(DayOf(Now)), Now, d.scope).delays
        + PeriodStats(Midnight(DayOf(Now)), Now, d.scope).cancellations
        = Cardinality(DayDetail(DayOf(Now), Now, d.scope))
  BY CountsOfToday
<1>4. QED
  BY <1>2, <1>3

\* A day that is over is coloured exactly when its detail lists something and today's
\* counters count what today's detail lists, for every history, every change of the
\* clocks and every order of the answers (activityHeatmapDays, getDayDetail and
\* periodStats read the same events).
THEOREM CellsTellDays == Spec => []CellTellsDay
<1>1. Init => DayInv
  BY DayUnmounted DEF Init, DayInv
<1>2. Spec => [](DayInv /\ ConsoleInv)
  <2>1. Init => ConsoleInv
    BY ConsoleInit
  <2>2. DayInv /\ ConsoleInv /\ [Next]_vars => DayInv' /\ ConsoleInv'
    BY DayNext, ConsoleNext DEF ConsoleInv
  <2>3. QED
    BY <1>1, <2>1, <2>2, PTL DEF Spec
<1>3. QED
  BY <1>2, CellOfDetail, PTL
=============================================================================
