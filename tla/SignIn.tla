------------------------------- MODULE SignIn -------------------------------
(***************************************************************************)
(* Who the browser thinks is signed in (auth/AuthContext.tsx, GatePage,    *)
(* App.tsx, Layout) and what the server knows (routes/admin.ts login,      *)
(* logout and me; domain/auth.ts; rate-limit.ts).                          *)
(*                                                                         *)
(* A request is evaluated by the server in one step and its answer arrives *)
(* in a later one; either can fail.  A login is three steps of the server, *)
(* which awaits the password and the new session.  session is whether the  *)
(* cookie the browser holds names a live session.                          *)
(***************************************************************************)
EXTENDS RequestLimits, FiniteSets

CONSTANTS
  Here, There,   \* the browser's address and another's
  Name           \* the account's name

VARIABLES
  session, visitor,   \* the server: the cookie's session lives; visitors may enter (bound:
                      \* that setting does not change)
  table,              \* its login windows
  me, config, ack,    \* the browser: who, the visitor setting, "continue as visitor"
  meCall, configCall, \* its requests on their way: the two of the mount,
  form, leaving,      \* the login, the logout
  there,              \* the other address's login: its right password is being checked
  lost,               \* a call about the session has failed (history)
  recent              \* the ages of the attempts let through on a key since the last login
                      \* that released it, newest first (history)

server == <<session, visitor, table, there, recent>>
browser == <<me, config, ack>>
calls == <<meCall, configCall, form, leaving>>
signVars == <<server, browser, calls, lost>>

ASSUME KeyAssumption == Name \notin {Here, There}   \* their prefixes tell keys apart

Key == {Here, There, Name}
Ages == 0..Window - 1

Loading == me = "loading" \/ config = "loading"
CanEnter == me = "user" \/ (config = "open" /\ ack)

\* Mutant: the gate is shown before the account is known.
GateAtOnce == ~CanEnter

ShowGate == ~Loading /\ ~CanEnter
Inside == ~Loading /\ CanEnter
Viewer == session \/ visitor

None == <<>>
Tries(key) == Len(recent[key])

\* An attempt is forgotten when a span of a window no longer holds it.
Aged(ages) ==
  [i \in {k \in DOMAIN ages : ages[k] + 1 \in Ages} |-> ages[i] + 1]

\* The provider mounts: nothing is known and two requests leave.
SignInit ==
  /\ session \in BOOLEAN /\ visitor \in BOOLEAN
  /\ table = <<>> /\ there = FALSE /\ recent = [k \in Key |-> None]
  /\ me = "loading" /\ config = "loading" /\ ack = FALSE
  /\ meCall = "sent" /\ configCall = "sent" /\ form = "none" /\ leaving = "none"
  /\ lost = FALSE

\* The server evaluates GET /v1/admin/me or the public configuration.
ServeMe ==
  /\ meCall = "sent"
  /\ meCall' = IF session THEN "user" ELSE "nobody"
  /\ UNCHANGED <<server, browser, lost, configCall, form, leaving>>
ServeConfig ==
  /\ configCall = "sent"
  /\ configCall' = IF visitor THEN "open" ELSE "closed"
  /\ UNCHANGED <<server, browser, lost, meCall, form, leaving>>

\* refreshMe, refreshConfig: a failure counts as nobody, or as closed.
MeAnswers ==
  /\ meCall \in {"user", "nobody"}
  /\ me' = IF meCall = "user" THEN "user" ELSE "none"
  /\ meCall' = "none"
  /\ UNCHANGED <<server, config, ack, lost, configCall, form, leaving>>
MeFails ==
  /\ meCall # "none"
  /\ me' = "none" /\ lost' = TRUE
  /\ meCall' = "none"
  /\ UNCHANGED <<server, config, ack, configCall, form, leaving>>
ConfigAnswers ==
  /\ configCall # "none"
  /\ config' = IF configCall = "open" THEN "open" ELSE "closed"
  /\ configCall' = "none"
  /\ UNCHANGED <<server, me, ack, lost, meCall, form, leaving>>

\* The gate's form: one call at a time, its button is disabled meanwhile.
SubmitLogin ==
  /\ ShowGate /\ form = "none"
  /\ \E password \in {"right", "wrong"} : form' = password
  /\ UNCHANGED <<server, browser, lost, meCall, configCall, leaving>>

\* Checking the windows of an attempt: the attempts they let through are
\* counted, those of a key that a full table forgets are not held against it.
\* It is full only while MaxBuckets windows run.
Full(t) == Len(Live(t)) >= MaxBuckets
Forgotten(t) == IF Full(t) THEN Keys(t) \ Keys(Sweep(t)) ELSE {}
Tried(tries, t, key, max) ==
  LET kept == [k \in Key |-> IF k \in Forgotten(t) THEN None ELSE tries[k]]
  IN IF Allows(t, key, max) THEN [kept EXCEPT ![key] = <<0>> \o @] ELSE kept
TriesAfter(ip) ==
  Tried(Tried(recent, table, ip, MaxIp), Consume(table, ip, MaxIp), Name, MaxUser)
Allowed(ip) == IpAllowed(table, ip) /\ UserAllowed(table, ip, Name)
Checks(ip) == table' = CheckLogin(table, ip, Name) /\ recent' = TriesAfter(ip)

\* A login that succeeds releases its own address and the name, with the attempts that
\* came while its password was checked.
Releases(ip) ==
  /\ table' = ResetLogin(table, ip, Name)
  /\ recent' = [recent EXCEPT ![ip] = None, ![Name] = None]

\* POST /v1/admin/login: refused by the windows, then by the password; released; a session.
ReceiveLogin ==
  /\ form \in {"right", "wrong"}
  /\ form' = IF Allowed(Here) /\ form = "right" THEN "checked" ELSE "refused"
  /\ Checks(Here)
  /\ UNCHANGED <<session, visitor, there, browser, lost, meCall, configCall, leaving>>
VerifyLogin ==
  /\ form = "checked" /\ form' = "verified"
  /\ Releases(Here)
  /\ UNCHANGED <<session, visitor, there, browser, lost, meCall, configCall, leaving>>
OpenSession ==
  /\ form = "verified" /\ form' = "signed in"
  /\ session' = TRUE
  /\ UNCHANGED <<visitor, table, there, recent, browser, lost, meCall, configCall, leaving>>
LoginAnswers ==
  /\ form \in {"signed in", "refused"}
  /\ IF form = "signed in"
     THEN me' = "user" /\ ack' = FALSE /\ lost' = FALSE
     ELSE UNCHANGED <<me, ack, lost>>
  /\ form' = "none"
  /\ UNCHANGED <<server, config, meCall, configCall, leaving>>
LoginFails ==
  /\ form # "none"
  /\ lost' = TRUE
  /\ form' = "none"
  /\ UNCHANGED <<server, browser, meCall, configCall, leaving>>

\* Somebody at another address tries the same name, with its password or without.
\* Bound: while this browser is at the gate and its login is not being answered.
AtGate == ShowGate /\ form \in {"none", "checked"}
OthersTry ==
  /\ AtGate /\ ~there
  /\ there' \in {FALSE, Allowed(There)}
  /\ Checks(There)
  /\ UNCHANGED <<session, visitor, browser, calls, lost>>
OthersVerify ==
  /\ AtGate /\ there /\ there' = FALSE
  /\ Releases(There)
  /\ UNCHANGED <<session, visitor, browser, calls, lost>>

ContinueAsVisitor ==
  /\ ShowGate /\ form = "none" /\ config = "open"
  /\ ack' = TRUE
  /\ UNCHANGED <<server, me, config, calls, lost>>
RequestLogin ==
  /\ Inside /\ me = "none"
  /\ ack' = FALSE
  /\ UNCHANGED <<server, me, config, calls, lost>>

\* logout: the session is deleted; the browser forgets the user whatever happens.
Logout ==
  /\ Inside /\ me = "user" /\ leaving = "none"
  /\ leaving' = "sent"
  /\ UNCHANGED <<server, browser, lost, meCall, configCall, form>>
ServeLogout ==
  /\ leaving = "sent"
  /\ session' = FALSE
  /\ leaving' = "done"
  /\ UNCHANGED <<visitor, table, there, recent, browser, lost, meCall, configCall, form>>
LogoutAnswers ==
  /\ leaving # "none"
  /\ me' = "none"
  /\ lost' = (leaving = "sent")
  /\ leaving' = "none"
  /\ UNCHANGED <<server, config, ack, meCall, configCall, form>>

\* The page is loaded again: the tab keeps the visitor's choice (bound: not in
\* the middle of a login or a logout).
Reload ==
  /\ form = "none" /\ leaving = "none"
  /\ me' = "loading" /\ config' = "loading"
  /\ meCall' = "sent" /\ configCall' = "sent"
  /\ lost' = FALSE
  /\ UNCHANGED <<server, ack, form, leaving>>

\* The session expires or is ended by an administrator.
SessionEnds ==
  /\ session /\ session' = FALSE
  /\ UNCHANGED <<visitor, table, there, recent, browser, calls, lost>>

\* Bound: windows run while this browser is at the gate.
Tick ==
  /\ AtGate
  /\ table' = Elapse(table)
  /\ recent' = [k \in Key |-> Aged(recent[k])]
  /\ UNCHANGED <<session, visitor, there, browser, calls, lost>>

SignStep ==
  \/ ServeMe \/ ServeConfig \/ MeAnswers \/ MeFails \/ ConfigAnswers
  \/ SubmitLogin \/ ReceiveLogin \/ VerifyLogin \/ OpenSession \/ LoginAnswers \/ LoginFails
  \/ OthersTry \/ OthersVerify
  \/ ContinueAsVisitor \/ RequestLogin
  \/ Logout \/ ServeLogout \/ LogoutAnswers
  \/ SessionEnds \/ Tick

SignTypeOK ==
  /\ session \in BOOLEAN /\ visitor \in BOOLEAN /\ ack \in BOOLEAN /\ lost \in BOOLEAN
  /\ there \in BOOLEAN
  /\ me \in {"loading", "none", "user"} /\ config \in {"loading", "open", "closed"}
  /\ meCall \in {"none", "sent", "user", "nobody"}
  /\ configCall \in {"none", "sent", "open", "closed"}
  /\ form \in {"none", "right", "wrong", "checked", "verified", "signed in", "refused"}
  /\ leaving \in {"none", "sent", "done"}
  /\ Cardinality(Keys(table)) = Len(table) /\ Len(table) <= MaxBuckets
  /\ Keys(table) \subseteq Key
  /\ \A i \in DOMAIN table : table[i].strikes \in 0..MaxStrikes

\* A user whose session lives is never shown as signed out, unless a call
\* about the session failed since the page was loaded: answers to the mount's
\* requests cannot undo a later login.
SignedInStays ==
  me = "none" /\ session /\ form = "none" => lost

\* Whatever others do and in whatever order, an address lets through, since its own last
\* login that succeeded, at most twice its limit less one in any span of a window: fixed
\* windows meet, but a window that is used up starts a full penalty, and a login from
\* elsewhere never releases it (resetLoginRateLimit).
\* So does the name since the last login of anybody to it: one whose owner signs in again
\* and again lets through any number.  A key that a table full of running windows forgot
\* starts anew; one that had room after the windows that are over does not.
LoginLimited ==
  /\ Tries(Here) < 2 * MaxIp /\ Tries(There) < 2 * MaxIp
  /\ Tries(Name) < 2 * MaxUser
=============================================================================
