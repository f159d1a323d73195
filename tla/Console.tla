------------------------------ MODULE Console ------------------------------
(***************************************************************************)
(* The dashboard in one browser tab (pages/DashboardPage.tsx,              *)
(* components/ActivityHeatmap.tsx and LiaisonScopePicker.tsx) over the     *)
(* sign-in of SignIn and the counters of Indicators.                       *)
(*                                                                         *)
(* The callbacks of one tab never run at once, but they run in any order:  *)
(* a load or a day's detail answers when it likes, after later choices or  *)
(* after the page was left.  The server reads when its answer arrives.     *)
(***************************************************************************)
EXTENDS SignIn, Indicators, SequencesExt

CONSTANTS
  FirstDefault,  \* the liaison that is the default first
  Now,           \* bound: the hour at which the tab is open
  MaxRequests,   \* bound: requests on their way when the user asks for more
  MaxChanges     \* bound: changes others make to the liaisons

ASSUME ConsoleAssumption ==
  /\ FirstDefault \in Liaison /\ Now \in Nat /\ MaxRequests \in Nat /\ MaxChanges \in Nat
ASSUME ScopeAssumption == Liaison \cap {"none", "all"} = {}

VARIABLES
  liaisons, default, changes,   \* the server
  opened,     \* the dashboard was opened (bound: the login windows run
              \* and fill before that only)
  stored,     \* the scope in the browser's storage
  page,       \* the dashboard, another page, or none
  scope,      \* the picker's value
  data,       \* the overview shown
  failed,     \* an error is kept
  loading,    \* the spinner of the refresh button
  loads,      \* overview requests on their way, oldest first
  stray,      \* a page already left wrote the storage last (history)
  heat        \* the heatmap's own state

others == <<liaisons, default, changes>>
dash == <<opened, stored, page, scope, data, failed, loading, loads, stray>>
vars == <<signVars, others, dash, heat>>

Scope == Liaison \cup {"all"}
Nothing == [scope |-> "none", options |-> {}]
Overview(asked) ==
  [scope |-> IF asked = "none" THEN default ELSE asked, options |-> liaisons]
Load(asked, again, left) == [asked |-> asked, again |-> again, left |-> left]
HasData == data # Nothing

\* The heatmap: the day selected, the deps its effects last ran with, the
\* detail shown, the fetch that counts and one that was aborted.
DayOfScope(day, of) == [day |-> day, scope |-> of]
NoDetail == DayOfScope(0, "none")
NoFetch == DayOfScope(0, "none")
Heatmap(selected, deps, detail, problem, spinner, fetch, late) ==
  [selected |-> selected, deps |-> deps, detail |-> detail, problem |-> problem,
   spinner |-> spinner, fetch |-> fetch, late |-> late]
Unmounted == Heatmap(0, NoFetch, NoDetail, FALSE, FALSE, NoFetch, NoFetch)
Day == {DayOf(Now)} \cup {DayOf(e.at) : e \in History}

Init ==
  /\ SignInit
  /\ liaisons = Liaison /\ default = FirstDefault /\ changes = 0
  /\ stored \in Scope \cup {"none"} /\ page = "none" /\ stray = FALSE
  /\ opened = FALSE
  /\ scope = "none" /\ data = Nothing /\ failed = FALSE /\ loading = FALSE
  /\ loads = <<>> /\ heat = Unmounted

------------------------------------------------------------------------------
(* Requests. *)

Room ==
  Len(loads) + Cardinality({heat.fetch, heat.late} \ {NoFetch}) < MaxRequests

\* load: the error goes, a request leaves with the scope asked.
Ask(asked) ==
  /\ Room
  /\ loads' = Append(loads, Load(asked, FALSE, FALSE))
Loads == {i \in DOMAIN loads : ~loads[i].left}
Dropped(i) == RemoveAt(loads, i)

\* Mutant: the fallback leaves the picker on the liaison that failed.
ShowAlone(i, overview) ==
  /\ stored' = overview.scope
  /\ stray' = loads[i].left
  /\ loads' = Dropped(i)
  /\ IF loads[i].left THEN UNCHANGED <<scope, data, loading>>
     ELSE /\ data' = overview /\ loading' = FALSE
          /\ scope' = IF loads[i].again THEN scope ELSE overview.scope
  /\ UNCHANGED <<opened, failed, page>>

\* The overview arrives: the page shows it and follows its scope.  A page
\* that was left still writes the storage.
Show(i, overview) ==
  /\ stored' = overview.scope
  /\ stray' = loads[i].left
  /\ loads' = Dropped(i)
  /\ IF loads[i].left THEN UNCHANGED <<scope, data, loading>>
     ELSE data' = overview /\ scope' = overview.scope /\ loading' = FALSE
  /\ UNCHANGED <<opened, failed, page>>

LoadAnswers ==
  \E i \in DOMAIN loads :
    LET asked == IF loads[i].again THEN "none" ELSE loads[i].asked
    IN /\ Viewer /\ asked \in liaisons \cup {"all", "none"}
       /\ Show(i, Overview(asked))
       /\ UNCHANGED <<signVars, others, heat>>

\* Mutant: the page gives up without a word.
GiveUpSilently == data' = Nothing /\ failed' = FALSE /\ loading' = FALSE /\ heat' = Unmounted

GiveUp == data' = Nothing /\ failed' = TRUE /\ loading' = FALSE /\ heat' = Unmounted

\* Network, server, rights, or a liaison that is gone: one that was asked for
\* by name is asked again without, and then the page gives up.
LoadFails ==
  \E i \in DOMAIN loads :
    \/ /\ loads[i].asked \in Liaison /\ ~loads[i].again
       /\ loads' = ReplaceAt(loads, i, Load(loads[i].asked, TRUE, loads[i].left))
       /\ UNCHANGED <<signVars, others, opened, stored, page, scope, stray, loading, data, failed, heat>>
    \/ /\ loads[i].asked \notin Liaison \/ loads[i].again
       /\ loads' = Dropped(i)
       /\ IF loads[i].left THEN UNCHANGED <<data, failed, loading, heat>> ELSE GiveUp
       /\ UNCHANGED <<signVars, others, opened, stored, page, scope, stray>>

------------------------------------------------------------------------------
(* What the user does. *)

\* Bound: the dashboard is opened after a sign-in where nothing failed.
Quiet ==
  /\ table = <<>> /\ ~there /\ \A k \in Key : Tries(k) = 0
  /\ ~lost /\ (config = "open" <=> visitor)
  /\ me = "user" <=> session
  /\ me = "user" => ~ack

\* The page mounts with the stored scope.
OpenDashboard ==
  /\ Inside /\ page # "dashboard"
  /\ Quiet
  /\ opened' = TRUE
  /\ page' = "dashboard"
  /\ scope' = stored /\ data' = Nothing /\ failed' = FALSE /\ loading' = TRUE
  /\ Ask(stored)
  /\ UNCHANGED <<signVars, others, stored, stray, heat>>

\* The page is left, or the gate replaces it: its requests go on.
Left == [i \in DOMAIN loads |-> Load(loads[i].asked, loads[i].again, TRUE)]
Unmount(next) ==
  /\ page' = next
  /\ scope' = "none" /\ data' = Nothing /\ failed' = FALSE /\ loading' = FALSE
  /\ loads' = Left
  /\ heat' = Unmounted
  /\ UNCHANGED <<opened, stored, stray>>
LeaveDashboard ==
  /\ Inside /\ page = "dashboard"
  /\ Unmount("other")
  /\ UNCHANGED <<signVars, others>>

Shown == Inside /\ page = "dashboard" /\ HasData /\ scope # "none"
Pick ==
  /\ Shown
  /\ \E choice \in data.options \cup {"all"} :
       scope' = choice /\ stored' = choice /\ Ask(choice)
  /\ stray' = FALSE /\ failed' = FALSE /\ loading' = TRUE
  /\ UNCHANGED <<signVars, others, opened, page, data, heat>>
Refresh ==
  /\ Inside /\ page = "dashboard"
  /\ \/ HasData /\ ~loading
     \/ failed /\ ~HasData
  /\ failed' = FALSE /\ loading' = TRUE
  /\ Ask(scope)
  /\ UNCHANGED <<signVars, others, opened, page, scope, stored, data, stray, heat>>

\* A click on a day selects it, a second one closes it; days to come are inert.
SelectDay ==
  /\ Shown /\ Room
  /\ \E day \in Day :
       /\ day <= DayOf(Now)
       /\ heat' = Heatmap(IF heat.selected = day THEN 0 ELSE day, heat.deps, heat.detail,
                          heat.problem, heat.spinner, heat.fetch, heat.late)
  /\ UNCHANGED <<signVars, others, dash>>

------------------------------------------------------------------------------
(* The heatmap's effects and its requests. *)

\* The effects run when the day or the scope they depend on changed: the fetch
\* on its way is aborted; another scope closes the day, but the second effect
\* still sees it and asks for it.
RunEffects ==
  LET deps == DayOfScope(heat.selected, scope)
      other == heat.deps.scope # scope
      late == IF heat.fetch = NoFetch THEN heat.late ELSE heat.fetch
      asks == heat.selected # 0
  IN /\ Shown /\ deps # heat.deps
     /\ heat' = Heatmap(IF other THEN 0 ELSE heat.selected,
                        deps,
                        IF other \/ asks THEN NoDetail ELSE heat.detail,
                        heat.problem /\ ~other /\ ~asks,
                        asks \/ (~other /\ heat.spinner),
                        IF asks THEN deps ELSE NoFetch,
                        late)
     /\ UNCHANGED <<signVars, others, dash>>

\* GET /v1/dashboard/day.
Detailed(fetch) == DayOfScope(fetch.day, fetch.scope)
DayAnswers ==
  /\ heat.fetch # NoFetch
  /\ Viewer /\ heat.fetch.scope \in liaisons \cup {"all"}
  /\ heat' = Heatmap(heat.selected, heat.deps, Detailed(heat.fetch), heat.problem, FALSE,
                     NoFetch, heat.late)
  /\ UNCHANGED <<signVars, others, dash>>
DayFails ==
  /\ heat.fetch # NoFetch
  /\ heat' = Heatmap(heat.selected, heat.deps, heat.detail, TRUE, FALSE, NoFetch, heat.late)
  /\ UNCHANGED <<signVars, others, dash>>

\* Mutant: the answer is shown whether or not its request was aborted.
LateAnswersShown ==
  /\ heat.late # NoFetch
  /\ heat' = Heatmap(heat.selected, heat.deps, Detailed(heat.late), heat.problem, FALSE,
                     heat.fetch, NoFetch)
  /\ UNCHANGED <<signVars, others, dash>>

\* The answer of an aborted request changes nothing.
LateAnswers ==
  /\ heat.late # NoFetch
  /\ heat' = Heatmap(heat.selected, heat.deps, heat.detail, heat.problem, heat.spinner,
                     heat.fetch, NoFetch)
  /\ UNCHANGED <<signVars, others, dash>>

------------------------------------------------------------------------------
(* The rest of the world. *)

\* Another administrator deletes a liaison that is not the last; the default is
\* then another (bound: while the dashboard is open).
DeleteLiaison ==
  /\ page = "dashboard" /\ changes < MaxChanges /\ Cardinality(liaisons) > 1
  /\ \E l \in liaisons :
       /\ liaisons' = liaisons \ {l}
       /\ IF default = l THEN default' \in liaisons \ {l} ELSE UNCHANGED default
  /\ changes' = changes + 1
  /\ UNCHANGED <<signVars, dash, heat>>

\* A step of the sign-in: when it shows the gate, the page is unmounted (bound:
\* while the dashboard is open, only a logout ends the session).
SignInStep ==
  /\ SignStep
  /\ opened => table' = table
  /\ page = "dashboard" /\ session => session' \/ leaving' = "done"
  /\ IF page # "none" /\ ~Inside'
     THEN Unmount("none")
     ELSE UNCHANGED <<dash, heat>>
  /\ UNCHANGED others

\* F5: what the tab had on its way is gone.
ReloadPage ==
  /\ Reload
  /\ page' = "none" /\ loads' = <<>>
  /\ scope' = "none" /\ data' = Nothing /\ failed' = FALSE /\ loading' = FALSE
  /\ heat' = Unmounted
  /\ UNCHANGED <<others, opened, stored, stray>>

Next ==
  \/ SignInStep \/ ReloadPage
  \/ LoadAnswers \/ LoadFails
  \/ OpenDashboard \/ LeaveDashboard \/ Pick \/ Refresh \/ SelectDay
  \/ RunEffects \/ DayAnswers \/ DayFails \/ LateAnswers
  \/ DeleteLiaison

Spec == Init /\ [][Next]_vars

------------------------------------------------------------------------------
(* Properties. *)

TypeOK ==
  /\ SignTypeOK
  /\ liaisons \subseteq Liaison /\ default \in liaisons
  /\ changes \in 0..MaxChanges
  /\ stored \in Scope \cup {"none"} /\ scope \in Scope \cup {"none"}
  /\ page \in {"none", "other", "dashboard"} /\ (page # "none" => Inside)
  /\ data.scope \in Scope \cup {"none"} /\ data.options \subseteq Liaison
  /\ failed \in BOOLEAN /\ loading \in BOOLEAN /\ stray \in BOOLEAN
  /\ Len(loads) <= MaxRequests
  /\ \A i \in DOMAIN loads :
       loads[i].asked \in Scope \cup {"none"} /\ (loads[i].again => loads[i].asked \in Liaison)
  /\ heat.selected \in Day \cup {0}
  /\ HasData => page = "dashboard"

\* When nothing is on its way, the figures, the picker and the scope kept for
\* the next visit are the same, however the loads were answered; the storage
\* may differ when a page that was already left answered last.
ScopeAgrees ==
  HasData /\ Loads = {} =>
    /\ data.scope = scope
    /\ stray \/ stored = scope

\* The dashboard never stays on its skeleton: something is on its way, or the
\* error with its button is shown.
SkeletonEnds ==
  page = "dashboard" /\ ~HasData /\ ~failed => Loads # {}

Settled == HasData /\ heat.deps = DayOfScope(heat.selected, scope)

\* HeatmapDayPanel: the spinner and the error each show whenever they are set, the
\* detail only without them.
Panel ==
  (IF heat.spinner THEN {"loading"} ELSE {}) \cup (IF heat.problem THEN {"error"} ELSE {})
  \cup (IF ~heat.spinner /\ ~heat.problem /\ heat.detail # NoDetail THEN {"detail"} ELSE {})

\* The panel of a selected day shows one thing, whatever the order of the answers: a
\* spinner with the request that will end it, an error, or the detail of the day and the
\* scope that are selected.  It is never empty and never another day's.
DetailIsOfDay ==
  Settled /\ heat.selected # 0 =>
    /\ \E shown \in {"loading", "error", "detail"} : Panel = {shown}
    /\ Panel = {"loading"} <=> heat.fetch # NoFetch
    /\ heat.fetch # NoFetch => heat.fetch = heat.deps
    /\ Panel = {"detail"} => heat.detail = Detailed(heat.deps)

\* A day that is over is coloured exactly when its detail lists a delay or a
\* cancellation, and today's counters count what today's detail lists, across
\* the changes of the clocks.  The heatmap's first day is cut where it starts.
CellTellsDay ==
  LET d == heat.detail
      listed == DayDetail(d.day, Now, d.scope)
      today == PeriodStats(Midnight(DayOf(Now)), Now, data.scope)
  IN Settled /\ d # NoDetail /\ data.scope = d.scope =>
       /\ d.day < DayOf(Now) /\ d.day > DayOf(HeatFrom(Now)) =>
            (Level(Heat(d.day, Now, data.scope)) > 0 <=> listed # {})
       /\ d.day = DayOf(Now) =>
            today.delays + today.cancellations = Cardinality(listed)
=============================================================================
