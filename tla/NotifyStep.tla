----------------------------- MODULE NotifyStep -----------------------------
(***************************************************************************)
(* When does a new observation of an already stored disruption deserve a   *)
(* new notification?  The pure decision of domain/notify-step.ts, together *)
(* with the classification of a board departure into an alert that the     *)
(* Navitia adapter makes before it (adapters/ingest.ts).                   *)
(*                                                                         *)
(* Delays are whole minutes; NoDelay stands for SQL NULL / JavaScript null *)
(* and is never compared with a number.                                    *)
(***************************************************************************)
EXTENDS Integers

CONSTANTS
  NotifyStepMinutes,   \* journey.notifyStepMinutes, 0 disables the delay step
  MinDelayMinutes,     \* journey.minDelayMinutes
  AlertKinds           \* journey.severities: the kinds the journey alerts on

Kind == {"delay", "cancellation"}
Severity == {"warning", "critical"}

ASSUME NotifyStepAssumption == NotifyStepMinutes \in Nat
ASSUME MinDelayAssumption == MinDelayMinutes \in Nat
ASSUME AlertKindsAssumption == AlertKinds \subseteq Kind

NoDelay == -1
Delay == Nat \cup {NoDelay}
NoSeverity == "none"           \* notified_severity IS NULL: never notified

\* A delay of twenty minutes or more is critical.
CriticalDelayMinutes == 20

(***************************************************************************)
(* Reading a departure: what the board says, [cancelled, delay], and the   *)
(* alert made of it, [kind, severity, delay].                              *)
(***************************************************************************)
Departure == [cancelled : BOOLEAN, delay : Delay]
Alert == [kind : Kind, severity : Severity, delay : Delay]

AlertOf(d) ==
  [kind     |-> IF d.cancelled THEN "cancellation" ELSE "delay",
   severity |-> IF d.cancelled \/ d.delay >= CriticalDelayMinutes
                THEN "critical" ELSE "warning",
   delay    |-> IF d.cancelled THEN NoDelay ELSE d.delay]

\* The guards between a matched departure and an alert: an unknown delay, one
\* under the journey's threshold and one that is not late never alert.
IsAlert(d) ==
  /\ d.cancelled \/ ( /\ d.delay # NoDelay
                      /\ d.delay >= MinDelayMinutes
                      /\ d.delay > 0 )
  /\ AlertOf(d).kind \in AlertKinds

-----------------------------------------------------------------------------
(***************************************************************************)
(* The decision.  `seen' is the row the upsert read before writing: its    *)
(* kind and what was last notified (nDelay, nSeverity).                    *)
(***************************************************************************)
SeverityRank(s) ==
  CASE s = "critical" -> 2
    [] s = "warning"  -> 1
    [] OTHER          -> -1

KindEscalates(seen, a) == a.kind = "cancellation" /\ seen.kind # "cancellation"

SeverityEscalates(seen, a) == SeverityRank(a.severity) > SeverityRank(seen.nSeverity)

DelayEscalates(seen, a) ==
  /\ NotifyStepMinutes > 0
  /\ a.delay # NoDelay
  /\ IF seen.nDelay = NoDelay
     THEN a.delay >= NotifyStepMinutes
     ELSE a.delay >= seen.nDelay + NotifyStepMinutes

ShouldNotifyDelayStep(created, seen, a) ==
  \/ created
  \/ KindEscalates(seen, a)
  \/ SeverityEscalates(seen, a)
  \/ DelayEscalates(seen, a)
=============================================================================
