---------------------------- MODULE NotifyQueue -----------------------------
(***************************************************************************)
(* What the notify_jobs table promises, whoever works on it: a job is      *)
(* claimed at most once, it leaves on each channel at most once, and only  *)
(* while (or after) it was claimed, and it is never worked on again once   *)
(* it is done or failed.  A job whose event is deleted disappears with it; *)
(* a delivery that was already under way may still leave.                  *)
(***************************************************************************)
EXTENDS Naturals

CONSTANTS JobId, Channel

VARIABLES
  status,   \* status[j]: the job's life
  mails     \* mails[j][c]: how often job j left on channel c

qvars == <<status, mails>>

QueueInit ==
  /\ status = [j \in JobId |-> "absent"]
  /\ mails = [j \in JobId |-> [c \in Channel |-> 0]]

Submit(j) ==
  /\ status[j] = "absent"
  /\ status' = [status EXCEPT ![j] = "pending"]
  /\ UNCHANGED mails

\* Several jobs are claimed by one statement.
Take(S) ==
  /\ \A j \in S : status[j] = "pending"
  /\ status' = [j \in JobId |-> IF j \in S THEN "processing" ELSE status[j]]
  /\ UNCHANGED mails

Send(j, c) ==
  /\ status[j] \in {"processing", "deleted"}
  /\ mails[j][c] = 0
  /\ mails' = [mails EXCEPT ![j][c] = 1]
  /\ UNCHANGED status

Settle(j) ==
  /\ status[j] = "processing"
  /\ \E s \in {"done", "failed"} : status' = [status EXCEPT ![j] = s]
  /\ UNCHANGED mails

Discard(S) ==
  /\ \A j \in S : status[j] # "absent"
  /\ status' = [j \in JobId |-> IF j \in S THEN "deleted" ELSE status[j]]
  /\ UNCHANGED mails

QueueNext ==
  \/ \E j \in JobId : Submit(j) \/ Settle(j) \/ (\E c \in Channel : Send(j, c))
  \/ \E S \in SUBSET JobId : Take(S) \/ Discard(S)

QueueSpec == QueueInit /\ [][QueueNext]_qvars
=============================================================================
