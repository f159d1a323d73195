--------------------------- MODULE AlertPipeline ----------------------------
(***************************************************************************)
(* From a departure board to a mail: the ingest poll (adapters/ingest.ts), *)
(* the event and job tables (domain/store.ts) and the drain of the job     *)
(* queue (domain/notify.ts), for any number of processes that share the    *)
(* database.                                                               *)
(*                                                                         *)
(* Every SQL statement that other processes can see is a step of its own;  *)
(* what a process keeps between two awaits is in its local variables.  A   *)
(* process that crashes loses them and keeps what it wrote.                *)
(***************************************************************************)
EXTENDS NotifyStep, FiniteSets

CONSTANTS
  Pollers,        \* ingest loops: the systemd worker, the API's own loop
  Workers,        \* the pollers that drain once more after a successful poll
  Injectors,      \* API requests that inject a synthetic event
  Boards,         \* the external_event_id of the departures on the boards
  Stubs,          \* the external_event_id of injected events
  Readings,       \* what a board may say of a departure
  Switch,         \* Switch[c]: what channel c's enabled flag may read as
  ClaimLimit,     \* jobs claimed by one statement (20)
  FetchMayFail,   \* may Navitia refuse a journey's board?
  MaxReports,     \* bound: alerts read by all processes together
  MaxFaults,      \* bound: crashes and failed queries
  MaxClears       \* bound: statistics purges

Process == Pollers \cup Injectors
External == Boards \cup Stubs
Channel == {"email", "teams"}
EventId == 1..MaxReports
JobId == 1..MaxReports

ASSUME ProcessAssumption == Workers \subseteq Pollers /\ Pollers \cap Injectors = {}
ASSUME ExternalAssumption == Boards \cap Stubs = {}
ASSUME ReadingsAssumption == Readings \subseteq Departure
ASSUME SwitchAssumption == Switch \in [Channel -> SUBSET BOOLEAN]
ASSUME BoundAssumption ==
  /\ ClaimLimit \in Nat \ {0} /\ MaxReports \in Nat
  /\ MaxFaults \in Nat /\ MaxClears \in Nat /\ FetchMayFail \in BOOLEAN

VARIABLES
  \* The database.
  events,        \* events[x]: the row of external_event_id x, or NoRow
  lastEvent,     \* event ids given out
  jobs,          \* jobs[j]: the row of job j
  lastJob,       \* job ids given out, in creation order
  deliveries,    \* the rows of alert_deliveries
  lastDelivery,  \* delivery ids given out
  \* What left the system (history).
  mails,         \* mails[j][c]: messages job j put on channel c
  \* The processes.
  pc, ret,       \* where p is; where it goes when its drain is over
  todo,          \* the watched departures p has not read yet
  work,          \* the alert p is persisting
  claimed,       \* the jobs p claimed and has not completed
  job, chan,     \* the job and the channel p is delivering
  outcome,       \* how p's last send, or its job, ended
  \* Bounds.
  reports, faults, clears

dbVars == <<events, lastEvent, jobs, lastJob, deliveries, lastDelivery>>
ctlVars == <<pc, ret>>
pollVars == <<todo, work>>
drainVars == <<claimed, job, chan, outcome>>
boundVars == <<reports, faults, clears>>
vars == <<dbVars, mails, ctlVars, pollVars, drainVars, boundVars>>

-----------------------------------------------------------------------------
(* Rows and local values.                                                  *)

NoRow == [id |-> 0, kind |-> "delay", severity |-> "warning", delay |-> NoDelay,
          nDelay |-> NoDelay, nSeverity |-> NoSeverity]
EventRow == [id : EventId \cup {0}, kind : Kind, severity : Severity, delay : Delay,
             nDelay : Delay, nSeverity : Severity \cup {NoSeverity}]
Stored(x) == events[x].id # 0
EventAlive(e) == \E x \in External : events[x].id = e

JobStatus == {"absent", "pending", "processing", "done", "failed", "deleted"}
NoJob == [event |-> 0, force |-> FALSE, status |-> "absent"]
JobRow == [event : EventId \cup {0}, force : BOOLEAN, status : JobStatus]
\* Mutant: the claim forgets the status filter.
Unfinished == {j \in JobId : jobs[j].status \in {"pending", "processing"}}
Pending == {j \in JobId : jobs[j].status = "pending"}

\* What the UPDATE statements make of a row.
Overwritten(r, a) == [id |-> r.id, kind |-> a.kind, severity |-> a.severity, delay |-> a.delay,
                      nDelay |-> r.nDelay, nSeverity |-> r.nSeverity]
Notified(r, a) == [id |-> r.id, kind |-> r.kind, severity |-> r.severity, delay |-> r.delay,
                   nDelay |-> a.delay, nSeverity |-> a.severity]
WithStatus(r, s) == [event |-> r.event, force |-> r.force, status |-> s]

\* event = 0: alert_deliveries.event_id IS NULL.
DeliveryRow == [id : Nat, event : EventId \cup {0}, channel : Channel,
                status : {"sent", "failed", "suppressed"}]
SentRow(e, c) == \E r \in deliveries : r.event = e /\ r.channel = c /\ r.status = "sent"

NoAlert == [kind |-> "delay", severity |-> "warning", delay |-> NoDelay]
NoWork == [ext |-> "none", alert |-> NoAlert, seen |-> NoRow, id |-> 0, force |-> FALSE]
Work == [ext : External \cup {"none"}, alert : Alert, seen : EventRow,
         id : EventId \cup {0}, force : BOOLEAN]
Persisted(w, id, force) ==
  [ext |-> w.ext, alert |-> w.alert, seen |-> w.seen, id |-> id, force |-> force]

\* Where a step leaves process p.
Goto(p, l) == pc' = [pc EXCEPT ![p] = l]

\* p returns to its loop, or to its client: its locals are gone.
Leave(p) ==
  /\ pc' = [pc EXCEPT ![p] = "idle"]
  /\ ret' = [ret EXCEPT ![p] = "idle"]
  /\ todo' = [todo EXCEPT ![p] = {}]
  /\ work' = [work EXCEPT ![p] = NoWork]
  /\ claimed' = [claimed EXCEPT ![p] = {}]
  /\ job' = [job EXCEPT ![p] = 0]
  /\ chan' = [chan EXCEPT ![p] = "email"]
  /\ outcome' = [outcome EXCEPT ![p] = "none"]

Init ==
  /\ events = [x \in External |-> NoRow]
  /\ lastEvent = 0
  /\ jobs = [j \in JobId |-> NoJob]
  /\ lastJob = 0
  /\ deliveries = {}
  /\ lastDelivery = 0
  /\ mails = [j \in JobId |-> [c \in Channel |-> 0]]
  /\ pc = [p \in Process |-> "idle"]
  /\ ret = [p \in Process |-> "idle"]
  /\ todo = [p \in Process |-> {}]
  /\ work = [p \in Process |-> NoWork]
  /\ claimed = [p \in Process |-> {}]
  /\ job = [p \in Process |-> 0]
  /\ chan = [p \in Process |-> "email"]
  /\ outcome = [p \in Process |-> "none"]
  /\ reports = 0 /\ faults = 0 /\ clears = 0

-----------------------------------------------------------------------------
(* The poll: NavitiaDeparturesAdapter.poll and the stub provider's.        *)

\* Journeys are open: their boards are read one after the other.
StartPoll(p) ==
  /\ p \in Pollers /\ pc[p] = "idle"
  /\ Goto(p, "board")
  /\ ret' = [ret EXCEPT ![p] = "finish"]
  /\ todo' = [todo EXCEPT ![p] = Boards]
  /\ UNCHANGED <<dbVars, mails, work, drainVars, boundVars>>

\* No journey is open, or the provider is the stub: nothing is read, the poll
\* returns, and a worker drains all the same.  (Without a token the poll throws and
\* no drain follows: the loop only waits.)
IdlePoll(p) ==
  /\ p \in Workers /\ pc[p] = "idle"
  /\ Goto(p, "claim")
  /\ UNCHANGED <<dbVars, mails, ret, pollVars, drainVars, boundVars>>

\* Navitia refuses the board of the next journey: the whole poll fails, without a
\* drain.
FetchFails(p) ==
  /\ FetchMayFail
  /\ pc[p] = "board"
  /\ Leave(p)
  /\ UNCHANGED <<dbVars, mails, boundVars>>

\* A departure that passes the filters, is watched and alerts: upsertEvent reads the
\* row it may already have.
AlertDeparture(p) ==
  /\ pc[p] = "board"
  /\ reports < MaxReports
  /\ reports' = reports + 1
  /\ \E x \in todo[p], d \in Readings :
       /\ IsAlert(d)
       /\ todo' = [todo EXCEPT ![p] = @ \ {x}]
       /\ work' = [work EXCEPT ![p] = [ext |-> x, alert |-> AlertOf(d), seen |-> events[x],
                                       id |-> 0, force |-> FALSE]]
  /\ Goto(p, "write")
  /\ UNCHANGED <<dbVars, mails, ret, drainVars, faults, clears>>

\* POST /admin/stub: a synthetic event under a fresh external id.
InjectStub(p) ==
  /\ p \in Injectors /\ pc[p] = "idle"
  /\ reports < MaxReports
  /\ reports' = reports + 1
  /\ \E x \in Stubs, d \in Readings :
       /\ ~Stored(x)
       /\ \A q \in Process : work[q].ext # x
       /\ work' = [work EXCEPT ![p] = [ext |-> x,
             alert |-> [AlertOf(d) EXCEPT !.severity =
                          IF d.delay >= CriticalDelayMinutes THEN "critical" ELSE "warning"],
             seen |-> NoRow, id |-> 0, force |-> FALSE]]
  /\ Goto(p, "write")
  /\ UNCHANGED <<dbVars, mails, ret, todo, drainVars, faults, clears>>

\* Mutant: the row is born notified.
InsertMarked(p) ==
  /\ pc[p] = "write" /\ work[p].seen.id = 0 /\ ~Stored(work[p].ext)
  /\ lastEvent' = lastEvent + 1
  /\ events' = [events EXCEPT ![work[p].ext] =
                  [id |-> lastEvent + 1, kind |-> work[p].alert.kind,
                   severity |-> work[p].alert.severity, delay |-> work[p].alert.delay,
                   nDelay |-> work[p].alert.delay, nSeverity |-> work[p].alert.severity]]
  /\ work' = [work EXCEPT ![p].id = lastEvent + 1]
  /\ Goto(p, "enqueue")
  /\ UNCHANGED <<jobs, lastJob, deliveries, lastDelivery, mails, ret, todo,
                 drainVars, boundVars>>

\* The SELECT found nothing: INSERT.  A new event always notifies.
InsertEvent(p) ==
  /\ pc[p] = "write" /\ work[p].seen.id = 0 /\ ~Stored(work[p].ext)
  /\ lastEvent < MaxReports
  /\ lastEvent' = lastEvent + 1
  /\ events' = [events EXCEPT ![work[p].ext] =
                  [id |-> lastEvent + 1, kind |-> work[p].alert.kind,
                   severity |-> work[p].alert.severity, delay |-> work[p].alert.delay,
                   nDelay |-> NoDelay, nSeverity |-> NoSeverity]]
  /\ work' = [work EXCEPT ![p] = Persisted(@, lastEvent + 1, FALSE)]
  /\ Goto(p, "enqueue")
  /\ UNCHANGED <<jobs, lastJob, deliveries, lastDelivery, mails, ret, todo,
                 drainVars, boundVars>>

\* Mutant: the update of the delay also overwrites what was last notified.
UpdateOverwrites(p) ==
  LET x == work[p].ext
      a == work[p].alert
  IN /\ pc[p] = "write" /\ work[p].seen.id # 0 /\ Stored(x)
     /\ events' = [events EXCEPT ![x].delay = a.delay, ![x].nDelay = a.delay]
     /\ work' = [work EXCEPT ![p] = Persisted(@, events[x].id, TRUE)]
     /\ Goto(p, IF ShouldNotifyDelayStep(FALSE, work[p].seen, a) THEN "enqueue" ELSE "board")
     /\ UNCHANGED <<lastEvent, jobs, lastJob, deliveries, lastDelivery, mails,
                    ret, todo, drainVars, boundVars>>

\* The SELECT found a row: UPDATE ... WHERE external_event_id.  What was notified
\* stays; the decision uses the row as it was selected.
UpdateEvent(p) ==
  LET x == work[p].ext
      a == work[p].alert
  IN /\ pc[p] = "write" /\ work[p].seen.id # 0 /\ Stored(x)
     /\ events' = [events EXCEPT ![x] = Overwritten(@, a)]
     /\ IF ShouldNotifyDelayStep(FALSE, work[p].seen, a)
        THEN /\ Goto(p, "enqueue")
             /\ work' = [work EXCEPT ![p] = Persisted(@, events[x].id, TRUE)]
        ELSE /\ Goto(p, "board")
             /\ work' = [work EXCEPT ![p] = NoWork]
     /\ UNCHANGED <<lastEvent, jobs, lastJob, deliveries, lastDelivery, mails,
                    ret, todo, drainVars, boundVars>>

\* The row appeared since the SELECT (external_event_id is UNIQUE) or is gone
\* (the UPDATE returns no row to map): the upsert throws.
UpsertThrows(p) ==
  /\ pc[p] = "write" /\ (work[p].seen.id = 0) = Stored(work[p].ext)
  /\ Leave(p)
  /\ UNCHANGED <<dbVars, mails, boundVars>>

\* Mutant: an escalation queues a job without force.
EnqueueUnforced(p) ==
  /\ pc[p] = "enqueue" /\ EventAlive(work[p].id)
  /\ lastJob < MaxReports
  /\ lastJob' = lastJob + 1
  /\ jobs' = [jobs EXCEPT ![lastJob + 1] =
                [event |-> work[p].id, force |-> FALSE, status |-> "pending"]]
  /\ Goto(p, "claim")
  /\ ret' = [ret EXCEPT ![p] = "mark"]
  /\ UNCHANGED <<events, lastEvent, deliveries, lastDelivery, mails, pollVars, drainVars,
                 boundVars>>

\* notifyForEvent.  A poller drains at once when the job is forced, an injector
\* always.
Enqueue(p) ==
  /\ pc[p] = "enqueue" /\ EventAlive(work[p].id)
  /\ lastJob < MaxReports
  /\ lastJob' = lastJob + 1
  /\ jobs' = [jobs EXCEPT ![lastJob + 1] =
                [event |-> work[p].id, force |-> work[p].force, status |-> "pending"]]
  /\ Goto(p, IF p \in Injectors \/ work[p].force THEN "claim" ELSE "mark")
  /\ ret' = [ret EXCEPT ![p] = IF p \in Injectors THEN "idle" ELSE "mark"]
  /\ work' = IF p \in Injectors THEN [work EXCEPT ![p] = NoWork] ELSE work
  /\ UNCHANGED <<events, lastEvent, deliveries, lastDelivery, mails, todo, drainVars,
                 boundVars>>

\* The event was deleted: notify_jobs.event_id refuses the job.
EnqueueThrows(p) ==
  /\ pc[p] = "enqueue" /\ ~EventAlive(work[p].id)
  /\ Leave(p)
  /\ UNCHANGED <<dbVars, mails, boundVars>>

\* markEventNotified, by event id: no row, no effect.
MarkNotified(p) ==
  /\ pc[p] = "mark"
  /\ events' = [x \in External |->
                  IF events[x].id = work[p].id
                  THEN Notified(events[x], work[p].alert) ELSE events[x]]
  /\ Goto(p, "board")
  /\ ret' = [ret EXCEPT ![p] = "finish"]
  /\ work' = [work EXCEPT ![p] = NoWork]
  /\ UNCHANGED <<lastEvent, jobs, lastJob, deliveries, lastDelivery, mails,
                 todo, drainVars, boundVars>>

\* Mutant: the poll returns without a drain.
EndBoardUndrained(p) ==
  /\ pc[p] = "board"
  /\ Leave(p)
  /\ UNCHANGED <<dbVars, mails, boundVars>>

\* The departures p has not picked are on time, under the threshold, of unknown
\* delay, outside the watch window, or filtered out: none alerts.  Drain.
EndBoard(p) ==
  /\ pc[p] = "board"
  /\ Goto(p, "claim")
  /\ todo' = [todo EXCEPT ![p] = {}]
  /\ UNCHANGED <<dbVars, mails, ret, work, drainVars, boundVars>>

-----------------------------------------------------------------------------
(* The drain: processNotifyJobs and deliverEvent.                          *)

\* Where a drain goes when no job of its batch is left: to the mark of the event it
\* was called for, to the end of the poll (a worker drains once more), or back.
AfterDrain(p) ==
  IF ret[p] = "mark" THEN "mark"
  ELSE IF ret[p] = "finish" /\ p \in Workers THEN "claim" ELSE "idle"

\* p's batch is over: AfterDrain, and a second drain of a worker is its last.
EndDrain(p) ==
  /\ Goto(p, AfterDrain(p))
  /\ ret' = [ret EXCEPT ![p] = IF @ = "mark" THEN "mark" ELSE "idle"]

\* Mutant: the statement forgets its LIMIT.
OldestUnlimited(S) == S

\* One statement takes the oldest pending jobs, all that are if there are fewer.
Oldest(S) == {j \in S : Cardinality({k \in S : k < j}) < ClaimLimit}

\* Rows locked by another claim are skipped, so it never waits and never shares one.
Claim(p) ==
  /\ pc[p] = "claim"
  /\ jobs' = [j \in JobId |-> IF j \in Oldest(Pending)
                              THEN WithStatus(jobs[j], "processing") ELSE jobs[j]]
  /\ claimed' = [claimed EXCEPT ![p] = Oldest(Pending)]
  /\ IF Pending = {} THEN EndDrain(p) ELSE Goto(p, "take") /\ UNCHANGED ret
  /\ UNCHANGED <<events, lastEvent, lastJob, deliveries, lastDelivery, mails,
                 pollVars, job, chan, outcome, boundVars>>

\* RETURNING promises no order.  The journey may no longer match when the job is
\* read: its settings, or the watch window, are the reader's own.
TakeJob(p) ==
  /\ pc[p] = "take"
  /\ \E j \in claimed[p], matched \in BOOLEAN :
       /\ job' = [job EXCEPT ![p] = j]
       /\ IF ~EventAlive(jobs[j].event)
          THEN Goto(p, "complete") /\ outcome' = [outcome EXCEPT ![p] = "failed"]
          ELSE /\ Goto(p, IF matched \/ jobs[j].force THEN "check" ELSE "suppress")
               /\ UNCHANGED outcome
  /\ UNCHANGED <<dbVars, mails, ret, pollVars, claimed, chan, boundVars>>

\* INSERT INTO alert_deliveries: refused once the event is deleted.
AddDelivery(e, c, s) ==
  /\ EventAlive(e)
  /\ lastDelivery' = lastDelivery + 1
  /\ deliveries' = deliveries \cup
       {[id |-> lastDelivery + 1, event |-> e, channel |-> c, status |-> s]}

\* No journey matches a first notification: one suppressed row and no message.
Suppress(p) ==
  /\ pc[p] = "suppress"
  /\ AddDelivery(jobs[job[p]].event, "email", "suppressed")
  /\ Goto(p, "complete")
  /\ outcome' = [outcome EXCEPT ![p] = "done"]
  /\ UNCHANGED <<events, lastEvent, jobs, lastJob, mails, ret, pollVars,
                 claimed, job, chan, boundVars>>

\* Mutant: the job ends with the answer of its last channel.
NextChannelKeepsAnswer(p) ==
  IF chan[p] = "email"
  THEN chan' = [chan EXCEPT ![p] = "teams"] /\ Goto(p, "check") /\ UNCHANGED outcome
  ELSE Goto(p, "complete") /\ UNCHANGED <<chan, outcome>>

\* Mutant: a failed mail ends the job.
NextChannelStops(p) ==
  IF chan[p] = "email" /\ outcome[p] # "failed"
  THEN /\ chan' = [chan EXCEPT ![p] = "teams"]
       /\ Goto(p, "check")
       /\ outcome' = [outcome EXCEPT ![p] = "none"]
  ELSE /\ UNCHANGED chan
       /\ Goto(p, "complete")
       /\ outcome' = [outcome EXCEPT ![p] = "done"]

\* Email is tried first, then Teams, then the job is done.
NextChannel(p) ==
  IF chan[p] = "email"
  THEN /\ chan' = [chan EXCEPT ![p] = "teams"]
       /\ Goto(p, "check")
       /\ outcome' = [outcome EXCEPT ![p] = "none"]
  ELSE /\ UNCHANGED chan
       /\ Goto(p, "complete")
       /\ outcome' = [outcome EXCEPT ![p] = "done"]

\* A first notification only leaves on a channel that has not sent it yet; a
\* channel that is switched off is passed over without a row.
CheckChannel(p) ==
  /\ pc[p] = "check"
  /\ \E on \in Switch[chan[p]] :
       IF on /\ (jobs[job[p]].force \/ ~SentRow(jobs[job[p]].event, chan[p]))
       THEN Goto(p, "send") /\ UNCHANGED <<chan, outcome>>
       ELSE NextChannel(p)
  /\ UNCHANGED <<dbVars, mails, ret, pollVars, claimed, job, boundVars>>

\* The notifier answers ok or not; a message may have left although it does not.
SendMessage(p) ==
  /\ pc[p] = "send"
  /\ \E left \in BOOLEAN, o \in {"sent", "failed"} :
       /\ o = "sent" => left
       /\ outcome' = [outcome EXCEPT ![p] = o]
       /\ mails' = IF left THEN [mails EXCEPT ![job[p]][chan[p]] = @ + 1] ELSE mails
  /\ Goto(p, "record")
  /\ UNCHANGED <<dbVars, ret, pollVars, claimed, job, chan, boundVars>>

\* Mutant: only what is known to have left is recorded.
RecordSentOnly(p) ==
  /\ pc[p] = "record"
  /\ IF outcome[p] = "sent" THEN AddDelivery(jobs[job[p]].event, chan[p], "sent")
     ELSE UNCHANGED <<deliveries, lastDelivery>>
  /\ NextChannel(p)
  /\ UNCHANGED <<events, lastEvent, jobs, lastJob, mails, ret, pollVars,
                 claimed, job, boundVars>>

\* Mutant: the row is written again when the next channel is passed over.
RecordTwice(p) ==
  /\ pc[p] = "record" /\ EventAlive(jobs[job[p]].event)
  /\ lastDelivery' = lastDelivery + 2
  /\ deliveries' = deliveries \cup
       {[id |-> lastDelivery + i, event |-> jobs[job[p]].event, channel |-> chan[p],
         status |-> outcome[p]] : i \in {1, 2}}
  /\ NextChannel(p)
  /\ UNCHANGED <<events, lastEvent, jobs, lastJob, mails, ret, pollVars,
                 claimed, job, boundVars>>

\* The channel's row, failed or sent: the other channel is tried in both cases.
RecordDelivery(p) ==
  /\ pc[p] = "record"
  /\ AddDelivery(jobs[job[p]].event, chan[p], outcome[p])
  /\ NextChannel(p)
  /\ UNCHANGED <<events, lastEvent, jobs, lastJob, mails, ret, pollVars,
                 claimed, job, boundVars>>

\* The event was deleted under the delivery: the row is refused and the job fails.
RecordRefused(p) ==
  /\ pc[p] \in {"suppress", "record"} /\ ~EventAlive(jobs[job[p]].event)
  /\ Goto(p, "complete")
  /\ outcome' = [outcome EXCEPT ![p] = "failed"]
  /\ UNCHANGED <<dbVars, mails, ret, pollVars, claimed, job, chan, boundVars>>

\* Mutant: a job that fails goes back to the queue.
CompleteOrRetry(p) ==
  /\ pc[p] = "complete"
  /\ jobs' = IF jobs[job[p]].status = "deleted" THEN jobs
             ELSE [jobs EXCEPT ![job[p]] =
                     WithStatus(@, IF outcome[p] = "failed" THEN "pending" ELSE "done")]
  /\ Leave(p)
  /\ UNCHANGED <<events, lastEvent, lastJob, deliveries, lastDelivery, mails, boundVars>>

\* completeNotifyJob, by id: a job deleted with its event has no row.
CompleteJob(p) ==
  /\ pc[p] = "complete"
  /\ jobs' = IF jobs[job[p]].status = "deleted" THEN jobs
             ELSE [jobs EXCEPT ![job[p]] = WithStatus(@, outcome[p])]
  /\ claimed' = [claimed EXCEPT ![p] = @ \ {job[p]}]
  /\ job' = [job EXCEPT ![p] = 0]
  /\ chan' = [chan EXCEPT ![p] = "email"]
  /\ outcome' = [outcome EXCEPT ![p] = "none"]
  /\ IF claimed[p] = {job[p]} THEN EndDrain(p) ELSE Goto(p, "take") /\ UNCHANGED ret
  /\ UNCHANGED <<events, lastEvent, lastJob, deliveries, lastDelivery, mails,
                 pollVars, boundVars>>

-----------------------------------------------------------------------------
(* Faults and the administrator.                                           *)

Crash(p) ==
  /\ pc[p] # "idle" /\ faults < MaxFaults
  /\ faults' = faults + 1
  /\ Leave(p)
  /\ UNCHANGED <<dbVars, mails, reports, clears>>

\* A query of the poll, of the claim or of a completion rejects.  The jobs that
\* were claimed and not yet completed stay behind.
QueryFails(p) ==
  /\ \/ pc[p] \in {"board", "write", "enqueue", "mark", "claim"}
     \/ pc[p] = "complete" /\ outcome[p] = "failed"
  /\ faults < MaxFaults
  /\ faults' = faults + 1
  /\ Leave(p)
  /\ UNCHANGED <<dbVars, mails, reports, clears>>

\* A query of deliverEvent rejects, or the completion of a delivered job: the job
\* is completed as failed and the drain goes on.
DeliveryQueryFails(p) ==
  /\ \/ pc[p] \in {"suppress", "check", "record"}
     \/ pc[p] = "complete" /\ outcome[p] = "done"
  /\ faults < MaxFaults
  /\ faults' = faults + 1
  /\ Goto(p, "complete")
  /\ outcome' = [outcome EXCEPT ![p] = "failed"]
  /\ UNCHANGED <<dbVars, mails, ret, pollVars, claimed, job, chan, reports, clears>>

SourceOf(x) == IF x \in Boards THEN "navitia" ELSE "stub"

\* POST /admin/stats/clear, one transaction: the events of the chosen sources, then
\* the deliveries of the deleted ids, then all deliveries if asked.  Deleting an
\* event deletes its jobs and unlinks its deliveries at once (schema.sql).
ClearStats(S, d) ==
  LET gone == {x \in External : Stored(x) /\ SourceOf(x) \in S}
      ids == {events[x].id : x \in gone}
      unlinked == {IF r.event \in ids THEN [r EXCEPT !.event = 0] ELSE r : r \in deliveries}
      linked == {r \in unlinked : r.event \in ids}
  IN /\ clears < MaxClears
     /\ clears' = clears + 1
     /\ events' = [x \in External |-> IF x \in gone THEN NoRow ELSE events[x]]
     /\ jobs' = [j \in JobId |->
                   IF jobs[j].event \in ids THEN WithStatus(jobs[j], "deleted")
                   ELSE jobs[j]]
     /\ deliveries' = IF d THEN {} ELSE unlinked \ linked
     /\ UNCHANGED <<lastEvent, lastJob, lastDelivery, mails, ctlVars, pollVars,
                    drainVars, reports, faults>>

-----------------------------------------------------------------------------
PollStep(p) ==
  \/ StartPoll(p) \/ IdlePoll(p) \/ FetchFails(p) \/ AlertDeparture(p)
  \/ InsertEvent(p) \/ UpdateEvent(p) \/ UpsertThrows(p)
  \/ Enqueue(p) \/ EnqueueThrows(p) \/ MarkNotified(p) \/ EndBoard(p)

DrainStep(p) ==
  \/ Claim(p) \/ TakeJob(p) \/ Suppress(p) \/ CheckChannel(p) \/ SendMessage(p)
  \/ RecordDelivery(p) \/ RecordRefused(p) \/ CompleteJob(p)

Fault(p) == Crash(p) \/ QueryFails(p) \/ DeliveryQueryFails(p)

Admin ==
  \/ \E p \in Process : InjectStub(p)
  \/ \E S \in SUBSET {"navitia", "stub"}, d \in BOOLEAN : (S # {} \/ d) /\ ClearStats(S, d)

Next == (\E p \in Process : PollStep(p) \/ DrainStep(p) \/ Fault(p)) \/ Admin

Spec == Init /\ [][Next]_vars

(***************************************************************************)
(* The worker and the API run as long as the machine does: each process    *)
(* that can take a step of its own eventually does.  Nobody is obliged to  *)
(* inject an event, to purge statistics, or to fail.                       *)
(***************************************************************************)
FairSpec == Spec /\ \A p \in Process : WF_vars(PollStep(p) \/ DrainStep(p))

-----------------------------------------------------------------------------
(* Properties.                                                             *)

PC == {"idle", "board", "write", "enqueue", "mark", "claim", "take", "suppress", "check",
       "send", "record", "complete"}

\* Every row and every local variable has its type.
TypeOK ==
  /\ events \in [External -> EventRow]
  /\ lastEvent \in 0..MaxReports
  /\ jobs \in [JobId -> JobRow]
  /\ lastJob \in 0..MaxReports
  /\ deliveries \subseteq DeliveryRow
  /\ lastDelivery \in Nat
  /\ mails \in [JobId -> [Channel -> Nat]]
  /\ pc \in [Process -> PC]
  /\ ret \in [Process -> {"idle", "mark", "finish"}]
  /\ todo \in [Process -> SUBSET Boards]
  /\ work \in [Process -> Work]
  /\ claimed \in [Process -> SUBSET JobId]
  /\ job \in [Process -> JobId \cup {0}]
  /\ chan \in [Process -> Channel]
  /\ outcome \in [Process -> {"none", "sent", "failed", "done"}]
  /\ reports \in Nat /\ faults \in Nat /\ clears \in Nat

\* A claimed job is in the hands of one process: two drains never work on the same
\* job, whatever crashed in between (claimNotifyJobs).
OneHolder == \A p, q \in Process : p # q => claimed[p] \cap claimed[q] = {}

\* A first notification leaves at most once per event and channel, across every
\* interleaving, crash and failed query: an event has one unforced job and that
\* job is delivered by one process once.
UnforcedMailOnce ==
  \A j, k \in JobId, c \in Channel :
    /\ ~jobs[j].force => mails[j][c] <= 1
    /\ (/\ jobs[j].event = jobs[k].event /\ ~jobs[j].force /\ ~jobs[k].force
        /\ mails[j][c] > 0 /\ mails[k][c] > 0) => j = k

\* An event is marked as notified only after its job is in the queue, so a crash
\* between the two can repeat a notification and never lose one (notifyForEvent
\* before markEventNotified).
MarkedHasJob ==
  \A x \in External :
    Stored(x) /\ events[x].nSeverity # NoSeverity
      => \E j \in JobId : jobs[j].event = events[x].id /\ jobs[j].status # "deleted"

\* A job that nobody will ever settle costs a fault, and a fault costs at most one batch:
\* the rows left in 'processing' without a holder are those a crash, or a rejected
\* query of the drain, took with it (claimNotifyJobs never looks at them again).  No
\* refused row, deleted event, failing board or failing upsert strands a job.
Stranded == {j \in JobId : jobs[j].status = "processing" /\ \A p \in Process : j \notin claimed[p]}
StrandedJobsAreFaults == Cardinality(Stranded) <= faults * ClaimLimit

\* With one ingest loop, the row an escalation is decided on is still the stored
\* row when its job is queued: the SELECT of the upsert, the decision and the job
\* are three statements, and nothing else writes what was notified.
DecisionFresh ==
  \A p \in Pollers :
    (/\ pc[p] = "enqueue" /\ work[p].force
     /\ events[work[p].ext].id = work[p].seen.id)
      => /\ events[work[p].ext].nDelay = work[p].seen.nDelay
         /\ events[work[p].ext].nSeverity = work[p].seen.nSeverity

\* The delivery history never tells of more than what left: the sent rows of an event on
\* a channel are at most the jobs of the event that put a message there, also when a job
\* crashed on its way or failed at the row.  (The other way, a message that left without
\* a row or with a failed one, is HistoryIsComplete's, and costs a fault.)
SentRows(e, c) == {r \in deliveries : r.event = e /\ r.channel = c /\ r.status = "sent"}
Senders(e, c) == {j \in JobId : jobs[j].event = e /\ mails[j][c] > 0}
HistoryIsReal ==
  \A e \in EventId, c \in Channel : Cardinality(SentRows(e, c)) <= Cardinality(Senders(e, c))

\* An event that a message of a settled first notification announced has a row for
\* it: while no query failed, nothing crashed and nothing was purged, the history is
\* complete.  A failed row is a row: the notifier may err on what left.
HistoryIsComplete ==
  faults = 0 /\ clears = 0 =>
    \A j \in JobId, c \in Channel :
      jobs[j].status \in {"done", "failed"} /\ mails[j][c] > 0
        => \E r \in deliveries : r.event = jobs[j].event /\ r.channel = c
                               /\ r.status \in {"sent", "failed"}

\* The channels are independent (openspec/specs/notifications/spec.md:36): a job that
\* is done has tried every channel that is switched on, whatever became of the other,
\* unless no journey matched its event or the channel had already announced it.
EveryChannelTried ==
  faults = 0 /\ clears = 0 =>
    \A j \in JobId, c \in Channel :
      jobs[j].status = "done" /\ Switch[c] = {TRUE}
        => \E r \in deliveries : r.event = jobs[j].event
                               /\ (r.channel = c \/ r.status = "suppressed")

\* The queue of this system keeps the promises of NotifyQueue.
Queue == INSTANCE NotifyQueue WITH status <- [j \in JobId |-> jobs[j].status]
QueuePromise == Queue!QueueSpec

\* A queued job is delivered, failed, or deleted with its event: the queue drains.
QueueDrains ==
  \A j \in JobId :
    jobs[j].status = "pending" ~> jobs[j].status \in {"done", "failed", "deleted"}

\* The purge of a source deletes its events and the deliveries linked to them
\* (openspec/specs/admin/spec.md:104).
LinkedDeliveriesCleared ==
  [][\A S \in SUBSET {"navitia", "stub"}, d \in BOOLEAN : ClearStats(S, d) =>
       \A r \in deliveries : (\E x \in External : Stored(x) /\ SourceOf(x) \in S
                                                 /\ events[x].id = r.event)
         => \A s \in deliveries' : s.id # r.id]_vars

=============================================================================
