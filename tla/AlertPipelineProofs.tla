------------------------- MODULE AlertPipelineProofs ------------------------
(***************************************************************************)
(* Theorems about AlertPipeline, for every set of processes, departures    *)
(* and readings, every claim limit and every bound: its types, the queue   *)
(* of jobs, and that the queue implements NotifyQueue.  What the events    *)
(* and the history rest on is in AlertEventsProofs.                        *)
(***************************************************************************)
EXTENDS AlertPipeline, TLAPS

Quiet == {"idle", "board", "write", "enqueue", "mark", "claim"}
Delivering == {"suppress", "check", "send", "record", "complete"}

(***************************************************************************)
(* The inductive invariant, in layers.                                     *)
(***************************************************************************)

\* Local to a process: it holds the job it delivers, and starts each with email.
DrainLocal(p) ==
  /\ job[p] # 0 => job[p] \in claimed[p]
  /\ pc[p] \in Delivering <=> job[p] # 0
  /\ pc[p] \notin Delivering => chan[p] = "email"
  /\ pc[p] \in Quiet => claimed[p] = {}

\* A claimed job is processing, or was deleted since; nothing of it has left before
\* its holder reaches the channel.
HeldJob(p, j) ==
  /\ jobs[j].status \in {"processing", "deleted"}
  /\ j # job[p] => \A c \in Channel : mails[j][c] = 0
  /\ j = job[p] =>
       /\ pc[p] = "suppress" => \A c \in Channel : mails[j][c] = 0
       /\ pc[p] \in {"check", "send"} => mails[j][chan[p]] = 0
       /\ pc[p] # "complete" /\ chan[p] = "email" => mails[j]["teams"] = 0

\* The ids of the queue's rows.
JobIdsInv ==
  \A j \in JobId : /\ jobs[j].status = "absent" <=> j > lastJob
                   /\ jobs[j].event = 0 <=> j > lastJob

\* A job leaves once per channel, and not before it is claimed.
MailOnce ==
  \A j \in JobId, c \in Channel :
    /\ mails[j][c] <= 1
    /\ jobs[j].status \in {"absent", "pending"} => mails[j][c] = 0

HoldInv ==
  /\ \A p \in Process : DrainLocal(p)
  /\ OneHolder
  /\ \A p \in Process : \A j \in claimed[p] : HeldJob(p, j)
  /\ JobIdsInv
  /\ MailOnce

-----------------------------------------------------------------------------
(* Type correctness.                                                       *)

USE DEF External, Process

\* What the type of a process's locals narrows to where they are used: the row it
\* upserts is a row of the table, the job it queues is for a stored event, and what it
\* writes into a delivery, or into its job, is how the send or the job ended.
LocalsOK(p) ==
  /\ pc[p] = "enqueue" => work[p].id \in EventId
  /\ pc[p] = "write" => work[p].ext \in External
  /\ pc[p] = "record" => outcome[p] \in {"sent", "failed"}
  /\ pc[p] = "complete" => outcome[p] \in {"done", "failed"}

TypeInv == TypeOK /\ \A p \in Process : LocalsOK(p)

\* A reading makes a well-formed alert.
LEMMA AlertOfType ==
  ASSUME NEW d \in Readings
  PROVE  /\ AlertOf(d) \in Alert
         /\ d.delay \in Delay
  BY ReadingsAssumption DEF AlertOf, Alert, Departure, Kind, Severity, Delay, NoDelay,
     CriticalDelayMinutes

\* The rows that the UPDATE statements write.
LEMMA RowTypes ==
  /\ \A r \in EventRow, a \in Alert : Overwritten(r, a) \in EventRow /\ Notified(r, a) \in EventRow
  /\ \A r \in JobRow, s \in JobStatus : WithStatus(r, s) \in JobRow
  /\ \A w \in Work, id \in EventId \cup {0}, b \in BOOLEAN : Persisted(w, id, b) \in Work
  /\ NoRow \in EventRow
  /\ NoWork \in Work
<1>1. \A r \in EventRow, a \in Alert : Overwritten(r, a) \in EventRow /\ Notified(r, a) \in EventRow
  BY DEF EventRow, Alert, Overwritten, Notified
<1>2. \A r \in JobRow, s \in JobStatus : WithStatus(r, s) \in JobRow
  BY DEF JobRow, WithStatus
<1>3. \A w \in Work, id \in EventId \cup {0}, b \in BOOLEAN : Persisted(w, id, b) \in Work
  BY DEF Work, Persisted
<1>4. NoRow \in EventRow /\ NoWork \in Work
  BY DEF NoWork, NoAlert, NoRow, Work, Alert, EventRow, Kind, Severity, Delay, NoDelay,
     NoSeverity, EventId
<1>. QED
  BY <1>1, <1>2, <1>3, <1>4

\* The locals of a process that returns to its loop are well formed.
LEMMA LeaveType ==
  ASSUME TypeOK, NEW p \in Process, Leave(p)
  PROVE  /\ pc' \in [Process -> PC]
         /\ ret' \in [Process -> {"idle", "mark", "finish"}]
         /\ todo' \in [Process -> SUBSET Boards]
         /\ work' \in [Process -> Work]
         /\ claimed' \in [Process -> SUBSET JobId]
         /\ job' \in [Process -> JobId \cup {0}]
         /\ chan' \in [Process -> Channel]
         /\ outcome' \in [Process -> {"none", "sent", "failed", "done"}]
  BY RowTypes DEF TypeOK, Leave, PC, Channel

\* A row that is added has its type.
LEMMA AddDeliveryType ==
  ASSUME TypeOK, NEW e \in EventId \cup {0}, NEW c \in Channel,
         NEW s \in {"sent", "failed", "suppressed"}, AddDelivery(e, c, s)
  PROVE  deliveries' \subseteq DeliveryRow /\ lastDelivery' \in Nat
  BY DEF TypeOK, AddDelivery, DeliveryRow

THEOREM TypeInit == Init => TypeInv
  BY BoundAssumption DEF Init, TypeInv, LocalsOK, TypeOK, NoRow, EventRow, NoJob, JobRow,
     NoWork, NoAlert, Work, Alert, Kind, Severity, Delay, NoDelay, NoSeverity, EventId,
     JobId, JobStatus, Channel, PC

\* Only the step that sends, or that ends a job, sets an outcome; every other step
\* leaves the process elsewhere.
LEMMA LocalsNext == TypeInv /\ [Next]_vars => \A p \in Process : LocalsOK(p)'
<1> SUFFICES ASSUME TypeInv, [Next]_vars, NEW q \in Process
             PROVE  LocalsOK(q)'
  OBVIOUS
<1> USE DEF TypeInv, LocalsOK, TypeOK, Goto, dbVars, ctlVars, pollVars, drainVars, boundVars
<1>1. CASE UNCHANGED vars
  BY <1>1 DEF vars
<1>2. ASSUME NEW p \in Process, PollStep(p)
      PROVE  LocalsOK(q)'
  <2>1. CASE AlertDeparture(p)
    <3>1. PICK x \in todo[p], d \in Readings : work' = [work EXCEPT ![p] = [ext |-> x, alert |-> AlertOf(d),
             seen |-> events[x], id |-> 0, force |-> FALSE]]
      BY <2>1 DEF AlertDeparture
    <3>. QED
      BY <2>1, <3>1 DEF AlertDeparture
  <2>2. CASE InsertEvent(p)
    <3>1. lastEvent + 1 \in EventId
      BY <2>2, BoundAssumption DEF InsertEvent, EventId
    <3>2. Persisted(work[p], lastEvent + 1, FALSE).id = lastEvent + 1
      BY DEF Persisted
    <3>. QED
      BY <2>2, <3>1, <3>2 DEF InsertEvent
  <2>3. CASE UpdateEvent(p)
    <3>1. work[p].ext \in External => events[work[p].ext].id \in EventId \cup {0}
      BY DEF EventRow
    <3>2. Persisted(work[p], events[work[p].ext].id, TRUE).id = events[work[p].ext].id
      BY DEF Persisted
    <3>3. work[p].ext \in External => events[work[p].ext].id # 0
      BY <2>3 DEF UpdateEvent, Stored
    <3>4. \/ pc'[p] = "enqueue" /\ work'[p] = Persisted(work[p], events[work[p].ext].id, TRUE)
          \/ pc'[p] = "board"
      BY <2>3 DEF UpdateEvent
    <3>5. q # p => pc'[q] = pc[q] /\ work'[q] = work[q] /\ outcome'[q] = outcome[q]
      BY <2>3 DEF UpdateEvent, drainVars
    <3>. QED
      BY <2>3, <3>1, <3>2, <3>3, <3>4, <3>5 DEF UpdateEvent, drainVars
  <2>4. CASE ~AlertDeparture(p) /\ ~InsertEvent(p) /\ ~UpdateEvent(p)
    <3>1. /\ pc'[p] \notin {"write", "enqueue", "record", "complete"}
          /\ q # p => pc'[q] = pc[q] /\ work'[q] = work[q] /\ outcome'[q] = outcome[q]
      BY <1>2, <2>4 DEF PollStep, StartPoll, IdlePoll, FetchFails,
         UpsertThrows, Enqueue, EnqueueThrows, MarkNotified, EndBoard, Leave
    <3>. QED
      BY <3>1
  <2>. QED
    BY <2>1, <2>2, <2>3, <2>4
<1>3. ASSUME NEW p \in Process, DrainStep(p)
      PROVE  LocalsOK(q)'
  <2>1. work' = work
    BY <1>3 DEF DrainStep, Claim, TakeJob, Suppress, CheckChannel, SendMessage,
       RecordDelivery, RecordRefused, CompleteJob
  <2>2. pc'[p] # "write" /\ pc'[p] # "enqueue"
    BY <1>3 DEF DrainStep, Claim, TakeJob, Suppress, CheckChannel, SendMessage,
       RecordDelivery, RecordRefused, CompleteJob, NextChannel, EndDrain, AfterDrain
  <2>3. /\ q # p => pc'[q] = pc[q]
        /\ q # p => outcome'[q] = outcome[q]
    <3>1. q # p => pc'[q] = pc[q]
      BY <1>3, SMTT(30) DEF DrainStep, Claim, TakeJob, Suppress, CheckChannel, SendMessage,
         RecordDelivery, RecordRefused, CompleteJob, NextChannel, EndDrain
    <3>2. q # p => outcome'[q] = outcome[q]
      BY <1>3 DEF DrainStep, Claim, TakeJob, Suppress, CheckChannel, SendMessage,
         RecordDelivery, RecordRefused, CompleteJob, NextChannel
    <3>. QED
      BY <3>1, <3>2
  <2>4. /\ pc'[p] = "record" => outcome'[p] \in {"sent", "failed"}
        /\ pc'[p] = "complete" => outcome'[p] \in {"done", "failed"}
    BY <1>3 DEF DrainStep, Claim, TakeJob, Suppress, CheckChannel, SendMessage,
       RecordDelivery, RecordRefused, CompleteJob, NextChannel, EndDrain, AfterDrain
  <2>. QED
    BY <2>1, <2>2, <2>3, <2>4
<1>4. ASSUME NEW p \in Process, Fault(p)
      PROVE  LocalsOK(q)'
  BY <1>4 DEF Fault, Crash, QueryFails, DeliveryQueryFails, Leave
<1>5. CASE Admin
  BY <1>5 DEF Admin, InjectStub, ClearStats
<1>. QED
  BY <1>1, <1>2, <1>3, <1>4, <1>5 DEF Next

\* Every step of every process, and of the administrator, keeps the types.
LEMMA TypeNext == TypeInv /\ [Next]_vars => TypeOK'
<1> SUFFICES ASSUME TypeOK, \A q \in Process : LocalsOK(q), [Next]_vars
             PROVE  TypeOK'
  BY DEF TypeInv
<1> USE DEF TypeOK, Goto, dbVars, ctlVars, pollVars, drainVars, boundVars
<1>1. CASE UNCHANGED vars
  BY <1>1 DEF vars
<1>2. ASSUME NEW p \in Process, PollStep(p)
      PROVE  TypeOK'
  <2>0. /\ work[p] \in Work
        /\ work[p].ext \in External \cup {"none"}
        /\ work[p].alert \in Alert
    BY DEF Work
  <2>1. CASE StartPoll(p)
    BY <2>1 DEF StartPoll, PC
  <2>2. CASE IdlePoll(p)
    BY <2>2 DEF IdlePoll, PC
  <2>3. CASE FetchFails(p)
    BY <2>3, LeaveType DEF FetchFails
  <2>4. CASE AlertDeparture(p)
    <3>1. PICK x \in todo[p], d \in Readings :
             /\ todo' = [todo EXCEPT ![p] = @ \ {x}]
             /\ work' = [work EXCEPT ![p] = [ext |-> x, alert |-> AlertOf(d),
                           seen |-> events[x], id |-> 0, force |-> FALSE]]
      BY <2>4 DEF AlertDeparture
    <3>2. work' \in [Process -> Work]
      BY <3>1, AlertOfType DEF Work
    <3>. QED
      BY <2>4, <3>1, <3>2 DEF AlertDeparture, PC
  <2>5. CASE InsertEvent(p)
    <3>1. lastEvent + 1 \in EventId
      BY <2>5, BoundAssumption DEF InsertEvent, EventId
    <3>2. events' \in [External -> EventRow]
      BY <2>5, <2>0, <3>1 DEF InsertEvent, EventRow, Alert, NoSeverity, Delay
    <3>3. work' \in [Process -> Work]
      BY <2>5, <2>0, <3>1, RowTypes DEF InsertEvent
    <3>4. lastEvent' \in 0..MaxReports
      BY <2>5, <3>1 DEF InsertEvent, EventId
    <3>. QED
      BY <2>5, <3>2, <3>3, <3>4 DEF InsertEvent, PC
  <2>6. CASE UpdateEvent(p)
    <3>1. ASSUME NEW x \in External
          PROVE  events[x] \in EventRow /\ events[x].id \in EventId \cup {0}
      BY DEF EventRow
    <3>2. events' \in [External -> EventRow]
      BY <2>6, <2>0, <3>1, RowTypes DEF UpdateEvent
    <3>3. work[p].ext \in External
      BY <2>6 DEF UpdateEvent, LocalsOK
    <3>4. pc' \in [Process -> PC]
      <4>1. pc' = [pc EXCEPT ![p] = "enqueue"] \/ pc' = [pc EXCEPT ![p] = "board"]
        BY <2>6 DEF UpdateEvent
      <4>. QED
        BY <4>1 DEF PC
    <3>5. work' \in [Process -> Work]
      <4>1. \/ work' = [work EXCEPT ![p] = NoWork]
            \/ work' = [work EXCEPT ![p] = Persisted(work[p], events[work[p].ext].id, TRUE)]
        BY <2>6 DEF UpdateEvent
      <4>2. NoWork \in Work /\ Persisted(work[p], events[work[p].ext].id, TRUE) \in Work
        BY <2>0, <3>1, <3>3, RowTypes
      <4>. QED
        BY <4>1, <4>2
    <3>. QED
      BY <2>6, <3>2, <3>4, <3>5 DEF UpdateEvent
  <2>7. CASE UpsertThrows(p)
    BY <2>7, LeaveType DEF UpsertThrows
  <2>8. CASE Enqueue(p)
    <3>1. lastJob + 1 \in JobId
      BY <2>8, BoundAssumption DEF Enqueue, JobId
    <3>2. jobs' \in [JobId -> JobRow]
      BY <2>8, <2>0, <3>1 DEF Enqueue, JobRow, JobStatus, Work
    <3>. QED
      BY <2>8, <3>1, <3>2, RowTypes DEF Enqueue, PC, JobId
  <2>9. CASE EnqueueThrows(p)
    BY <2>9, LeaveType DEF EnqueueThrows
  <2>10. CASE MarkNotified(p)
    BY <2>10, <2>0, RowTypes DEF MarkNotified, PC
  <2>11. CASE EndBoard(p)
    BY <2>11 DEF EndBoard, PC
  <2>. QED
    BY <1>2, <2>1, <2>2, <2>3, <2>4, <2>5, <2>6, <2>7, <2>8, <2>9, <2>10, <2>11 DEF PollStep
<1>3. ASSUME NEW p \in Process, DrainStep(p)
      PROVE  TypeOK'
  <2>0. /\ AfterDrain(p) \in PC
        /\ chan[p] \in Channel
        /\ job[p] \in JobId => jobs[job[p]].event \in EventId \cup {0}
    BY DEF AfterDrain, PC, JobRow
  <2>1. CASE Claim(p)
    <3>1. jobs' \in [JobId -> JobRow]
      BY <2>1, RowTypes DEF Claim, JobStatus
    <3>2. Oldest(Pending) \subseteq JobId
      BY DEF Oldest, Pending
    <3>3. claimed' \in [Process -> SUBSET JobId]
      BY <2>1, <3>2 DEF Claim
    <3>4. /\ \E l \in PC : pc' = [pc EXCEPT ![p] = l]
          /\ \E l \in {"idle", "mark"} : ret' = ret \/ ret' = [ret EXCEPT ![p] = l]
      BY <2>1, <2>0 DEF Claim, EndDrain, PC
    <3>. QED
      BY <2>1, <3>1, <3>3, <3>4 DEF Claim
  <2>2. CASE TakeJob(p)
    <3>1. PICK j \in claimed[p] : job' = [job EXCEPT ![p] = j]
      BY <2>2 DEF TakeJob
    <3>2. \E l \in {"complete", "check", "suppress"} : pc' = [pc EXCEPT ![p] = l]
      BY <2>2 DEF TakeJob
    <3>3. outcome' = outcome \/ outcome' = [outcome EXCEPT ![p] = "failed"]
      BY <2>2 DEF TakeJob
    <3>. QED
      BY <2>2, <3>1, <3>2, <3>3 DEF TakeJob, PC
  <2>3. CASE Suppress(p)
    <3>1. PICK e : AddDelivery(e, "email", "suppressed")
      BY <2>3 DEF Suppress
    <3>2. e \in EventId \cup {0}
      BY <3>1 DEF AddDelivery, EventAlive, EventRow
    <3>. QED
      BY <2>3, <3>1, <3>2, AddDeliveryType DEF Suppress, PC, Channel
  <2>4. CASE CheckChannel(p)
    BY <2>4 DEF CheckChannel, NextChannel, PC, Channel
  <2>5. CASE SendMessage(p)
    <3>1. mails' = mails \/ mails' = [mails EXCEPT ![job[p]][chan[p]] = @ + 1]
      BY <2>5 DEF SendMessage
    <3>2. mails' \in [JobId -> [Channel -> Nat]]
      <4>1. CASE job[p] \in JobId
        <5>1. [mails[job[p]] EXCEPT ![chan[p]] = @ + 1] \in [Channel -> Nat]
          BY <2>0, <4>1
        <5>. QED
          BY <3>1, <5>1, Zenon
      <4>2. CASE job[p] \notin JobId
        BY <3>1, <4>2, Zenon
      <4>. QED
        BY <4>1, <4>2
    <3>3. outcome' \in [Process -> {"none", "sent", "failed", "done"}]
      BY <2>5 DEF SendMessage
    <3>. QED
      BY <2>5, <3>2, <3>3 DEF SendMessage, PC
  <2>6. CASE RecordDelivery(p)
    <3>1. PICK e : AddDelivery(e, chan[p], outcome[p])
      BY <2>6 DEF RecordDelivery
    <3>2. e \in EventId \cup {0}
      BY <3>1 DEF AddDelivery, EventAlive, EventRow
    <3>3. outcome[p] \in {"sent", "failed"}
      BY <2>6 DEF RecordDelivery, LocalsOK
    <3>4. deliveries' \subseteq DeliveryRow /\ lastDelivery' \in Nat
      BY <2>0, <3>1, <3>2, <3>3, AddDeliveryType
    <3>. QED
      BY <2>6, <3>4 DEF RecordDelivery, NextChannel, PC, Channel
  <2>7. CASE RecordRefused(p)
    BY <2>7 DEF RecordRefused, PC
  <2>8. CASE CompleteJob(p)
    <3>1. outcome[p] \in JobStatus
      BY <2>8 DEF CompleteJob, LocalsOK, JobStatus
    <3>2. jobs' \in [JobId -> JobRow]
      BY <2>8, <3>1, RowTypes DEF CompleteJob
    <3>. QED
      BY <2>8, <2>0, <3>2 DEF CompleteJob, EndDrain, PC, Channel
  <2>. QED
    BY <1>3, <2>1, <2>2, <2>3, <2>4, <2>5, <2>6, <2>7, <2>8 DEF DrainStep
<1>4. ASSUME NEW p \in Process, Fault(p)
      PROVE  TypeOK'
  <2>1. CASE Crash(p)
    BY <2>1, LeaveType DEF Crash
  <2>2. CASE QueryFails(p)
    BY <2>2, LeaveType DEF QueryFails
  <2>3. CASE DeliveryQueryFails(p)
    BY <2>3 DEF DeliveryQueryFails, PC
  <2>. QED
    BY <1>4, <2>1, <2>2, <2>3 DEF Fault
<1>5. ASSUME NEW p \in Process, InjectStub(p)
      PROVE  TypeOK'
  <2>1. PICK x \in Stubs, d \in Readings : work' = [work EXCEPT ![p] = [ext |-> x,
             alert |-> [AlertOf(d) EXCEPT !.severity =
                          IF d.delay >= CriticalDelayMinutes THEN "critical" ELSE "warning"],
             seen |-> NoRow, id |-> 0, force |-> FALSE]]
    BY <1>5 DEF InjectStub
  <2>2. [AlertOf(d) EXCEPT !.severity = IF d.delay >= CriticalDelayMinutes
                                        THEN "critical" ELSE "warning"] \in Alert
    BY AlertOfType DEF Alert, Severity
  <2>3. work' \in [Process -> Work]
    BY <2>1, <2>2, RowTypes DEF Work
  <2>. QED
    BY <1>5, <2>3 DEF InjectStub, PC
<1>6. ASSUME NEW S \in SUBSET {"navitia", "stub"}, NEW d \in BOOLEAN, ClearStats(S, d)
      PROVE  TypeOK'
  <2> DEFINE gone == {x \in External : Stored(x) /\ SourceOf(x) \in S}
             ids == {events[x].id : x \in gone}
             Unlink(r) == IF r.event \in ids THEN [r EXCEPT !.event = 0] ELSE r
             unlinked == {Unlink(r) : r \in deliveries}
  <2>1. events' \in [External -> EventRow]
    <3>1. events' = [x \in External |-> IF x \in gone THEN NoRow ELSE events[x]]
      BY <1>6 DEF ClearStats
    <3>. QED
      BY <3>1, RowTypes
  <2>2. jobs' \in [JobId -> JobRow]
    <3>1. jobs' = [j \in JobId |-> IF jobs[j].event \in ids
                                   THEN WithStatus(jobs[j], "deleted") ELSE jobs[j]]
      BY <1>6 DEF ClearStats
    <3> HIDE DEF ids
    <3>. QED
      BY <3>1, RowTypes DEF JobStatus
  <2>3. deliveries' \subseteq DeliveryRow
    <3>1. ASSUME NEW r \in DeliveryRow
          PROVE  Unlink(r) \in DeliveryRow
      <4> HIDE DEF ids
      <4>. QED
        BY DEF DeliveryRow
    <3>2. deliveries' \subseteq unlinked
      BY <1>6 DEF ClearStats
    <3> HIDE DEF Unlink
    <3>. QED
      BY <3>1, <3>2
  <2>. QED
    BY <1>6, <2>1, <2>2, <2>3 DEF ClearStats
<1>. QED
  BY <1>1, <1>2, <1>3, <1>4, <1>5, <1>6 DEF Next, Admin

\* Every row and every local variable has its type, in every reachable state.
THEOREM TypeCorrect == Spec => []TypeOK
<1>1. TypeInv /\ [Next]_vars => TypeInv'
  BY TypeNext, LocalsNext DEF TypeInv
<1>2. TypeInv => TypeOK
  BY DEF TypeInv
<1>. QED
  BY TypeInit, <1>1, <1>2, PTL DEF Spec

-----------------------------------------------------------------------------
(* The queue: one holder per job, one message per channel.                 *)

LEMMA HoldInit == Init => HoldInv
  BY BoundAssumption DEF Init, HoldInv, DrainLocal, OneHolder, JobIdsInv, MailOnce, NoJob,
     Quiet, Delivering, JobId

\* A step of a poll: p neither delivers before it nor after it.
LEMMA HoldQuiet ==
  ASSUME TypeOK, HoldInv, NEW p \in Process,
         UNCHANGED <<jobs, lastJob, mails, claimed, job, chan>>,
         pc[p] \in Quiet, pc'[p] \in Quiet,
         \A q \in Process : q # p => pc'[q] = pc[q]
  PROVE  HoldInv'
<1> USE DEF HoldInv, TypeOK
<1>1. ASSUME NEW q \in Process
      PROVE  DrainLocal(q)'
  BY DEF DrainLocal, Quiet, Delivering
<1>2. OneHolder'
  BY DEF OneHolder
<1>3. ASSUME NEW q \in Process, NEW j \in claimed'[q]
      PROVE  HeldJob(q, j)'
  <2>1. q # p
    BY DEF DrainLocal
  <2>. QED
    BY <2>1 DEF HeldJob
<1>4. JobIdsInv' /\ MailOnce'
  BY DEF JobIdsInv, MailOnce
<1>. QED
  BY <1>1, <1>2, <1>3, <1>4

\* A process returns to its loop, wherever it was.
LEMMA HoldLeave ==
  ASSUME TypeOK, HoldInv, NEW p \in Process, Leave(p), UNCHANGED <<jobs, lastJob, mails>>
  PROVE  HoldInv'
<1> USE DEF HoldInv, TypeOK, Leave
<1>1. ASSUME NEW q \in Process
      PROVE  DrainLocal(q)'
  BY DEF DrainLocal, Quiet, Delivering
<1>2. OneHolder'
  BY DEF OneHolder
<1>3. ASSUME NEW q \in Process, NEW j \in claimed'[q]
      PROVE  HeldJob(q, j)'
  <2>1. q # p
    OBVIOUS
  <2>. QED
    BY <2>1 DEF HeldJob
<1>4. JobIdsInv' /\ MailOnce'
  BY DEF JobIdsInv, MailOnce
<1>. QED
  BY <1>1, <1>2, <1>3, <1>4

\* A job is queued: its id is new, so nobody holds it and nothing of it has left.
LEMMA HoldEnqueue ==
  ASSUME TypeInv, HoldInv, NEW p \in Process, Enqueue(p)
  PROVE  HoldInv'
<1> USE DEF HoldInv, TypeInv, TypeOK, Goto, drainVars
<1> DEFINE new == lastJob + 1
           row == [event |-> work[p].id, force |-> work[p].force, status |-> "pending"]
<1>1. /\ new \in JobId /\ jobs[new].status = "absent"
      /\ jobs' = [jobs EXCEPT ![new] = row] /\ lastJob' = new
      /\ row.event \in EventId /\ row.status = "pending"
  BY BoundAssumption DEF Enqueue, JobIdsInv, JobId, LocalsOK
<1>2. /\ UNCHANGED <<mails, claimed, job, chan>>
      /\ pc[p] \in Quiet /\ pc'[p] \in Quiet
      /\ \A q \in Process : q # p => pc'[q] = pc[q]
  BY DEF Enqueue, Quiet
<1> HIDE DEF row, new
<1>3. ASSUME NEW q \in Process
      PROVE  DrainLocal(q)'
  BY <1>2 DEF DrainLocal, Quiet, Delivering
<1>4. OneHolder'
  BY <1>2 DEF OneHolder
<1>5. ASSUME NEW q \in Process, NEW j \in claimed'[q]
      PROVE  HeldJob(q, j)'
  <2>1. q # p /\ j \in claimed[q]
    BY <1>2 DEF DrainLocal
  <2>2. j # new
    BY <1>1, <2>1 DEF HeldJob
  <2>3. jobs'[j] = jobs[j]
    BY <1>1, <2>1, <2>2
  <2>. QED
    BY <1>2, <2>1, <2>3 DEF HeldJob
<1>6. JobIdsInv'
  <2> SUFFICES ASSUME NEW j \in JobId
               PROVE  /\ jobs'[j].status = "absent" <=> j > lastJob'
                      /\ jobs'[j].event = 0 <=> j > lastJob'
    BY DEF JobIdsInv
  <2>1. CASE j = new
    BY <1>1, <2>1 DEF EventId, JobId
  <2>2. CASE j # new
    BY <1>1, <2>2 DEF JobIdsInv, JobId, new
  <2>. QED
    BY <2>1, <2>2
<1>7. MailOnce'
  <2> SUFFICES ASSUME NEW j \in JobId, NEW c \in Channel
               PROVE  /\ mails'[j][c] <= 1
                      /\ jobs'[j].status \in {"absent", "pending"} => mails'[j][c] = 0
    BY DEF MailOnce
  <2>1. CASE j = new
    BY <1>1, <1>2, <2>1 DEF MailOnce
  <2>2. CASE j # new
    BY <1>1, <1>2, <2>2 DEF MailOnce
  <2>. QED
    BY <2>1, <2>2
<1>. QED
  BY <1>3, <1>4, <1>5, <1>6, <1>7

\* Fields of a row whose status is written.
LEMMA WithStatusFields ==
  ASSUME NEW r, NEW s
  PROVE  /\ WithStatus(r, s).status = s
         /\ WithStatus(r, s).event = r.event
         /\ WithStatus(r, s).force = r.force
  BY DEF WithStatus

\* What is claimed was pending: nobody holds it, and nothing of it has left.
LEMMA HoldClaim ==
  ASSUME TypeInv, HoldInv, NEW p \in Process, Claim(p)
  PROVE  HoldInv'
<1> USE DEF HoldInv, TypeInv, TypeOK, Goto
<1> DEFINE batch == Oldest(Pending)
<1>1. /\ \A j \in batch : j \in JobId /\ jobs[j].status = "pending"
      /\ batch = {} \/ Pending # {}
  BY DEF Oldest, Pending
<1>2. /\ claimed' = [claimed EXCEPT ![p] = batch]
      /\ jobs' = [j \in JobId |-> IF j \in batch THEN WithStatus(jobs[j], "processing")
                                  ELSE jobs[j]]
      /\ UNCHANGED <<lastJob, mails, job, chan>>
      /\ pc[p] = "claim"
      /\ \A q \in Process : q # p => pc'[q] = pc[q]
      /\ IF Pending = {} THEN pc'[p] \in Quiet ELSE pc'[p] = "take"
  BY DEF Claim, EndDrain, AfterDrain, Quiet
<1> HIDE DEF batch
<1>3. ASSUME NEW q \in Process
      PROVE  DrainLocal(q)'
  BY <1>1, <1>2 DEF DrainLocal, Quiet, Delivering
<1>4. \A q \in Process : q # p => claimed[q] \cap batch = {}
  BY <1>1 DEF HeldJob
<1>5. OneHolder'
  BY <1>2, <1>4 DEF OneHolder
<1>6. ASSUME NEW q \in Process, NEW j \in claimed'[q]
      PROVE  HeldJob(q, j)'
  <2>1. CASE q = p
    <3>1. j \in batch /\ job[p] = 0 /\ jobs'[j].status = "processing"
      BY <1>1, <1>2, <2>1, WithStatusFields DEF DrainLocal, Delivering
    <3>2. \A c \in Channel : mails[j][c] = 0
      BY <1>1, <3>1 DEF MailOnce
    <3>. QED
      BY <1>1, <1>2, <2>1, <3>1, <3>2 DEF HeldJob, JobId
  <2>2. CASE q # p
    <3>1. j \in claimed[q] /\ j \notin batch /\ jobs'[j] = jobs[j]
      BY <1>2, <1>4, <2>2
    <3>. QED
      BY <1>2, <2>2, <3>1 DEF HeldJob
  <2>. QED
    BY <2>1, <2>2
<1>7. JobIdsInv' /\ MailOnce'
  <2>1. ASSUME NEW j \in JobId
        PROVE  /\ jobs'[j].event = jobs[j].event
               /\ j \in batch => jobs'[j].status = "processing"
               /\ j \notin batch => jobs'[j].status = jobs[j].status
    BY <1>2, WithStatusFields
  <2>. QED
    BY <1>1, <1>2, <2>1 DEF JobIdsInv, MailOnce
<1>. QED
  BY <1>3, <1>5, <1>6, <1>7

\* The next job of the batch: nothing of it has left.
LEMMA HoldTake ==
  ASSUME TypeInv, HoldInv, NEW p \in Process, TakeJob(p)
  PROVE  HoldInv'
<1> USE DEF HoldInv, TypeInv, TypeOK, Goto
<1>1. PICK j \in claimed[p] : job' = [job EXCEPT ![p] = j]
  BY DEF TakeJob
<1>2. /\ UNCHANGED <<jobs, lastJob, mails, claimed, chan>>
      /\ pc[p] = "take"
      /\ pc'[p] \in {"complete", "check", "suppress"}
      /\ \A q \in Process : q # p => pc'[q] = pc[q] /\ job'[q] = job[q]
      /\ j \in JobId
  <2>1. \E l \in {"complete", "check", "suppress"} : pc' = [pc EXCEPT ![p] = l]
    BY DEF TakeJob
  <2>2. pc[p] = "take" /\ UNCHANGED <<jobs, lastJob, mails, claimed, chan>>
    BY DEF TakeJob, dbVars
  <2>. QED
    BY <1>1, <2>1, <2>2
<1>3. job[p] = 0 /\ chan[p] = "email"
  BY <1>2 DEF DrainLocal, Delivering
<1>4. ASSUME NEW q \in Process
      PROVE  DrainLocal(q)'
  BY <1>1, <1>2, <1>3 DEF DrainLocal, Quiet, Delivering, JobId
<1>5. OneHolder'
  BY <1>2 DEF OneHolder
<1>6. ASSUME NEW q \in Process, NEW k \in claimed'[q]
      PROVE  HeldJob(q, k)'
  <2>1. CASE q = p
    <3>1. k \in JobId /\ k \in claimed[p]
      BY <1>2, <2>1
    <3>2. /\ \A c \in Channel : mails[k][c] = 0
          /\ jobs[k].status \in {"processing", "deleted"}
      BY <1>3, <3>1 DEF HeldJob, JobId
    <3>. QED
      BY <1>2, <1>3, <2>1, <3>2 DEF HeldJob, Channel
  <2>2. CASE q # p
    BY <1>2, <2>2 DEF HeldJob
  <2>. QED
    BY <2>1, <2>2
<1>7. JobIdsInv' /\ MailOnce'
  BY <1>2 DEF JobIdsInv, MailOnce
<1>. QED
  BY <1>4, <1>5, <1>6, <1>7

\* A step of a delivery: p goes on with the job it holds, and what p says of that
\* job stays true.
LEMMA HoldDeliver ==
  ASSUME TypeOK, HoldInv, NEW p \in Process,
         UNCHANGED <<jobs, lastJob, claimed, job>>,
         pc[p] \in Delivering, pc'[p] \in Delivering,
         \A q \in Process : q # p => pc'[q] = pc[q] /\ chan'[q] = chan[q],
         \A j \in JobId : j # job[p] => mails'[j] = mails[j],
         \A c \in Channel : mails'[job[p]][c] <= 1,
         HeldJob(p, job[p])'
  PROVE  HoldInv'
<1> USE DEF HoldInv, TypeOK
<1>1. job[p] \in claimed[p] /\ job[p] \in JobId
  BY DEF DrainLocal
<1>2. ASSUME NEW q \in Process
      PROVE  DrainLocal(q)'
  BY DEF DrainLocal, Quiet, Delivering
<1>3. OneHolder'
  BY DEF OneHolder
<1>4. ASSUME NEW q \in Process, NEW j \in claimed'[q]
      PROVE  HeldJob(q, j)'
  <2>1. CASE q = p /\ j = job[p]
    BY <2>1
  <2>2. CASE q = p /\ j # job[p]
    <3>1. /\ jobs[j].status \in {"processing", "deleted"}
          /\ \A c \in Channel : mails[j][c] = 0
      BY <2>2 DEF HeldJob
    <3>. QED
      BY <2>2, <3>1 DEF HeldJob
  <2>3. CASE q # p
    <3>1. j # job[p] /\ j \in JobId
      BY <1>1, <2>3 DEF OneHolder
    <3>. QED
      BY <2>3, <3>1 DEF HeldJob
  <2>. QED
    BY <2>1, <2>2, <2>3
<1>5. JobIdsInv'
  BY DEF JobIdsInv
<1>6. MailOnce'
  <2>1. jobs[job[p]].status \in {"processing", "deleted"}
    BY <1>1 DEF HeldJob
  <2>. QED
    BY <2>1 DEF MailOnce
<1>. QED
  BY <1>2, <1>3, <1>4, <1>5, <1>6

\* A delivery step that sends nothing: the suppressed row, the refusal, the failed
\* query and the choice of the next channel.
LEMMA HoldNoMail ==
  ASSUME TypeInv, HoldInv, NEW p \in Process,
         \/ Suppress(p) \/ CheckChannel(p) \/ RecordDelivery(p) \/ RecordRefused(p)
         \/ DeliveryQueryFails(p)
  PROVE  HoldInv'
<1> USE DEF TypeInv, TypeOK, Goto
<1>1. /\ UNCHANGED <<jobs, lastJob, mails, claimed, job>>
      /\ pc[p] \in Delivering /\ pc'[p] \in Delivering
      /\ \A q \in Process : q # p => pc'[q] = pc[q] /\ chan'[q] = chan[q]
  BY DEF Suppress, CheckChannel, RecordDelivery, RecordRefused, DeliveryQueryFails,
     NextChannel, Delivering, dbVars
<1>2. /\ job[p] \in claimed[p] /\ job[p] \in JobId
      /\ HeldJob(p, job[p])
  BY <1>1 DEF HoldInv, DrainLocal
<1>3. \/ pc'[p] = "complete"
      \/ pc'[p] = "send" /\ pc[p] = "check" /\ chan' = chan
      \/ pc'[p] = "check" /\ pc[p] \in {"check", "record"} /\ chan[p] = "email" /\ chan'[p] = "teams"
  BY DEF Suppress, CheckChannel, RecordDelivery, RecordRefused, DeliveryQueryFails, NextChannel
<1>4. HeldJob(p, job[p])'
  BY <1>1, <1>2, <1>3 DEF HeldJob
<1>5. \A c \in Channel : mails'[job[p]][c] <= 1
  BY <1>1, <1>2 DEF HoldInv, MailOnce
<1>. QED
  BY <1>1, <1>4, <1>5, HoldDeliver

\* The message of the channel leaves: none had, and its holder is alone.
LEMMA HoldSend ==
  ASSUME TypeInv, HoldInv, NEW p \in Process, SendMessage(p)
  PROVE  HoldInv'
<1> USE DEF TypeInv, TypeOK, Goto
<1>1. /\ UNCHANGED <<jobs, lastJob, claimed, job, chan>>
      /\ pc[p] = "send" /\ pc'[p] = "record"
      /\ \A q \in Process : q # p => pc'[q] = pc[q]
  BY DEF SendMessage, dbVars
<1>2. /\ job[p] \in claimed[p] /\ job[p] \in JobId /\ chan[p] \in Channel
      /\ HeldJob(p, job[p])
      /\ \A c \in Channel : mails[job[p]][c] <= 1
  BY <1>1 DEF HoldInv, DrainLocal, Delivering, MailOnce
<1>3. mails[job[p]][chan[p]] = 0
  BY <1>1, <1>2 DEF HeldJob
<1>4. \/ mails' = mails
      \/ mails' = [mails EXCEPT ![job[p]] = [mails[job[p]] EXCEPT ![chan[p]] = @ + 1]]
  <2>1. mails' = mails \/ mails' = [mails EXCEPT ![job[p]][chan[p]] = @ + 1]
    BY DEF SendMessage
  <2>. QED
    BY <2>1, Zenon
<1>5. /\ \A j \in JobId : j # job[p] => mails'[j] = mails[j]
      /\ \A c \in Channel : c # chan[p] => mails'[job[p]][c] = mails[job[p]][c]
      /\ mails'[job[p]][chan[p]] <= 1
  BY <1>2, <1>3, <1>4
<1>6. HeldJob(p, job[p])'
  BY <1>1, <1>2, <1>5 DEF HeldJob, Channel
<1>7. \A c \in Channel : mails'[job[p]][c] <= 1
  BY <1>2, <1>5
<1>. QED
  BY <1>1, <1>5, <1>6, <1>7, HoldDeliver DEF Delivering

\* The job is settled and dropped from the batch.
LEMMA HoldComplete ==
  ASSUME TypeInv, HoldInv, NEW p \in Process, CompleteJob(p)
  PROVE  HoldInv'
<1> USE DEF TypeInv, TypeOK, Goto
<1>1. /\ UNCHANGED <<lastJob, mails>>
      /\ claimed' = [claimed EXCEPT ![p] = @ \ {job[p]}]
      /\ job' = [job EXCEPT ![p] = 0]
      /\ chan' = [chan EXCEPT ![p] = "email"]
      /\ pc[p] = "complete"
      /\ IF claimed[p] = {job[p]} THEN pc'[p] \in Quiet ELSE pc'[p] = "take"
      /\ \A q \in Process : q # p => pc'[q] = pc[q]
  BY DEF CompleteJob, EndDrain, AfterDrain, Quiet
<1>2. /\ job[p] \in claimed[p] /\ job[p] \in JobId /\ job[p] # 0
      /\ jobs[job[p]].status \in {"processing", "deleted"}
  BY <1>1 DEF HoldInv, DrainLocal, Delivering, HeldJob
<1>3. /\ \A j \in JobId : j # job[p] => jobs'[j] = jobs[j]
      /\ jobs'[job[p]].event = jobs[job[p]].event
      /\ jobs'[job[p]].status \in {"done", "failed", "deleted"}
  <2>1. outcome[p] \in {"done", "failed"}
    BY <1>1 DEF LocalsOK
  <2>2. \/ jobs' = jobs /\ jobs[job[p]].status = "deleted"
        \/ jobs' = [jobs EXCEPT ![job[p]] = WithStatus(jobs[job[p]], outcome[p])]
    BY DEF CompleteJob
  <2>. QED
    BY <1>2, <2>1, <2>2, WithStatusFields
<1>4. ASSUME NEW q \in Process
      PROVE  DrainLocal(q)'
  BY <1>1, <1>2 DEF HoldInv, DrainLocal, Quiet, Delivering
<1>5. OneHolder'
  BY <1>1 DEF HoldInv, OneHolder
<1>6. ASSUME NEW q \in Process, NEW j \in claimed'[q]
      PROVE  HeldJob(q, j)'
  <2>1. j \in claimed[q] /\ j \in JobId /\ j # job[p] /\ jobs'[j] = jobs[j]
    BY <1>1, <1>2, <1>3 DEF HoldInv, OneHolder
  <2>2. HeldJob(q, j)
    BY <2>1 DEF HoldInv
  <2>3. CASE q = p
    BY <1>1, <1>2, <2>1, <2>2, <2>3 DEF HeldJob, JobId
  <2>4. CASE q # p
    BY <1>1, <2>1, <2>2, <2>4 DEF HeldJob
  <2>. QED
    BY <2>3, <2>4
<1>7. JobIdsInv' /\ MailOnce'
  <2>1. ASSUME NEW j \in JobId
        PROVE  /\ jobs'[j].event = jobs[j].event
               /\ \/ jobs'[j].status = jobs[j].status
                  \/ /\ jobs'[j].status \in {"done", "failed", "deleted"}
                     /\ jobs[j].status # "absent"
    BY <1>2, <1>3
  <2>. QED
    BY <1>1, <2>1 DEF HoldInv, JobIdsInv, MailOnce
<1>. QED
  BY <1>4, <1>5, <1>6, <1>7 DEF HoldInv

\* A purge deletes jobs and gives none back.
LEMMA HoldClear ==
  ASSUME TypeInv, HoldInv, NEW S \in SUBSET {"navitia", "stub"}, NEW d \in BOOLEAN,
         ClearStats(S, d)
  PROVE  HoldInv'
<1> USE DEF TypeInv, TypeOK
<1>1. UNCHANGED <<lastJob, mails, pc, claimed, job, chan>>
  BY DEF ClearStats, ctlVars, drainVars
<1>2. ASSUME NEW j \in JobId
      PROVE  /\ jobs'[j].event = jobs[j].event
             /\ \/ jobs'[j].status = jobs[j].status
                \/ jobs'[j].status = "deleted" /\ jobs[j].event # 0
  <2> DEFINE ids == {events[x].id : x \in {y \in External : Stored(y) /\ SourceOf(y) \in S}}
  <2>1. jobs' = [k \in JobId |-> IF jobs[k].event \in ids THEN WithStatus(jobs[k], "deleted")
                                 ELSE jobs[k]]
    BY DEF ClearStats
  <2>2. 0 \notin ids
    BY DEF Stored
  <2> HIDE DEF ids
  <2>. QED
    BY <2>1, <2>2, WithStatusFields
<1>3. ASSUME NEW q \in Process
      PROVE  DrainLocal(q)'
  BY <1>1 DEF HoldInv, DrainLocal
<1>4. OneHolder'
  BY <1>1 DEF HoldInv, OneHolder
<1>5. ASSUME NEW q \in Process, NEW j \in claimed'[q]
      PROVE  HeldJob(q, j)'
  BY <1>1, <1>2 DEF HoldInv, HeldJob
<1>6. JobIdsInv'
  BY <1>1, <1>2 DEF HoldInv, JobIdsInv
<1>7. MailOnce'
  BY <1>1, <1>2 DEF HoldInv, MailOnce
<1>. QED
  BY <1>3, <1>4, <1>5, <1>6, <1>7 DEF HoldInv

LEMMA HoldNext == TypeInv /\ HoldInv /\ [Next]_vars => HoldInv'
<1> SUFFICES ASSUME TypeInv, HoldInv, [Next]_vars
             PROVE  HoldInv'
  OBVIOUS
<1>1. CASE UNCHANGED vars
  BY <1>1 DEF vars, dbVars, ctlVars, drainVars, HoldInv, DrainLocal, OneHolder, HeldJob,
     JobIdsInv, MailOnce
<1>2. ASSUME NEW p \in Process, PollStep(p)
      PROVE  HoldInv'
  <2>1. CASE FetchFails(p) \/ UpsertThrows(p) \/ EnqueueThrows(p)
    BY <2>1, HoldLeave DEF FetchFails, UpsertThrows, EnqueueThrows, TypeInv, dbVars
  <2>2. CASE Enqueue(p)
    BY <2>2, HoldEnqueue
  <2>3. CASE \/ StartPoll(p) \/ IdlePoll(p) \/ AlertDeparture(p) \/ InsertEvent(p)
             \/ UpdateEvent(p) \/ MarkNotified(p) \/ EndBoard(p)
    <3>1. UNCHANGED <<jobs, lastJob, mails, claimed, job, chan>>
      BY <2>3 DEF StartPoll, IdlePoll, AlertDeparture, InsertEvent, UpdateEvent,
         MarkNotified, EndBoard, dbVars, drainVars
    <3>2. /\ pc[p] \in Quiet /\ pc'[p] \in Quiet
          /\ \A q \in Process : q # p => pc'[q] = pc[q]
      BY <2>3 DEF StartPoll, IdlePoll, AlertDeparture, InsertEvent, UpdateEvent,
         MarkNotified, EndBoard, Goto, Quiet, TypeInv, TypeOK
    <3>. QED
      BY <3>1, <3>2, HoldQuiet DEF TypeInv
  <2>. QED
    BY <1>2, <2>1, <2>2, <2>3 DEF PollStep
<1>3. ASSUME NEW p \in Process, DrainStep(p)
      PROVE  HoldInv'
  BY <1>3, HoldClaim, HoldTake, HoldNoMail, HoldSend, HoldComplete DEF DrainStep
<1>4. ASSUME NEW p \in Process, Fault(p)
      PROVE  HoldInv'
  <2>1. CASE Crash(p) \/ QueryFails(p)
    BY <2>1, HoldLeave DEF Crash, QueryFails, TypeInv, dbVars
  <2>2. CASE DeliveryQueryFails(p)
    BY <2>2, HoldNoMail
  <2>. QED
    BY <1>4, <2>1, <2>2 DEF Fault
<1>5. ASSUME NEW p \in Process, InjectStub(p)
      PROVE  HoldInv'
  <2>1. UNCHANGED <<jobs, lastJob, mails, claimed, job, chan>>
    BY <1>5 DEF InjectStub, dbVars, drainVars
  <2>2. /\ pc[p] \in Quiet /\ pc'[p] \in Quiet
        /\ \A q \in Process : q # p => pc'[q] = pc[q]
    BY <1>5 DEF InjectStub, Goto, Quiet, TypeInv, TypeOK
  <2>. QED
    BY <2>1, <2>2, HoldQuiet DEF TypeInv
<1>. QED
  BY <1>1, <1>2, <1>3, <1>4, <1>5, HoldClear DEF Next, Admin

LEMMA SpecHold == Spec => [](TypeInv /\ HoldInv)
<1>1. Init => TypeInv /\ HoldInv
  BY TypeInit, HoldInit
<1>2. TypeInv /\ HoldInv /\ [Next]_vars => (TypeInv /\ HoldInv)'
  BY TypeNext, LocalsNext, HoldNext DEF TypeInv
<1>. QED
  BY <1>1, <1>2, PTL DEF Spec

\* Two drains never hold the same job, for any number of processes, crashes and purges.
THEOREM OneHolderAlways == Spec => []OneHolder
<1>1. TypeInv /\ HoldInv => OneHolder
  BY DEF HoldInv
<1>. QED
  BY <1>1, SpecHold, PTL

-----------------------------------------------------------------------------
(* The queue implements its promise.                                       *)

\* The abstract status of the jobs.
Status == [j \in JobId |-> jobs[j].status]

LEMMA QueueInits == Init => Queue!QueueInit
  BY DEF Init, Queue!QueueInit, NoJob

\* Queueing a job is Submit.
LEMMA EnqueueSubmits ==
  ASSUME TypeInv, HoldInv, NEW p \in Process, Enqueue(p)
  PROVE  \E j \in JobId : Queue!Submit(j)
<1> USE DEF TypeInv, TypeOK
<1> DEFINE new == lastJob + 1
<1>1. new \in JobId /\ jobs[new].status = "absent"
  BY BoundAssumption DEF HoldInv, Enqueue, JobIdsInv, JobId
<1>2. /\ jobs' = [jobs EXCEPT ![new] =
                    [event |-> work[p].id, force |-> work[p].force, status |-> "pending"]]
      /\ UNCHANGED mails
  BY DEF Enqueue
<1> HIDE DEF new
<1>3. Status' = [Status EXCEPT ![new] = "pending"]
  BY <1>1, <1>2 DEF Status
<1>. QED
  BY <1>1, <1>2, <1>3 DEF Queue!Submit, Status

\* A claim is Take.
LEMMA ClaimTakes ==
  ASSUME TypeInv, NEW p \in Process, Claim(p)
  PROVE  \E G \in SUBSET JobId : Queue!Take(G)
<1> USE DEF TypeInv, TypeOK
<1> DEFINE batch == Oldest(Pending)
<1>1. \A j \in batch : j \in JobId /\ jobs[j].status = "pending"
  BY DEF Oldest, Pending
<1>2. /\ jobs' = [j \in JobId |-> IF j \in batch THEN WithStatus(jobs[j], "processing")
                                  ELSE jobs[j]]
      /\ UNCHANGED mails
  BY DEF Claim
<1> HIDE DEF batch
<1>3. Status' = [j \in JobId |-> IF j \in batch THEN "processing" ELSE Status[j]]
  BY <1>1, <1>2, WithStatusFields DEF Status
<1>4. batch \in SUBSET JobId
  BY <1>1
<1>. QED
  BY <1>1, <1>2, <1>3, <1>4 DEF Queue!Take, Status

\* A message that leaves is Send: it is the first of its job on its channel.
LEMMA SendSends ==
  ASSUME TypeInv, HoldInv, NEW p \in Process, SendMessage(p)
  PROVE  \/ \E j \in JobId, c \in Channel : Queue!Send(j, c)
         \/ UNCHANGED Queue!qvars
<1> USE DEF TypeInv, TypeOK
<1>1. /\ job[p] \in claimed[p] /\ job[p] \in JobId /\ chan[p] \in Channel
      /\ HeldJob(p, job[p]) /\ pc[p] = "send" /\ jobs' = jobs
  BY DEF HoldInv, DrainLocal, Delivering, SendMessage, dbVars
<1>2. /\ jobs[job[p]].status \in {"processing", "deleted"}
      /\ mails[job[p]][chan[p]] = 0
  BY <1>1 DEF HeldJob
<1>3. mails' = mails \/ mails' = [mails EXCEPT ![job[p]][chan[p]] = @ + 1]
  BY DEF SendMessage
<1>4. CASE mails' = mails
  BY <1>1, <1>4 DEF Queue!qvars
<1>5. CASE mails' = [mails EXCEPT ![job[p]][chan[p]] = @ + 1]
  <2>1. mails' = [mails EXCEPT ![job[p]][chan[p]] = 1]
    BY <1>2, <1>5
  <2>. QED
    BY <1>1, <1>2, <2>1 DEF Queue!Send
<1>. QED
  BY <1>3, <1>4, <1>5

\* Completing a job is Settle; a deleted one has no row to settle.
LEMMA CompleteSettles ==
  ASSUME TypeInv, HoldInv, NEW p \in Process, CompleteJob(p)
  PROVE  \/ \E j \in JobId : Queue!Settle(j)
         \/ UNCHANGED Queue!qvars
<1> USE DEF TypeInv, TypeOK
<1>1. /\ job[p] \in claimed[p] /\ job[p] \in JobId
      /\ jobs[job[p]].status \in {"processing", "deleted"}
      /\ outcome[p] \in {"done", "failed"}
      /\ UNCHANGED mails
  BY DEF HoldInv, DrainLocal, Delivering, HeldJob, CompleteJob, LocalsOK
<1>2. CASE jobs[job[p]].status = "deleted"
  BY <1>1, <1>2 DEF CompleteJob, Queue!qvars
<1>3. CASE jobs[job[p]].status = "processing"
  <2>1. jobs' = [jobs EXCEPT ![job[p]] = WithStatus(jobs[job[p]], outcome[p])]
    BY <1>3 DEF CompleteJob
  <2>2. WithStatus(jobs[job[p]], outcome[p]).status = outcome[p]
    BY DEF WithStatus
  <2>3. \A j \in JobId : jobs'[j].status = IF j = job[p] THEN outcome[p] ELSE jobs[j].status
    BY <1>1, <2>1, <2>2
  <2>4. Status' = [Status EXCEPT ![job[p]] = outcome[p]]
    BY <1>1, <2>3 DEF Status
  <2>. QED
    BY <1>1, <1>3, <2>4 DEF Queue!Settle, Status
<1>. QED
  BY <1>1, <1>2, <1>3

\* A purge is Discard.
LEMMA ClearDiscards ==
  ASSUME TypeInv, HoldInv, NEW S \in SUBSET {"navitia", "stub"}, NEW d \in BOOLEAN,
         ClearStats(S, d)
  PROVE  \E G \in SUBSET JobId : Queue!Discard(G)
<1> USE DEF TypeInv, TypeOK
<1> DEFINE ids == {events[x].id : x \in {y \in External : Stored(y) /\ SourceOf(y) \in S}}
           G == {j \in JobId : jobs[j].event \in ids}
<1>1. /\ jobs' = [j \in JobId |-> IF jobs[j].event \in ids THEN WithStatus(jobs[j], "deleted")
                                  ELSE jobs[j]]
      /\ UNCHANGED mails
  BY DEF ClearStats
<1>2. 0 \notin ids
  BY DEF Stored
<1>3. \A j \in G : jobs[j].status # "absent"
  BY <1>2 DEF HoldInv, JobIdsInv
<1> HIDE DEF ids
<1>4. Status' = [j \in JobId |-> IF j \in G THEN "deleted" ELSE Status[j]]
  BY <1>1, WithStatusFields DEF Status
<1>5. G \in SUBSET JobId
  OBVIOUS
<1> HIDE DEF G
<1>. QED
  BY <1>1, <1>3, <1>4, <1>5 DEF Queue!Discard, Status

\* Every other step leaves the queue alone.
LEMMA QueueStep == TypeInv /\ HoldInv /\ [Next]_vars => [Queue!QueueNext]_(Queue!qvars)
<1> SUFFICES ASSUME TypeInv, HoldInv, [Next]_vars
             PROVE  Queue!QueueNext \/ UNCHANGED Queue!qvars
  OBVIOUS
<1>0. jobs' = jobs /\ mails' = mails => UNCHANGED Queue!qvars
  BY DEF Queue!qvars
<1>1. CASE UNCHANGED vars
  BY <1>0, <1>1 DEF vars, dbVars
<1>2. ASSUME NEW p \in Process, PollStep(p)
      PROVE  Queue!QueueNext \/ UNCHANGED Queue!qvars
  <2>1. CASE Enqueue(p)
    BY <2>1, EnqueueSubmits DEF Queue!QueueNext
  <2>2. CASE ~Enqueue(p)
    <3>1. jobs' = jobs /\ mails' = mails
      BY <1>2, <2>2 DEF PollStep, StartPoll, IdlePoll, FetchFails, AlertDeparture, InsertEvent,
         UpdateEvent, UpsertThrows, EnqueueThrows, MarkNotified, EndBoard, dbVars
    <3>. QED
      BY <1>0, <3>1
  <2>. QED
    BY <2>1, <2>2
<1>3. ASSUME NEW p \in Process, DrainStep(p)
      PROVE  Queue!QueueNext \/ UNCHANGED Queue!qvars
  <2>1. CASE Claim(p)
    BY <2>1, ClaimTakes DEF Queue!QueueNext
  <2>2. CASE SendMessage(p)
    BY <2>2, SendSends DEF Queue!QueueNext
  <2>3. CASE CompleteJob(p)
    BY <2>3, CompleteSettles DEF Queue!QueueNext
  <2>4. CASE TakeJob(p) \/ Suppress(p) \/ CheckChannel(p) \/ RecordDelivery(p) \/ RecordRefused(p)
    <3>1. jobs' = jobs /\ mails' = mails
      BY <2>4 DEF TakeJob, Suppress, CheckChannel, RecordDelivery, RecordRefused, dbVars
    <3>. QED
      BY <1>0, <3>1
  <2>. QED
    BY <1>3, <2>1, <2>2, <2>3, <2>4 DEF DrainStep
<1>4. ASSUME NEW p \in Process, Fault(p) \/ InjectStub(p)
      PROVE  UNCHANGED Queue!qvars
  <2>1. jobs' = jobs /\ mails' = mails
    BY <1>4 DEF Fault, Crash, QueryFails, DeliveryQueryFails, InjectStub, dbVars
  <2>. QED
    BY <1>0, <2>1
<1>5. ASSUME NEW S \in SUBSET {"navitia", "stub"}, NEW d \in BOOLEAN, ClearStats(S, d)
      PROVE  Queue!QueueNext
  BY <1>5, ClearDiscards DEF Queue!QueueNext
<1>. QED
  BY <1>1, <1>2, <1>3, <1>4, <1>5 DEF Next, Admin

\* The tables and the drain implement NotifyQueue: whatever the processes do, a job is
\* claimed once, leaves once per channel, and is never worked on again when settled.
THEOREM QueueRefined == Spec => QueuePromise
<1>1. TypeInv /\ HoldInv /\ [Next]_vars => [Queue!QueueNext]_(Queue!qvars)
  BY QueueStep
<1>. QED
  BY <1>1, QueueInits, SpecHold, PTL DEF Spec, QueuePromise, Queue!QueueSpec
=============================================================================
