-------------------------- MODULE AlertEventsProofs -------------------------
(***************************************************************************)
(* Theorems about the events of AlertPipeline, their first notification,   *)
(* the row an escalation is decided on and the delivery history, for every *)
(* value of the constants.  The types and the queue are settled in         *)
(* AlertPipelineProofs.                                                    *)
(***************************************************************************)
EXTENDS AlertPipelineProofs, FiniteSetTheorems

USE DEF External, Process

-----------------------------------------------------------------------------
(* First notifications.                                                    *)

\* Event ids are never reused, and no job outlives its event.
IdInv ==
  /\ \A x, y \in External : Stored(x) /\ events[x].id = events[y].id => x = y
  /\ \A x \in External : events[x].id <= lastEvent
  /\ \A j \in JobId :
       /\ jobs[j].event <= lastEvent
       /\ jobs[j].status = "deleted" => ~EventAlive(jobs[j].event)
  /\ \A p \in Process : work[p].id <= lastEvent

\* An event that is about to get its first job has none yet.
FirstJobInv ==
  /\ \A j, k \in JobId :
       jobs[j].event = jobs[k].event /\ jobs[j].event # 0 /\ ~jobs[j].force /\ ~jobs[k].force
         => j = k
  /\ \A p \in Process : pc[p] = "enqueue" /\ ~work[p].force =>
       /\ \A j \in JobId : jobs[j].event # work[p].id \/ jobs[j].force
       /\ \A q \in Process : pc[q] = "enqueue" /\ ~work[q].force /\ work[q].id = work[p].id
            => q = p

EventInv == IdInv /\ FirstJobInv

\* A drain and a fault change no row of events, no job's event and no poll's work.
LEMMA DrainKeepsJobs ==
  ASSUME TypeInv, HoldInv, NEW p \in Process, DrainStep(p)
  PROVE  /\ \A j \in JobId : /\ jobs'[j].event = jobs[j].event
                             /\ jobs'[j].force = jobs[j].force
                             /\ jobs'[j].status = "deleted" <=> jobs[j].status = "deleted"
         /\ UNCHANGED <<events, lastEvent, lastJob, work>>
         /\ pc'[p] # "enqueue"
         /\ \A q \in Process : q # p => pc'[q] = pc[q]
<1> USE DEF TypeInv, TypeOK, Goto
<1>1. UNCHANGED <<events, lastEvent, lastJob, work>>
  BY DEF DrainStep, Claim, TakeJob, Suppress, CheckChannel, SendMessage, RecordDelivery,
     RecordRefused, CompleteJob, dbVars, pollVars
<1>2. pc'[p] # "enqueue" /\ \A q \in Process : q # p => pc'[q] = pc[q]
  BY DEF DrainStep, Claim, TakeJob, Suppress, CheckChannel, SendMessage, RecordDelivery,
     RecordRefused, CompleteJob, NextChannel, EndDrain, AfterDrain
<1>3. ASSUME NEW j \in JobId
      PROVE  /\ jobs'[j].event = jobs[j].event
             /\ jobs'[j].force = jobs[j].force
             /\ jobs'[j].status = "deleted" <=> jobs[j].status = "deleted"
  <2>1. CASE Claim(p)
    <3>1. Oldest(Pending) \subseteq Pending
      BY DEF Oldest
    <3>2. jobs' = [k \in JobId |-> IF k \in Oldest(Pending)
                                   THEN WithStatus(jobs[k], "processing") ELSE jobs[k]]
      BY <2>1 DEF Claim
    <3>. QED
      BY <3>1, <3>2, WithStatusFields DEF Pending
  <2>2. CASE CompleteJob(p)
    <3>1. outcome[p] \in {"done", "failed"}
      BY <2>2 DEF CompleteJob, LocalsOK
    <3>2. \/ jobs' = jobs
          \/ /\ jobs' = [jobs EXCEPT ![job[p]] = WithStatus(jobs[job[p]], outcome[p])]
             /\ jobs[job[p]].status # "deleted"
      BY <2>2 DEF CompleteJob
    <3>. QED
      BY <3>1, <3>2, WithStatusFields
  <2>3. CASE ~Claim(p) /\ ~CompleteJob(p)
    BY <2>3 DEF DrainStep, TakeJob, Suppress, CheckChannel, SendMessage, RecordDelivery,
       RecordRefused, dbVars
  <2>. QED
    BY <2>1, <2>2, <2>3
<1>. QED
  BY <1>1, <1>2, <1>3

\* A step that leaves the tables' ids alone and brings p to no new enqueue.
LEMMA EventQuiet ==
  ASSUME TypeOK, EventInv, NEW p \in Process,
         \A j \in JobId : /\ jobs'[j].event = jobs[j].event
                          /\ jobs'[j].force = jobs[j].force
                          /\ jobs'[j].status = "deleted" <=> jobs[j].status = "deleted",
         \A x \in External : events'[x].id = events[x].id,
         lastEvent' = lastEvent,
         \A q \in Process : q # p => pc'[q] = pc[q] /\ work'[q] = work[q],
         pc'[p] # "enqueue" \/ work'[p].force,
         work'[p].id <= lastEvent
  PROVE  EventInv'
<1> USE DEF EventInv
<1>1. IdInv'
  BY DEF IdInv, Stored, EventAlive
<1>2. FirstJobInv'
  <2>1. \A q \in Process : pc'[q] = "enqueue" /\ ~work'[q].force
                             => q # p /\ pc[q] = "enqueue" /\ ~work[q].force /\ work'[q] = work[q]
    OBVIOUS
  <2>. QED
    BY <2>1 DEF FirstJobInv
<1>. QED
  BY <1>1, <1>2

\* A new event has a new id, so no job and no other poll knows it.
LEMMA EventInsert ==
  ASSUME TypeOK, EventInv, NEW p \in Process, InsertEvent(p)
  PROVE  EventInv'
<1> USE DEF EventInv, TypeOK, Goto
<1> DEFINE x == work[p].ext
           new == lastEvent + 1
<1>1. /\ UNCHANGED jobs
      /\ lastEvent' = new
      /\ ~Stored(x)
      /\ work'[p].id = new /\ ~work'[p].force
      /\ \A q \in Process : q # p => pc'[q] = pc[q] /\ work'[q] = work[q]
  BY DEF InsertEvent, Persisted
<1>2. \A y \in External : events'[y].id = IF y = x THEN new ELSE events[y].id
  BY DEF InsertEvent
<1> HIDE DEF x, new
<1>3. new > lastEvent /\ new # 0 /\ new \in Nat /\ lastEvent \in Nat
  BY DEF new
<1>4. /\ \A y \in External : events[y].id \in Nat /\ events[y].id <= lastEvent
      /\ \A j \in JobId : jobs[j].event \in Nat /\ jobs[j].event <= lastEvent
      /\ \A q \in Process : work[q].id \in Nat /\ work[q].id <= lastEvent
  BY DEF IdInv, EventRow, JobRow, Work, EventId
<1>5. IdInv'
  <2>1. \A y, z \in External : Stored(y)' /\ events'[y].id = events'[z].id => y = z
    BY <1>2, <1>3, <1>4 DEF IdInv, Stored
  <2>2. \A y \in External : events'[y].id <= lastEvent'
    BY <1>1, <1>2, <1>3, <1>4
  <2>3. ASSUME NEW j \in JobId
        PROVE  /\ jobs'[j].event <= lastEvent'
               /\ jobs'[j].status = "deleted"
                    => \A y \in External : events'[y].id # jobs'[j].event
    BY <1>1, <1>2, <1>3, <1>4 DEF IdInv, EventAlive
  <2>4. \A q \in Process : work'[q].id <= lastEvent'
    BY <1>1, <1>3, <1>4
  <2>. QED
    BY <2>1, <2>2, <2>3, <2>4 DEF IdInv, EventAlive
<1>6. FirstJobInv'
  <2>1. \A q \in Process : q # p => work'[q].id # new
    BY <1>1, <1>3, <1>4
  <2>2. \A j \in JobId : jobs[j].event # new
    BY <1>3, <1>4
  <2>. QED
    BY <1>1, <2>1, <2>2 DEF FirstJobInv
<1>. QED
  BY <1>5, <1>6

\* A job is queued for the event p persisted: p was alone with it.
LEMMA EventEnqueue ==
  ASSUME TypeInv, HoldInv, EventInv, NEW p \in Process, Enqueue(p)
  PROVE  EventInv'
<1> USE DEF TypeInv, TypeOK, Goto
<1> DEFINE new == lastJob + 1
           row == [event |-> work[p].id, force |-> work[p].force, status |-> "pending"]
<1>1. /\ new \in JobId /\ jobs[new].status = "absent" /\ jobs[new].event = 0
      /\ jobs' = [jobs EXCEPT ![new] = row]
      /\ work[p].id \in EventId /\ pc[p] = "enqueue"
  BY BoundAssumption DEF HoldInv, Enqueue, JobIdsInv, JobId, LocalsOK
<1>2. /\ UNCHANGED <<events, lastEvent>>
      /\ pc'[p] # "enqueue"
      /\ \A q \in Process : q # p => pc'[q] = pc[q] /\ work'[q] = work[q]
      /\ work'[p].id = work[p].id \/ work'[p].id = 0
  BY DEF Enqueue, NoWork
<1> HIDE DEF new
<1>3. ASSUME NEW j \in JobId
      PROVE  IF j = new
             THEN /\ jobs'[j].event = work[p].id /\ jobs'[j].force = work[p].force
                  /\ jobs'[j].status = "pending"
             ELSE jobs'[j] = jobs[j]
  BY <1>1
<1>4. IdInv'
  <2>1. \A q \in Process : work'[q].id <= lastEvent'
    BY <1>1, <1>2 DEF EventInv, IdInv, EventId
  <2>2. ASSUME NEW j \in JobId
        PROVE  /\ jobs'[j].event <= lastEvent'
               /\ jobs'[j].status = "deleted"
                    => \A y \in External : events'[y].id # jobs'[j].event
    BY <1>1, <1>2, <1>3 DEF EventInv, IdInv, EventAlive
  <2>. QED
    BY <1>2, <2>1, <2>2 DEF EventInv, IdInv, Stored, EventAlive
<1>5. FirstJobInv'
  <2>1. ASSUME NEW j \in JobId, NEW k \in JobId, jobs'[j].event = jobs'[k].event,
               jobs'[j].event # 0, ~jobs'[j].force, ~jobs'[k].force
        PROVE  j = k
    BY <1>1, <1>3, <2>1 DEF EventInv, FirstJobInv
  <2>2. ASSUME NEW q \in Process, pc'[q] = "enqueue", ~work'[q].force
        PROVE  /\ \A j \in JobId : jobs'[j].event # work'[q].id \/ jobs'[j].force
               /\ \A o \in Process : pc'[o] = "enqueue" /\ ~work'[o].force
                                       /\ work'[o].id = work'[q].id => o = q
    <3>1. q # p /\ pc[q] = "enqueue" /\ ~work[q].force /\ work'[q] = work[q]
      BY <1>2, <2>2
    <3>2. ASSUME NEW j \in JobId
          PROVE  jobs'[j].event # work'[q].id \/ jobs'[j].force
      BY <1>1, <1>3, <3>1 DEF EventInv, FirstJobInv
    <3>3. ASSUME NEW o \in Process, pc'[o] = "enqueue", ~work'[o].force,
                 work'[o].id = work'[q].id
          PROVE  o = q
      BY <1>2, <3>1, <3>3 DEF EventInv, FirstJobInv
    <3>. QED
      BY <3>2, <3>3
  <2>. QED
    BY <2>1, <2>2 DEF FirstJobInv
<1>. QED
  BY <1>4, <1>5 DEF EventInv

\* A purge forgets events with their jobs; the ids are never given out again.
LEMMA EventClear ==
  ASSUME TypeInv, HoldInv, EventInv, NEW S \in SUBSET {"navitia", "stub"},
         NEW d \in BOOLEAN, ClearStats(S, d)
  PROVE  EventInv'
<1> USE DEF TypeInv, TypeOK
<1> DEFINE gone == {x \in External : Stored(x) /\ SourceOf(x) \in S}
           ids == {events[x].id : x \in gone}
<1>1. /\ events' = [x \in External |-> IF x \in gone THEN NoRow ELSE events[x]]
      /\ jobs' = [j \in JobId |-> IF jobs[j].event \in ids
                                  THEN WithStatus(jobs[j], "deleted") ELSE jobs[j]]
      /\ UNCHANGED <<lastEvent, pc, work>>
  BY DEF ClearStats, ctlVars, pollVars
<1>2. /\ \A x \in External : x \in gone => Stored(x) /\ events[x].id \in ids
      /\ 0 \notin ids
      /\ \A i \in ids : \E x \in gone : events[x].id = i
  BY DEF Stored
<1> HIDE DEF gone, ids
<1>3. ASSUME NEW x \in External
      PROVE  \/ events'[x].id = events[x].id /\ x \notin gone
             \/ events'[x].id = 0 /\ x \in gone
  BY <1>1 DEF NoRow
<1>4. ASSUME NEW j \in JobId
      PROVE  /\ jobs'[j].event = jobs[j].event /\ jobs'[j].force = jobs[j].force
             /\ \/ jobs'[j].status = jobs[j].status /\ jobs[j].event \notin ids
                \/ jobs'[j].status = "deleted" /\ jobs[j].event \in ids
  BY <1>1, WithStatusFields
<1>5. IdInv'
  <2>1. \A x, y \in External : Stored(x)' /\ events'[x].id = events'[y].id => x = y
    BY <1>3 DEF EventInv, IdInv, Stored
  <2>2. ASSUME NEW x \in External
        PROVE  events'[x].id <= lastEvent'
    <3>1. 0 <= lastEvent /\ events[x].id <= lastEvent
      BY BoundAssumption DEF EventInv, IdInv
    <3>. QED
      BY <1>1, <1>3, <3>1
  <2>3. ASSUME NEW j \in JobId, jobs'[j].status = "deleted", NEW y \in External
        PROVE  events'[y].id # jobs'[j].event
    <3>1. jobs[j].event # 0
      BY <1>2, <1>4, <2>3 DEF HoldInv, JobIdsInv
    <3>2. CASE jobs[j].event \in ids
      BY <1>2, <1>3, <1>4, <3>1, <3>2 DEF EventInv, IdInv, gone
    <3>3. CASE jobs[j].event \notin ids
      BY <1>3, <1>4, <2>3, <3>1, <3>3 DEF EventInv, IdInv, EventAlive
    <3>. QED
      BY <3>2, <3>3
  <2>4. \A j \in JobId : jobs'[j].event <= lastEvent'
    BY <1>1, <1>4 DEF EventInv, IdInv
  <2>5. \A q \in Process : work'[q].id <= lastEvent'
    BY <1>1 DEF EventInv, IdInv
  <2>. QED
    BY <2>1, <2>2, <2>3, <2>4, <2>5 DEF IdInv, EventAlive
<1>6. FirstJobInv'
  BY <1>1, <1>4 DEF EventInv, FirstJobInv
<1>. QED
  BY <1>5, <1>6 DEF EventInv

\* The steps of a poll that write no id: p leaves no unforced job to come.
LEMMA EventPoll ==
  ASSUME TypeInv, EventInv, NEW p \in Process,
         PollStep(p), ~InsertEvent(p), ~Enqueue(p)
  PROVE  EventInv'
<1> USE DEF TypeInv, TypeOK, Goto
<1>1. UNCHANGED <<jobs, lastEvent>>
  BY DEF PollStep, StartPoll, IdlePoll, FetchFails, AlertDeparture, UpdateEvent, UpsertThrows,
     EnqueueThrows, MarkNotified, EndBoard, dbVars
<1>2. 0 <= lastEvent /\ work[p].id <= lastEvent
  BY BoundAssumption DEF EventInv, IdInv
<1>4. CASE UpdateEvent(p)
  <2>1. /\ work[p].ext \in External
        /\ events' = [events EXCEPT ![work[p].ext] = Overwritten(@, work[p].alert)]
        /\ \/ pc' = [pc EXCEPT ![p] = "enqueue"]
              /\ work' = [work EXCEPT ![p] = Persisted(@, events[work[p].ext].id, TRUE)]
           \/ pc' = [pc EXCEPT ![p] = "board"] /\ work' = [work EXCEPT ![p] = NoWork]
    BY <1>4 DEF UpdateEvent, LocalsOK
  <2>2. \A x \in External : events'[x].id = events[x].id
    BY <2>1 DEF Overwritten
  <2>3. /\ pc'[p] # "enqueue" \/ work'[p].force
        /\ work'[p].id <= lastEvent
        /\ \A q \in Process : q # p => pc'[q] = pc[q] /\ work'[q] = work[q]
    BY <1>2, <2>1 DEF Persisted, NoWork, EventInv, IdInv
  <2>. QED
    BY <1>1, <2>2, <2>3, EventQuiet
<1>5. CASE MarkNotified(p)
  <2>1. \A x \in External : events'[x].id = events[x].id
    BY <1>5 DEF MarkNotified, Notified
  <2>2. /\ pc'[p] = "board" /\ work'[p] = NoWork
        /\ \A q \in Process : q # p => pc'[q] = pc[q] /\ work'[q] = work[q]
    BY <1>5 DEF MarkNotified
  <2>. QED
    BY <1>1, <1>2, <2>1, <2>2, EventQuiet DEF NoWork
<1>6. CASE AlertDeparture(p)
  <2>1. PICK x \in todo[p], d \in Readings : work' = [work EXCEPT ![p] = [ext |-> x, alert |-> AlertOf(d),
           seen |-> events[x], id |-> 0, force |-> FALSE]]
    BY <1>6 DEF AlertDeparture
  <2>2. /\ UNCHANGED events
        /\ pc'[p] = "write" /\ work'[p].id = 0
        /\ \A q \in Process : q # p => pc'[q] = pc[q] /\ work'[q] = work[q]
    BY <1>6, <2>1 DEF AlertDeparture, dbVars
  <2>. QED
    BY <1>1, <1>2, <2>2, EventQuiet
<1>7. CASE ~UpdateEvent(p) /\ ~MarkNotified(p) /\ ~AlertDeparture(p)
  <2>1. /\ UNCHANGED events
        /\ pc'[p] # "enqueue"
        /\ work'[p] = work[p] \/ work'[p] = NoWork
        /\ \A q \in Process : q # p => pc'[q] = pc[q] /\ work'[q] = work[q]
    BY <1>7 DEF PollStep, StartPoll, IdlePoll, FetchFails, UpsertThrows, EnqueueThrows, EndBoard,
       Leave, dbVars, pollVars
  <2>. QED
    BY <1>1, <1>2, <2>1, EventQuiet DEF NoWork
<1>. QED
  BY <1>4, <1>5, <1>6, <1>7

LEMMA EventNext == TypeInv /\ HoldInv /\ EventInv /\ [Next]_vars => EventInv'
<1> SUFFICES ASSUME TypeInv, HoldInv, EventInv, [Next]_vars
             PROVE  EventInv'
  OBVIOUS
<1> USE DEF TypeInv
<1>1. CASE UNCHANGED vars
  BY <1>1 DEF vars, dbVars, ctlVars, pollVars, EventInv, IdInv, FirstJobInv, Stored, EventAlive
<1>2. ASSUME NEW p \in Process, PollStep(p)
      PROVE  EventInv'
  BY <1>2, EventInsert, EventEnqueue, EventPoll
<1>3. ASSUME NEW p \in Process, DrainStep(p)
      PROVE  EventInv'
  <2>1. work[p].id <= lastEvent
    BY DEF EventInv, IdInv
  <2>. QED
    BY <1>3, <2>1, DrainKeepsJobs, EventQuiet
<1>4. ASSUME NEW p \in Process, Fault(p) \/ InjectStub(p)
      PROVE  EventInv'
  <2>1. UNCHANGED <<events, jobs, lastEvent>>
    BY <1>4 DEF Fault, Crash, QueryFails, DeliveryQueryFails, InjectStub, dbVars
  <2>2. /\ pc'[p] # "enqueue"
        /\ \A q \in Process : q # p => pc'[q] = pc[q] /\ work'[q] = work[q]
    BY <1>4 DEF Fault, Crash, QueryFails, DeliveryQueryFails, InjectStub, Leave, Goto, TypeOK,
       pollVars
  <2>3. work'[p].id = work[p].id \/ work'[p].id = 0
    BY <1>4 DEF Fault, Crash, QueryFails, DeliveryQueryFails, InjectStub, Leave, TypeOK,
       pollVars, NoWork
  <2>4. 0 <= lastEvent /\ work[p].id <= lastEvent
    BY BoundAssumption DEF EventInv, IdInv, TypeOK
  <2>. QED
    BY <2>1, <2>2, <2>3, <2>4, EventQuiet
<1>. QED
  BY <1>1, <1>2, <1>3, <1>4, EventClear DEF Next, Admin

LEMMA EventInit == Init => EventInv
  BY BoundAssumption DEF Init, EventInv, IdInv, FirstJobInv, Stored, EventAlive, NoRow, NoJob,
     NoWork

LEMMA SpecEvent == Spec => [](TypeInv /\ HoldInv /\ EventInv)
<1>1. Init => EventInv
  BY EventInit
<1>2. TypeInv /\ HoldInv /\ EventInv /\ [Next]_vars => EventInv'
  BY EventNext
<1>. QED
  BY <1>1, <1>2, SpecHold, PTL DEF Spec

\* A first notification leaves at most once per event and channel: an event gets one
\* unforced job, and a job leaves on a channel once.
THEOREM UnforcedOnce == Spec => []UnforcedMailOnce
<1>1. TypeInv /\ HoldInv /\ EventInv => UnforcedMailOnce
  <2> SUFFICES ASSUME TypeInv, HoldInv, EventInv, NEW j \in JobId, NEW k \in JobId,
                      NEW c \in Channel
               PROVE  /\ ~jobs[j].force => mails[j][c] <= 1
                      /\ (/\ jobs[j].event = jobs[k].event /\ ~jobs[j].force /\ ~jobs[k].force
                          /\ mails[j][c] > 0 /\ mails[k][c] > 0) => j = k
    BY DEF UnforcedMailOnce
  <2>1. mails[j][c] <= 1 /\ (mails[j][c] > 0 => jobs[j].event # 0)
    BY DEF HoldInv, MailOnce, JobIdsInv
  <2>. QED
    BY <2>1 DEF EventInv, FirstJobInv
<1>. QED
  BY <1>1, SpecEvent, PTL

-----------------------------------------------------------------------------
(* Marked events have their job.                                           *)

\* What a poller is about to mark has its job.
MarkInv ==
  /\ \A p \in Process :
       /\ pc[p] \in {"idle", "board", "write", "enqueue"} => ret[p] # "mark"
       /\ pc[p] = "mark" => ret[p] = "mark"
       /\ ret[p] = "mark" => /\ work[p].id # 0
                             /\ \E j \in JobId : jobs[j].event = work[p].id
  /\ MarkedHasJob

LEMMA MarkInit == Init => MarkInv
  BY DEF Init, MarkInv, MarkedHasJob, Stored, NoRow, NoSeverity

\* A step that keeps the jobs of stored events and what was notified, and after which
\* p marks nothing.
LEMMA MarkQuiet ==
  ASSUME TypeOK, MarkInv, NEW p \in Process,
         \A j \in JobId : /\ jobs'[j].event = jobs[j].event
                          /\ jobs'[j].status = "deleted" <=> jobs[j].status = "deleted",
         \A x \in External : /\ events'[x].id = events[x].id
                             /\ events'[x].nSeverity = events[x].nSeverity,
         \A q \in Process : q # p => pc'[q] = pc[q] /\ ret'[q] = ret[q] /\ work'[q] = work[q],
         pc'[p] # "mark", ret'[p] # "mark"
  PROVE  MarkInv'
  BY DEF MarkInv, MarkedHasJob, Stored

\* A drain comes back to the mark only if it was called from there.
LEMMA MarkDrain ==
  ASSUME TypeInv, HoldInv, MarkInv, NEW p \in Process, DrainStep(p)
  PROVE  MarkInv'
<1> USE DEF TypeInv, TypeOK, Goto
<1>1. /\ \A j \in JobId : /\ jobs'[j].event = jobs[j].event
                          /\ jobs'[j].status = "deleted" <=> jobs[j].status = "deleted"
      /\ UNCHANGED <<events, work>>
      /\ \A q \in Process : q # p => pc'[q] = pc[q]
  BY DrainKeepsJobs
<1>2. \A q \in Process : q # p => ret'[q] = ret[q]
  BY DEF DrainStep, Claim, TakeJob, Suppress, CheckChannel, SendMessage, RecordDelivery,
     RecordRefused, CompleteJob, EndDrain
<1>3. /\ ret'[p] = "mark" <=> ret[p] = "mark"
      /\ pc'[p] = "mark" => ret'[p] = "mark"
      /\ pc'[p] \in {"idle", "board", "write", "enqueue"} => ret'[p] # "mark"
  BY DEF DrainStep, Claim, TakeJob, Suppress, CheckChannel, SendMessage, RecordDelivery,
     RecordRefused, CompleteJob, NextChannel, EndDrain, AfterDrain
<1>4. MarkedHasJob'
  BY <1>1 DEF MarkInv, MarkedHasJob, Stored
<1>. QED
  BY <1>1, <1>2, <1>3, <1>4 DEF MarkInv

\* The job comes first.
LEMMA MarkEnqueue ==
  ASSUME TypeInv, HoldInv, MarkInv, NEW p \in Process, Enqueue(p)
  PROVE  MarkInv'
<1> USE DEF TypeInv, TypeOK, Goto
<1> DEFINE new == lastJob + 1
           row == [event |-> work[p].id, force |-> work[p].force, status |-> "pending"]
<1>1. /\ new \in JobId /\ jobs[new].event = 0
      /\ jobs' = [jobs EXCEPT ![new] = row]
      /\ work[p].id \in EventId /\ work[p].id # 0
  BY BoundAssumption DEF HoldInv, Enqueue, JobIdsInv, JobId, LocalsOK, EventId
<1>2. /\ UNCHANGED events
      /\ pc'[p] \in {"claim", "mark"} /\ ret'[p] \in {"idle", "mark"}
      /\ pc'[p] = "mark" => ret'[p] = "mark"
      /\ ret'[p] = "mark" => work'[p] = work[p]
      /\ \A q \in Process : q # p => pc'[q] = pc[q] /\ ret'[q] = ret[q] /\ work'[q] = work[q]
  BY DEF Enqueue
<1> HIDE DEF new
<1>3. \A j \in JobId : j # new => jobs'[j] = jobs[j]
  BY <1>1
<1>4. jobs'[new].event = work[p].id
  BY <1>1
<1>5. MarkedHasJob'
  BY <1>1, <1>2, <1>3 DEF MarkInv, MarkedHasJob, Stored
<1>6. ASSUME NEW q \in Process, ret'[q] = "mark"
      PROVE  work'[q].id # 0 /\ \E j \in JobId : jobs'[j].event = work'[q].id
  <2>1. CASE q = p
    BY <1>1, <1>2, <1>4, <1>6, <2>1
  <2>2. CASE q # p
    BY <1>1, <1>2, <1>3, <1>6, <2>2 DEF MarkInv
  <2>. QED
    BY <2>1, <2>2
<1>. QED
  BY <1>2, <1>5, <1>6 DEF MarkInv

\* The event that is marked is stored, so its job was not deleted.
LEMMA MarkMarks ==
  ASSUME TypeInv, EventInv, MarkInv, NEW p \in Process, MarkNotified(p)
  PROVE  MarkInv'
<1> USE DEF TypeInv, TypeOK, Goto
<1>1. /\ UNCHANGED jobs
      /\ pc'[p] = "board" /\ ret'[p] = "finish"
      /\ \A q \in Process : q # p => pc'[q] = pc[q] /\ ret'[q] = ret[q] /\ work'[q] = work[q]
  BY DEF MarkNotified, dbVars
<1>2. PICK j \in JobId : jobs[j].event = work[p].id
  BY DEF MarkNotified, MarkInv
<1>3. \A x \in External : /\ events'[x].id = events[x].id
                          /\ events[x].id # work[p].id => events'[x] = events[x]
  BY DEF MarkNotified, Notified
<1>4. MarkedHasJob'
  <2> SUFFICES ASSUME NEW x \in External, Stored(x)', events'[x].nSeverity # NoSeverity
               PROVE  \E k \in JobId : jobs[k].event = events[x].id /\ jobs[k].status # "deleted"
    BY <1>1, <1>3 DEF MarkedHasJob
  <2>1. CASE events[x].id = work[p].id
    BY <1>2, <2>1 DEF EventInv, IdInv, EventAlive
  <2>2. CASE events[x].id # work[p].id
    BY <1>3, <2>2 DEF MarkInv, MarkedHasJob, Stored
  <2>. QED
    BY <2>1, <2>2
<1>. QED
  BY <1>1, <1>4 DEF MarkInv

\* A purge deletes the jobs of the events it deletes, and no other.
LEMMA MarkClear ==
  ASSUME TypeInv, EventInv, MarkInv, NEW S \in SUBSET {"navitia", "stub"},
         NEW d \in BOOLEAN, ClearStats(S, d)
  PROVE  MarkInv'
<1> USE DEF TypeInv, TypeOK
<1> DEFINE gone == {x \in External : Stored(x) /\ SourceOf(x) \in S}
           ids == {events[x].id : x \in gone}
<1>1. /\ events' = [x \in External |-> IF x \in gone THEN NoRow ELSE events[x]]
      /\ jobs' = [j \in JobId |-> IF jobs[j].event \in ids
                                  THEN WithStatus(jobs[j], "deleted") ELSE jobs[j]]
      /\ UNCHANGED <<pc, ret, work>>
  BY DEF ClearStats, ctlVars, pollVars
<1>2. \A x \in External : Stored(x) /\ x \notin gone => events[x].id \notin ids
  BY DEF EventInv, IdInv
<1> HIDE DEF gone, ids
<1>3. \A j \in JobId : /\ jobs'[j].event = jobs[j].event
                       /\ jobs[j].event \notin ids => jobs'[j] = jobs[j]
  BY <1>1, WithStatusFields
<1>4. \A x \in External : x \in gone => events'[x].id = 0
  BY <1>1 DEF NoRow
<1>5. MarkedHasJob'
  <2> SUFFICES ASSUME NEW x \in External, Stored(x)', events'[x].nSeverity # NoSeverity
               PROVE  \E k \in JobId : jobs'[k].event = events'[x].id
                                       /\ jobs'[k].status # "deleted"
    BY DEF MarkedHasJob
  <2>1. x \notin gone /\ events'[x] = events[x]
    BY <1>1, <1>4 DEF Stored
  <2>. QED
    BY <1>2, <1>3, <2>1 DEF MarkInv, MarkedHasJob, Stored
<1>. QED
  BY <1>1, <1>3, <1>5 DEF MarkInv

LEMMA MarkPoll ==
  ASSUME TypeInv, MarkInv, NEW p \in Process,
         PollStep(p), ~Enqueue(p), ~MarkNotified(p)
  PROVE  MarkInv'
<1> USE DEF TypeInv, TypeOK, Goto
<1>1. UNCHANGED jobs
  BY DEF PollStep, StartPoll, IdlePoll, FetchFails, AlertDeparture, InsertEvent, UpdateEvent,
     UpsertThrows, EnqueueThrows, EndBoard, dbVars
<1>2. /\ pc'[p] # "mark" /\ ret'[p] # "mark"
      /\ \A q \in Process : q # p => pc'[q] = pc[q] /\ ret'[q] = ret[q] /\ work'[q] = work[q]
  <2>1. CASE AlertDeparture(p)
    <3>1. PICK x \in todo[p], d \in Readings : work' = [work EXCEPT ![p] = [ext |-> x, alert |-> AlertOf(d),
             seen |-> events[x], id |-> 0, force |-> FALSE]]
      BY <2>1 DEF AlertDeparture
    <3>. QED
      BY <2>1, <3>1 DEF AlertDeparture, MarkInv
  <2>2. CASE ~AlertDeparture(p)
    BY <2>2 DEF PollStep, StartPoll, IdlePoll, FetchFails, InsertEvent, UpdateEvent,
       UpsertThrows, EnqueueThrows, EndBoard, Leave, MarkInv, pollVars
  <2>. QED
    BY <2>1, <2>2
<1>3. CASE InsertEvent(p)
  <2>1. /\ work[p].ext \in External => events'[work[p].ext].nSeverity = NoSeverity
        /\ \A x \in External : x # work[p].ext => events'[x] = events[x]
    BY <1>3 DEF InsertEvent
  <2>2. MarkedHasJob'
    BY <1>1, <2>1 DEF MarkInv, MarkedHasJob, Stored
  <2>. QED
    BY <1>1, <1>2, <2>2 DEF MarkInv
<1>4. CASE UpdateEvent(p)
  <2>1. \A x \in External : /\ events'[x].id = events[x].id
                            /\ events'[x].nSeverity = events[x].nSeverity
    BY <1>4 DEF UpdateEvent, Overwritten
  <2>. QED
    BY <1>1, <1>2, <2>1, MarkQuiet
<1>5. CASE ~InsertEvent(p) /\ ~UpdateEvent(p)
  <2>1. UNCHANGED events
    BY <1>5 DEF PollStep, StartPoll, IdlePoll, FetchFails, AlertDeparture, UpsertThrows,
       EnqueueThrows, EndBoard, dbVars
  <2>. QED
    BY <1>1, <1>2, <2>1, MarkQuiet
<1>. QED
  BY <1>3, <1>4, <1>5

\* A failed query of a delivery leaves p where it was going.
LEMMA MarkFault ==
  ASSUME TypeInv, MarkInv, NEW p \in Process, Fault(p) \/ InjectStub(p)
  PROVE  MarkInv'
<1> USE DEF TypeInv, TypeOK, Goto
<1>1. UNCHANGED <<events, jobs>>
  BY DEF Fault, Crash, QueryFails, DeliveryQueryFails, InjectStub, dbVars
<1>2. CASE Crash(p) \/ QueryFails(p)
  BY <1>1, <1>2, MarkQuiet DEF Crash, QueryFails, Leave
<1>3. CASE DeliveryQueryFails(p)
  BY <1>1, <1>3 DEF DeliveryQueryFails, MarkInv, MarkedHasJob, Stored, pollVars
<1>4. CASE InjectStub(p)
  <2>1. /\ pc[p] = "idle" /\ pc'[p] = "write" /\ ret' = ret
        /\ \A q \in Process : q # p => pc'[q] = pc[q] /\ work'[q] = work[q]
    BY <1>4 DEF InjectStub
  <2>. QED
    BY <1>1, <2>1, MarkQuiet DEF MarkInv
<1>. QED
  BY <1>2, <1>3, <1>4 DEF Fault

LEMMA MarkNext == TypeInv /\ HoldInv /\ EventInv /\ MarkInv /\ [Next]_vars => MarkInv'
<1> SUFFICES ASSUME TypeInv, HoldInv, EventInv, MarkInv, [Next]_vars
             PROVE  MarkInv'
  OBVIOUS
<1>1. CASE UNCHANGED vars
  BY <1>1 DEF vars, dbVars, ctlVars, pollVars, MarkInv, MarkedHasJob, Stored
<1>2. ASSUME NEW p \in Process, PollStep(p)
      PROVE  MarkInv'
  BY <1>2, MarkEnqueue, MarkMarks, MarkPoll
<1>3. ASSUME NEW p \in Process, DrainStep(p) \/ Fault(p) \/ InjectStub(p)
      PROVE  MarkInv'
  BY <1>3, MarkDrain, MarkFault
<1>. QED
  BY <1>1, <1>2, <1>3, MarkClear DEF Next, Admin

\* An event that counts as notified has its job in the queue, or had: a crash repeats a
\* notification and never loses one.
THEOREM MarkedAlwaysHasJob == Spec => []MarkedHasJob
<1>1. Init => MarkInv
  BY MarkInit
<1>2. TypeInv /\ HoldInv /\ EventInv /\ MarkInv /\ [Next]_vars => MarkInv'
  BY MarkNext
<1>3. MarkInv => MarkedHasJob
  BY DEF MarkInv
<1>. QED
  BY <1>1, <1>2, <1>3, SpecEvent, PTL DEF Spec

-----------------------------------------------------------------------------
(* Stranded jobs.                                                          *)

\* Jobs are finitely many.
LEMMA FiniteJobs == ASSUME NEW S \in SUBSET JobId PROVE IsFiniteSet(S) /\ Cardinality(S) \in Nat
<1>1. IsFiniteSet(JobId)
  BY FS_Interval, BoundAssumption DEF JobId
<1>. QED
  BY <1>1, FS_Subset, FS_CardinalityType

\* A set of job ids has a last one.
LEMMA LastJobOf ==
  ASSUME NEW S \in SUBSET JobId, S # {}
  PROVE  \E m \in S : \A k \in S : k <= m
<1> DEFINE Above(j) == {k \in JobId : k > j}
           T == {Above(j) : j \in S}
<1>1. IsWellFoundedOn(StrictSubsetOrdering(JobId), FiniteSubsetsOf(JobId))
  BY FS_StrictSubsetOrderingWellFounded
<1>2. T \subseteq FiniteSubsetsOf(JobId) /\ T # {}
  <2>1. \A j \in S : Above(j) \in FiniteSubsetsOf(JobId)
    BY FiniteJobs DEF FiniteSubsetsOf
  <2> HIDE DEF Above
  <2>. QED
    BY <2>1
<1>3. PICK A \in T : \A B \in T : ~(<<B, A>> \in StrictSubsetOrdering(JobId))
  <2> HIDE DEF T
  <2>. QED
    BY <1>1, <1>2, WFMin
<1>4. PICK m \in S : A = Above(m)
  BY Zenon
<1>5. ASSUME NEW k \in S, ~(k <= m)
      PROVE  FALSE
  <2>1. k \in JobId /\ m \in JobId /\ k > m
    BY <1>5 DEF JobId
  <2>2. Above(k) \subseteq Above(m) /\ k \in Above(m) /\ k \notin Above(k)
    BY <2>1 DEF JobId
  <2>3. Above(k) \subseteq JobId /\ Above(m) \subseteq JobId /\ Above(k) \in T
    OBVIOUS
  <2>4. Above(k) # Above(m)
    BY <2>2
  <2> HIDE DEF Above, T
  <2>. QED
    BY <1>3, <1>4, <2>2, <2>3, <2>4 DEF StrictSubsetOrdering
<1>. QED
  BY <1>5

\* One claim takes at most ClaimLimit jobs.
LEMMA OldestBounded ==
  ASSUME NEW S \in SUBSET JobId
  PROVE  Cardinality(Oldest(S)) <= ClaimLimit
<1>1. Oldest(S) \in SUBSET JobId
  BY DEF Oldest
<1>2. CASE Oldest(S) = {}
  BY <1>2, FS_EmptySet, BoundAssumption
<1>3. CASE Oldest(S) # {}
  <2>1. PICK m \in Oldest(S) : \A k \in Oldest(S) : k <= m
    BY <1>1, <1>3, LastJobOf
  <2> DEFINE B == {k \in S : k < m}
  <2>2. Oldest(S) \ {m} \subseteq B /\ B \subseteq JobId /\ Cardinality(B) < ClaimLimit
    <3>1. Cardinality({k \in S : k < m}) < ClaimLimit
      BY <2>1 DEF Oldest
    <3>2. ASSUME NEW k \in Oldest(S), k # m
          PROVE  k \in S /\ k < m
      <4>1. k <= m /\ k \in Int /\ m \in Int
        BY <1>1, <2>1 DEF JobId
      <4>. QED
        BY <3>2, <4>1 DEF Oldest
    <3>. QED
      BY <3>1, <3>2
  <2>3. Cardinality(Oldest(S) \ {m}) <= Cardinality(B)
    <3> HIDE DEF B
    <3>. QED
      BY <2>2, FiniteJobs, FS_Subset
  <2>4. Cardinality(Oldest(S) \ {m}) = Cardinality(Oldest(S)) - 1
    BY <1>1, <2>1, FiniteJobs, FS_RemoveElement
  <2>5. Cardinality(Oldest(S)) \in Nat /\ Cardinality(B) \in Nat /\ ClaimLimit \in Nat
    <3> HIDE DEF B
    <3>. QED
      BY <1>1, <2>2, FiniteJobs, BoundAssumption
  <2>. QED
    BY <2>2, <2>3, <2>4, <2>5
<1>. QED
  BY <1>2, <1>3

\* A batch is what one claim took, or what is left of it.
StrandInv ==
  /\ \A p \in Process : Cardinality(claimed[p]) <= ClaimLimit
  /\ StrandedJobsAreFaults

LEMMA StrandInit == Init => StrandInv
<1> SUFFICES ASSUME Init PROVE StrandInv
  OBVIOUS
<1>1. Stranded = {} /\ faults = 0 /\ \A p \in Process : claimed[p] = {}
  BY DEF Init, Stranded, NoJob
<1>2. 0 <= ClaimLimit /\ faults * ClaimLimit = 0
  BY <1>1, BoundAssumption
<1>. QED
  BY <1>1, <1>2, FS_EmptySet DEF StrandInv, StrandedJobsAreFaults

\* A step that lets go of no processing job, and takes no more than a batch.
LEMMA StrandKeeps ==
  ASSUME TypeInv, StrandInv, UNCHANGED faults,
         \A p \in Process : \/ claimed'[p] \subseteq claimed[p]
                           \/ Cardinality(claimed'[p]) <= ClaimLimit,
         Stranded' \subseteq Stranded
  PROVE  StrandInv'
<1>1. ASSUME NEW p \in Process
      PROVE  Cardinality(claimed'[p]) <= ClaimLimit
  <2>1. CASE claimed'[p] \subseteq claimed[p]
    <3>1. claimed[p] \in SUBSET JobId /\ claimed'[p] \in SUBSET JobId
      BY <2>1 DEF TypeInv, TypeOK
    <3>2. /\ Cardinality(claimed'[p]) <= Cardinality(claimed[p])
          /\ Cardinality(claimed'[p]) \in Nat /\ Cardinality(claimed[p]) \in Nat
      BY <2>1, <3>1, FiniteJobs, FS_Subset
    <3>. QED
      BY <3>2, BoundAssumption DEF StrandInv
  <2>. QED
    BY <1>1, <2>1
<1>2. Stranded \in SUBSET JobId /\ Stranded' \in SUBSET JobId
  BY DEF Stranded
<1>3. /\ Cardinality(Stranded') <= Cardinality(Stranded)
      /\ Cardinality(Stranded') \in Nat /\ Cardinality(Stranded) \in Nat
  BY <1>2, FiniteJobs, FS_Subset
<1>4. faults * ClaimLimit \in Nat
  BY BoundAssumption DEF TypeInv, TypeOK
<1>. QED
  BY <1>1, <1>3, <1>4 DEF StrandInv, StrandedJobsAreFaults

\* A fault of p leaves p's batch behind, and no other.
LEMMA StrandFault ==
  ASSUME TypeInv, StrandInv, NEW p \in Process, Fault(p)
  PROVE  StrandInv'
<1> USE DEF TypeInv, TypeOK
<1>1. /\ faults' = faults + 1 /\ jobs' = jobs
      /\ \/ claimed' = [claimed EXCEPT ![p] = {}]
         \/ claimed' = claimed
  BY DEF Fault, Crash, QueryFails, DeliveryQueryFails, Leave, dbVars
<1>2. /\ Stranded \in SUBSET JobId /\ Stranded' \in SUBSET JobId
      /\ claimed[p] \in SUBSET JobId
      /\ Stranded' \subseteq Stranded \cup claimed[p]
  BY <1>1 DEF Stranded
<1>3. /\ Cardinality(Stranded') <= Cardinality(Stranded \cup claimed[p])
      /\ Cardinality(Stranded \cup claimed[p])
           = Cardinality(Stranded) + Cardinality(claimed[p])
             - Cardinality(Stranded \cap claimed[p])
      /\ Cardinality(Stranded \cap claimed[p]) \in Nat
  <2>1. IsFiniteSet(Stranded) /\ IsFiniteSet(claimed[p]) /\ IsFiniteSet(Stranded \cup claimed[p])
    BY <1>2, FiniteJobs, FS_Union
  <2>2. IsFiniteSet(Stranded \cap claimed[p])
    BY <1>2, FiniteJobs
  <2>. QED
    BY <1>2, <2>1, <2>2, FS_Union, FS_Subset, FS_CardinalityType
<1>4. /\ Cardinality(Stranded') \in Nat /\ Cardinality(Stranded) \in Nat
      /\ Cardinality(claimed[p]) \in Nat /\ Cardinality(Stranded \cup claimed[p]) \in Nat
  BY <1>2, FiniteJobs
<1>5. faults' * ClaimLimit = faults * ClaimLimit + ClaimLimit /\ faults * ClaimLimit \in Nat
  <2>1. faults \in Nat /\ ClaimLimit \in Nat
    BY BoundAssumption
  <2>. QED
    BY <1>1, <2>1
<1>6. Cardinality(claimed[p]) <= ClaimLimit /\ ClaimLimit \in Nat
  BY BoundAssumption DEF StrandInv
<1>7. Cardinality(Stranded') <= faults' * ClaimLimit
  <2>1. Cardinality(Stranded) <= faults * ClaimLimit
    BY DEF StrandInv, StrandedJobsAreFaults
  <2>. QED
    BY <1>3, <1>4, <1>5, <1>6, <2>1
<1>8. ASSUME NEW q \in Process
      PROVE  Cardinality(claimed'[q]) <= ClaimLimit
  <2>1. Cardinality({}) <= ClaimLimit
    BY <1>6, FS_EmptySet
  <2>2. claimed'[q] = {} \/ claimed'[q] = claimed[q]
    BY <1>1
  <2>3. CASE claimed'[q] = {}
    BY <2>1, <2>3
  <2>4. CASE claimed'[q] = claimed[q]
    BY <2>4 DEF StrandInv
  <2>. QED
    BY <2>2, <2>3, <2>4
<1>. QED
  BY <1>7, <1>8 DEF StrandInv, StrandedJobsAreFaults

LEMMA StrandNext == TypeInv /\ HoldInv /\ StrandInv /\ [Next]_vars => StrandInv'
<1> SUFFICES ASSUME TypeInv, HoldInv, StrandInv, [Next]_vars
             PROVE  StrandInv'
  OBVIOUS
<1> USE DEF TypeInv, TypeOK, Goto
<1>1. CASE UNCHANGED vars
  BY <1>1, StrandKeeps DEF vars, dbVars, drainVars, boundVars, Stranded
<1>2. ASSUME NEW p \in Process, PollStep(p) \/ InjectStub(p)
      PROVE  StrandInv'
  <2>1. /\ pc[p] \in Quiet /\ UNCHANGED faults
        /\ claimed' = claimed \/ claimed' = [claimed EXCEPT ![p] = {}]
    BY <1>2 DEF PollStep, InjectStub, StartPoll, IdlePoll, FetchFails, AlertDeparture,
       InsertEvent, UpdateEvent, UpsertThrows, Enqueue, EnqueueThrows, MarkNotified, EndBoard,
       Leave, drainVars, boundVars, Quiet
  <2>2. claimed[p] = {} /\ claimed' = claimed
    BY <2>1 DEF HoldInv, DrainLocal
  <2>3. \A j \in JobId : jobs'[j].status = "processing" => jobs[j].status = "processing"
    <3>1. CASE Enqueue(p)
      BY <3>1 DEF Enqueue
    <3>2. CASE ~Enqueue(p)
      BY <1>2, <3>2 DEF PollStep, InjectStub, StartPoll, IdlePoll, FetchFails, AlertDeparture,
         InsertEvent, UpdateEvent, UpsertThrows, EnqueueThrows, MarkNotified, EndBoard, dbVars
    <3>. QED
      BY <3>1, <3>2
  <2>. QED
    BY <2>1, <2>2, <2>3, StrandKeeps DEF Stranded
<1>3. ASSUME NEW p \in Process, Claim(p)
      PROVE  StrandInv'
  <2> DEFINE batch == Oldest(Pending)
  <2>1. /\ claimed' = [claimed EXCEPT ![p] = batch] /\ claimed[p] = {} /\ UNCHANGED faults
        /\ jobs' = [j \in JobId |-> IF j \in batch THEN WithStatus(jobs[j], "processing")
                                    ELSE jobs[j]]
    BY <1>3 DEF Claim, HoldInv, DrainLocal, Quiet, boundVars
  <2>2. Cardinality(batch) <= ClaimLimit
    BY OldestBounded DEF Pending
  <2> HIDE DEF batch
  <2>3. Stranded' \subseteq Stranded
    BY <2>1 DEF Stranded
  <2>. QED
    BY <2>1, <2>2, <2>3, StrandKeeps
<1>4. ASSUME NEW p \in Process, CompleteJob(p)
      PROVE  StrandInv'
  <2>1. /\ claimed' = [claimed EXCEPT ![p] = @ \ {job[p]}] /\ UNCHANGED faults
        /\ \A j \in JobId : j # job[p] => jobs'[j] = jobs[j]
    BY <1>4 DEF CompleteJob, boundVars
  <2>2. job[p] \in JobId => jobs'[job[p]].status # "processing"
    <3>1. outcome[p] \in {"done", "failed"}
      BY <1>4 DEF CompleteJob, LocalsOK
    <3>2. \/ jobs' = jobs /\ jobs[job[p]].status = "deleted"
          \/ jobs' = [jobs EXCEPT ![job[p]] = WithStatus(jobs[job[p]], outcome[p])]
      BY <1>4 DEF CompleteJob
    <3>. QED
      BY <3>1, <3>2, WithStatusFields
  <2>3. Stranded' \subseteq Stranded
    BY <2>1, <2>2 DEF Stranded
  <2>. QED
    BY <2>1, <2>3, StrandKeeps
<1>5. ASSUME NEW p \in Process, DrainStep(p), ~Claim(p), ~CompleteJob(p)
      PROVE  StrandInv'
  <2>1. UNCHANGED <<jobs, claimed, faults>>
    BY <1>5 DEF DrainStep, TakeJob, Suppress, CheckChannel, SendMessage, RecordDelivery,
       RecordRefused, dbVars, boundVars
  <2>. QED
    BY <2>1, StrandKeeps DEF Stranded
<1>6. ASSUME NEW S \in SUBSET {"navitia", "stub"}, NEW d \in BOOLEAN, ClearStats(S, d)
      PROVE  StrandInv'
  <2> DEFINE ids == {events[x].id : x \in {y \in External : Stored(y) /\ SourceOf(y) \in S}}
  <2>1. /\ jobs' = [j \in JobId |-> IF jobs[j].event \in ids
                                    THEN WithStatus(jobs[j], "deleted") ELSE jobs[j]]
        /\ UNCHANGED <<claimed, faults>>
    BY <1>6 DEF ClearStats, drainVars
  <2> HIDE DEF ids
  <2>2. \A j \in JobId : jobs'[j].status = "processing" => jobs[j].status = "processing"
    BY <2>1, WithStatusFields
  <2>. QED
    BY <2>1, <2>2, StrandKeeps DEF Stranded
<1>. QED
  BY <1>1, <1>2, <1>3, <1>4, <1>5, <1>6, StrandFault DEF Next, Admin

\* A job left in processing costs a fault, and a fault strands at most one batch.
THEOREM StrandedAlwaysFaults == Spec => []StrandedJobsAreFaults
<1>1. StrandInv => StrandedJobsAreFaults
  BY DEF StrandInv
<1>. QED
  BY <1>1, StrandInit, StrandNext, SpecHold, PTL DEF Spec

-----------------------------------------------------------------------------
(* The delivery history.                                                   *)

\* The jobs whose message on channel c is not waiting for its row.
Accounted(e, c) ==
  {j \in Senders(e, c) : \A p \in Process : ~(pc[p] = "record" /\ job[p] = j /\ chan[p] = c)}

\* Every sent row is counted against a job of its own, and so is the row about to be
\* written.
HistoryInv ==
  /\ IsFiniteSet(deliveries)
  /\ \A e \in EventId, c \in Channel :
       Cardinality(SentRows(e, c)) <= Cardinality(Accounted(e, c))
  /\ \A p \in Process : pc[p] = "record" /\ outcome[p] = "sent" => mails[job[p]][chan[p]] > 0

LEMMA HistoryInit == Init => HistoryInv
<1> SUFFICES ASSUME Init PROVE HistoryInv
  OBVIOUS
<1>1. deliveries = {} /\ \A p \in Process : pc[p] # "record"
  BY DEF Init
<1>2. ASSUME NEW e \in EventId, NEW c \in Channel
      PROVE  SentRows(e, c) = {} /\ Accounted(e, c) = {}
  BY DEF Init, SentRows, Accounted, Senders
<1>. QED
  BY <1>1, <1>2, FS_EmptySet DEF HistoryInv

\* Messages are not taken back, and a job keeps its event.
LEMMA Grows ==
  ASSUME TypeInv, HoldInv, [Next]_vars, NEW j \in JobId
  PROVE  /\ \A c \in Channel : mails'[j][c] >= mails[j][c]
         /\ jobs[j].event # 0 => jobs'[j].event = jobs[j].event
<1> USE DEF TypeInv, TypeOK
<1>1. CASE UNCHANGED vars
  BY <1>1 DEF vars, dbVars
<1>2. ASSUME NEW p \in Process, PollStep(p)
      PROVE  mails' = mails /\ (jobs[j].event # 0 => jobs'[j].event = jobs[j].event)
  <2>1. CASE Enqueue(p)
    <3>1. lastJob + 1 \in JobId /\ jobs[lastJob + 1].event = 0
      BY <2>1, BoundAssumption DEF HoldInv, Enqueue, JobIdsInv, JobId
    <3>. QED
      BY <2>1, <3>1 DEF Enqueue
  <2>2. CASE ~Enqueue(p)
    BY <1>2, <2>2 DEF PollStep, StartPoll, IdlePoll, FetchFails, AlertDeparture, InsertEvent,
       UpdateEvent, UpsertThrows, EnqueueThrows, MarkNotified, EndBoard, dbVars
  <2>. QED
    BY <2>1, <2>2
<1>3. ASSUME NEW p \in Process, DrainStep(p)
      PROVE  /\ \A c \in Channel : mails'[j][c] >= mails[j][c]
             /\ jobs'[j].event = jobs[j].event
  <2>1. CASE SendMessage(p)
    <3>1. mails' = mails \/ mails' = [mails EXCEPT ![job[p]][chan[p]] = @ + 1]
      BY <2>1 DEF SendMessage
    <3>2. \A c \in Channel : mails'[j][c] >= mails[j][c]
      BY <3>1
    <3>. QED
      BY <1>3, <3>2, DrainKeepsJobs
  <2>2. CASE ~SendMessage(p)
    <3>1. mails' = mails
      BY <1>3, <2>2 DEF DrainStep, Claim, TakeJob, Suppress, CheckChannel, RecordDelivery,
         RecordRefused, CompleteJob
    <3>. QED
      BY <1>3, <3>1, DrainKeepsJobs
  <2>. QED
    BY <2>1, <2>2
<1>4. ASSUME NEW p \in Process, Fault(p) \/ InjectStub(p)
      PROVE  mails' = mails /\ jobs' = jobs
  BY <1>4 DEF Fault, Crash, QueryFails, DeliveryQueryFails, InjectStub, dbVars
<1>5. ASSUME NEW S \in SUBSET {"navitia", "stub"}, NEW d \in BOOLEAN, ClearStats(S, d)
      PROVE  mails' = mails /\ jobs'[j].event = jobs[j].event
  <2> DEFINE ids == {events[x].id : x \in {y \in External : Stored(y) /\ SourceOf(y) \in S}}
  <2>1. /\ jobs' = [k \in JobId |-> IF jobs[k].event \in ids
                                    THEN WithStatus(jobs[k], "deleted") ELSE jobs[k]]
        /\ mails' = mails
    BY <1>5 DEF ClearStats
  <2> HIDE DEF ids
  <2>. QED
    BY <2>1, WithStatusFields
<1>6. \A c \in Channel : mails[j][c] >= mails[j][c]
  OBVIOUS
<1>. QED
  BY <1>1, <1>2, <1>3, <1>4, <1>5, <1>6 DEF Next, Admin

\* A message that has its row, or will never have one, keeps its place: a process comes
\* to the row of a job only right after the job's message.
LEMMA AccountedGrows ==
  ASSUME TypeInv, HoldInv, [Next]_vars, NEW e \in EventId, NEW c \in Channel,
         \A p \in Process : pc'[p] = "record"
            => \/ pc[p] = "record" /\ job'[p] = job[p] /\ chan'[p] = chan[p]
               \/ mails[job'[p]][chan'[p]] = 0
  PROVE  Accounted(e, c) \subseteq Accounted(e, c)'
<1> SUFFICES ASSUME NEW j \in Accounted(e, c)
             PROVE  j \in Accounted(e, c)'
  OBVIOUS
<1>1. /\ j \in JobId /\ jobs[j].event = e /\ mails[j][c] > 0
      /\ \A p \in Process : ~(pc[p] = "record" /\ job[p] = j /\ chan[p] = c)
  BY DEF Accounted, Senders
<1>2. jobs'[j].event = e /\ mails'[j][c] >= mails[j][c]
  BY <1>1, Grows DEF EventId
<1>3. mails[j][c] \in Nat /\ mails'[j][c] \in Nat
  BY <1>1, TypeNext DEF TypeInv, TypeOK
<1>4. mails'[j][c] > 0
  BY <1>1, <1>2, <1>3
<1>5. ASSUME NEW p \in Process, pc'[p] = "record", job'[p] = j, chan'[p] = c
      PROVE  FALSE
  BY <1>1, <1>3, <1>5
<1>. QED
  BY <1>1, <1>2, <1>4, <1>5 DEF Accounted, Senders

\* A step that writes no sent row of an event that exists keeps the count.
LEMMA HistoryKeeps ==
  ASSUME TypeInv, HoldInv, HistoryInv, [Next]_vars, IsFiniteSet(deliveries'),
         \A r \in deliveries' : r \in deliveries \/ r.status # "sent" \/ r.event = 0,
         \A p \in Process : pc'[p] = "record"
            => \/ pc[p] = "record" /\ job'[p] = job[p] /\ chan'[p] = chan[p]
               \/ mails[job'[p]][chan'[p]] = 0,
         \A p \in Process : pc'[p] = "record" /\ outcome'[p] = "sent"
            => \/ /\ pc[p] = "record" /\ outcome[p] = "sent"
                  /\ job'[p] = job[p] /\ chan'[p] = chan[p]
               \/ mails'[job'[p]][chan'[p]] > 0
  PROVE  HistoryInv'
<1> USE DEF TypeInv, TypeOK
<1>1. ASSUME NEW e \in EventId, NEW c \in Channel
      PROVE  Cardinality(SentRows(e, c)') <= Cardinality(Accounted(e, c)')
  <2>1. SentRows(e, c)' \subseteq SentRows(e, c) /\ SentRows(e, c) \subseteq deliveries
    BY DEF SentRows, EventId
  <2>2. /\ Cardinality(SentRows(e, c)') <= Cardinality(SentRows(e, c))
        /\ Cardinality(SentRows(e, c)') \in Nat /\ Cardinality(SentRows(e, c)) \in Nat
    BY <2>1, FS_Subset, FS_CardinalityType DEF HistoryInv
  <2>3. Accounted(e, c) \subseteq Accounted(e, c)'
    BY AccountedGrows
  <2>4. Accounted(e, c)' \subseteq JobId
    BY DEF Accounted, Senders
  <2>5. /\ Cardinality(Accounted(e, c)) <= Cardinality(Accounted(e, c)')
        /\ Cardinality(Accounted(e, c)) \in Nat /\ Cardinality(Accounted(e, c)') \in Nat
    BY <2>3, <2>4, FiniteJobs, FS_Subset
  <2>. QED
    BY <2>2, <2>5 DEF HistoryInv
<1>2. ASSUME NEW p \in Process, pc'[p] = "record", outcome'[p] = "sent"
      PROVE  mails'[job'[p]][chan'[p]] > 0
  <2>1. CASE /\ pc[p] = "record" /\ outcome[p] = "sent"
             /\ job'[p] = job[p] /\ chan'[p] = chan[p]
    <3>1. job[p] \in JobId /\ chan[p] \in Channel
      BY <2>1 DEF HoldInv, DrainLocal, Delivering
    <3>2. /\ mails[job[p]][chan[p]] > 0
          /\ mails'[job[p]][chan[p]] >= mails[job[p]][chan[p]]
          /\ mails[job[p]][chan[p]] \in Nat /\ mails'[job[p]][chan[p]] \in Nat
      BY <2>1, <3>1, Grows, TypeNext DEF HistoryInv
    <3>. QED
      BY <2>1, <3>2
  <2>. QED
    BY <1>2, <2>1
<1>. QED
  BY <1>1, <1>2 DEF HistoryInv

\* The row of a message that left takes the place its job kept for it.
LEMMA HistoryRecords ==
  ASSUME TypeInv, HoldInv, HistoryInv, [Next]_vars, NEW p \in Process, RecordDelivery(p)
  PROVE  HistoryInv'
<1> USE DEF TypeInv, TypeOK, Goto
<1>1. /\ pc[p] = "record" /\ pc'[p] # "record" /\ UNCHANGED <<jobs, mails, job>>
      /\ \A q \in Process : q # p => /\ pc'[q] = pc[q] /\ chan'[q] = chan[q]
                                     /\ outcome'[q] = outcome[q]
  BY DEF RecordDelivery, NextChannel
<1>2. job[p] \in claimed[p] /\ job[p] \in JobId /\ chan[p] \in Channel
  BY <1>1 DEF HoldInv, DrainLocal, Delivering
<1> DEFINE row == [id |-> lastDelivery + 1, event |-> jobs[job[p]].event,
                   channel |-> chan[p], status |-> outcome[p]]
<1>3. deliveries' = deliveries \cup {row}
  BY DEF RecordDelivery, AddDelivery
<1>4. IsFiniteSet(deliveries) /\ IsFiniteSet(deliveries')
  BY <1>3, FS_AddElement DEF HistoryInv
<1>5. ASSUME NEW q \in Process, pc'[q] = "record"
      PROVE  pc[q] = "record" /\ job'[q] = job[q] /\ chan'[q] = chan[q] /\ outcome'[q] = outcome[q]
  BY <1>1, <1>5
<1>6. CASE outcome[p] # "sent"
  <2>1. row.status # "sent"
    BY <1>6
  <2>. QED
    BY <1>3, <1>4, <1>5, <2>1, HistoryKeeps
<1>7. CASE outcome[p] = "sent"
  <2>1. ASSUME NEW e \in EventId, NEW c \in Channel
        PROVE  Cardinality(SentRows(e, c)') <= Cardinality(Accounted(e, c)')
    <3>1. /\ Accounted(e, c) \subseteq Accounted(e, c)'
          /\ Accounted(e, c)' \subseteq JobId /\ Accounted(e, c) \subseteq JobId
      BY <1>5, AccountedGrows DEF Accounted, Senders
    <3>2. IsFiniteSet(SentRows(e, c)) /\ Cardinality(SentRows(e, c)) \in Nat
      <4>1. SentRows(e, c) \subseteq deliveries
        BY DEF SentRows
      <4>. QED
        BY <1>4, <4>1, FS_Subset, FS_CardinalityType
    <3>3. /\ Cardinality(Accounted(e, c)) <= Cardinality(Accounted(e, c)')
          /\ Cardinality(Accounted(e, c)) \in Nat /\ Cardinality(Accounted(e, c)') \in Nat
      BY <3>1, FiniteJobs, FS_Subset
    <3>4. Cardinality(SentRows(e, c)) <= Cardinality(Accounted(e, c))
      BY DEF HistoryInv
    <3>5. CASE row.event = e /\ row.channel = c
      <4>1. SentRows(e, c)' = SentRows(e, c) \cup {row}
        BY <1>3, <1>7, <3>5 DEF SentRows
      <4>2. Cardinality(SentRows(e, c)') <= Cardinality(SentRows(e, c)) + 1
        <5> HIDE DEF row
        <5>1. /\ Cardinality(SentRows(e, c) \cup {row}) =
                   IF row \in SentRows(e, c) THEN Cardinality(SentRows(e, c))
                   ELSE Cardinality(SentRows(e, c)) + 1
          BY <3>2, FS_AddElement
        <5>2. Cardinality(SentRows(e, c) \cup {row}) <= Cardinality(SentRows(e, c)) + 1
          BY <3>2, <5>1
        <5>. QED
          BY <4>1, <5>2
      <4>3. job[p] \notin Accounted(e, c)
        BY <1>1, <3>5 DEF Accounted
      <4>4. job[p] \in Accounted(e, c)'
        <5>1. mails[job[p]][c] > 0
          BY <1>1, <1>7, <3>5 DEF HistoryInv
        <5>2. ASSUME NEW q \in Process, pc'[q] = "record", job'[q] = job[p]
              PROVE  FALSE
          <6>1. q # p /\ pc[q] = "record" /\ job[q] = job[p]
            BY <1>1, <5>2
          <6>2. job[q] \in claimed[q]
            BY <6>1 DEF HoldInv, DrainLocal, Delivering
          <6>. QED
            BY <1>2, <6>1, <6>2 DEF HoldInv, OneHolder
        <5>. QED
          BY <1>1, <1>2, <3>5, <5>1, <5>2 DEF Accounted, Senders
      <4>5. Cardinality(Accounted(e, c) \cup {job[p]}) = Cardinality(Accounted(e, c)) + 1
        BY <3>1, <4>3, FiniteJobs, FS_AddElement
      <4>6. Cardinality(Accounted(e, c) \cup {job[p]}) <= Cardinality(Accounted(e, c)')
        <5>1. Accounted(e, c) \cup {job[p]} \subseteq Accounted(e, c)'
          BY <3>1, <4>4
        <5>. QED
          BY <3>1, <5>1, FiniteJobs, FS_Subset
      <4>7. Cardinality(SentRows(e, c)') \in Nat
        BY <3>2, <4>1, FS_AddElement, FS_CardinalityType
      <4>. QED
        BY <3>2, <3>3, <3>4, <4>2, <4>5, <4>6, <4>7
    <3>6. CASE ~(row.event = e /\ row.channel = c)
      <4>1. SentRows(e, c)' = SentRows(e, c)
        BY <1>3, <3>6 DEF SentRows
      <4>. QED
        BY <3>2, <3>3, <3>4, <4>1
    <3>. QED
      BY <3>5, <3>6
  <2>2. ASSUME NEW q \in Process, pc'[q] = "record", outcome'[q] = "sent"
        PROVE  mails'[job'[q]][chan'[q]] > 0
    BY <1>1, <1>5, <2>2 DEF HistoryInv
  <2>. QED
    BY <1>4, <2>1, <2>2 DEF HistoryInv
<1>. QED
  BY <1>6, <1>7

LEMMA HistoryNext == TypeInv /\ HoldInv /\ HistoryInv /\ [Next]_vars => HistoryInv'
<1> SUFFICES ASSUME TypeInv, HoldInv, HistoryInv, [Next]_vars
             PROVE  HistoryInv'
  OBVIOUS
<1> USE DEF TypeInv, TypeOK, Goto
<1> DEFINE Rows == /\ \A r \in deliveries' : r \in deliveries \/ r.status # "sent" \/ r.event = 0
                   /\ IsFiniteSet(deliveries')
           Comes(q) == pc'[q] = "record"
                         => \/ pc[q] = "record" /\ job'[q] = job[q] /\ chan'[q] = chan[q]
                            \/ mails[job'[q]][chan'[q]] = 0
           Says(q) == pc'[q] = "record" /\ outcome'[q] = "sent"
                        => \/ /\ pc[q] = "record" /\ outcome[q] = "sent"
                              /\ job'[q] = job[q] /\ chan'[q] = chan[q]
                           \/ mails'[job'[q]][chan'[q]] > 0
<1>0. Rows /\ (\A q \in Process : Comes(q) /\ Says(q)) => HistoryInv'
  BY HistoryKeeps
<1>a. IsFiniteSet(deliveries)
  BY DEF HistoryInv
<1>1. CASE UNCHANGED vars
  BY <1>0, <1>1, <1>a DEF vars, dbVars, ctlVars, drainVars
<1>2. ASSUME NEW p \in Process, PollStep(p) \/ InjectStub(p)
      PROVE  HistoryInv'
  <2>1. UNCHANGED deliveries
    BY <1>2 DEF PollStep, InjectStub, StartPoll, IdlePoll, FetchFails, AlertDeparture,
       InsertEvent, UpdateEvent, UpsertThrows, Enqueue, EnqueueThrows, MarkNotified, EndBoard, dbVars
  <2>2. /\ pc'[p] # "record"
        /\ \A q \in Process : q # p => /\ pc'[q] = pc[q] /\ outcome'[q] = outcome[q]
                                       /\ job'[q] = job[q] /\ chan'[q] = chan[q]
    BY <1>2 DEF PollStep, InjectStub, StartPoll, IdlePoll, FetchFails, AlertDeparture,
       InsertEvent, UpdateEvent, UpsertThrows, Enqueue, EnqueueThrows, MarkNotified, EndBoard,
       Leave, drainVars
  <2>. QED
    BY <1>0, <1>a, <2>1, <2>2
<1>3. ASSUME NEW p \in Process, DrainStep(p) \/ Fault(p)
      PROVE  HistoryInv'
  <2>0. \A q \in Process : q # p => /\ pc'[q] = pc[q] /\ outcome'[q] = outcome[q]
                                    /\ job'[q] = job[q] /\ chan'[q] = chan[q]
    BY <1>3 DEF DrainStep, Claim, TakeJob, Suppress, CheckChannel, SendMessage, RecordDelivery,
       RecordRefused, CompleteJob, NextChannel, EndDrain, Fault, Crash, QueryFails,
       DeliveryQueryFails, Leave
  <2>1. CASE SendMessage(p)
    <3>1. /\ job[p] \in JobId /\ chan[p] \in Channel /\ UNCHANGED <<job, chan, deliveries>>
          /\ mails[job[p]][chan[p]] = 0
      BY <2>1 DEF SendMessage, HoldInv, DrainLocal, HeldJob, Delivering, dbVars
    <3>2. \/ outcome'[p] = "failed"
          \/ mails' = [mails EXCEPT ![job[p]][chan[p]] = @ + 1]
      BY <2>1 DEF SendMessage
    <3>3. outcome'[p] = "failed" \/ mails'[job[p]][chan[p]] > 0
      BY <3>1, <3>2
    <3>. QED
      BY <1>0, <1>a, <2>0, <3>1, <3>3
  <2>2. CASE RecordDelivery(p)
    BY <2>2, HistoryRecords
  <2>3. CASE Suppress(p)
    <3>1. PICK i, e : deliveries' = deliveries \cup {[id |-> i, event |-> e,
                                        channel |-> "email", status |-> "suppressed"]}
      BY <2>3 DEF Suppress, AddDelivery
    <3>2. pc'[p] # "record" /\ IsFiniteSet(deliveries')
      BY <1>a, <2>3, <3>1, FS_AddElement DEF Suppress
    <3>. QED
      BY <1>0, <2>0, <3>1, <3>2
  <2>4. CASE ~SendMessage(p) /\ ~RecordDelivery(p) /\ ~Suppress(p)
    <3>1. UNCHANGED deliveries /\ pc'[p] # "record"
      BY <1>3, <2>4 DEF DrainStep, Claim, TakeJob, CheckChannel, RecordRefused, CompleteJob,
         NextChannel, EndDrain, AfterDrain, Fault, Crash, QueryFails, DeliveryQueryFails, Leave,
         dbVars
    <3>. QED
      BY <1>0, <1>a, <2>0, <3>1
  <2>. QED
    BY <2>1, <2>2, <2>3, <2>4
<1>4. ASSUME NEW S \in SUBSET {"navitia", "stub"}, NEW d \in BOOLEAN, ClearStats(S, d)
      PROVE  HistoryInv'
  <2>1. UNCHANGED <<pc, outcome, job, chan>>
    BY <1>4 DEF ClearStats, ctlVars, drainVars
  <2>2. Rows
    <3> DEFINE ids == {events[x].id : x \in {y \in External : Stored(y) /\ SourceOf(y) \in S}}
               Unlink(r) == IF r.event \in ids THEN [r EXCEPT !.event = 0] ELSE r
    <3>1. deliveries' \subseteq {Unlink(r) : r \in deliveries}
      BY <1>4 DEF ClearStats
    <3>2. ASSUME NEW r \in DeliveryRow
          PROVE  Unlink(r) = r \/ Unlink(r).event = 0
      <4> HIDE DEF ids
      <4>. QED
        BY DEF DeliveryRow
    <3> HIDE DEF Unlink
    <3>3. IsFiniteSet({Unlink(r) : r \in deliveries})
      <4> DEFINE f == [r \in deliveries |-> Unlink(r)]
      <4>1. f \in Surjection(deliveries, {Unlink(r) : r \in deliveries})
        BY DEF Surjection
      <4>. QED
        BY <1>a, <4>1, FS_Surjection
    <3>4. IsFiniteSet(deliveries')
      BY <3>1, <3>3, FS_Subset
    <3>. QED
      BY <3>1, <3>2, <3>4
  <2>. QED
    BY <1>0, <2>1, <2>2
<1>. QED
  BY <1>1, <1>2, <1>3, <1>4 DEF Next, Admin

\* The delivery history never tells of more than what left.
THEOREM HistoryAlwaysReal == Spec => []HistoryIsReal
<1>1. TypeInv /\ HoldInv /\ HistoryInv /\ [Next]_vars => HistoryInv'
  BY HistoryNext
<1>2. TypeInv /\ HistoryInv => HistoryIsReal
  <2> SUFFICES ASSUME HistoryInv, NEW e \in EventId, NEW c \in Channel
               PROVE  Cardinality(SentRows(e, c)) <= Cardinality(Senders(e, c))
    BY DEF HistoryIsReal
  <2>1. Accounted(e, c) \subseteq Senders(e, c) /\ Senders(e, c) \subseteq JobId
    BY DEF Accounted, Senders
  <2>2. Cardinality(Accounted(e, c)) <= Cardinality(Senders(e, c))
    BY <2>1, FiniteJobs, FS_Subset
  <2>3. /\ Cardinality(Accounted(e, c)) \in Nat /\ Cardinality(Senders(e, c)) \in Nat
        /\ Cardinality(SentRows(e, c)) \in Nat
    <3>1. SentRows(e, c) \subseteq deliveries
      BY DEF SentRows
    <3>2. IsFiniteSet(SentRows(e, c))
      BY <3>1, FS_Subset DEF HistoryInv
    <3>. QED
      BY <2>1, <3>2, FiniteJobs, FS_CardinalityType
  <2>. QED
    BY <2>2, <2>3 DEF HistoryInv
<1>. QED
  BY <1>1, <1>2, HistoryInit, SpecHold, PTL DEF Spec

-----------------------------------------------------------------------------
(* Calm runs: while no query failed, nothing crashed and nothing was purged. *)

\* The rows tell of what left for an event on a channel, n messages, and a channel that
\* is switched on was tried.
PassedIn(rows, n, e, c) ==
  /\ n > 0 => \E r \in rows : r.event = e /\ r.channel = c /\ r.status \in {"sent", "failed"}
  /\ Switch[c] = {TRUE}
       => \E r \in rows : r.event = e /\ (r.channel = c \/ r.status = "suppressed")

\* Job j is over with channel c.
Passed(j, c) == PassedIn(deliveries, mails[j][c], jobs[j].event, c)

\* No job fails: its event stays.
NoneFails ==
  /\ \A j \in JobId : /\ jobs[j].event # 0 => EventAlive(jobs[j].event)
                      /\ jobs[j].status # "failed"
  /\ \A p \in Process : pc[p] = "complete" => outcome[p] = "done"

\* A job that is done passed every channel, and so did one that is about to be; what
\* is delivered on Teams passed the mail.
Progress(p) ==
  /\ pc[p] = "complete" => \A c \in Channel : Passed(job[p], c)
  /\ pc[p] \in {"check", "send", "record"} /\ chan[p] = "teams" => Passed(job[p], "email")

CalmInv ==
  faults = 0 /\ clears = 0 =>
    /\ NoneFails
    /\ \A j \in JobId : jobs[j].status = "done" => \A c \in Channel : Passed(j, c)
    /\ \A p \in Process : Progress(p)

LEMMA CalmInit == Init => CalmInv
  BY DEF Init, CalmInv, NoneFails, Progress, NoJob, JobId

\* Rows stay.
LEMMA PassedStays ==
  ASSUME NEW D, NEW E, D \subseteq E, NEW n, NEW e, NEW c, PassedIn(D, n, e, c)
  PROVE  PassedIn(E, n, e, c)
  BY DEF PassedIn

\* A step that leaves alone the jobs, the messages, the history and every delivery but
\* perhaps p's, which it abandons.
LEMMA CalmQuiet ==
  ASSUME CalmInv, NEW p \in Process,
         UNCHANGED <<jobs, mails, deliveries>>,
         \A e \in EventId : EventAlive(e) => EventAlive(e)',
         \A j \in JobId : jobs[j].event \in EventId \cup {0},
         pc'[p] \notin Delivering,
         \A q \in Process : q # p => /\ pc'[q] = pc[q] /\ outcome'[q] = outcome[q]
                                     /\ job'[q] = job[q] /\ chan'[q] = chan[q],
         faults' = 0 /\ clears' = 0 => faults = 0 /\ clears = 0
  PROVE  CalmInv'
<1> SUFFICES ASSUME faults = 0, clears = 0
             PROVE  /\ NoneFails'
                    /\ \A j \in JobId : jobs'[j].status = "done" => \A c \in Channel : Passed(j, c)'
                    /\ \A q \in Process : Progress(q)'
  BY DEF CalmInv
<1>1. NoneFails'
  BY DEF CalmInv, NoneFails, Delivering
<1>2. ASSUME NEW j \in JobId, jobs'[j].status = "done", NEW c \in Channel
      PROVE  Passed(j, c)'
  BY <1>2 DEF CalmInv, Passed
<1>3. ASSUME NEW q \in Process
      PROVE  Progress(q)'
  <2>1. CASE q = p
    BY <2>1 DEF Progress, Delivering
  <2>2. CASE q # p
    <3>1. Progress(q)
      BY DEF CalmInv
    <3>. QED
      BY <2>2, <3>1 DEF Progress, Passed
  <2>. QED
    BY <2>1, <2>2
<1>. QED
  BY <1>1, <1>2, <1>3

\* A step of p's delivery, or its claim: no message leaves on a channel a job passed,
\* and what is new of p is shown apart.
LEMMA CalmDrain ==
  ASSUME TypeInv, HoldInv, CalmInv, NEW p \in Process, DrainStep(p),
         NoneFails',
         \A j \in JobId : jobs'[j].status = "done"
            => jobs[j].status = "done" \/ (j = job[p] /\ pc[p] = "complete"),
         Progress(p)'
  PROVE  CalmInv'
<1> USE DEF TypeInv, TypeOK
<1> SUFFICES ASSUME faults' = 0, clears' = 0
             PROVE  /\ NoneFails'
                    /\ \A j \in JobId : jobs'[j].status = "done" => \A c \in Channel : Passed(j, c)'
                    /\ \A q \in Process : Progress(q)'
  BY DEF CalmInv
<1>1. /\ faults = 0 /\ clears = 0
      /\ deliveries \subseteq deliveries'
      /\ \A q \in Process : q # p => /\ pc'[q] = pc[q] /\ job'[q] = job[q] /\ chan'[q] = chan[q]
  <2>1. faults' = faults /\ clears' = clears
    BY DEF DrainStep, Claim, TakeJob, Suppress, CheckChannel, SendMessage, RecordDelivery,
       RecordRefused, CompleteJob, boundVars
  <2>2. deliveries \subseteq deliveries'
    BY DEF DrainStep, Claim, TakeJob, Suppress, CheckChannel, SendMessage, RecordDelivery,
       RecordRefused, CompleteJob, AddDelivery, dbVars
  <2>3. \A q \in Process : q # p => /\ pc'[q] = pc[q] /\ job'[q] = job[q] /\ chan'[q] = chan[q]
    BY DrainKeepsJobs DEF DrainStep, Claim, TakeJob, Suppress, CheckChannel, SendMessage,
       RecordDelivery, RecordRefused, CompleteJob, NextChannel
  <2>. QED
    BY <2>1, <2>2, <2>3
<1>2. \A j \in JobId : jobs'[j].event = jobs[j].event
  BY DrainKeepsJobs
<1>3. \A j \in JobId, c \in Channel : mails'[j][c] = mails[j][c] \/ (pc[p] = "send" /\ j = job[p])
  <2>1. CASE SendMessage(p)
    BY <2>1 DEF SendMessage
  <2>2. CASE ~SendMessage(p)
    BY <2>2 DEF DrainStep, Claim, TakeJob, Suppress, CheckChannel, RecordDelivery, RecordRefused,
       CompleteJob
  <2>. QED
    BY <2>1, <2>2
<1>4. ASSUME NEW j \in JobId, jobs'[j].status = "done", NEW c \in Channel
      PROVE  Passed(j, c)'
  <2>1. Passed(j, c)
    BY <1>1, <1>4 DEF CalmInv, Progress
  <2>2. pc[p] = "send" => j # job[p]
    <3>1. pc[p] = "send" => /\ job[p] \in claimed[p]
                            /\ jobs[job[p]].status \in {"processing", "deleted"}
      BY DEF HoldInv, DrainLocal, HeldJob, Delivering
    <3>. QED
      BY <1>4, <3>1
  <2>. QED
    BY <1>2, <1>3, <2>1, <2>2, <1>1, PassedStays DEF Passed
<1>5. ASSUME NEW q \in Process, q # p
      PROVE  Progress(q)'
  <2>1. CASE pc[q] \in Delivering
    <3>1. /\ job[q] # job[p] \/ pc[p] # "send"
          /\ job[q] \in JobId
      BY <1>5, <2>1 DEF HoldInv, DrainLocal, OneHolder, Delivering
    <3>2. Progress(q)
      BY <1>1 DEF CalmInv
    <3>3. \A c \in Channel : mails'[job[q]][c] = mails[job[q]][c]
      BY <1>3, <3>1
    <3>4. jobs'[job[q]].event = jobs[job[q]].event
      BY <1>2, <3>1
    <3>5. /\ pc'[q] = pc[q] /\ job'[q] = job[q] /\ chan'[q] = chan[q]
          /\ deliveries \subseteq deliveries'
      BY <1>1, <1>5
    <3>6. "email" \in Channel
      BY DEF Channel
    <3>. QED
      BY <3>2, <3>3, <3>4, <3>5, <3>6, PassedStays DEF Progress, Passed
  <2>2. CASE pc[q] \notin Delivering
    BY <1>1, <1>5, <2>2 DEF Progress, Delivering
  <2>. QED
    BY <2>1, <2>2
<1>. QED
  BY <1>4, <1>5

\* The row a poll writes replaces no other event's.
LEMMA EventsStayAlive ==
  ASSUME TypeInv, HoldInv, NEW p \in Process, PollStep(p) \/ DrainStep(p) \/ InjectStub(p),
         NEW e \in EventId, EventAlive(e)
  PROVE  EventAlive(e)'
<1> USE DEF TypeInv, TypeOK
<1>1. PICK x \in External : events[x].id = e
  BY DEF EventAlive
<1>2. events'[x].id = e
  <2>1. CASE InsertEvent(p)
    <3>1. events[work[p].ext].id = 0 /\ e # 0
      BY <2>1 DEF InsertEvent, Stored, EventId
    <3>2. x # work[p].ext
      BY <1>1, <3>1
    <3>. QED
      BY <1>1, <2>1, <3>2 DEF InsertEvent
  <2>2. CASE UpdateEvent(p)
    BY <1>1, <2>2 DEF UpdateEvent, Overwritten
  <2>3. CASE MarkNotified(p)
    BY <1>1, <2>3 DEF MarkNotified, Notified
  <2>4. CASE DrainStep(p)
    BY <1>1, <2>4, DrainKeepsJobs
  <2>5. CASE ~InsertEvent(p) /\ ~UpdateEvent(p) /\ ~MarkNotified(p) /\ ~DrainStep(p)
    BY <1>1, <2>5 DEF PollStep, InjectStub, StartPoll, IdlePoll, FetchFails, AlertDeparture,
       UpsertThrows, Enqueue, EnqueueThrows, EndBoard, dbVars
  <2>. QED
    BY <2>1, <2>2, <2>3, <2>4, <2>5
<1>. QED
  BY <1>2 DEF EventAlive

\* A poll delivers nothing.
LEMMA CalmPoll ==
  ASSUME TypeInv, HoldInv, CalmInv, NEW p \in Process, PollStep(p) \/ InjectStub(p), ~Enqueue(p)
  PROVE  CalmInv'
<1> USE DEF TypeInv, TypeOK, Goto
<1>1. UNCHANGED <<jobs, mails, deliveries>>
  BY DEF PollStep, InjectStub, StartPoll, IdlePoll, FetchFails, AlertDeparture, InsertEvent,
     UpdateEvent, UpsertThrows, EnqueueThrows, MarkNotified, EndBoard, dbVars
<1>2. faults' = faults /\ clears' = clears
  BY DEF PollStep, InjectStub, StartPoll, IdlePoll, FetchFails, AlertDeparture, InsertEvent,
     UpdateEvent, UpsertThrows, EnqueueThrows, MarkNotified, EndBoard, boundVars
<1>3. \A j \in JobId : jobs[j].event \in EventId \cup {0}
  BY DEF JobRow
<1>4. pc'[p] \notin Delivering
  BY DEF PollStep, InjectStub, StartPoll, IdlePoll, FetchFails, AlertDeparture, InsertEvent,
     UpdateEvent, UpsertThrows, EnqueueThrows, MarkNotified, EndBoard, Leave, Delivering
<1>5. \A q \in Process : q # p => /\ pc'[q] = pc[q] /\ outcome'[q] = outcome[q]
                                  /\ job'[q] = job[q] /\ chan'[q] = chan[q]
  BY DEF PollStep, InjectStub, StartPoll, IdlePoll, FetchFails, AlertDeparture, InsertEvent,
     UpdateEvent, UpsertThrows, EnqueueThrows, MarkNotified, EndBoard, Leave, drainVars
<1>. QED
  BY <1>1, <1>2, <1>3, <1>4, <1>5, EventsStayAlive, CalmQuiet

\* A job is queued for an event that is stored.
LEMMA CalmEnqueue ==
  ASSUME TypeInv, HoldInv, CalmInv, NEW p \in Process, Enqueue(p)
  PROVE  CalmInv'
<1> USE DEF TypeInv, TypeOK, Goto
<1> SUFFICES ASSUME faults' = 0, clears' = 0
             PROVE  /\ NoneFails'
                    /\ \A j \in JobId : jobs'[j].status = "done" => \A c \in Channel : Passed(j, c)'
                    /\ \A q \in Process : Progress(q)'
  BY DEF CalmInv
<1> DEFINE new == lastJob + 1
<1>1. /\ UNCHANGED <<events, mails, deliveries, job, chan, outcome>>
      /\ faults = 0 /\ clears = 0
  BY DEF Enqueue, drainVars, boundVars
<1>2. /\ new \in JobId /\ jobs[new].status = "absent"
      /\ jobs'[new].status = "pending" /\ jobs'[new].event = work[p].id
      /\ EventAlive(work[p].id)
      /\ \A j \in JobId \ {new} : jobs'[j] = jobs[j]
  BY BoundAssumption DEF HoldInv, Enqueue, JobIdsInv, JobId
<1>3. /\ pc'[p] \notin Delivering
      /\ \A q \in Process : q # p => pc'[q] = pc[q]
  BY DEF Enqueue, Delivering
<1> HIDE DEF new
<1>4. NoneFails'
  <2>1. \A j \in JobId : jobs'[j].event # 0 => EventAlive(jobs'[j].event)
    BY <1>1, <1>2 DEF CalmInv, NoneFails
  <2>2. \A e : EventAlive(e) => EventAlive(e)'
    BY <1>1 DEF EventAlive
  <2>3. \A j \in JobId : jobs'[j].event # 0 => EventAlive(jobs[j].event)' 
    BY <2>1, <1>1 DEF EventAlive
  <2>. QED
    BY <1>1, <1>2, <1>3, <2>3 DEF CalmInv, NoneFails, Delivering
<1>5. ASSUME NEW j \in JobId, jobs'[j].status = "done", NEW c \in Channel
      PROVE  Passed(j, c)'
  BY <1>1, <1>2, <1>5 DEF CalmInv, Passed
<1>6. ASSUME NEW q \in Process
      PROVE  Progress(q)'
  <2>1. CASE pc'[q] \in Delivering
    <3>1. q # p /\ pc[q] \in Delivering /\ pc'[q] = pc[q]
      BY <1>3, <2>1
    <3>2. job[q] \in JobId /\ jobs[job[q]].status # "absent"
      BY <3>1 DEF HoldInv, DrainLocal, HeldJob
    <3>3. jobs'[job[q]] = jobs[job[q]]
      BY <1>2, <3>2
    <3>4. Progress(q)
      BY <1>1 DEF CalmInv
    <3>. QED
      BY <1>1, <3>1, <3>3, <3>4 DEF Progress, Passed
  <2>2. CASE pc'[q] \notin Delivering
    BY <2>2 DEF Progress, Delivering
  <2>. QED
    BY <2>1, <2>2
<1>. QED
  BY <1>4, <1>5, <1>6

\* The delivery of a job: no event is missing, each channel is told before the next,
\* and the job is done after the last.
LEMMA CalmDeliver ==
  ASSUME TypeInv, HoldInv, CalmInv, NEW p \in Process, DrainStep(p), faults = 0, clears = 0
  PROVE  CalmInv'
<1> USE DEF TypeInv, TypeOK, Goto
<1> DEFINE k == job[p]
           e == jobs[k].event
<1>1. /\ NoneFails
      /\ \A j \in JobId : jobs[j].status = "done" => \A c \in Channel : Passed(j, c)
      /\ Progress(p)
  BY DEF CalmInv
<1>2. ASSUME pc[p] \in Delivering
      PROVE  /\ k \in JobId /\ k \in claimed[p]
             /\ HeldJob(p, k)
             /\ e \in EventId /\ EventAlive(e)
  <2>1. k \in JobId /\ k \in claimed[p] /\ HeldJob(p, k)
    BY <1>2 DEF HoldInv, DrainLocal
  <2>2. jobs[k].status # "absent"
    BY <2>1 DEF HeldJob
  <2>3. e # 0 /\ e \in EventId \cup {0}
    BY <2>1, <2>2 DEF HoldInv, JobIdsInv, JobRow
  <2>. QED
    BY <1>1, <2>1, <2>3 DEF NoneFails
<1>3. /\ \A j \in JobId : jobs'[j].event = jobs[j].event
      /\ UNCHANGED events
      /\ \A q \in Process : q # p => pc'[q] = pc[q]
  BY DrainKeepsJobs
<1>4. \A q \in Process : q # p => outcome'[q] = outcome[q]
  BY DEF DrainStep, Claim, TakeJob, Suppress, CheckChannel, SendMessage, RecordDelivery,
     RecordRefused, CompleteJob, NextChannel
<1>5. ASSUME \A j \in JobId : jobs'[j].status # "failed",
             pc'[p] = "complete" => outcome'[p] = "done"
      PROVE  NoneFails'
  <2>1. \A j \in JobId : jobs'[j].event # 0 => EventAlive(jobs[j].event)
    BY <1>1, <1>3 DEF NoneFails
  <2>2. \A j \in JobId : jobs'[j].event # 0 => EventAlive(jobs[j].event)'
    BY <1>3, <2>1 DEF EventAlive
  <2>. QED
    BY <1>1, <1>3, <1>4, <1>5, <2>2 DEF NoneFails, EventAlive
<1> HIDE DEF k, e
<1>6. CASE Claim(p)
  <2>1. \A j \in JobId : jobs'[j] = jobs[j] \/ jobs'[j].status = "processing"
    BY <1>6, WithStatusFields DEF Claim
  <2>2. pc'[p] \notin Delivering
    BY <1>6 DEF Claim, EndDrain, AfterDrain, Delivering
  <2>3. Progress(p)'
    BY <2>2 DEF Progress, Delivering
  <2>4. NoneFails'
    BY <1>1, <1>5, <2>1, <2>2 DEF NoneFails, Delivering
  <2>. QED
    BY <2>1, <2>3, <2>4, CalmDrain
<1>7. CASE CompleteJob(p)
  <2>1. pc[p] = "complete" /\ outcome[p] = "done"
    BY <1>1, <1>7 DEF CompleteJob, NoneFails
  <2>2. \A j \in JobId : jobs'[j] = jobs[j] \/ (j = k /\ jobs'[j].status = "done")
    BY <1>7, <2>1, WithStatusFields DEF CompleteJob, k
  <2>3. pc'[p] \notin Delivering
    BY <1>7 DEF CompleteJob, EndDrain, AfterDrain, Delivering
  <2>4. Progress(p)'
    BY <2>3 DEF Progress, Delivering
  <2>5. NoneFails'
    BY <1>1, <1>5, <2>2, <2>3 DEF NoneFails, Delivering
  <2>. QED
    BY <2>1, <2>2, <2>4, <2>5, CalmDrain DEF k
<1>8. CASE TakeJob(p)
  <2>1. PICK j \in claimed[p] : /\ job' = [job EXCEPT ![p] = j]
                                /\ \/ ~EventAlive(jobs[j].event)
                                   \/ pc'[p] \in {"check", "suppress"}
    BY <1>8 DEF TakeJob
  <2>2. UNCHANGED <<jobs, chan>> /\ pc[p] = "take" /\ j \in JobId
    BY <1>8 DEF TakeJob, dbVars
  <2>3. jobs[j].status # "absent"
    BY <2>1 DEF HoldInv, HeldJob
  <2>4. EventAlive(jobs[j].event)
    BY <1>1, <2>2, <2>3 DEF NoneFails, HoldInv, JobIdsInv
  <2>5. pc'[p] \in {"check", "suppress"} /\ chan'[p] = "email"
    BY <2>1, <2>2, <2>4 DEF HoldInv, DrainLocal, Delivering
  <2>6. Progress(p)'
    BY <2>5 DEF Progress
  <2>7. NoneFails'
    BY <1>1, <1>5, <2>2, <2>5 DEF NoneFails
  <2>. QED
    BY <2>2, <2>6, <2>7, CalmDrain
<1>9. CASE Suppress(p)
  <2>1. /\ pc[p] = "suppress" /\ k \in JobId /\ UNCHANGED <<jobs, mails, job>>
        /\ pc'[p] = "complete" /\ outcome'[p] = "done"
    BY <1>2, <1>9 DEF Suppress, Delivering
  <2>2. \A c \in Channel : mails[k][c] = 0
    BY <1>2, <2>1 DEF HeldJob, Delivering, k
  <2>3. \E r \in deliveries' : r.event = jobs[k].event /\ r.status = "suppressed"
    <3> DEFINE r == [id |-> lastDelivery + 1, event |-> jobs[k].event, channel |-> "email",
                     status |-> "suppressed"]
    <3>1. r \in deliveries'
      BY <1>9 DEF Suppress, AddDelivery, k
    <3>2. r.event = jobs[k].event /\ r.status = "suppressed"
      OBVIOUS
    <3>. QED
      BY <3>1, <3>2
  <2>4. \A c \in Channel : PassedIn(deliveries', mails[k][c], jobs[k].event, c)
    <3>1. \A c \in Channel : ~(mails[k][c] > 0)
      BY <2>2
    <3>. QED
      BY <2>3, <3>1, Zenon DEF PassedIn
  <2>5. Progress(p)'
    BY <2>1, <2>4 DEF Progress, Passed, k
  <2>6. NoneFails'
    BY <1>1, <1>5, <2>1 DEF NoneFails
  <2>. QED
    BY <2>1, <2>5, <2>6, CalmDrain
<1>10. ASSUME CheckChannel(p) \/ RecordDelivery(p)
       PROVE  CalmInv'
  <2>1. /\ pc[p] \in {"check", "record"} /\ k \in JobId /\ chan[p] \in Channel
        /\ UNCHANGED <<jobs, mails, job>>
        /\ deliveries \subseteq deliveries'
    BY <1>2, <1>10 DEF CheckChannel, RecordDelivery, AddDelivery, Delivering, dbVars
  <2>2. \/ pc'[p] = "send" /\ chan' = chan /\ pc[p] = "check"
        \/ /\ NextChannel(p)
           /\ PassedIn(deliveries', mails[k][chan[p]], jobs[k].event, chan[p])
    <3>1. CASE RecordDelivery(p)
      <4>1. NextChannel(p) /\ outcome[p] \in {"sent", "failed"}
        BY <3>1 DEF RecordDelivery, LocalsOK
      <4>2. \E r \in deliveries' : /\ r.event = jobs[k].event /\ r.channel = chan[p]
                                    /\ r.status = outcome[p]
        <5> DEFINE r == [id |-> lastDelivery + 1, event |-> jobs[k].event, channel |-> chan[p],
                         status |-> outcome[p]]
        <5>1. r \in deliveries'
          BY <3>1 DEF RecordDelivery, AddDelivery, k
        <5>2. r.event = jobs[k].event /\ r.channel = chan[p] /\ r.status = outcome[p]
          OBVIOUS
        <5>. QED
          BY <5>1, <5>2
      <4>. QED
        BY <4>1, <4>2 DEF PassedIn
    <3>2. CASE CheckChannel(p)
      <4>1. mails[k][chan[p]] = 0
        BY <1>2, <3>2 DEF CheckChannel, HeldJob, Delivering, k
      <4>2. \/ pc'[p] = "send" /\ chan' = chan /\ pc[p] = "check"
            \/ NextChannel(p) /\ FALSE \in Switch[chan[p]]
            \/ NextChannel(p) /\ SentRow(jobs[k].event, chan[p])
        BY <3>2, SwitchAssumption DEF CheckChannel, k
      <4>3. SentRow(jobs[k].event, chan[p])
              => PassedIn(deliveries', mails[k][chan[p]], jobs[k].event, chan[p])
        BY <2>1 DEF SentRow, PassedIn
      <4>4. FALSE \in Switch[chan[p]]
              => PassedIn(deliveries', mails[k][chan[p]], jobs[k].event, chan[p])
        <5>1. ~(mails[k][chan[p]] > 0)
          BY <4>1
        <5>2. FALSE \in Switch[chan[p]] => Switch[chan[p]] # {TRUE}
          OBVIOUS
        <5>. QED
          BY <5>1, <5>2, Zenon DEF PassedIn
      <4>. QED
        BY <4>2, <4>3, <4>4
    <3>. QED
      BY <1>10, <3>1, <3>2
  <2>3. /\ pc'[p] = "complete" => outcome'[p] = "done"
        /\ pc'[p] \in {"send", "check", "complete"}
    BY <2>1, <2>2 DEF NextChannel
  <2>4. chan[p] = "teams" => PassedIn(deliveries', mails[k]["email"], jobs[k].event, "email")
    <3>1. chan[p] = "teams" => PassedIn(deliveries, mails[k]["email"], jobs[k].event, "email")
      BY <1>1, <2>1 DEF Progress, Passed, k
    <3>. QED
      BY <2>1, <3>1, PassedStays
  <2>5. Progress(p)'
    <3>1. CASE pc'[p] = "send" /\ chan' = chan /\ pc[p] = "check"
      BY <2>1, <2>4, <3>1 DEF Progress, Passed, k
    <3>2. CASE NextChannel(p) /\ PassedIn(deliveries', mails[k][chan[p]], jobs[k].event, chan[p])
      <4>1. CASE chan[p] = "email"
        BY <2>1, <3>2, <4>1 DEF NextChannel, Progress, Passed, k
      <4>2. CASE chan[p] = "teams"
        <5>1. \A c \in Channel : PassedIn(deliveries', mails[k][c], jobs[k].event, c)
          BY <2>4, <3>2, <4>2 DEF Channel
        <5>2. pc'[p] = "complete"
          BY <3>2, <4>2 DEF NextChannel
        <5>. QED
          BY <2>1, <5>1, <5>2 DEF Progress, Passed, k
      <4>. QED
        BY <2>1, <4>1, <4>2 DEF Channel
    <3>. QED
      BY <2>2, <3>1, <3>2
  <2>6. NoneFails'
    BY <1>1, <1>5, <2>1, <2>3 DEF NoneFails
  <2>. QED
    BY <2>1, <2>5, <2>6, CalmDrain
<1>11. CASE SendMessage(p)
  <2>1. /\ pc[p] = "send" /\ k \in JobId /\ UNCHANGED <<jobs, job, chan, deliveries>>
        /\ pc'[p] = "record"
        /\ \A c \in Channel : c # chan[p] => mails'[k][c] = mails[k][c]
    BY <1>2, <1>11 DEF SendMessage, Delivering, dbVars, k
  <2>2. Progress(p)'
    BY <1>1, <2>1 DEF Progress, Passed, Channel, k
  <2>3. NoneFails'
    BY <1>1, <1>5, <2>1 DEF NoneFails
  <2>. QED
    BY <2>1, <2>2, <2>3, CalmDrain
<1>12. CASE RecordRefused(p)
  BY <1>2, <1>12 DEF RecordRefused, Delivering, e, k
<1>. QED
  BY <1>6, <1>7, <1>8, <1>9, <1>10, <1>11, <1>12 DEF DrainStep

LEMMA CalmNext == TypeInv /\ HoldInv /\ CalmInv /\ [Next]_vars => CalmInv'
<1> SUFFICES ASSUME TypeInv, HoldInv, CalmInv, [Next]_vars
             PROVE  CalmInv'
  OBVIOUS
<1>1. CASE UNCHANGED vars
  BY <1>1 DEF vars, dbVars, ctlVars, drainVars, boundVars, CalmInv, NoneFails, Progress, Passed,
     EventAlive
<1>2. ASSUME NEW p \in Process, PollStep(p) \/ InjectStub(p)
      PROVE  CalmInv'
  BY <1>2, CalmEnqueue, CalmPoll
<1>3. ASSUME NEW p \in Process, DrainStep(p)
      PROVE  CalmInv'
  <2>1. faults' = faults /\ clears' = clears
    BY <1>3 DEF DrainStep, Claim, TakeJob, Suppress, CheckChannel, SendMessage, RecordDelivery,
       RecordRefused, CompleteJob, boundVars
  <2>. QED
    BY <1>3, <2>1, CalmDeliver DEF CalmInv
<1>4. ASSUME NEW p \in Process, Fault(p)
      PROVE  CalmInv'
  <2>1. faults' # 0
    BY <1>4 DEF Fault, Crash, QueryFails, DeliveryQueryFails, TypeInv, TypeOK
  <2>. QED
    BY <2>1 DEF CalmInv
<1>5. ASSUME NEW S \in SUBSET {"navitia", "stub"}, NEW d \in BOOLEAN, ClearStats(S, d)
      PROVE  CalmInv'
  <2>1. clears' # 0
    BY <1>5 DEF ClearStats, TypeInv, TypeOK
  <2>. QED
    BY <2>1 DEF CalmInv
<1>. QED
  BY <1>1, <1>2, <1>3, <1>4, <1>5 DEF Next, Admin

LEMMA SpecCalm == Spec => []CalmInv
<1>1. TypeInv /\ HoldInv /\ CalmInv /\ [Next]_vars => CalmInv'
  BY CalmNext
<1>. QED
  BY <1>1, CalmInit, SpecHold, PTL DEF Spec

\* While no query failed, nothing crashed and nothing was purged, what left for an event
\* whose job is over has its row: the row is written before the job moves on, and the
\* event it hangs on stays.
THEOREM HistoryAlwaysComplete == Spec => []HistoryIsComplete
<1>1. CalmInv => HistoryIsComplete
  <2> SUFFICES ASSUME CalmInv, faults = 0, clears = 0, NEW j \in JobId, NEW c \in Channel,
                      jobs[j].status \in {"done", "failed"}, mails[j][c] > 0
               PROVE  \E r \in deliveries : /\ r.event = jobs[j].event /\ r.channel = c
                                            /\ r.status \in {"sent", "failed"}
    BY DEF HistoryIsComplete
  <2>1. Passed(j, c)
    BY DEF CalmInv, NoneFails
  <2>. QED
    BY <2>1 DEF Passed, PassedIn
<1>. QED
  BY <1>1, SpecCalm, PTL

\* Under the same hypotheses a job that is done tried every channel that is switched on,
\* whatever became of the other one.
THEOREM ChannelsAreTried == Spec => []EveryChannelTried
<1>1. CalmInv => EveryChannelTried
  BY DEF CalmInv, Passed, PassedIn, EveryChannelTried
<1>. QED
  BY <1>1, SpecCalm, PTL

-----------------------------------------------------------------------------
(* One ingest loop.                                                        *)

\* A request inserts its event and drains: it reads no row and marks none.
InjectorLocal(p) ==
  /\ ret[p] = "idle"
  /\ pc[p] \notin {"board", "mark"}
  /\ work[p].seen.id = 0 /\ ~work[p].force

\* The row a process selected had an id that was given out.
SeenLocal(p) ==
  /\ work[p].seen.id <= lastEvent
  /\ pc[p] = "enqueue" /\ work[p].force => work[p].seen.id # 0 /\ work[p].ext \in External

\* What was notified is still what p selected, unless the row was deleted since.
SeenRow(p) ==
  /\ \/ pc[p] = "write" /\ work[p].seen.id # 0
     \/ pc[p] = "enqueue" /\ work[p].force
  /\ events[work[p].ext].id = work[p].seen.id
  => /\ events[work[p].ext].nDelay = work[p].seen.nDelay
     /\ events[work[p].ext].nSeverity = work[p].seen.nSeverity

FreshInv ==
  /\ \A p \in Injectors : InjectorLocal(p)
  /\ \A p \in Process : SeenLocal(p)
  /\ \A p \in Pollers : SeenRow(p)

\* A row is written by an insert, which gives it a new id, by an update, which keeps
\* what was notified, by a purge, or by the mark of a poller.
LEMMA RowsWritten ==
  ASSUME TypeInv, HoldInv, FreshInv, NEW p \in Process,
         PollStep(p) \/ DrainStep(p) \/ Fault(p) \/ InjectStub(p), NEW x \in External
  PROVE  \/ /\ events'[x].id = events[x].id
            /\ events'[x].nDelay = events[x].nDelay
            /\ events'[x].nSeverity = events[x].nSeverity
         \/ events'[x].id = lastEvent + 1
         \/ MarkNotified(p) /\ p \in Pollers
<1> USE DEF TypeInv, TypeOK
<1>1. CASE InsertEvent(p)
  BY <1>1 DEF InsertEvent
<1>2. CASE UpdateEvent(p)
  BY <1>2 DEF UpdateEvent, Overwritten
<1>3. CASE MarkNotified(p)
  BY <1>3 DEF MarkNotified, FreshInv, InjectorLocal
<1>4. CASE DrainStep(p)
  BY <1>4, DrainKeepsJobs
<1>5. CASE ~InsertEvent(p) /\ ~UpdateEvent(p) /\ ~MarkNotified(p) /\ ~DrainStep(p)
  BY <1>5 DEF PollStep, InjectStub, StartPoll, IdlePoll, FetchFails, AlertDeparture,
     UpsertThrows, Enqueue, EnqueueThrows, EndBoard, dbVars, Fault, Crash, QueryFails,
     DeliveryQueryFails
<1>. QED
  BY <1>1, <1>2, <1>3, <1>4, <1>5

\* Where a step leaves its process.
LEMMA LocalsKept ==
  ASSUME TypeInv, HoldInv, NEW p \in Process,
         PollStep(p) \/ DrainStep(p) \/ Fault(p) \/ InjectStub(p)
  PROVE  /\ \A q \in Process : q # p => pc'[q] = pc[q] /\ work'[q] = work[q] /\ ret'[q] = ret[q]
         /\ lastEvent' = lastEvent \/ lastEvent' = lastEvent + 1
         /\ \/ work'[p] = work[p] /\ pc'[p] \notin {"write", "enqueue"}
            \/ work'[p] = NoWork /\ pc'[p] \notin {"write", "enqueue"}
            \/ AlertDeparture(p) \/ InsertEvent(p) \/ UpdateEvent(p) \/ InjectStub(p)
<1> USE DEF TypeInv, TypeOK, Goto
<1>1. CASE DrainStep(p)
  <2>1. UNCHANGED <<work, lastEvent>> /\ \A q \in Process : q # p => pc'[q] = pc[q]
    BY <1>1, DrainKeepsJobs
  <2>2. \A q \in Process : q # p => ret'[q] = ret[q]
    BY <1>1 DEF DrainStep, Claim, TakeJob, Suppress, CheckChannel, SendMessage, RecordDelivery,
       RecordRefused, CompleteJob, EndDrain
  <2>3. pc'[p] \notin {"write", "enqueue"}
    <3>1. CASE Claim(p) \/ CompleteJob(p)
      BY <3>1 DEF Claim, CompleteJob, EndDrain, AfterDrain
    <3>2. CASE TakeJob(p) \/ Suppress(p) \/ SendMessage(p) \/ RecordRefused(p)
      BY <3>2 DEF TakeJob, Suppress, SendMessage, RecordRefused
    <3>3. CASE CheckChannel(p) \/ RecordDelivery(p)
      BY <3>3 DEF CheckChannel, RecordDelivery, NextChannel
    <3>. QED
      BY <1>1, <3>1, <3>2, <3>3 DEF DrainStep
  <2>. QED
    BY <2>1, <2>2, <2>3
<1>2. CASE PollStep(p) \/ InjectStub(p) \/ Fault(p)
  <2>1. \A q \in Process : q # p => pc'[q] = pc[q]
    BY <1>2 DEF PollStep, StartPoll, IdlePoll, FetchFails, AlertDeparture, InsertEvent, UpdateEvent,
       UpsertThrows, Enqueue, EnqueueThrows, MarkNotified, EndBoard, Leave, InjectStub, Fault,
       Crash, QueryFails, DeliveryQueryFails
  <2>2. \A q \in Process : q # p => ret'[q] = ret[q]
    BY <1>2 DEF PollStep, StartPoll, IdlePoll, FetchFails, AlertDeparture, InsertEvent, UpdateEvent,
       UpsertThrows, Enqueue, EnqueueThrows, MarkNotified, EndBoard, Leave, InjectStub, Fault,
       Crash, QueryFails, DeliveryQueryFails
  <2>3. \A q \in Process : q # p => work'[q] = work[q]
    BY <1>2 DEF PollStep, StartPoll, IdlePoll, FetchFails, AlertDeparture, InsertEvent, UpdateEvent,
       UpsertThrows, Enqueue, EnqueueThrows, MarkNotified, EndBoard, Leave, InjectStub, Fault,
       Crash, QueryFails, DeliveryQueryFails, pollVars
  <2>4. lastEvent' = lastEvent \/ lastEvent' = lastEvent + 1
    BY <1>2 DEF PollStep, StartPoll, IdlePoll, FetchFails, AlertDeparture, InsertEvent, UpdateEvent,
       UpsertThrows, Enqueue, EnqueueThrows, MarkNotified, EndBoard, InjectStub, Fault,
       Crash, QueryFails, DeliveryQueryFails, dbVars
  <2>5. \/ work'[p] = work[p] /\ pc'[p] \notin {"write", "enqueue"}
        \/ work'[p] = NoWork /\ pc'[p] \notin {"write", "enqueue"}
        \/ AlertDeparture(p) \/ InsertEvent(p) \/ UpdateEvent(p) \/ InjectStub(p)
    BY <1>2 DEF PollStep, StartPoll, IdlePoll, FetchFails,
       UpsertThrows, Enqueue, EnqueueThrows, MarkNotified, EndBoard, Leave, Fault,
       Crash, QueryFails, DeliveryQueryFails, pollVars
  <2>. QED
    BY <2>1, <2>2, <2>3, <2>4, <2>5
<1>. QED
  BY <1>1, <1>2

LEMMA FreshStep ==
  ASSUME TypeInv, HoldInv, EventInv, FreshInv, NEW w, Pollers = {w}, NEW p \in Process,
         PollStep(p) \/ DrainStep(p) \/ Fault(p) \/ InjectStub(p)
  PROVE  FreshInv'
<1> USE DEF TypeInv, TypeOK
<1>1. /\ \A q \in Process : q # p => pc'[q] = pc[q] /\ work'[q] = work[q] /\ ret'[q] = ret[q]
      /\ lastEvent' = lastEvent \/ lastEvent' = lastEvent + 1
      /\ lastEvent \in Nat
  BY LocalsKept, BoundAssumption
<1>2. NoWork.seen.id = 0 /\ NoWork.force = FALSE /\ NoRow.id = 0
  BY DEF NoWork, NoRow
<1>3. \A q \in Process : work[q].seen.id \in Nat
  BY DEF Work, EventRow, EventId
<1>4. CASE AlertDeparture(p)
  <2>1. PICK x \in todo[p], d \in Readings : work' = [work EXCEPT ![p] = [ext |-> x, alert |-> AlertOf(d),
           seen |-> events[x], id |-> 0, force |-> FALSE]]
    BY <1>4 DEF AlertDeparture
  <2>2. /\ pc[p] = "board" /\ pc'[p] = "write" /\ UNCHANGED <<events, lastEvent>>
        /\ x \in External /\ events[x].id <= lastEvent
        /\ work'[p].ext = x /\ work'[p].seen = events[x]
    BY <1>4, <2>1 DEF AlertDeparture, Goto, dbVars, EventInv, IdInv
  <2>3. p \notin Injectors
    BY <2>2 DEF FreshInv, InjectorLocal
  <2>4. SeenLocal(p)' /\ SeenRow(p)'
    BY <2>2 DEF SeenLocal, SeenRow
  <2>5. \A q \in Process : q # p => SeenLocal(q)'
    BY <1>1, <2>2 DEF FreshInv, SeenLocal
  <2>6. \A q \in Pollers : q # p => SeenRow(q)'
    BY <1>1, <2>2 DEF FreshInv, SeenRow
  <2>7. \A q \in Injectors : InjectorLocal(q)'
    BY <1>1, <2>3 DEF FreshInv, InjectorLocal
  <2>. QED
    BY <2>4, <2>5, <2>6, <2>7 DEF FreshInv
<1>5. CASE InsertEvent(p)
  <2>1. /\ pc[p] = "write" /\ pc'[p] = "enqueue" /\ lastEvent' = lastEvent + 1
        /\ work'[p] = Persisted(work[p], lastEvent + 1, FALSE)
        /\ ret' = ret
    BY <1>5 DEF InsertEvent, Goto
  <2>2. /\ work'[p].force = FALSE /\ work'[p].seen = work[p].seen
    BY <2>1 DEF Persisted
  <2>3. \A x \in External : events'[x] = events[x] \/ events'[x].id = lastEvent + 1
    BY <1>5 DEF InsertEvent
  <2>4. \A q \in Process : SeenLocal(q)'
    <3>1. SeenLocal(p)'
      <4>1. work'[p].seen.id <= lastEvent'
        <5>1. work[p].seen.id <= lastEvent
          BY DEF FreshInv, SeenLocal
        <5>2. work'[p].seen.id = work[p].seen.id
          BY <2>2
        <5>3. work[p].seen.id \in Nat /\ lastEvent \in Nat /\ lastEvent' = lastEvent + 1
          BY <1>1, <1>3, <2>1
        <5>. QED
          BY <5>1, <5>2, <5>3
      <4>. QED
        BY <2>2, <4>1 DEF SeenLocal
    <3>2. ASSUME NEW q \in Process, q # p
          PROVE  SeenLocal(q)'
      <4>1. work[q].seen.id <= lastEvent /\ work[q].seen.id <= lastEvent'
        BY <1>1, <1>3, <2>1 DEF FreshInv, SeenLocal
      <4>. QED
        BY <1>1, <3>2, <4>1 DEF FreshInv, SeenLocal
    <3>. QED
      BY <3>1, <3>2
  <2>5. \A q \in Injectors : InjectorLocal(q)'
    <3>1. ASSUME p \in Injectors
          PROVE  InjectorLocal(p)'
      <4>1. InjectorLocal(p)
        BY <3>1 DEF FreshInv
      <4>2. ret'[p] = "idle" /\ pc'[p] = "enqueue" /\ work'[p].seen.id = 0
        BY <2>1, <2>2, <4>1 DEF InjectorLocal
      <4>3. ~work'[p].force
        BY <2>2, Zenon
      <4>. QED
        BY <4>2, <4>3, Zenon DEF InjectorLocal
    <3>2. \A q \in Injectors : q # p => InjectorLocal(q)'
      BY <1>1, <2>1 DEF FreshInv, InjectorLocal
    <3>. QED
      BY <3>1, <3>2
  <2>6. ASSUME NEW q \in Pollers
        PROVE  SeenRow(q)'
    <3>1. CASE q = p
      BY <2>1, <2>2, <3>1 DEF SeenRow
    <3>2. CASE q # p
      <4>1. /\ pc'[q] = pc[q] /\ work'[q] = work[q] /\ work[q].seen.id <= lastEvent
            /\ SeenRow(q)
            /\ pc[q] = "write" \/ (pc[q] = "enqueue" /\ work[q].force) => work[q].ext \in External
        BY <1>1, <3>2 DEF FreshInv, SeenLocal, LocalsOK
      <4>2. work[q].ext \in External =>
              events'[work[q].ext] = events[work[q].ext] \/ events'[work[q].ext].id # work[q].seen.id
        BY <1>1, <1>3, <2>3, <4>1
      <4>. QED
        BY <4>1, <4>2 DEF SeenRow
    <3>. QED
      BY <3>1, <3>2
  <2>. QED
    BY <2>4, <2>5, <2>6 DEF FreshInv
<1>6. CASE UpdateEvent(p)
  <2>1. /\ pc[p] = "write" /\ work[p].seen.id # 0 /\ work[p].ext \in External
        /\ events' = [events EXCEPT ![work[p].ext] = Overwritten(@, work[p].alert)]
        /\ \/ pc'[p] = "enqueue" /\ work'[p] = Persisted(work[p], events[work[p].ext].id, TRUE)
           \/ pc'[p] = "board" /\ work'[p] = NoWork
        /\ UNCHANGED <<ret, lastEvent>>
    BY <1>6 DEF UpdateEvent, Goto, LocalsOK
  <2>2. p \notin Injectors
    BY <2>1 DEF FreshInv, InjectorLocal
  <2>3. \A x \in External : /\ events'[x].id = events[x].id
                            /\ events'[x].nDelay = events[x].nDelay
                            /\ events'[x].nSeverity = events[x].nSeverity
    BY <2>1 DEF Overwritten
  <2>4. \/ /\ pc'[p] = "enqueue"
           /\ work'[p].ext = work[p].ext /\ work'[p].seen = work[p].seen
        \/ pc'[p] = "board" /\ work'[p].seen.id = 0
    BY <1>2, <2>1 DEF Persisted
  <2>5. SeenLocal(p) /\ SeenRow(p)
    BY <2>1, <2>2 DEF FreshInv
  <2>6. SeenLocal(p)'
    BY <1>1, <2>1, <2>4, <2>5 DEF SeenLocal
  <2>7. SeenRow(p)'
    BY <2>1, <2>3, <2>4, <2>5 DEF SeenRow
  <2>8. \A q \in Process : q # p => SeenLocal(q)'
    BY <1>1, <2>1 DEF FreshInv, SeenLocal
  <2>9. \A q \in Pollers : q = p
    BY <2>2
  <2>10. \A q \in Injectors : InjectorLocal(q)'
    BY <1>1, <2>2 DEF FreshInv, InjectorLocal
  <2>. QED
    BY <2>6, <2>7, <2>8, <2>9, <2>10 DEF FreshInv
<1>7. CASE InjectStub(p)
  <2>1. PICK x \in Stubs : \E a : work' = [work EXCEPT ![p] = [ext |-> x, alert |-> a,
           seen |-> NoRow, id |-> 0, force |-> FALSE]]
    BY <1>7 DEF InjectStub
  <2>2. /\ p \in Injectors /\ pc[p] = "idle" /\ pc'[p] = "write"
        /\ UNCHANGED <<ret, events, lastEvent>>
        /\ work'[p].seen.id = 0 /\ work'[p].force = FALSE
    BY <1>2, <1>7, <2>1 DEF InjectStub, Goto, dbVars
  <2>3. InjectorLocal(p)' /\ SeenLocal(p)'
    BY <1>1, <2>2 DEF FreshInv, InjectorLocal, SeenLocal
  <2>4. \A q \in Process : q # p => SeenLocal(q)'
    BY <1>1, <2>2 DEF FreshInv, SeenLocal
  <2>5. \A q \in Pollers : q # p
    BY <2>2, ProcessAssumption
  <2>6. \A q \in Pollers : SeenRow(q)'
    BY <1>1, <2>2, <2>5 DEF FreshInv, SeenRow
  <2>7. \A q \in Injectors : InjectorLocal(q)'
    BY <1>1, <2>2, <2>3 DEF FreshInv, InjectorLocal
  <2>. QED
    BY <2>3, <2>4, <2>6, <2>7 DEF FreshInv
<1>8. CASE ~AlertDeparture(p) /\ ~InsertEvent(p) /\ ~UpdateEvent(p) /\ ~InjectStub(p)
  <2>1. /\ pc'[p] \notin {"write", "enqueue"}
        /\ work'[p] = work[p] \/ work'[p] = NoWork
    BY <1>8, LocalsKept
  <2>2. \A q \in Process : SeenLocal(q)'
    BY <1>1, <1>2, <1>3, <2>1 DEF FreshInv, SeenLocal
  <2>3. ASSUME NEW q \in Pollers
        PROVE  SeenRow(q)'
    <3>1. CASE q = p
      BY <2>1, <3>1 DEF SeenRow
    <3>2. CASE q # p
      <4>1. p \notin Pollers
        BY <3>2
      <4>2. /\ pc'[q] = pc[q] /\ work'[q] = work[q] /\ work[q].seen.id <= lastEvent
            /\ SeenRow(q)
            /\ pc[q] = "write" \/ (pc[q] = "enqueue" /\ work[q].force) => work[q].ext \in External
        BY <1>1, <3>2 DEF FreshInv, SeenLocal, LocalsOK
      <4>3. work[q].ext \in External =>
              \/ /\ events'[work[q].ext].id = events[work[q].ext].id
                 /\ events'[work[q].ext].nDelay = events[work[q].ext].nDelay
                 /\ events'[work[q].ext].nSeverity = events[work[q].ext].nSeverity
              \/ events'[work[q].ext].id # work[q].seen.id
        BY <1>1, <1>3, <4>1, <4>2, RowsWritten
      <4>. QED
        BY <4>2, <4>3 DEF SeenRow
    <3>. QED
      BY <3>1, <3>2
  <2>4. ASSUME p \in Injectors
        PROVE  InjectorLocal(p)'
    <3>1. InjectorLocal(p) /\ p \notin Pollers /\ p \notin Workers
      BY <2>4, ProcessAssumption DEF FreshInv
    <3>2. ret'[p] = "idle" /\ pc'[p] \notin {"board", "mark"}
      <4>1. CASE PollStep(p)
        BY <1>8, <2>4, <3>1, <4>1 DEF InjectorLocal, PollStep, StartPoll, IdlePoll, FetchFails,
           UpsertThrows, Enqueue, EnqueueThrows, MarkNotified, EndBoard, Leave, Goto
      <4>3. CASE Fault(p)
        BY <3>1, <4>3 DEF InjectorLocal, Leave, Goto, Fault, Crash, QueryFails, DeliveryQueryFails
      <4>2. CASE DrainStep(p)
        <5>1. CASE Claim(p) \/ CompleteJob(p)
          BY <3>1, <5>1 DEF InjectorLocal, Claim, CompleteJob, EndDrain, AfterDrain, Goto
        <5>2. CASE TakeJob(p) \/ Suppress(p) \/ SendMessage(p) \/ RecordRefused(p)
          BY <3>1, <5>2 DEF InjectorLocal, TakeJob, Suppress, SendMessage, RecordRefused, Goto
        <5>3. CASE CheckChannel(p) \/ RecordDelivery(p)
          BY <3>1, <5>3 DEF InjectorLocal, CheckChannel, RecordDelivery, NextChannel, Goto
        <5>. QED
          BY <4>2, <5>1, <5>2, <5>3 DEF DrainStep
      <4>. QED
        BY <1>8, <4>1, <4>2, <4>3
    <3>. QED
      BY <1>2, <2>1, <3>1, <3>2 DEF InjectorLocal
  <2>5. \A q \in Injectors : InjectorLocal(q)'
    BY <1>1, <2>4 DEF FreshInv, InjectorLocal
  <2>. QED
    BY <2>2, <2>3, <2>5 DEF FreshInv
<1>. QED
  BY <1>4, <1>5, <1>6, <1>7, <1>8

LEMMA FreshClear ==
  ASSUME TypeInv, FreshInv,
         NEW S \in SUBSET {"navitia", "stub"}, NEW d \in BOOLEAN, ClearStats(S, d)
  PROVE  FreshInv'
<1> USE DEF TypeInv, TypeOK
<1>1. UNCHANGED <<pc, ret, work, lastEvent>>
  BY DEF ClearStats, ctlVars, pollVars
<1>2. \A x \in External : events'[x] = events[x] \/ events'[x].id = 0
  BY DEF ClearStats, NoRow
<1>3. ASSUME NEW q \in Pollers
      PROVE  SeenRow(q)'
  <2>1. SeenRow(q) /\ SeenLocal(q)
    BY DEF FreshInv
  <2>2. pc[q] = "write" \/ (pc[q] = "enqueue" /\ work[q].force) => work[q].ext \in External
    BY <2>1 DEF SeenLocal, LocalsOK
  <2>3. work[q].ext \in External =>
          events'[work[q].ext] = events[work[q].ext] \/ events'[work[q].ext].id = 0
    BY <1>2
  <2>. QED
    BY <1>1, <2>1, <2>2, <2>3 DEF SeenRow, SeenLocal
<1>. QED
  BY <1>1, <1>3 DEF FreshInv, InjectorLocal, SeenLocal

\* With one ingest loop, the row an escalation is decided on is still the stored row when
\* its job is queued: a request only inserts, an id is never used again, and the loop
\* marks between its own departures.
THEOREM DecisionsAreFresh ==
  ASSUME NEW w, Pollers = {w}
  PROVE  Spec => []DecisionFresh
<1>1. Init => FreshInv
  BY DEF Init, FreshInv, InjectorLocal, SeenLocal, SeenRow, NoWork, NoRow
<1>2. TypeInv /\ HoldInv /\ EventInv /\ FreshInv /\ [Next]_vars => FreshInv'
  <2> SUFFICES ASSUME TypeInv, HoldInv, EventInv, FreshInv, [Next]_vars
               PROVE  FreshInv'
    OBVIOUS
  <2>1. CASE UNCHANGED vars
    BY <2>1 DEF vars, dbVars, ctlVars, pollVars, FreshInv, InjectorLocal, SeenLocal, SeenRow
  <2>2. CASE ~(UNCHANGED vars)
    BY <2>2, FreshStep, FreshClear DEF Next, Admin
  <2>. QED
    BY <2>1, <2>2
<1>3. FreshInv => DecisionFresh
  BY DEF FreshInv, SeenRow, DecisionFresh
<1>. QED
  BY <1>1, <1>2, <1>3, SpecEvent, PTL DEF Spec
=============================================================================
