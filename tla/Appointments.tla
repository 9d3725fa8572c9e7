---------------------------- MODULE Appointments ----------------------------
(***************************************************************************)
(* The follow-up booking engine: the HTTP handlers that create, edit and   *)
(* cancel an appointment (services/crm/appointmentSlots.js), the queries   *)
(* they run (db/queries/appointments.js), the client of Google Calendar    *)
(* (services/crm/googleCalendar.js) and the worker and the endpoint that   *)
(* push unsynced rows to it again (services/crm/googleCalendarSyncWorker). *)
(*                                                                         *)
(* A handler is a request that walks through program points.  One step of  *)
(* the model is the code between two awaits that other actors can get in   *)
(* between: a transaction holds the row lock of its enquiry from its first *)
(* SELECT ... FOR UPDATE to its commit, and the calls to Google happen     *)
(* before the transaction, inside it (edit) or after its commit.           *)
(***************************************************************************)
EXTENDS Integers, Sequences, FiniteSets

CONSTANTS
  Requests,    \* concurrent HTTP requests the server has in flight
  NoRequest,   \* the holder of a row lock nobody holds
  Enquiries,   \* rows of crm_enquiries
  NoEnquiry,   \* the enquiry of a booking row that does not exist yet
  MaxAppts,    \* rows crm_calendar_activities can have
  MaxSlot,     \* 15-minute buckets, numbered in time order
  MaxEvents,   \* events the Google calendar can ever hold
  BatchSize,   \* rows one tick of the sync worker takes
  Ops,         \* what happens at all: create, edit, cancel, retry, status, worker, clock, link
  MaxIssued,   \* bound: requests issued in a behaviour
  MaxFaults    \* bound: failures in a behaviour

ASSUME RequestAssumption == NoRequest \notin Requests
ASSUME EnquiryAssumption == NoEnquiry \notin Enquiries
ASSUME BoundAssumption == /\ MaxAppts \in Nat
                          /\ MaxSlot \in Nat
                          /\ MaxEvents \in Nat
                          /\ MaxIssued \in Nat
                          /\ MaxFaults \in Nat
                          /\ BatchSize \in Nat

\* Rows, buckets and events are numbered from 1: 0 is SQL's NULL.
ApptIds  == 1..MaxAppts
Slots    == 1..MaxSlot
EventIds == 1..MaxEvents

VARIABLES
  now,        \* the bucket of the current IST time
  appt,       \* crm_calendar_activities
  hist,       \* crm_appointment_history, per booking
  lock,       \* row locks on crm_enquiries
  req,        \* the requests in flight
  worker,     \* the running tick of the sync worker
  gcal,       \* the events of the Google calendar
  connected,  \* google_calendar_tokens has its row
  mail,       \* notifications handed to the mailer
  issued,     \* requests issued so far
  faults      \* failures so far

dbVars == <<appt, hist>>
vars == <<now, appt, hist, lock, req, worker, gcal, connected, mail, issued, faults>>

-----------------------------------------------------------------------------
(* Rows                                                                    *)

Statuses == {"none", "active", "cancelled"}
Syncs    == {"PENDING", "FAILED", "SYNCED"}

Row == [enq : Enquiries \cup {NoEnquiry}, slot : 0..MaxSlot, key : 0..MaxSlot,
        status : Statuses, event : 0..MaxEvents, sync : Syncs]

NoRow == [enq |-> NoEnquiry, slot |-> 0, key |-> 0, status |-> "none",
          event |-> 0, sync |-> "PENDING"]

Exists(a) == appt[a].status # "none"

\* Mutant of Active: the status filter is forgotten.
ActiveOrCancelled(a) == appt[a].status # "none"
Active(a) == appt[a].status = "active"

\* AUTO_INCREMENT: rows are never deleted, ids are handed out in order.
IsNextId(a) == ~Exists(a) /\ \A b \in ApptIds : b < a => Exists(b)

\* findActiveAppointmentBySlotKeyForConn: the active row of a slot, if any.
Colliding(s, self) == {b \in ApptIds \ {self} : Active(b) /\ appt[b].key = s}

\* Mutant of KeyTaken: the table has no such index.
NoUniqueIndex(s, self) == FALSE
\* UNIQUE(active_slot_key): NULLs do not collide.
KeyTaken(s, self) == \E b \in ApptIds \ {self} : appt[b].key = s

\* What the INSERT and the UPDATEs write; the key is the slot while it is held.
Booked(e, s) == [enq |-> e, slot |-> s, key |-> s, status |-> "active",
                 event |-> 0, sync |-> "PENDING"]
Moved(row, s) == [row EXCEPT !.slot = s, !.key = s]
Cancelled(row) == [row EXCEPT !.status = "cancelled", !.key = 0]
\* Mutant of Pushed: a state the sync column does not have.
PushedDone(row, g, sync) == [row EXCEPT !.event = g, !.sync = "DONE"]
Pushed(row, g, sync) == [row EXCEPT !.event = g, !.sync = sync]

Entry(action, from, to) == [action |-> action, from |-> from, to |-> to]

-----------------------------------------------------------------------------
(* Requests                                                                *)

\* then: what the request goes on with when its booking is through.
Idle == [op |-> "none", pc |-> "idle", enq |-> NoEnquiry, appt |-> 0, slot |-> 0,
         from |-> 0, event |-> 0, moved |-> FALSE, result |-> 0, then |-> "idle"]

\* Mutant of Free: SELECT without FOR UPDATE.
NoForUpdate(e) == TRUE
Free(e)      == lock[e] = NoRequest
Goto(r, pc)  == req' = [req EXCEPT ![r].pc = pc]
Unlock(r)    == lock' = [e \in Enquiries |-> IF lock[e] = r THEN NoRequest ELSE lock[e]]
\* Mutant of Abort: no ROLLBACK in the catch.
AbortWithoutRollback(r) == req' = [req EXCEPT ![r] = Idle] /\ UNCHANGED lock
\* The handler throws: the client gets an error and nothing follows.
Abort(r)     == req' = [req EXCEPT ![r] = Idle] /\ Unlock(r)
\* The handler returns its answer to its caller.
Return(r)    == req' = [req EXCEPT ![r] = IF req[r].then = "idle" THEN Idle
                                          ELSE [req[r] EXCEPT !.pc = req[r].then]]

At(r, op, pc) == req[r].op = op /\ req[r].pc = pc

Issue(r, op, rec) == /\ op \in Ops
                     /\ req[r].pc = "idle"
                     /\ issued < MaxIssued
                     /\ issued' = issued + 1
                     /\ req' = [req EXCEPT ![r] = rec]

Fault == faults < MaxFaults /\ faults' = faults + 1

-----------------------------------------------------------------------------
(* The Google calendar and its client                                      *)

NoEvent == [appt |-> 0, slot |-> 0, live |-> FALSE]
Event   == [appt : 0..MaxAppts, slot : 0..MaxSlot, live : BOOLEAN]

Unused(g) == gcal[g].appt = 0
IsNextEvent(g) == Unused(g) /\ \A h \in EventIds : h < g => ~Unused(h)

PutEvent(g, a, s) == gcal' = [gcal EXCEPT ![g] = [appt |-> a, slot |-> s, live |-> TRUE]]

\* freebusy.query over the 30 minutes from s: an event lasts 30 minutes too,
\* so two of them overlap when they start less than two buckets apart.
CalendarBusy(s) == \E g \in EventIds : /\ gcal[g].live
                                       /\ gcal[g].slot - s \in -1..1

\* checkGoogleCalendarBusy answers "free" when the calendar is not connected
\* and when the query fails.
SeesBusy(s) == connected /\ CalendarBusy(s) /\ UNCHANGED faults
SeesFree(s) == \/ ~(connected /\ CalendarBusy(s)) /\ UNCHANGED faults
               \/ connected /\ CalendarBusy(s) /\ Fault

\* createEvent on a connected calendar: the id of a new event, or 0 (FAILED).
\* A call that fails may still have reached Google before its answer was lost.
CreateEvent(a, s, res) ==
  /\ connected
  /\ \/ /\ res \in EventIds
        /\ IsNextEvent(res)
        /\ PutEvent(res, a, s)
        /\ UNCHANGED faults
     \/ /\ res = 0
        /\ Fault
        /\ \/ UNCHANGED gcal
           \/ \E g \in EventIds : IsNextEvent(g) /\ PutEvent(g, a, s)

\* updateEvent keeps the id; an event Google no longer has is an error.
UpdateEvent(g, s, res) ==
  /\ connected
  /\ \/ /\ gcal[g].live
        /\ res = g
        /\ gcal' = [gcal EXCEPT ![g].slot = s]
        /\ UNCHANGED faults
     \/ res = 0 /\ UNCHANGED gcal /\ IF gcal[g].live THEN Fault ELSE UNCHANGED faults

\* Mutant of DeleteEvent: the event is never deleted.
DeleteEventNever(g) == UNCHANGED <<gcal, faults>>
\* cancelEvent: gone already (404, 410) counts as cancelled; not connected and
\* a failed call change nothing at Google.
DeleteEvent(g) ==
  \/ connected /\ gcal' = [gcal EXCEPT ![g].live = FALSE] /\ UNCHANGED faults
  \/ connected /\ Fault /\ UNCHANGED gcal
  \/ ~connected /\ UNCHANGED <<gcal, faults>>

-----------------------------------------------------------------------------
(* createAppointment                                                       *)

\* The bucket must lie after the current one when the request comes in.
Bookable(s) == s > now

\* Bound: no more bookings are asked for than the table can have rows.
RowsLeft == Cardinality({a \in ApptIds : Exists(a)})
              + Cardinality({r \in Requests : req[r].op = "create" /\ req[r].appt = 0}) < MaxAppts

StartCreate(r, e, s) ==
  /\ Bookable(s)
  /\ RowsLeft
  /\ Issue(r, "create", [Idle EXCEPT !.op = "create", !.pc = "busy", !.enq = e, !.slot = s])
  /\ UNCHANGED <<now, dbVars, lock, worker, gcal, connected, mail, faults>>

\* The free/busy query runs before the transaction; busy is a 409.
CreateFreebusy(r) ==
  /\ At(r, "create", "busy")
  /\ \/ SeesBusy(req[r].slot) /\ Abort(r)
     \/ SeesFree(req[r].slot) /\ Goto(r, "begin") /\ UNCHANGED lock
  /\ UNCHANGED <<now, dbVars, worker, gcal, connected, mail, issued>>

\* The transaction begins by locking the enquiry.
CreateBegin(r) ==
  /\ At(r, "create", "begin")
  /\ Free(req[r].enq)
  /\ lock' = [lock EXCEPT ![req[r].enq] = r]
  /\ Goto(r, "check")
  /\ UNCHANGED <<now, dbVars, worker, gcal, connected, mail, issued, faults>>

\* SELECT ... FOR UPDATE on the slot waits for a transaction that has the
\* found row, or its enquiry, locked.
MustWait(r, s) == \E b \in Colliding(s, 0) : lock[appt[b].enq] \notin {NoRequest, r}

\* A booking of the slot, found before the insert, is a 409.
CreateCheck(r) ==
  /\ At(r, "create", "check")
  /\ ~MustWait(r, req[r].slot)
  /\ IF Colliding(req[r].slot, 0) # {}
       THEN Abort(r)
       ELSE Goto(r, "insert") /\ UNCHANGED lock
  /\ UNCHANGED <<now, dbVars, worker, gcal, connected, mail, issued, faults>>

\* INSERT, history row, commit.  A duplicate key is turned into a 409.
CreateInsert(r) ==
  LET e == req[r].enq
      s == req[r].slot
  IN /\ At(r, "create", "insert")
     /\ \/ KeyTaken(s, 0) /\ Abort(r) /\ UNCHANGED dbVars
        \/ \E a \in ApptIds :
              /\ ~KeyTaken(s, 0)
              /\ IsNextId(a)
              /\ appt' = [appt EXCEPT ![a] = Booked(e, s)]
              /\ hist' = [hist EXCEPT ![a] = Append(@, Entry("created", 0, s))]
              /\ req' = [req EXCEPT ![r].pc = "push", ![r].appt = a]
              /\ Unlock(r)
     /\ UNCHANGED <<now, worker, gcal, connected, mail, issued, faults>>

-----------------------------------------------------------------------------
(* updateAppointment                                                       *)

StartEdit(r, a, s) ==
  /\ Exists(a)
  /\ Bookable(s)
  /\ Issue(r, "edit", [Idle EXCEPT !.op = "edit", !.pc = "read", !.appt = a, !.slot = s])
  /\ UNCHANGED <<now, dbVars, lock, worker, gcal, connected, mail, faults>>

\* The joined SELECT ... FOR UPDATE locks the booking and its enquiry; what
\* it read of them is used until the end of the request.
EditRead(r) ==
  LET a == req[r].appt
  IN /\ At(r, "edit", "read")
     /\ Free(appt[a].enq)
     /\ IF ~Active(a)
          THEN Abort(r)
          ELSE /\ lock' = [lock EXCEPT ![appt[a].enq] = r]
               /\ req' = [req EXCEPT ![r].enq = appt[a].enq,
                                     ![r].from = appt[a].slot,
                                     ![r].event = appt[a].event,
                                     ![r].moved = appt[a].key # req[r].slot,
                                     ![r].pc = IF appt[a].key # req[r].slot THEN "busy" ELSE "write"]
     /\ UNCHANGED <<now, dbVars, worker, gcal, connected, mail, issued, faults>>

\* A real move asks Google again, now with the row locked ...
EditFreebusy(r) ==
  /\ At(r, "edit", "busy")
  /\ \/ SeesBusy(req[r].slot) /\ Abort(r)
     \/ SeesFree(req[r].slot) /\ Goto(r, "check") /\ UNCHANGED lock
  /\ UNCHANGED <<now, dbVars, worker, gcal, connected, mail, issued>>

\* ... and looks for another booking of the new slot.
EditCheck(r) ==
  /\ At(r, "edit", "check")
  /\ ~MustWait(r, req[r].slot)
  /\ IF Colliding(req[r].slot, req[r].appt) # {}
       THEN Abort(r)
       ELSE Goto(r, "write") /\ UNCHANGED lock
  /\ UNCHANGED <<now, dbVars, worker, gcal, connected, mail, issued, faults>>

\* UPDATE, history row (also when only the notes changed), commit.
EditWrite(r) ==
  LET a == req[r].appt
      s == req[r].slot
  IN /\ At(r, "edit", "write")
     /\ IF KeyTaken(s, a)
          THEN Abort(r) /\ UNCHANGED dbVars
          ELSE /\ appt' = [appt EXCEPT ![a] = Moved(@, s)]
               /\ hist' = [hist EXCEPT ![a] = Append(@, Entry("edited", req[r].from, s))]
               /\ Goto(r, "push")
               /\ Unlock(r)
     /\ UNCHANGED <<now, worker, gcal, connected, mail, issued, faults>>

-----------------------------------------------------------------------------
(* cancelAppointment                                                       *)

StartCancel(r, a) ==
  /\ Exists(a)
  /\ Issue(r, "cancel", [Idle EXCEPT !.op = "cancel", !.pc = "cancel", !.appt = a])
  /\ UNCHANGED <<now, dbVars, lock, worker, gcal, connected, mail, faults>>

\* One transaction: lock, check, free the slot, history row, commit.
CancelWrite(r) ==
  LET a == req[r].appt
  IN /\ At(r, "cancel", "cancel")
     /\ Free(appt[a].enq)
     /\ IF ~Active(a)
          THEN Abort(r) /\ UNCHANGED dbVars
          ELSE /\ appt' = [appt EXCEPT ![a] = Cancelled(@)]
               /\ hist' = [hist EXCEPT ![a] = Append(@, Entry("cancelled", appt[a].slot, 0))]
               /\ req' = [req EXCEPT ![r].pc = "drop", ![r].event = appt[a].event,
                                     ![r].slot = appt[a].slot]
               /\ UNCHANGED lock
     /\ UNCHANGED <<now, worker, gcal, connected, mail, issued, faults>>

\* Mutant of Notify: the mail names the slot the booking had before.
NotifyOldSlot(r, mode, sync) ==
  mail' = mail \cup {[appt |-> req[r].appt, mode |-> mode, slot |-> req[r].from, sync |-> sync]}
Notify(r, mode, sync) ==
  mail' = mail \cup {[appt |-> req[r].appt, mode |-> mode, slot |-> req[r].slot, sync |-> sync]}

\* The event known when the row was read is deleted, whatever that call says.
CancelDrop(r) ==
  /\ At(r, "cancel", "drop")
  /\ IF req[r].event = 0 THEN UNCHANGED <<gcal, faults>> ELSE DeleteEvent(req[r].event)
  /\ Notify(r, "cancelled", "CANCELLED")
  /\ Return(r)
  /\ UNCHANGED <<now, dbVars, lock, worker, connected, issued>>

-----------------------------------------------------------------------------
(* Pushing a booking to Google                                             *)

\* retryOne reads the row, whatever its status, and creates an event for it.
StartRetry(r, a) ==
  /\ Exists(a)
  /\ Issue(r, "retry", [Idle EXCEPT !.op = "retry", !.pc = "push", !.appt = a, !.slot = appt[a].slot])
  /\ UNCHANGED <<now, dbVars, lock, worker, gcal, connected, mail, faults>>

\* The call after the commit: update the event the row had, else create one.
PushEvent(r) ==
  /\ req[r].pc = "push"
  /\ \E res \in 0..MaxEvents :
       /\ IF req[r].op = "edit" /\ req[r].event # 0
            THEN UpdateEvent(req[r].event, req[r].slot, res)
            ELSE CreateEvent(req[r].appt, req[r].slot, res)
       /\ req' = [req EXCEPT ![r].pc = "save", ![r].result = res]
  /\ UNCHANGED <<now, dbVars, lock, worker, connected, mail, issued>>

\* Creating always notifies, editing only when the slot changed, a retry never.
NotifyPushed(r, sync) ==
  IF req[r].op = "create" \/ (req[r].op = "edit" /\ req[r].moved)
    THEN Notify(r, IF req[r].op = "create" THEN "created" ELSE "edited", sync)
    ELSE UNCHANGED mail

\* Not connected: nothing is written, the row keeps its sync columns.
PushNotConnected(r) ==
  /\ req[r].pc = "push"
  /\ ~connected
  /\ NotifyPushed(r, "PENDING")
  /\ Return(r)
  /\ UNCHANGED <<now, dbVars, lock, worker, gcal, connected, issued, faults>>

WriteSync(a, event, sync) == appt' = [appt EXCEPT ![a] = Pushed(@, event, sync)]

\* The outcome goes to the row, which may have changed since the commit.
SaveSync(r) ==
  LET a == req[r].appt
  IN /\ req[r].pc = "save"
     /\ Free(appt[a].enq)
     /\ IF req[r].result # 0
          THEN WriteSync(a, req[r].result, "SYNCED") /\ NotifyPushed(r, "SYNCED")
          ELSE WriteSync(a, req[r].event, "FAILED") /\ NotifyPushed(r, "FAILED")
     /\ Return(r)
     /\ UNCHANGED <<now, hist, lock, worker, gcal, connected, issued, faults>>

-----------------------------------------------------------------------------
(* The sync worker                                                         *)

NoTick == [pc |-> "idle", queue |-> {}, result |-> 0]

Unsynced(a) == Active(a) /\ appt[a].sync \in {"PENDING", "FAILED"}

\* Mutant of Batch: a failed push is not tried again.
BatchOfPending == {[appt |-> a, slot |-> appt[a].slot] :
                     a \in {b \in ApptIds : Active(b) /\ appt[b].sync = "PENDING"}}
\* The first BatchSize unsynced rows by id, as they are now ...
Batch == {[appt |-> a, slot |-> appt[a].slot] :
            a \in {b \in ApptIds : /\ Unsynced(b)
                                   /\ Cardinality({c \in 1..b : Unsynced(c)}) <= BatchSize}}

\* Mutant of IsFirst: the outcome goes to some row of the batch.
IsInBatch(item) == item \in worker.queue
\* ... of which the tick takes one after the other.
IsFirst(item) == /\ item \in worker.queue
                 /\ \A other \in worker.queue : item.appt <= other.appt

\* One tick at a time (running); nothing to do unless connected.
WorkerTick ==
  /\ "worker" \in Ops
  /\ worker.pc = "idle"
  /\ connected
  /\ Batch # {}
  /\ worker' = [NoTick EXCEPT !.pc = "push", !.queue = Batch]
  /\ UNCHANGED <<now, dbVars, lock, req, gcal, connected, mail, issued, faults>>

\* Always a new event, with the slot the batch was read with.
WorkerPush ==
  /\ worker.pc = "push"
  /\ \E item \in worker.queue, res \in 0..MaxEvents :
       /\ IsFirst(item)
       /\ CreateEvent(item.appt, item.slot, res)
       /\ worker' = [worker EXCEPT !.pc = "save", !.result = res]
  /\ UNCHANGED <<now, dbVars, lock, req, connected, mail, issued>>

\* Disconnected since the tick began: the rest of the batch is left alone.
WorkerBreak ==
  /\ worker.pc = "push"
  /\ ~connected
  /\ worker' = NoTick
  /\ UNCHANGED <<now, dbVars, lock, req, gcal, connected, mail, issued, faults>>

\* The tick goes on with the rest of its batch.
Rest(item) == IF worker.queue = {item} THEN NoTick
              ELSE [pc |-> "push", queue |-> worker.queue \ {item}, result |-> 0]

WorkerSave ==
  /\ worker.pc = "save"
  /\ \E item \in worker.queue :
       /\ IsFirst(item)
       /\ Free(appt[item.appt].enq)
       /\ WriteSync(item.appt, worker.result, IF worker.result # 0 THEN "SYNCED" ELSE "FAILED")
       /\ worker' = Rest(item)
  /\ UNCHANGED <<now, hist, lock, req, gcal, connected, mail, issued, faults>>

-----------------------------------------------------------------------------
(* Failures and the environment                                            *)

\* The handler dies (a query or a token refresh throws, the process restarts):
\* an open transaction rolls back, what is committed stays.
RequestFails(r) ==
  /\ req[r].pc # "idle"
  /\ Fault
  /\ Abort(r)
  /\ UNCHANGED <<now, dbVars, worker, gcal, connected, mail, issued>>

\* The tick dies, or the save of one row fails, which is swallowed: the tick
\* goes on with the next.
WorkerFails ==
  /\ worker.pc # "idle"
  /\ Fault
  /\ \/ worker' = NoTick
     \/ worker.pc = "save" /\ \E item \in worker.queue : IsFirst(item) /\ worker' = Rest(item)
  /\ UNCHANGED <<now, dbVars, lock, req, gcal, connected, mail, issued>>

\* A statement waits for another transaction's lock and is made to give up
\* (deadlock victim, lock wait timeout): its own transaction rolls back.
LockWaitFails(r) ==
  /\ req[r].pc = "check"
  /\ MustWait(r, req[r].slot)
  /\ Abort(r)
  /\ UNCHANGED <<now, dbVars, worker, gcal, connected, mail, issued, faults>>

Disconnect == /\ "link" \in Ops /\ connected /\ Fault /\ connected' = FALSE
              /\ UNCHANGED <<now, dbVars, lock, req, worker, gcal, mail, issued>>
Connect    == /\ "link" \in Ops /\ ~connected /\ connected' = TRUE
              /\ UNCHANGED <<now, dbVars, lock, req, worker, gcal, mail, issued, faults>>

ClockTick == /\ "clock" \in Ops
             /\ now < MaxSlot
             /\ now' = now + 1
             /\ UNCHANGED <<dbVars, lock, req, worker, gcal, connected, mail, issued, faults>>

-----------------------------------------------------------------------------
(* The specification                                                       *)

Init == /\ now = 0
        /\ appt = [a \in ApptIds |-> NoRow]
        /\ hist = [a \in ApptIds |-> <<>>]
        /\ lock = [e \in Enquiries |-> NoRequest]
        /\ req = [r \in Requests |-> Idle]
        /\ worker = NoTick
        /\ gcal = [g \in EventIds |-> NoEvent]
        /\ connected = TRUE
        /\ mail = {}
        /\ issued = 0
        /\ faults = 0

\* What clients may ask for.
RequestStarts(r) ==
  \/ \E e \in Enquiries, s \in Slots : StartCreate(r, e, s)
  \/ \E a \in ApptIds : \/ \E s \in Slots : StartEdit(r, a, s)
                         \/ StartCancel(r, a)
                         \/ StartRetry(r, a)

\* What the server does with a request it has taken.
RequestStep(r) ==
  \/ CreateFreebusy(r) \/ CreateBegin(r) \/ CreateCheck(r) \/ CreateInsert(r)
  \/ EditRead(r) \/ EditFreebusy(r) \/ EditCheck(r) \/ EditWrite(r)
  \/ CancelWrite(r) \/ CancelDrop(r)
  \/ PushEvent(r) \/ PushNotConnected(r) \/ SaveSync(r)
  \/ LockWaitFails(r)

WorkerStep == WorkerTick \/ WorkerPush \/ WorkerBreak \/ WorkerSave

\* The server may idle for ever, but only when it has nothing in hand.
ServerIdle == /\ \A r \in Requests : req[r].pc = "idle"
              /\ worker.pc = "idle"
              /\ UNCHANGED vars

Next == \/ \E r \in Requests : RequestStarts(r) \/ RequestStep(r) \/ RequestFails(r)
        \/ WorkerStep \/ WorkerFails
        \/ Disconnect \/ Connect \/ ClockTick
        \/ ServerIdle

Spec == Init /\ [][Next]_vars

\* The event loop runs every handler on, and the worker's interval fires.
FairSpec == Spec /\ WF_vars(WorkerStep) /\ \A r \in Requests : WF_vars(RequestStep(r))

-----------------------------------------------------------------------------
(* Types                                                                   *)

Points  == {"idle", "busy", "begin", "check", "insert", "read", "write", "cancel",
            "drop", "push", "save", "status", "sweep"}
Request == [op : {"none", "create", "edit", "cancel", "retry"}, pc : Points,
            enq : Enquiries \cup {NoEnquiry}, appt : 0..MaxAppts, slot : 0..MaxSlot,
            from : 0..MaxSlot, event : 0..MaxEvents, moved : BOOLEAN,
            result : 0..MaxEvents, then : {"idle", "status"}]
Entries == [action : {"created", "edited", "cancelled"}, from : 0..MaxSlot, to : 0..MaxSlot]
Mails   == [appt : 0..MaxAppts, mode : {"created", "edited", "cancelled"},
            slot : 0..MaxSlot, sync : Syncs \cup {"CANCELLED"}]
Ticks   == [pc : {"idle", "push", "save"},
            queue : SUBSET [appt : ApptIds, slot : 0..MaxSlot], result : 0..MaxEvents]

\* A request on a booking that exists: any but a create, and a create once
\* it has inserted its row.
OnBooking(r) == \/ req[r].op \in {"edit", "cancel", "retry"}
                \/ req[r].pc \in {"drop", "push", "save"}

\* Every table row, request, tick and event has the shape the code gives it,
\* and a request on a booking names a row.
TypeOK == /\ now \in 0..MaxSlot
          /\ appt \in [ApptIds -> Row]
          /\ hist \in [ApptIds -> Seq(Entries)]
          /\ lock \in [Enquiries -> Requests \cup {NoRequest}]
          /\ req \in [Requests -> Request]
          /\ worker \in Ticks
          /\ gcal \in [EventIds -> Event]
          /\ connected \in BOOLEAN
          /\ mail \subseteq Mails
          /\ issued \in 0..MaxIssued
          /\ faults \in 0..MaxFaults
          /\ \A r \in Requests : OnBooking(r) => req[r].appt \in ApptIds

-----------------------------------------------------------------------------
(* Safety                                                                  *)

\* Two active appointments never share a 15-minute bucket, however creates,
\* edits and cancels interleave (appointmentSlots.js, guarantees 1 and 2).
SlotExclusive == \A a, b \in ApptIds :
                   a # b /\ Active(a) /\ Active(b) => appt[a].slot # appt[b].slot

\* A booking occupies its own bucket in the UNIQUE index while it is active and
\* none afterwards: a cancelled slot is free again, a moved one follows the row.
KeyIffActive == \A a \in ApptIds : appt[a].key = IF Active(a) THEN appt[a].slot ELSE 0

\* The audit timeline (crm_appointment_history) tells the whole life of the row:
\* it opens with 'created', each entry starts where the one before it ended, it
\* closes with 'cancelled' exactly when the row is cancelled, and it ends at the
\* bucket the row now has.
HistoryReplaysRow ==
  \A a \in ApptIds :
    LET h == hist[a]
        n == Len(hist[a])
    IN IF ~Exists(a) THEN n = 0
       ELSE /\ n > 0
            /\ \A i \in 1..n : /\ h[i].action = "created" <=> i = 1
                               /\ i > 1 => h[i].from = h[i-1].to
                               /\ h[i].action = "cancelled" => i = n /\ ~Active(a)
            /\ IF Active(a) THEN h[n].to = appt[a].slot
                            ELSE h[n].action = "cancelled" /\ h[n].from = appt[a].slot

\* A row never points at an event made for another booking, even when the
\* worker, a retry and a handler write sync results at the same time.
EventBelongsToRow == \A a \in ApptIds :
                       appt[a].event # 0 => gcal[appt[a].event].appt = a

\* The admin is never told of something that did not happen: each notification
\* has its committed entry in the timeline.
MailTellsHistory ==
  \A m \in mail : \E i \in 1..Len(hist[m.appt]) :
    LET h == hist[m.appt][i]
    IN /\ h.action = m.mode
       /\ m.slot = IF m.mode = "cancelled" THEN h.from ELSE h.to

\* While a transaction checks and writes it has its enquiry locked, and no
\* request holds a lock outside its transaction (a leaked lock would stop
\* every later booking of that enquiry).
InTx(r) == \/ req[r].op = "create" /\ req[r].pc \in {"check", "insert"}
           \/ req[r].op = "edit" /\ req[r].pc \in {"busy", "check", "write"}
LocksMatchTx == \A r \in Requests, e \in Enquiries :
                  lock[e] = r <=> InTx(r) /\ req[r].enq = e

\* What an edit read of its booking under the lock is still true when it writes:
\* the row is active, of the enquiry it locked, in the bucket it read.
ReadUnderLock ==
  \A r \in Requests :
    (req[r].op = "edit" /\ req[r].pc \in {"busy", "check", "write"}) =>
      /\ Active(req[r].appt)
      /\ appt[req[r].appt].enq = req[r].enq
      /\ appt[req[r].appt].slot = req[r].from

\* With one request at a time, no failure and the calendar connected, Google
\* shows exactly the active bookings whenever the server is idle.
CalendarAgrees ==
  (\A r \in Requests : req[r].pc = "idle") =>
    \A a \in ApptIds :
      {gcal[g].slot : g \in {x \in EventIds : gcal[x].appt = a /\ gcal[x].live}}
        = IF Active(a) THEN {appt[a].slot} ELSE {}

\* A cancelled booking is never edited, revived or cancelled twice.
CancelledIsFinal ==
  [][\A a \in ApptIds : appt[a].status = "cancelled" =>
       /\ appt'[a].status = "cancelled"
       /\ appt'[a].slot = appt[a].slot
       /\ hist'[a] = hist[a]]_vars

\* The engine implements the diary of SlotBook.
Holder == [s \in Slots |-> IF \E a \in ApptIds : Active(a) /\ appt[a].slot = s
                             THEN CHOOSE a \in ApptIds : Active(a) /\ appt[a].slot = s
                             ELSE 0]
Released == {a \in ApptIds : appt[a].status = "cancelled"}
Diary == INSTANCE SlotBook WITH Ids <- ApptIds, Slots <- Slots,
                                holder <- Holder, released <- Released
ImplementsDiary == Diary!BookSpec

-----------------------------------------------------------------------------
(* What a comment of the code says, and the code does not do: see README   *)

\* googleCalendarSyncWorker.js: "Idempotent: safe to run concurrently".  Pushing a
\* booking from two places leaves one event for it.
OneLiveEvent ==
  \A a \in ApptIds : Cardinality({g \in EventIds : gcal[g].appt = a /\ gcal[g].live}) <= 1

-----------------------------------------------------------------------------
(* Liveness                                                                *)

\* While the calendar stays connected and failures come to an end, a booking
\* that is not on it gets there (or is cancelled first): a failed push, a
\* handler that died before its push, a late FAILED overwriting a success
\* are all picked up by the worker.
EventuallySynced == \A a \in ApptIds : Unsynced(a) ~> (~Unsynced(a) \/ ~connected)

=============================================================================
