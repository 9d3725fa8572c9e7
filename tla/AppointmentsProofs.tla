------------------------- MODULE AppointmentsProofs -------------------------
(***************************************************************************)
(* Proofs about the booking engine, for every number of requests,          *)
(* enquiries, rows, buckets and events: the locks and the slots, and on    *)
(* them what the engine tells about its bookings, and to whom - the        *)
(* timeline of a row (crm_appointment_history), the mails to the admin,    *)
(* the events of the Google calendar, and the diary of SlotBook, which     *)
(* the engine implements.                                                  *)
(***************************************************************************)
EXTENDS Appointments, TLAPS

USE BoundAssumption DEF ApptIds, Slots, EventIds

----------------------------------------
(* Types: what the helpers leave behind                                    *)

\* The record of an idle request is a request.
LEMMA IdleType == Idle \in Request
  BY DEF Idle, Request, Points

\* Moving a request to another program point keeps its shape.
LEMMA GotoType ==
  ASSUME TypeOK, NEW r \in Requests, NEW pc \in Points, Goto(r, pc),
         pc \in {"drop", "push", "save"} => OnBooking(r)
  PROVE  /\ req' \in [Requests -> Request]
         /\ \A q \in Requests : OnBooking(q)' => req'[q].appt \in ApptIds
<1>0. req \in [Requests -> Request]
  BY DEF TypeOK
<1>1. req' \in [Requests -> Request]
  BY <1>0 DEF Goto, Request
<1>2. \A q \in Requests : OnBooking(q)' => OnBooking(q) /\ req'[q].appt = req[q].appt
  BY SMTT(30) DEF Goto, OnBooking, TypeOK, Request
<1> QED BY <1>1, <1>2 DEF TypeOK

\* Releasing the locks of a request keeps the shape of the lock table.
LEMMA UnlockType ==
  ASSUME lock \in [Enquiries -> Requests \cup {NoRequest}], NEW r \in Requests, Unlock(r)
  PROVE  lock' \in [Enquiries -> Requests \cup {NoRequest}]
  BY DEF Unlock

\* A request that gives up is idle.
LEMMA AbortType ==
  ASSUME TypeOK, NEW r \in Requests, Abort(r)
  PROVE  /\ req' \in [Requests -> Request]
         /\ \A q \in Requests : OnBooking(q)' => req'[q].appt \in ApptIds
         /\ lock' \in [Enquiries -> Requests \cup {NoRequest}]
<1>1. ~(Idle.op \in {"edit", "cancel", "retry"} \/ Idle.pc \in {"drop", "push", "save"})
  BY DEF Idle
<1> QED BY <1>1, IdleType, UnlockType DEF Abort, TypeOK, OnBooking

\* A request that answers is idle or goes on with what follows its booking.
LEMMA ReturnType ==
  ASSUME TypeOK, NEW r \in Requests, Return(r)
  PROVE  /\ req' \in [Requests -> Request]
         /\ \A q \in Requests : OnBooking(q)' => req'[q].appt \in ApptIds
<1>0. req \in [Requests -> Request] /\ \A q \in Requests : OnBooking(q) => req[q].appt \in ApptIds
  BY DEF TypeOK
<1>1. CASE req[r].then = "idle"
  <2>1. ~(Idle.op \in {"edit", "cancel", "retry"} \/ Idle.pc \in {"drop", "push", "save"})
    BY DEF Idle
  <2> QED BY <1>0, <1>1, <2>1, IdleType DEF Return, OnBooking
<1>2. CASE req[r].then # "idle"
  <2>1. req[r].then = "status"
    BY <1>0, <1>2 DEF Request
  <2>2. [req[r] EXCEPT !.pc = req[r].then] \in Request
    BY <1>0, <2>1 DEF Request, Points
  <2>3. req' = [req EXCEPT ![r] = [req[r] EXCEPT !.pc = req[r].then]]
    BY <1>2 DEF Return
  <2>4. \A q \in Requests : OnBooking(q)' => OnBooking(q) /\ req'[q].appt = req[q].appt
    BY <1>0, <2>1, <2>3 DEF Request, OnBooking
  <2> QED BY <1>0, <2>2, <2>3, <2>4
<1> QED BY <1>1, <1>2

\* A counted failure stays within its bound.
LEMMA FaultType ==
  ASSUME faults \in 0..MaxFaults, Fault
  PROVE  faults' \in 0..MaxFaults
  BY DEF Fault

\* What createEvent does to the calendar keeps it a calendar.
LEMMA CreateEventType ==
  ASSUME TypeOK, NEW a \in ApptIds \cup {0}, NEW s \in 0..MaxSlot, NEW res, CreateEvent(a, s, res)
  PROVE  gcal' \in [EventIds -> Event] /\ faults' \in 0..MaxFaults
<1>1. ASSUME NEW g \in EventIds, PutEvent(g, a, s) PROVE gcal' \in [EventIds -> Event]
  BY <1>1 DEF PutEvent, TypeOK, Event
<1> QED BY <1>1, FaultType DEF CreateEvent, TypeOK

\* What updateEvent does to the calendar keeps it a calendar.
LEMMA UpdateEventType ==
  ASSUME TypeOK, NEW g \in EventIds, NEW s \in 0..MaxSlot, NEW res, UpdateEvent(g, s, res)
  PROVE  gcal' \in [EventIds -> Event] /\ faults' \in 0..MaxFaults
  BY FaultType, ZenonT(60) DEF UpdateEvent, TypeOK, Event

\* What cancelEvent does to the calendar keeps it a calendar.
LEMMA DeleteEventType ==
  ASSUME TypeOK, NEW g \in EventIds, DeleteEvent(g)
  PROVE  gcal' \in [EventIds -> Event] /\ faults' \in 0..MaxFaults
  BY FaultType DEF DeleteEvent, TypeOK, Event

\* A notification tells of a booking the table can have.
LEMMA NotifyType ==
  ASSUME TypeOK, NEW r \in Requests, NEW mode \in {"created", "edited", "cancelled"},
         NEW sync \in Syncs \cup {"CANCELLED"}, Notify(r, mode, sync)
  PROVE  mail' \subseteq Mails
  BY DEF Notify, Mails, TypeOK, Request

\* The same of the notification that follows a push, when there is one.
LEMMA NotifyPushedType ==
  ASSUME TypeOK, NEW r \in Requests, NEW sync \in Syncs, NotifyPushed(r, sync)
  PROVE  mail' \subseteq Mails
  BY NotifyType DEF NotifyPushed, TypeOK

\* Writing the outcome of a push keeps the shape of the row.
LEMMA WriteSyncType ==
  ASSUME TypeOK, NEW a \in ApptIds, NEW event \in 0..MaxEvents, NEW sync \in Syncs,
         WriteSync(a, event, sync)
  PROVE  appt' \in [ApptIds -> Row]
  BY ZenonT(60) DEF WriteSync, Pushed, TypeOK, Row

----------------------------------------
(* Types: one lemma per group of actions                                   *)

\* A step that gives one request a new record keeps the requests well shaped
\* when the record is, and names a row when it has to.
LEMMA RequestUpdate ==
  ASSUME TypeOK, NEW r \in Requests, NEW rec \in Request, req' = [req EXCEPT ![r] = rec],
         (rec.op \in {"edit", "cancel", "retry"} \/ rec.pc \in {"drop", "push", "save"})
            => rec.appt \in ApptIds
  PROVE  /\ req' \in [Requests -> Request]
         /\ \A q \in Requests : OnBooking(q)' => req'[q].appt \in ApptIds
  BY DEF OnBooking, TypeOK

\* A record that differs from a request in well-typed fields is a request.
LEMMA StartRecord ==
  ASSUME NEW x \in Request
  PROVE  /\ \A e \in Enquiries, s \in 0..MaxSlot :
              [x EXCEPT !.op = "create", !.pc = "busy", !.enq = e, !.slot = s] \in Request
         /\ \A a \in 0..MaxAppts, s \in 0..MaxSlot :
              /\ [x EXCEPT !.op = "edit", !.pc = "read", !.appt = a, !.slot = s] \in Request
              /\ [x EXCEPT !.op = "retry", !.pc = "push", !.appt = a, !.slot = s] \in Request
         /\ \A a \in 0..MaxAppts :
              [x EXCEPT !.op = "cancel", !.pc = "cancel", !.appt = a] \in Request
  BY ZenonT(60) DEF Request, Points

\* A new request has the shape of a request.
LEMMA StartsType ==
  ASSUME TypeOK, NEW r \in Requests, RequestStarts(r)
  PROVE  TypeOK'
<1>1. ASSUME NEW e \in Enquiries, NEW s \in Slots, StartCreate(r, e, s) PROVE TypeOK'
  <2> DEFINE rec == [Idle EXCEPT !.op = "create", !.pc = "busy", !.enq = e, !.slot = s]
  <2>0. s \in 0..MaxSlot
    BY DEF TypeOK, Row
  <2>1. rec \in Request
    BY <2>0, IdleType, StartRecord, Zenon
  <2>2. rec.op = "create" /\ rec.pc = "busy"
    BY DEF Idle
  <2>3. req' = [req EXCEPT ![r] = rec] /\ issued' \in 0..MaxIssued
    BY <1>1 DEF StartCreate, Issue, TypeOK
  <2> HIDE DEF rec
  <2> QED BY <1>1, <2>1, <2>2, <2>3, RequestUpdate DEF StartCreate, TypeOK, dbVars
<1>2. ASSUME NEW a \in ApptIds, NEW s \in Slots, StartEdit(r, a, s) PROVE TypeOK'
  <2> DEFINE rec == [Idle EXCEPT !.op = "edit", !.pc = "read", !.appt = a, !.slot = s]
  <2>0. s \in 0..MaxSlot /\ a \in 0..MaxAppts
    BY DEF TypeOK, Row
  <2>1. rec \in Request
    BY <2>0, IdleType, StartRecord, Zenon
  <2>2. rec.op = "edit" /\ rec.pc = "read" /\ rec.appt = a
    BY DEF Idle
  <2>3. req' = [req EXCEPT ![r] = rec] /\ issued' \in 0..MaxIssued
    BY <1>2 DEF StartEdit, Issue, TypeOK
  <2> HIDE DEF rec
  <2> QED BY <1>2, <2>1, <2>2, <2>3, RequestUpdate DEF StartEdit, TypeOK, dbVars
<1>3. ASSUME NEW a \in ApptIds, StartCancel(r, a) PROVE TypeOK'
  <2> DEFINE rec == [Idle EXCEPT !.op = "cancel", !.pc = "cancel", !.appt = a]
  <2>0. a \in 0..MaxAppts
    BY DEF TypeOK, Row
  <2>1. rec \in Request
    BY <2>0, IdleType, StartRecord, Zenon
  <2>2. rec.op = "cancel" /\ rec.pc = "cancel" /\ rec.appt = a
    BY DEF Idle
  <2>3. req' = [req EXCEPT ![r] = rec] /\ issued' \in 0..MaxIssued
    BY <1>3 DEF StartCancel, Issue, TypeOK
  <2> HIDE DEF rec
  <2> QED BY <1>3, <2>1, <2>2, <2>3, RequestUpdate DEF StartCancel, TypeOK, dbVars
<1>4. ASSUME NEW a \in ApptIds, StartRetry(r, a) PROVE TypeOK'
  <2> DEFINE rec == [Idle EXCEPT !.op = "retry", !.pc = "push", !.appt = a, !.slot = appt[a].slot]
  <2>0. appt[a].slot \in 0..MaxSlot /\ a \in 0..MaxAppts
    BY DEF TypeOK, Row
  <2>1. rec \in Request
    BY <2>0, IdleType, StartRecord, Zenon
  <2>2. rec.op = "retry" /\ rec.pc = "push" /\ rec.appt = a
    BY DEF Idle
  <2>3. req' = [req EXCEPT ![r] = rec] /\ issued' \in 0..MaxIssued
    BY <1>4 DEF StartRetry, Issue, TypeOK
  <2> HIDE DEF rec
  <2> QED BY <1>4, <2>1, <2>2, <2>3, RequestUpdate DEF StartRetry, TypeOK, dbVars
<1> QED BY <1>1, <1>2, <1>3, <1>4 DEF RequestStarts

\* The steps of a create keep every shape.
LEMMA CreateType ==
  ASSUME TypeOK, NEW r \in Requests,
         CreateFreebusy(r) \/ CreateBegin(r) \/ CreateCheck(r) \/ CreateInsert(r)
  PROVE  TypeOK'
<1> USE DEF TypeOK, dbVars
<1>1. CASE CreateFreebusy(r)
  <2>1. "begin" \in Points
    BY DEF Points
  <2>2. faults' \in 0..MaxFaults
    BY <1>1, FaultType DEF CreateFreebusy, SeesBusy, SeesFree
  <2> QED BY <1>1, <2>1, <2>2, AbortType, GotoType DEF CreateFreebusy
<1>2. CASE CreateBegin(r)
  <2>1. lock' \in [Enquiries -> Requests \cup {NoRequest}]
    BY <1>2 DEF CreateBegin
  <2>2. "check" \in Points
    BY DEF Points
  <2> QED BY <1>2, <2>1, <2>2, GotoType DEF CreateBegin
<1>3. CASE CreateCheck(r)
  <2>1. "insert" \in Points
    BY DEF Points
  <2> QED BY <1>3, <2>1, AbortType, GotoType DEF CreateCheck
<1>4. CASE CreateInsert(r)
  <2>1. CASE Abort(r) /\ UNCHANGED dbVars
    BY <1>4, <2>1, AbortType DEF CreateInsert
  <2>2. ASSUME NEW a \in ApptIds,
               appt' = [appt EXCEPT ![a] = Booked(req[r].enq, req[r].slot)],
               hist' = [hist EXCEPT ![a] = Append(@, Entry("created", 0, req[r].slot))],
               req' = [req EXCEPT ![r].pc = "push", ![r].appt = a],
               Unlock(r)
        PROVE  TypeOK'
    <3>1. req[r].enq \in Enquiries \cup {NoEnquiry} /\ req[r].slot \in 0..MaxSlot
      BY DEF Request
    <3>2. appt' \in [ApptIds -> Row]
      BY <2>2, <3>1 DEF Booked, Row, Statuses, Syncs
    <3>3. Entry("created", 0, req[r].slot) \in Entries
      BY <3>1 DEF Entry, Entries
    <3>4. hist' \in [ApptIds -> Seq(Entries)]
      BY <2>2, <3>3
    <3>5. /\ [req[r] EXCEPT !.pc = "push", !.appt = a] \in Request
          /\ [req[r] EXCEPT !.pc = "push", !.appt = a].appt = a
      <4>1. req[r] \in Request /\ a \in 0..MaxAppts
        BY <2>2
      <4> HIDE DEF TypeOK
      <4> QED BY <4>1 DEF Request, Points
    <3>6. req' = [req EXCEPT ![r] = [req[r] EXCEPT !.pc = "push", !.appt = a]]
      BY <2>2
    <3>7. /\ req' \in [Requests -> Request]
          /\ \A q \in Requests : OnBooking(q)' => req'[q].appt \in ApptIds
      BY <3>5, <3>6, RequestUpdate
    <3> QED BY <1>4, <2>2, <3>2, <3>4, <3>7, UnlockType DEF CreateInsert
  <2> QED BY <1>4, <2>1, <2>2 DEF CreateInsert
<1> QED BY <1>1, <1>2, <1>3, <1>4

\* What an edit, a cancel or a push notes in its request.
LEMMA ReadRecord ==
  ASSUME NEW x \in Request
  PROVE  /\ \A e \in Enquiries \cup {NoEnquiry}, f \in 0..MaxSlot, g \in 0..MaxEvents,
              m \in BOOLEAN, pc \in Points :
              [x EXCEPT !.enq = e, !.from = f, !.event = g, !.moved = m, !.pc = pc] \in Request
         /\ \A g \in 0..MaxEvents, s \in 0..MaxSlot :
              [x EXCEPT !.pc = "drop", !.event = g, !.slot = s] \in Request
         /\ \A res \in 0..MaxEvents : [x EXCEPT !.pc = "save", !.result = res] \in Request
<1>1. ASSUME NEW e \in Enquiries \cup {NoEnquiry}, NEW f \in 0..MaxSlot, NEW g \in 0..MaxEvents,
             NEW m \in BOOLEAN, NEW pc \in Points
      PROVE  [x EXCEPT !.enq = e, !.from = f, !.event = g, !.moved = m, !.pc = pc] \in Request
  BY DEF Request
<1>2. ASSUME NEW g \in 0..MaxEvents, NEW s \in 0..MaxSlot
      PROVE  [x EXCEPT !.pc = "drop", !.event = g, !.slot = s] \in Request
  BY DEF Request, Points
<1>3. ASSUME NEW res \in 0..MaxEvents
      PROVE  [x EXCEPT !.pc = "save", !.result = res] \in Request
  BY DEF Request, Points
<1> QED BY <1>1, <1>2, <1>3

\* The steps of an edit keep every shape.
LEMMA EditType ==
  ASSUME TypeOK, NEW r \in Requests,
         EditRead(r) \/ EditFreebusy(r) \/ EditCheck(r) \/ EditWrite(r)
  PROVE  TypeOK'
<1> DEFINE a == req[r].appt
           s == req[r].slot
<1>0. /\ req[r] \in Request /\ req[r].op = "edit" /\ a \in ApptIds
      /\ s \in 0..MaxSlot /\ req[r].from \in 0..MaxSlot
  <2>1. req[r] \in Request /\ req[r].op = "edit"
    BY DEF TypeOK, EditRead, EditFreebusy, EditCheck, EditWrite, At
  <2>2. a \in ApptIds
    BY <2>1 DEF TypeOK, OnBooking
  <2> QED BY <2>1, <2>2 DEF Request
<1>1. CASE EditRead(r)
  <2>1. CASE Abort(r)
    BY <1>1, <2>1, AbortType DEF EditRead, TypeOK, dbVars
  <2>2. CASE ~Abort(r)
    <3>1. appt[a] \in Row
      BY <1>0 DEF TypeOK
    <3>2. /\ appt[a].enq \in Enquiries \cup {NoEnquiry} /\ appt[a].slot \in 0..MaxSlot
          /\ appt[a].event \in 0..MaxEvents
      BY <3>1 DEF Row
    <3> DEFINE pc  == IF appt[a].key # s THEN "busy" ELSE "write"
               m   == appt[a].key # s
               rec == [req[r] EXCEPT !.enq = appt[a].enq, !.from = appt[a].slot,
                                     !.event = appt[a].event, !.moved = m, !.pc = pc]
    <3>3. req' = [req EXCEPT ![r] = rec] /\ lock' = [lock EXCEPT ![appt[a].enq] = r]
      BY <1>1, <2>2 DEF EditRead, TypeOK
    <3>4. pc \in Points /\ m \in BOOLEAN
      BY DEF Points
    <3> HIDE DEF pc, m
    <3>5. rec \in Request
      BY <1>0, <3>2, <3>4, ReadRecord, ZenonT(60)
    <3>6. rec.appt = a
      BY <1>0 DEF Request
    <3>7. lock' \in [Enquiries -> Requests \cup {NoRequest}]
      BY <3>3 DEF TypeOK
    <3> HIDE DEF rec
    <3>8. /\ req' \in [Requests -> Request]
          /\ \A q \in Requests : OnBooking(q)' => req'[q].appt \in ApptIds
      BY <1>0, <3>3, <3>5, <3>6, RequestUpdate
    <3> QED BY <1>1, <3>7, <3>8 DEF EditRead, TypeOK, dbVars
  <2> QED BY <2>1, <2>2
<1>2. CASE EditFreebusy(r)
  <2>1. "check" \in Points
    BY DEF Points
  <2>2. faults' \in 0..MaxFaults
    BY <1>2, FaultType DEF EditFreebusy, SeesBusy, SeesFree, TypeOK
  <2> QED BY <1>2, <2>1, <2>2, AbortType, GotoType DEF EditFreebusy, TypeOK, dbVars
<1>3. CASE EditCheck(r)
  <2>1. "write" \in Points
    BY DEF Points
  <2> QED BY <1>3, <2>1, AbortType, GotoType DEF EditCheck, TypeOK, dbVars
<1>4. CASE EditWrite(r)
  <2>1. CASE Abort(r) /\ UNCHANGED dbVars
    BY <1>4, <2>1, AbortType DEF EditWrite, TypeOK, dbVars
  <2>2. CASE ~(Abort(r) /\ UNCHANGED dbVars)
    <3>1. /\ appt' = [appt EXCEPT ![a] = Moved(@, s)]
          /\ hist' = [hist EXCEPT ![a] = Append(@, Entry("edited", req[r].from, s))]
          /\ Goto(r, "push")
          /\ Unlock(r)
      BY <1>4, <2>2 DEF EditWrite
    <3>2. appt' \in [ApptIds -> Row]
      <4>1. appt \in [ApptIds -> Row]
        BY DEF TypeOK
      <4> QED BY <1>0, <3>1, <4>1 DEF Moved, Row
    <3>3. Entry("edited", req[r].from, s) \in Entries
      BY <1>0 DEF Entry, Entries
    <3>4. hist' \in [ApptIds -> Seq(Entries)]
      BY <1>0, <3>1, <3>3 DEF TypeOK
    <3>5. "push" \in Points /\ OnBooking(r)
      BY <1>0 DEF Points, OnBooking
    <3> QED BY <1>4, <3>1, <3>2, <3>4, <3>5, GotoType, UnlockType DEF EditWrite, TypeOK
  <2> QED BY <2>1, <2>2
<1> QED BY <1>1, <1>2, <1>3, <1>4

\* A row that is cancelled stays a row.
LEMMA CancelledRow ==
  ASSUME NEW x \in Row
  PROVE  [x EXCEPT !.status = "cancelled", !.key = 0] \in Row
<1>1. 0 \in 0..MaxSlot /\ "cancelled" \in Statuses
  BY DEF Statuses
<1> QED BY <1>1 DEF Row

\* The steps of a cancel keep every shape.
LEMMA CancelType ==
  ASSUME TypeOK, NEW r \in Requests, CancelWrite(r) \/ CancelDrop(r)
  PROVE  TypeOK'
<1> DEFINE a == req[r].appt
<1>0. req[r] \in Request /\ req[r].op = "cancel" /\ a \in ApptIds /\ appt[a] \in Row
  <2>1. req[r] \in Request /\ req[r].op = "cancel"
    BY DEF TypeOK, CancelWrite, CancelDrop, At
  <2> QED BY <2>1 DEF TypeOK, OnBooking
<1>1. CASE CancelWrite(r)
  <2>1. CASE Abort(r) /\ UNCHANGED dbVars
    BY <1>1, <2>1, AbortType DEF CancelWrite, TypeOK, dbVars
  <2>2. CASE ~(Abort(r) /\ UNCHANGED dbVars)
    <3> DEFINE rec == [req[r] EXCEPT !.pc = "drop", !.event = appt[a].event,
                                     !.slot = appt[a].slot]
    <3>1. /\ appt' = [appt EXCEPT ![a] = Cancelled(@)]
          /\ hist' = [hist EXCEPT ![a] = Append(@, Entry("cancelled", appt[a].slot, 0))]
          /\ req' = [req EXCEPT ![r] = rec]
          /\ UNCHANGED lock
      BY <1>1, <2>2 DEF CancelWrite, TypeOK
    <3>2. appt[a].event \in 0..MaxEvents /\ appt[a].slot \in 0..MaxSlot
      BY <1>0 DEF Row
    <3>3. rec \in Request
      BY <1>0, <3>2, ReadRecord
    <3>4. rec.appt = a
      BY <1>0 DEF Request
    <3> HIDE DEF rec
    <3>5. /\ req' \in [Requests -> Request]
          /\ \A q \in Requests : OnBooking(q)' => req'[q].appt \in ApptIds
      BY <1>0, <3>1, <3>3, <3>4, RequestUpdate
    <3>6. appt' \in [ApptIds -> Row]
      <4>1. appt \in [ApptIds -> Row]
        BY DEF TypeOK
      <4>2. [appt[a] EXCEPT !.status = "cancelled", !.key = 0] \in Row
        BY <1>0, CancelledRow
      <4>3. appt' = [appt EXCEPT ![a] = [appt[a] EXCEPT !.status = "cancelled", !.key = 0]]
        BY <3>1 DEF Cancelled
      <4> QED BY <1>0, <4>1, <4>2, <4>3
    <3>7. Entry("cancelled", appt[a].slot, 0) \in Entries
      BY <3>2 DEF Entry, Entries
    <3>8. hist' \in [ApptIds -> Seq(Entries)]
      BY <1>0, <3>1, <3>7 DEF TypeOK
    <3> QED BY <1>1, <3>1, <3>5, <3>6, <3>8 DEF CancelWrite, TypeOK
  <2> QED BY <2>1, <2>2
<1>2. CASE CancelDrop(r)
  <2>1. gcal' \in [EventIds -> Event] /\ faults' \in 0..MaxFaults
    <3>1. req[r].event = 0 \/ req[r].event \in EventIds
      BY <1>0 DEF Request
    <3> QED BY <1>2, <3>1, DeleteEventType DEF CancelDrop, TypeOK
  <2>2. mail' \subseteq Mails
    BY <1>2, NotifyType DEF CancelDrop
  <2> QED BY <1>2, <2>1, <2>2, ReturnType DEF CancelDrop, TypeOK, dbVars
<1> QED BY <1>1, <1>2

\* The steps that push a booking to Google and save the outcome keep every shape.
LEMMA PushType ==
  ASSUME TypeOK, NEW r \in Requests, PushEvent(r) \/ PushNotConnected(r) \/ SaveSync(r)
  PROVE  TypeOK'
<1> DEFINE a == req[r].appt
<1>0. /\ req[r] \in Request /\ OnBooking(r) /\ a \in ApptIds
      /\ req[r].slot \in 0..MaxSlot /\ req[r].event \in 0..MaxEvents
      /\ req[r].result \in 0..MaxEvents
  <2>1. req[r] \in Request /\ OnBooking(r)
    BY DEF TypeOK, PushEvent, PushNotConnected, SaveSync, OnBooking
  <2> QED BY <2>1 DEF TypeOK, Request
<1>1. CASE PushEvent(r)
  <2>1. PICK res \in 0..MaxEvents :
          /\ IF req[r].op = "edit" /\ req[r].event # 0
               THEN UpdateEvent(req[r].event, req[r].slot, res)
               ELSE CreateEvent(req[r].appt, req[r].slot, res)
          /\ req' = [req EXCEPT ![r].pc = "save", ![r].result = res]
    BY <1>1 DEF PushEvent
  <2>2. gcal' \in [EventIds -> Event] /\ faults' \in 0..MaxFaults
    <3>1. CASE UpdateEvent(req[r].event, req[r].slot, res) /\ req[r].event # 0
      <4>1. req[r].event \in EventIds
        BY <1>0, <3>1
      <4> QED BY <1>0, <3>1, <4>1, UpdateEventType
    <3>2. CASE CreateEvent(req[r].appt, req[r].slot, res)
      BY <1>0, <3>2, CreateEventType
    <3> QED BY <2>1, <3>1, <3>2
  <2> DEFINE rec == [req[r] EXCEPT !.pc = "save", !.result = res]
  <2>3. req' = [req EXCEPT ![r] = rec]
    BY <2>1 DEF TypeOK
  <2>4. rec \in Request
    BY <1>0, ReadRecord
  <2>5. rec.appt = a
    BY <1>0 DEF Request
  <2> HIDE DEF rec
  <2>6. /\ req' \in [Requests -> Request]
        /\ \A q \in Requests : OnBooking(q)' => req'[q].appt \in ApptIds
    BY <1>0, <2>3, <2>4, <2>5, RequestUpdate
  <2> QED BY <1>1, <2>2, <2>6 DEF PushEvent, TypeOK, dbVars
<1>2. CASE PushNotConnected(r)
  <2>1. mail' \subseteq Mails
    BY <1>2, NotifyPushedType DEF PushNotConnected, Syncs
  <2> QED BY <1>2, <2>1, ReturnType DEF PushNotConnected, TypeOK, dbVars
<1>3. CASE SaveSync(r)
  <2>1. "SYNCED" \in Syncs /\ "FAILED" \in Syncs
    BY DEF Syncs
  <2>2. appt' \in [ApptIds -> Row] /\ mail' \subseteq Mails
    BY <1>0, <1>3, <2>1, WriteSyncType, NotifyPushedType DEF SaveSync
  <2> QED BY <1>3, <2>2, ReturnType DEF SaveSync, TypeOK
<1> QED BY <1>1, <1>2, <1>3

\* The steps of the sync worker keep every shape.
LEMMA WorkerType ==
  ASSUME TypeOK, WorkerStep \/ WorkerFails
  PROVE  TypeOK'
<1>0. NoTick \in Ticks
  BY DEF NoTick, Ticks
<1>1. CASE WorkerTick
  <2>1. Batch \subseteq [appt : ApptIds, slot : 0..MaxSlot]
    <3>1. \A a \in ApptIds : appt[a].slot \in 0..MaxSlot
      BY DEF TypeOK, Row
    <3>2. \A a \in ApptIds : [appt |-> a, slot |-> appt[a].slot] \in [appt : ApptIds, slot : 0..MaxSlot]
      BY <3>1
    <3>3. \A x \in Batch : \E a \in ApptIds : x = [appt |-> a, slot |-> appt[a].slot]
      BY DEF Batch
    <3> QED BY <3>2, <3>3
  <2>2. worker' = [pc |-> "push", queue |-> Batch, result |-> 0]
    BY <1>1 DEF WorkerTick, NoTick
  <2>3. worker' \in Ticks
    BY <2>1, <2>2 DEF Ticks
  <2> QED BY <1>1, <2>3 DEF WorkerTick, TypeOK, dbVars, OnBooking
<1>2. CASE WorkerPush
  <2>1. PICK item \in worker.queue, res \in 0..MaxEvents :
          /\ CreateEvent(item.appt, item.slot, res)
          /\ worker' = [worker EXCEPT !.pc = "save", !.result = res]
    BY <1>2 DEF WorkerPush
  <2>2. item.appt \in ApptIds /\ item.slot \in 0..MaxSlot
    BY DEF TypeOK, Ticks
  <2>3. gcal' \in [EventIds -> Event] /\ faults' \in 0..MaxFaults
    BY <2>1, <2>2, CreateEventType
  <2>4. worker' \in Ticks
    BY <2>1 DEF TypeOK, Ticks
  <2> QED BY <1>2, <2>3, <2>4 DEF WorkerPush, TypeOK, dbVars, OnBooking
<1>3. CASE WorkerBreak
  BY <1>0, <1>3 DEF WorkerBreak, TypeOK, dbVars, OnBooking
<1>4. CASE WorkerSave
  <2>1. PICK item \in worker.queue :
          /\ WriteSync(item.appt, worker.result,
                       IF worker.result # 0 THEN "SYNCED" ELSE "FAILED")
          /\ worker' = Rest(item)
    BY <1>4 DEF WorkerSave
  <2>2. item.appt \in ApptIds /\ worker.result \in 0..MaxEvents
    BY DEF TypeOK, Ticks
  <2>3. (IF worker.result # 0 THEN "SYNCED" ELSE "FAILED") \in Syncs
    BY DEF Syncs
  <2>4. appt' \in [ApptIds -> Row]
    BY <2>1, <2>2, <2>3, WriteSyncType
  <2>5. worker' \in Ticks
    BY <1>0, <2>1 DEF TypeOK, Ticks, Rest
  <2> QED BY <1>4, <2>4, <2>5 DEF WorkerSave, TypeOK, OnBooking
<1>5. CASE WorkerFails
  <2>1. worker' \in Ticks
    BY <1>0, <1>5 DEF WorkerFails, TypeOK, Ticks, Rest
  <2> QED BY <1>5, <2>1, FaultType DEF WorkerFails, TypeOK, dbVars, OnBooking
<1> QED BY <1>1, <1>2, <1>3, <1>4, <1>5 DEF WorkerStep

\* Failures and the environment keep every shape.
LEMMA EnvironmentType ==
  ASSUME TypeOK,
         \/ \E r \in Requests : RequestFails(r) \/ LockWaitFails(r)
         \/ Disconnect \/ Connect \/ ClockTick \/ UNCHANGED vars
  PROVE  TypeOK'
<1>1. ASSUME NEW r \in Requests, RequestFails(r) PROVE TypeOK'
  BY <1>1, AbortType, FaultType DEF RequestFails, TypeOK, dbVars
<1>2. ASSUME NEW r \in Requests, LockWaitFails(r) PROVE TypeOK'
  BY <1>2, AbortType DEF LockWaitFails, TypeOK, dbVars
<1>3. CASE Disconnect
  BY <1>3, FaultType DEF Disconnect, TypeOK, dbVars, OnBooking
<1>4. CASE Connect
  BY <1>4 DEF Connect, TypeOK, dbVars, OnBooking
<1>5. CASE ClockTick
  BY <1>5 DEF ClockTick, TypeOK, dbVars, OnBooking
<1>6. CASE UNCHANGED vars
  BY <1>6 DEF vars, TypeOK, dbVars, OnBooking
<1> QED BY <1>1, <1>2, <1>3, <1>4, <1>5, <1>6

\* The empty tables have their shapes.
LEMMA InitType == Init => TypeOK
<1> SUFFICES ASSUME Init PROVE TypeOK
  OBVIOUS
<1>1. NoRow \in Row
  BY DEF NoRow, Row, Statuses, Syncs
<1>2. NoTick \in Ticks
  BY DEF NoTick, Ticks
<1>3. NoEvent \in Event
  BY DEF NoEvent, Event
<1>4. \A r \in Requests : ~OnBooking(r)
  BY DEF Init, OnBooking, Idle
<1> QED BY <1>1, <1>2, <1>3, <1>4, IdleType DEF Init, TypeOK

\* Every step keeps every shape.
LEMMA NextType == TypeOK /\ [Next]_vars => TypeOK'
  BY StartsType, CreateType, EditType, CancelType, PushType, WorkerType, EnvironmentType
  DEF Next, RequestStep, ServerIdle

\* In every behaviour of the engine the tables, the requests, the worker and
\* the calendar have the shapes the code gives them, and a request on a booking
\* names a row of the table.
THEOREM TypeCorrect == Spec => []TypeOK
  BY InitType, NextType, PTL DEF Spec

----------------------------------------
(* Locks.  Every statement that writes a booking runs while the row of its  *)
(* enquiry is locked, and what a transaction read of the row under the lock *)
(* is still true when it writes.                                            *)

\* The part of InTx that only looks at the request.
Holds(x) == \/ x.op = "create" /\ x.pc \in {"check", "insert"}
            \/ x.op = "edit" /\ x.pc \in {"busy", "check", "write"}

\* Bookings, and requests to book, belong to an enquiry.
OwnEnquiry == /\ \A a \in ApptIds : Exists(a) => appt[a].enq \in Enquiries
              /\ \A r \in Requests : req[r].op = "create" => req[r].enq \in Enquiries

LockInv == TypeOK /\ LocksMatchTx /\ ReadUnderLock /\ OwnEnquiry

\* Only the insert, the edit and the cancel touch more of a row than its event
\* and its sync state.
SameBooking == \A a \in ApptIds : /\ appt'[a].enq = appt[a].enq
                                  /\ appt'[a].slot = appt[a].slot
                                  /\ appt'[a].key = appt[a].key
                                  /\ appt'[a].status = appt[a].status

\* Writing the outcome of a push leaves everything but the sync columns of
\* every row alone.
LEMMA WriteSyncKeeps ==
  ASSUME TypeOK, NEW a \in ApptIds, NEW event, NEW sync, WriteSync(a, event, sync)
  PROVE  SameBooking
<1>1. appt \in [ApptIds -> Row]
  BY DEF TypeOK
<1> QED BY <1>1 DEF WriteSync, Pushed, SameBooking, Row

\* A step of one request that takes or keeps no lock it has no use for.
LEMMA LockStep ==
  ASSUME LockInv, NEW r \in Requests, NEW rec, req' = [req EXCEPT ![r] = rec],
         \/ Unlock(r) /\ ~Holds(rec)
         \/ UNCHANGED lock /\ (Holds(rec) <=> Holds(req[r])) /\ (Holds(rec) => rec.enq = req[r].enq)
         \/ /\ ~Holds(req[r]) /\ Holds(rec)
            /\ rec.enq \in Enquiries /\ Free(rec.enq) /\ lock' = [lock EXCEPT ![rec.enq] = r]
  PROVE  LocksMatchTx'
<1> USE RequestAssumption DEF LockInv, LocksMatchTx, InTx, Holds
<1>0. lock \in [Enquiries -> Requests \cup {NoRequest}] /\ req \in [Requests -> Request]
  BY DEF TypeOK
<1>1. CASE Unlock(r) /\ ~Holds(rec)
  BY <1>0, <1>1 DEF Unlock
<1>2. CASE UNCHANGED lock /\ (Holds(rec) <=> Holds(req[r])) /\ (Holds(rec) => rec.enq = req[r].enq)
  BY <1>0, <1>2
<1>3. CASE /\ ~Holds(req[r]) /\ Holds(rec)
           /\ rec.enq \in Enquiries /\ Free(rec.enq) /\ lock' = [lock EXCEPT ![rec.enq] = r]
  BY <1>0, <1>3 DEF Free
<1> QED BY <1>1, <1>2, <1>3

\* What a record must be for its request to keep the lock discipline.
Disciplined(x) ==
  /\ x.op = "create" => x.enq \in Enquiries
  /\ (x.op = "edit" /\ x.pc \in {"busy", "check", "write"}) =>
       /\ x.appt \in ApptIds
       /\ Active(x.appt)
       /\ appt[x.appt].enq = x.enq
       /\ appt[x.appt].slot = x.from

\* A step of one request that writes no booking.
LEMMA RequestKeeps ==
  ASSUME LockInv, NEW r \in Requests, NEW rec, req' = [req EXCEPT ![r] = rec],
         SameBooking, Disciplined(rec), LocksMatchTx'
  PROVE  LocksMatchTx' /\ ReadUnderLock' /\ OwnEnquiry'
<1> USE DEF LockInv, SameBooking, Active, Exists
<1>1. req \in [Requests -> Request] /\ \A q \in Requests : OnBooking(q) => req[q].appt \in ApptIds
  BY DEF TypeOK
<1>2. ReadUnderLock'
  BY <1>1 DEF ReadUnderLock, Disciplined, OnBooking
<1>3. OwnEnquiry'
  BY <1>1 DEF OwnEnquiry, Disciplined
<1> QED BY <1>2, <1>3

\* A request that gives up leaves nothing behind.
LEMMA AbortLocks ==
  ASSUME LockInv, NEW r \in Requests, Abort(r), SameBooking
  PROVE  LocksMatchTx' /\ ReadUnderLock' /\ OwnEnquiry'
<1>1. ~Holds(Idle) /\ Disciplined(Idle)
  BY DEF Idle, Holds, Disciplined
<1>2. req' = [req EXCEPT ![r] = Idle] /\ Unlock(r)
  BY DEF Abort
<1>3. LocksMatchTx'
  BY <1>1, <1>2, LockStep
<1> QED BY <1>1, <1>2, <1>3, RequestKeeps

\* A request that moves on outside a transaction, or inside one, holds the
\* lock it held.
LEMMA GotoLocks ==
  ASSUME LockInv, NEW r \in Requests, NEW pc, Goto(r, pc), UNCHANGED lock, SameBooking,
         Holds(req[r]) <=> Holds([req[r] EXCEPT !.pc = pc]),
         Disciplined([req[r] EXCEPT !.pc = pc])
  PROVE  LocksMatchTx' /\ ReadUnderLock' /\ OwnEnquiry'
<1> DEFINE rec == [req[r] EXCEPT !.pc = pc]
<1>1. req[r] \in Request
  BY DEF LockInv, TypeOK
<1>2. rec.enq = req[r].enq
  BY <1>1 DEF Request
<1>3. req' = [req EXCEPT ![r] = rec]
  BY DEF Goto, LockInv, TypeOK
<1>4. (Holds(req[r]) <=> Holds(rec)) /\ Disciplined(rec)
  OBVIOUS
<1> HIDE DEF rec
<1>5. LocksMatchTx'
  BY <1>2, <1>3, <1>4, LockStep
<1> QED BY <1>3, <1>4, <1>5, RequestKeeps

\* Two transactions never work on the same booking.
LEMMA OneTxPerRow ==
  ASSUME LockInv, NEW r \in Requests, NEW a \in ApptIds, Exists(a),
         req[r].op = "edit", req[r].pc \in {"busy", "check", "write"}, req[r].appt = a
  PROVE  lock[appt[a].enq] = r
  BY DEF LockInv, LocksMatchTx, InTx, ReadUnderLock, OwnEnquiry

\* A new request is in no transaction.
LEMMA StartsLocks ==
  ASSUME LockInv, NEW r \in Requests, RequestStarts(r)
  PROVE  LocksMatchTx' /\ ReadUnderLock' /\ OwnEnquiry'
<1>1. UNCHANGED <<appt, lock>> /\ req[r].pc = "idle"
  BY DEF RequestStarts, StartCreate, StartEdit, StartCancel, StartRetry, Issue, dbVars
<1>2. SameBooking
  BY <1>1 DEF SameBooking
<1>3. ASSUME NEW rec, req' = [req EXCEPT ![r] = rec], rec.pc \in {"busy", "read", "cancel", "push"},
             rec.op = "create" => rec.enq \in Enquiries /\ rec.pc = "busy",
             rec.op = "edit" => rec.pc = "read"
      PROVE  LocksMatchTx' /\ ReadUnderLock' /\ OwnEnquiry'
  <2>1. ~Holds(rec) /\ ~Holds(req[r]) /\ Disciplined(rec)
    BY <1>1, <1>3 DEF Holds, Disciplined
  <2>2. LocksMatchTx'
    BY <1>1, <1>3, <2>1, LockStep
  <2> QED BY <1>2, <1>3, <2>1, <2>2, RequestKeeps
<1>4. ASSUME NEW e \in Enquiries, NEW s \in Slots, StartCreate(r, e, s)
      PROVE  LocksMatchTx' /\ ReadUnderLock' /\ OwnEnquiry'
  <2> DEFINE rec == [Idle EXCEPT !.op = "create", !.pc = "busy", !.enq = e, !.slot = s]
  <2>1. rec.op = "create" /\ rec.pc = "busy" /\ rec.enq = e
    BY DEF Idle
  <2>2. req' = [req EXCEPT ![r] = rec]
    BY <1>4 DEF StartCreate, Issue
  <2> HIDE DEF rec
  <2> QED BY <1>3, <2>1, <2>2
<1>5. ASSUME NEW a \in ApptIds, NEW s \in Slots, StartEdit(r, a, s)
      PROVE  LocksMatchTx' /\ ReadUnderLock' /\ OwnEnquiry'
  <2> DEFINE rec == [Idle EXCEPT !.op = "edit", !.pc = "read", !.appt = a, !.slot = s]
  <2>1. rec.op = "edit" /\ rec.pc = "read"
    BY DEF Idle
  <2>2. req' = [req EXCEPT ![r] = rec]
    BY <1>5 DEF StartEdit, Issue
  <2> HIDE DEF rec
  <2> QED BY <1>3, <2>1, <2>2
<1>6. ASSUME NEW a \in ApptIds, StartCancel(r, a)
      PROVE  LocksMatchTx' /\ ReadUnderLock' /\ OwnEnquiry'
  <2> DEFINE rec == [Idle EXCEPT !.op = "cancel", !.pc = "cancel", !.appt = a]
  <2>1. rec.op = "cancel" /\ rec.pc = "cancel"
    BY DEF Idle
  <2>2. req' = [req EXCEPT ![r] = rec]
    BY <1>6 DEF StartCancel, Issue
  <2> HIDE DEF rec
  <2> QED BY <1>3, <2>1, <2>2
<1>7. ASSUME NEW a \in ApptIds, StartRetry(r, a)
      PROVE  LocksMatchTx' /\ ReadUnderLock' /\ OwnEnquiry'
  <2> DEFINE rec == [Idle EXCEPT !.op = "retry", !.pc = "push", !.appt = a, !.slot = appt[a].slot]
  <2>1. rec.op = "retry" /\ rec.pc = "push"
    BY DEF Idle
  <2>2. req' = [req EXCEPT ![r] = rec]
    BY <1>7 DEF StartRetry, Issue
  <2> HIDE DEF rec
  <2> QED BY <1>3, <2>1, <2>2
<1> QED BY <1>4, <1>5, <1>6, <1>7 DEF RequestStarts

\* The steps of a create before its insert.
LEMMA CreateLocks ==
  ASSUME LockInv, NEW r \in Requests, CreateFreebusy(r) \/ CreateBegin(r) \/ CreateCheck(r)
  PROVE  LocksMatchTx' /\ ReadUnderLock' /\ OwnEnquiry'
<1>0. /\ req[r] \in Request /\ req[r].op = "create" /\ req[r].enq \in Enquiries
      /\ UNCHANGED appt /\ req \in [Requests -> Request]
  BY DEF LockInv, TypeOK, OwnEnquiry, CreateFreebusy, CreateBegin, CreateCheck, At, dbVars
<1>1. SameBooking
  BY <1>0 DEF SameBooking
<1>2. ASSUME NEW pc
      PROVE  /\ Disciplined([req[r] EXCEPT !.pc = pc])
             /\ Holds([req[r] EXCEPT !.pc = pc]) <=> pc \in {"check", "insert"}
             /\ [req[r] EXCEPT !.pc = pc].enq = req[r].enq
  BY <1>0 DEF Disciplined, Holds, Request
<1>3. CASE CreateFreebusy(r)
  <2>1. CASE Abort(r)
    BY <1>1, <2>1, AbortLocks
  <2>2. CASE Goto(r, "begin") /\ UNCHANGED lock
    <3>1. ~Holds(req[r])
      BY <1>0, <1>3 DEF CreateFreebusy, At, Holds
    <3>2. ~Holds([req[r] EXCEPT !.pc = "begin"])
      BY <1>2
    <3> QED BY <1>1, <1>2, <2>2, <3>1, <3>2, GotoLocks
  <2> QED BY <1>3, <2>1, <2>2 DEF CreateFreebusy
<1>4. CASE CreateBegin(r)
  <2> DEFINE rec == [req[r] EXCEPT !.pc = "check"]
  <2>1. req' = [req EXCEPT ![r] = rec] /\ Free(req[r].enq) /\ lock' = [lock EXCEPT ![req[r].enq] = r]
    BY <1>0, <1>4 DEF CreateBegin, Goto
  <2>2. ~Holds(req[r])
    BY <1>0, <1>4 DEF CreateBegin, At, Holds
  <2>3. Disciplined(rec) /\ Holds(rec) /\ rec.enq = req[r].enq
    BY <1>2
  <2> HIDE DEF rec
  <2>4. LocksMatchTx'
    BY <1>0, <2>1, <2>2, <2>3, LockStep
  <2> QED BY <1>1, <2>1, <2>3, <2>4, RequestKeeps
<1>5. CASE CreateCheck(r)
  <2>1. CASE Abort(r)
    BY <1>1, <2>1, AbortLocks
  <2>2. CASE Goto(r, "insert") /\ UNCHANGED lock
    <3>1. Holds(req[r])
      BY <1>0, <1>5 DEF CreateCheck, At, Holds
    <3>2. Holds([req[r] EXCEPT !.pc = "insert"])
      BY <1>2
    <3> QED BY <1>1, <1>2, <2>2, <3>1, <3>2, GotoLocks
  <2> QED BY <1>5, <2>1, <2>2 DEF CreateCheck
<1> QED BY <1>3, <1>4, <1>5

\* An edit locks the enquiry of an active row and keeps it until it writes.
LEMMA EditLocks ==
  ASSUME LockInv, NEW r \in Requests, EditRead(r) \/ EditFreebusy(r) \/ EditCheck(r)
  PROVE  LocksMatchTx' /\ ReadUnderLock' /\ OwnEnquiry'
<1> DEFINE a == req[r].appt
<1>0. /\ req[r] \in Request /\ req[r].op = "edit" /\ a \in ApptIds
      /\ UNCHANGED appt /\ req \in [Requests -> Request]
  BY DEF LockInv, TypeOK, EditRead, EditFreebusy, EditCheck, At, dbVars, OnBooking
<1>1. SameBooking
  BY <1>0 DEF SameBooking
<1>2. ASSUME Abort(r) PROVE LocksMatchTx' /\ ReadUnderLock' /\ OwnEnquiry'
  BY <1>1, <1>2, AbortLocks
<1>3. CASE EditRead(r) /\ ~Abort(r)
  <2> DEFINE rec == [req[r] EXCEPT !.enq = appt[a].enq, !.from = appt[a].slot,
                                   !.event = appt[a].event, !.moved = (appt[a].key # req[r].slot),
                                   !.pc = IF appt[a].key # req[r].slot THEN "busy" ELSE "write"]
  <2>1. /\ Active(a) /\ Free(appt[a].enq) /\ lock' = [lock EXCEPT ![appt[a].enq] = r]
        /\ req' = [req EXCEPT ![r] = rec] /\ req[r].pc = "read"
    BY <1>0, <1>3 DEF EditRead, At
  <2>2. /\ rec.enq = appt[a].enq /\ rec.from = appt[a].slot /\ rec.appt = a /\ rec.op = "edit"
        /\ rec.pc \in {"busy", "write"}
    BY <1>0 DEF Request
  <2>3. appt[a].enq \in Enquiries
    BY <1>0, <2>1 DEF LockInv, OwnEnquiry, Active, Exists
  <2> HIDE DEF rec
  <2>4. Disciplined(rec) /\ Holds(rec) /\ ~Holds(req[r])
    BY <1>0, <2>1, <2>2 DEF Disciplined, Holds
  <2>5. LocksMatchTx'
    BY <2>1, <2>2, <2>3, <2>4, LockStep
  <2> QED BY <1>1, <2>1, <2>4, <2>5, RequestKeeps
<1>4. ASSUME NEW pc \in {"check", "write"}, Goto(r, pc), UNCHANGED lock, req[r].pc \in {"busy", "check"}
      PROVE  LocksMatchTx' /\ ReadUnderLock' /\ OwnEnquiry'
  <2> DEFINE rec == [req[r] EXCEPT !.pc = pc]
  <2>1. /\ rec.pc = pc /\ rec.op = "edit" /\ rec.appt = a
        /\ rec.enq = req[r].enq /\ rec.from = req[r].from
    BY <1>0 DEF Request
  <2>2. Active(a) /\ appt[a].enq = req[r].enq /\ appt[a].slot = req[r].from
    BY <1>0, <1>4 DEF LockInv, ReadUnderLock
  <2> HIDE DEF rec
  <2>3. Holds(req[r]) /\ Holds(rec) /\ Disciplined(rec)
    BY <1>0, <1>4, <2>1, <2>2 DEF Holds, Disciplined
  <2> QED BY <1>1, <1>4, <2>3, GotoLocks DEF rec
<1>5. CASE EditFreebusy(r)
  BY <1>2, <1>4, <1>5 DEF EditFreebusy, At
<1>6. CASE EditCheck(r)
  BY <1>2, <1>4, <1>6 DEF EditCheck, At
<1> QED BY <1>2, <1>3, <1>5, <1>6

\* After its commit a request holds nothing.
LEMMA PushLocks ==
  ASSUME LockInv, NEW r \in Requests,
         CancelDrop(r) \/ PushEvent(r) \/ PushNotConnected(r) \/ SaveSync(r)
  PROVE  LocksMatchTx' /\ ReadUnderLock' /\ OwnEnquiry'
<1>0. /\ req[r] \in Request /\ req \in [Requests -> Request]
      /\ req[r].op = "create" => req[r].enq \in Enquiries
      /\ ~Holds(req[r]) /\ UNCHANGED lock
  BY DEF LockInv, TypeOK, OwnEnquiry, CancelDrop, PushEvent, PushNotConnected, SaveSync, At, Holds
<1>1. SameBooking
  <2>1. CASE SaveSync(r)
    <3>1. req[r].appt \in ApptIds
      BY <2>1 DEF SaveSync, LockInv, TypeOK, OnBooking
    <3> QED BY <2>1, <3>1, WriteSyncKeeps DEF SaveSync, LockInv
  <2>2. CASE UNCHANGED appt
    BY <2>2 DEF SameBooking
  <2> QED BY <2>1, <2>2 DEF CancelDrop, PushEvent, PushNotConnected, dbVars
<1>2. ASSUME NEW rec, req' = [req EXCEPT ![r] = rec], rec.pc \in {"idle", "status", "save"},
             rec.op = "create" => rec.enq \in Enquiries
      PROVE  LocksMatchTx' /\ ReadUnderLock' /\ OwnEnquiry'
  <2>1. ~Holds(rec) /\ Disciplined(rec)
    BY <1>2 DEF Holds, Disciplined
  <2>2. LocksMatchTx'
    BY <1>0, <1>2, <2>1, LockStep
  <2> QED BY <1>1, <1>2, <2>1, <2>2, RequestKeeps
<1>3. CASE Return(r)
  <2>1. CASE req[r].then = "idle"
    <3>1. Idle.op = "none" /\ Idle.pc = "idle"
      BY DEF Idle
    <3> QED BY <1>2, <1>3, <2>1, <3>1 DEF Return
  <2>2. CASE req[r].then # "idle"
    <3> DEFINE rec == [req[r] EXCEPT !.pc = req[r].then]
    <3>1. rec.pc = "status" /\ rec.op = req[r].op /\ rec.enq = req[r].enq
      BY <1>0, <2>2 DEF Request
    <3>2. req' = [req EXCEPT ![r] = rec]
      BY <1>3, <2>2 DEF Return
    <3> HIDE DEF rec
    <3> QED BY <1>0, <1>2, <3>1, <3>2
  <2> QED BY <2>1, <2>2
<1>4. CASE PushEvent(r)
  <2>1. PICK res \in 0..MaxEvents : req' = [req EXCEPT ![r].pc = "save", ![r].result = res]
    BY <1>4 DEF PushEvent
  <2> DEFINE rec == [req[r] EXCEPT !.pc = "save", !.result = res]
  <2>2. rec.pc = "save" /\ rec.op = req[r].op /\ rec.enq = req[r].enq
    BY <1>0 DEF Request
  <2>3. req' = [req EXCEPT ![r] = rec]
    BY <1>0, <2>1
  <2> HIDE DEF rec
  <2> QED BY <1>0, <1>2, <2>2, <2>3
<1> QED BY <1>3, <1>4 DEF CancelDrop, PushNotConnected, SaveSync

\* What the three writes do to the rows.
LEMMA InsertEffect ==
  ASSUME TypeOK, NEW r \in Requests, CreateInsert(r), ~(Abort(r) /\ UNCHANGED dbVars)
  PROVE  \E a \in ApptIds :
           /\ ~KeyTaken(req[r].slot, 0)
           /\ ~Exists(a)
           /\ appt'[a].enq = req[r].enq /\ appt'[a].slot = req[r].slot
           /\ appt'[a].key = req[r].slot /\ appt'[a].status = "active"
           /\ \A b \in ApptIds \ {a} : appt'[b] = appt[b]
           /\ hist' = [hist EXCEPT ![a] = Append(@, Entry("created", 0, req[r].slot))]
           /\ req' = [req EXCEPT ![r] = [req[r] EXCEPT !.pc = "push", !.appt = a]]
           /\ Unlock(r)
<1>1. appt \in [ApptIds -> Row] /\ req \in [Requests -> Request]
  BY DEF TypeOK
<1>2. PICK a \in ApptIds :
        /\ ~KeyTaken(req[r].slot, 0)
        /\ IsNextId(a)
        /\ appt' = [appt EXCEPT ![a] = Booked(req[r].enq, req[r].slot)]
        /\ hist' = [hist EXCEPT ![a] = Append(@, Entry("created", 0, req[r].slot))]
        /\ req' = [req EXCEPT ![r].pc = "push", ![r].appt = a]
        /\ Unlock(r)
  BY DEF CreateInsert
<1>3. req' = [req EXCEPT ![r] = [req[r] EXCEPT !.pc = "push", !.appt = a]]
  BY <1>1, <1>2
<1>4. /\ appt'[a].enq = req[r].enq /\ appt'[a].slot = req[r].slot
      /\ appt'[a].key = req[r].slot /\ appt'[a].status = "active"
      /\ \A b \in ApptIds \ {a} : appt'[b] = appt[b]
  BY <1>1, <1>2 DEF Booked
<1> QED BY <1>2, <1>3, <1>4 DEF IsNextId

\* What an edit writes, in the terms the invariants use.
LEMMA EditEffect ==
  ASSUME TypeOK, NEW r \in Requests, EditWrite(r), ~(Abort(r) /\ UNCHANGED dbVars)
  PROVE  /\ req[r].op = "edit" /\ req[r].pc = "write" /\ req[r].appt \in ApptIds
         /\ ~KeyTaken(req[r].slot, req[r].appt)
         /\ appt'[req[r].appt].enq = appt[req[r].appt].enq
         /\ appt'[req[r].appt].slot = req[r].slot
         /\ appt'[req[r].appt].key = req[r].slot
         /\ appt'[req[r].appt].status = appt[req[r].appt].status
         /\ \A b \in ApptIds \ {req[r].appt} : appt'[b] = appt[b]
         /\ hist' = [hist EXCEPT ![req[r].appt] = Append(@, Entry("edited", req[r].from, req[r].slot))]
         /\ Goto(r, "push")
         /\ Unlock(r)
<1>1. appt \in [ApptIds -> Row] /\ req[r].op = "edit" /\ req[r].pc = "write" /\ req[r].appt \in ApptIds
  BY DEF TypeOK, EditWrite, At, OnBooking
<1>2. /\ ~KeyTaken(req[r].slot, req[r].appt)
      /\ appt' = [appt EXCEPT ![req[r].appt] = Moved(@, req[r].slot)]
      /\ hist' = [hist EXCEPT ![req[r].appt] = Append(@, Entry("edited", req[r].from, req[r].slot))]
      /\ Goto(r, "push")
      /\ Unlock(r)
  BY DEF EditWrite
<1>3. appt' = [appt EXCEPT ![req[r].appt] = [appt[req[r].appt] EXCEPT !.slot = req[r].slot,
                                                                      !.key = req[r].slot]]
  BY <1>1, <1>2 DEF Moved
<1>4. appt[req[r].appt] \in Row
  BY <1>1
<1>5. /\ appt'[req[r].appt].enq = appt[req[r].appt].enq
      /\ appt'[req[r].appt].slot = req[r].slot
      /\ appt'[req[r].appt].key = req[r].slot
      /\ appt'[req[r].appt].status = appt[req[r].appt].status
      /\ \A b \in ApptIds \ {req[r].appt} : appt'[b] = appt[b]
  BY <1>1, <1>3, <1>4 DEF Row
<1> QED BY <1>1, <1>2, <1>5

\* What a cancel writes, in the same terms.
LEMMA CancelEffect ==
  ASSUME TypeOK, NEW r \in Requests, CancelWrite(r), ~(Abort(r) /\ UNCHANGED dbVars)
  PROVE  /\ req[r].op = "cancel" /\ req[r].pc = "cancel" /\ req[r].appt \in ApptIds
         /\ Active(req[r].appt) /\ Free(appt[req[r].appt].enq)
         /\ appt'[req[r].appt].enq = appt[req[r].appt].enq
         /\ appt'[req[r].appt].slot = appt[req[r].appt].slot
         /\ appt'[req[r].appt].key = 0
         /\ appt'[req[r].appt].status = "cancelled"
         /\ \A b \in ApptIds \ {req[r].appt} : appt'[b] = appt[b]
         /\ hist' = [hist EXCEPT ![req[r].appt] =
                       Append(@, Entry("cancelled", appt[req[r].appt].slot, 0))]
         /\ req' = [req EXCEPT ![r] = [req[r] EXCEPT !.pc = "drop",
                      !.event = appt[req[r].appt].event, !.slot = appt[req[r].appt].slot]]
         /\ UNCHANGED lock
<1>1. /\ appt \in [ApptIds -> Row] /\ req \in [Requests -> Request]
      /\ req[r].op = "cancel" /\ req[r].pc = "cancel" /\ req[r].appt \in ApptIds
  BY DEF TypeOK, CancelWrite, At, OnBooking
<1>2. /\ Active(req[r].appt) /\ Free(appt[req[r].appt].enq)
      /\ appt' = [appt EXCEPT ![req[r].appt] = Cancelled(@)]
      /\ hist' = [hist EXCEPT ![req[r].appt] = Append(@, Entry("cancelled", appt[req[r].appt].slot, 0))]
      /\ req' = [req EXCEPT ![r].pc = "drop", ![r].event = appt[req[r].appt].event,
                            ![r].slot = appt[req[r].appt].slot]
      /\ UNCHANGED lock
  BY DEF CancelWrite
<1>3. appt' = [appt EXCEPT ![req[r].appt] = [appt[req[r].appt] EXCEPT !.status = "cancelled", !.key = 0]]
  BY <1>1, <1>2 DEF Cancelled
<1>4. req' = [req EXCEPT ![r] = [req[r] EXCEPT !.pc = "drop",
                !.event = appt[req[r].appt].event, !.slot = appt[req[r].appt].slot]]
  BY <1>1, <1>2
<1>5. /\ appt'[req[r].appt].enq = appt[req[r].appt].enq
      /\ appt'[req[r].appt].slot = appt[req[r].appt].slot
      /\ appt'[req[r].appt].key = 0
      /\ appt'[req[r].appt].status = "cancelled"
      /\ \A b \in ApptIds \ {req[r].appt} : appt'[b] = appt[b]
  BY <1>1, <1>3 DEF Row
<1> QED BY <1>1, <1>2, <1>4, <1>5

\* The insert, the edit and the cancel keep the lock discipline: no other
\* transaction has the row they write.
LEMMA WritesLocks ==
  ASSUME LockInv, NEW r \in Requests, CreateInsert(r) \/ EditWrite(r) \/ CancelWrite(r)
  PROVE  LocksMatchTx' /\ ReadUnderLock' /\ OwnEnquiry'
<1>0. TypeOK /\ req[r] \in Request /\ req \in [Requests -> Request]
  BY DEF LockInv, TypeOK
<1>1. CASE Abort(r) /\ UNCHANGED dbVars
  <2>1. SameBooking
    BY <1>1 DEF SameBooking, dbVars
  <2> QED BY <1>1, <2>1, AbortLocks
<1>2. ASSUME NEW rec, req' = [req EXCEPT ![r] = rec], rec.pc \in {"push", "drop"}, rec.op = req[r].op,
             rec.enq = req[r].enq, Unlock(r) \/ (UNCHANGED lock /\ ~Holds(req[r])),
             NEW a \in ApptIds,
             \A b \in ApptIds \ {a} : appt'[b] = appt[b],
             Exists(a) => /\ appt'[a].enq = appt[a].enq
                          /\ lock[appt[a].enq] \in {r, NoRequest},
             Exists(a)' => appt'[a].enq \in Enquiries
      PROVE  LocksMatchTx' /\ ReadUnderLock' /\ OwnEnquiry'
  <2>1. ~Holds(rec)
    BY <1>2 DEF Holds
  <2>2. LocksMatchTx'
    BY <1>2, <2>1, LockStep
  <2>3. ReadUnderLock'
    <3> SUFFICES ASSUME NEW q \in Requests,
                        req'[q].op = "edit", req'[q].pc \in {"busy", "check", "write"}
                 PROVE  /\ appt'[req'[q].appt].status = "active"
                        /\ appt'[req'[q].appt].enq = req'[q].enq
                        /\ appt'[req'[q].appt].slot = req'[q].from
      BY DEF ReadUnderLock, Active
    <3>1. q # r /\ req'[q] = req[q]
      BY <1>0, <1>2
    <3>2. req[q].appt \in ApptIds
      BY <1>0, <3>1 DEF TypeOK, OnBooking
    <3>3. /\ Active(req[q].appt) /\ appt[req[q].appt].enq = req[q].enq
          /\ appt[req[q].appt].slot = req[q].from
      BY <3>1 DEF LockInv, ReadUnderLock
    <3>4. req[q].appt # a
      <4>1. lock[appt[req[q].appt].enq] = q
        BY <3>1, <3>2, <3>3, OneTxPerRow DEF Active, Exists
      <4> QED BY <1>2, <3>1, <3>3, <4>1, RequestAssumption DEF Active, Exists
    <3> QED BY <1>2, <3>1, <3>2, <3>3, <3>4 DEF Active
  <2>4. OwnEnquiry'
    BY <1>0, <1>2 DEF LockInv, OwnEnquiry, Exists
  <2> QED BY <2>2, <2>3, <2>4
<1>3. CASE CreateInsert(r) /\ ~(Abort(r) /\ UNCHANGED dbVars)
  <2>1. PICK a \in ApptIds :
          /\ ~Exists(a)
          /\ appt'[a].enq = req[r].enq
          /\ \A b \in ApptIds \ {a} : appt'[b] = appt[b]
          /\ req' = [req EXCEPT ![r] = [req[r] EXCEPT !.pc = "push", !.appt = a]]
          /\ Unlock(r)
    BY <1>0, <1>3, InsertEffect
  <2>2. req[r].enq \in Enquiries
    BY <1>3 DEF LockInv, OwnEnquiry, CreateInsert, At
  <2> DEFINE rec == [req[r] EXCEPT !.pc = "push", !.appt = a]
  <2>3. rec.pc = "push" /\ rec.op = req[r].op /\ rec.enq = req[r].enq
    BY <1>0 DEF Request
  <2>4. req' = [req EXCEPT ![r] = rec]
    BY <2>1
  <2> HIDE DEF rec
  <2> QED BY <1>2, <2>1, <2>2, <2>3, <2>4
<1>4. CASE EditWrite(r) /\ ~(Abort(r) /\ UNCHANGED dbVars)
  <2> DEFINE a   == req[r].appt
             rec == [req[r] EXCEPT !.pc = "push"]
  <2>1. /\ req[r].op = "edit" /\ req[r].pc = "write" /\ a \in ApptIds
        /\ appt'[a].enq = appt[a].enq
        /\ \A b \in ApptIds \ {a} : appt'[b] = appt[b]
        /\ Goto(r, "push") /\ Unlock(r)
    BY <1>0, <1>4, EditEffect
  <2>2. Active(a)
    BY <2>1 DEF LockInv, ReadUnderLock
  <2>3. lock[appt[a].enq] = r /\ appt[a].enq \in Enquiries
    BY <2>1, <2>2, OneTxPerRow DEF LockInv, OwnEnquiry, Active, Exists
  <2>4. rec.pc = "push" /\ rec.op = req[r].op /\ rec.enq = req[r].enq
    BY <1>0 DEF Request
  <2>5. req' = [req EXCEPT ![r] = rec]
    BY <1>0, <2>1 DEF Goto
  <2> HIDE DEF rec
  <2> QED BY <1>2, <2>1, <2>3, <2>4, <2>5
<1>5. CASE CancelWrite(r) /\ ~(Abort(r) /\ UNCHANGED dbVars)
  <2> DEFINE a   == req[r].appt
             rec == [req[r] EXCEPT !.pc = "drop", !.event = appt[a].event, !.slot = appt[a].slot]
  <2>1. /\ req[r].op = "cancel" /\ a \in ApptIds /\ Active(a) /\ Free(appt[a].enq)
        /\ appt'[a].enq = appt[a].enq
        /\ \A b \in ApptIds \ {a} : appt'[b] = appt[b]
        /\ req' = [req EXCEPT ![r] = rec]
        /\ UNCHANGED lock
    BY <1>0, <1>5, CancelEffect
  <2>2. appt[a].enq \in Enquiries
    BY <2>1 DEF LockInv, OwnEnquiry, Active, Exists
  <2>3. rec.pc = "drop" /\ rec.op = req[r].op /\ rec.enq = req[r].enq
    BY <1>0 DEF Request
  <2>4. ~Holds(req[r])
    BY <2>1 DEF Holds
  <2>5. Unlock(r) \/ (UNCHANGED lock /\ ~Holds(req[r]))
    BY <2>1, <2>4
  <2>6. lock[appt[a].enq] \in {r, NoRequest}
    BY <2>1 DEF Free
  <2>7. appt'[a].enq \in Enquiries
    BY <2>1, <2>2
  <2>8. /\ req' = [req EXCEPT ![r] = rec] /\ a \in ApptIds
        /\ appt'[a].enq = appt[a].enq
        /\ \A b \in ApptIds \ {a} : appt'[b] = appt[b]
    BY <2>1
  <2> HIDE DEF rec, a
  <2> QED BY <1>2, <2>3, <2>5, <2>6, <2>7, <2>8
<1> QED BY <1>1, <1>3, <1>4, <1>5

\* Every step but the three writes leaves the bookings alone.
LEMMA OtherStepsKeep ==
  ASSUME TypeOK, [Next]_vars,
         \A r \in Requests : ~(CreateInsert(r) \/ EditWrite(r) \/ CancelWrite(r))
  PROVE  SameBooking
<1>1. ASSUME UNCHANGED appt PROVE SameBooking
  BY <1>1 DEF SameBooking
<1>2. ASSUME NEW r \in Requests, RequestStarts(r) PROVE UNCHANGED appt
  BY <1>2 DEF RequestStarts, StartCreate, StartEdit, StartCancel, StartRetry, dbVars
<1>3. ASSUME NEW r \in Requests, SaveSync(r) PROVE SameBooking
  <2>1. req[r].appt \in ApptIds
    BY <1>3 DEF SaveSync, TypeOK, OnBooking
  <2> QED BY <1>3, <2>1, WriteSyncKeeps DEF SaveSync
<1>4. ASSUME NEW r \in Requests, RequestStep(r), ~SaveSync(r) PROVE UNCHANGED appt
  BY <1>4 DEF RequestStep, CreateFreebusy, CreateBegin, CreateCheck, EditRead, EditFreebusy,
              EditCheck, CancelDrop, PushEvent, PushNotConnected, LockWaitFails, dbVars
<1>5. ASSUME WorkerSave PROVE SameBooking
  <2>1. PICK item \in worker.queue :
          WriteSync(item.appt, worker.result, IF worker.result # 0 THEN "SYNCED" ELSE "FAILED")
    BY <1>5 DEF WorkerSave
  <2>2. item.appt \in ApptIds
    BY DEF TypeOK, Ticks
  <2> QED BY <2>1, <2>2, WriteSyncKeeps
<1>6. ASSUME \/ \E r \in Requests : RequestFails(r)
             \/ WorkerTick \/ WorkerPush \/ WorkerBreak \/ WorkerFails
             \/ Disconnect \/ Connect \/ ClockTick \/ ServerIdle \/ UNCHANGED vars
      PROVE  UNCHANGED appt
  BY <1>6 DEF RequestFails, WorkerTick, WorkerPush, WorkerBreak, WorkerFails, Disconnect,
              Connect, ClockTick, ServerIdle, vars, dbVars
<1> QED BY <1>1, <1>2, <1>3, <1>4, <1>5, <1>6 DEF Next, WorkerStep

\* The lock discipline holds at the start and is kept by every step.
LEMMA LockInvInductive ==
  /\ Init => LockInv
  /\ LockInv /\ [Next]_vars => LockInv'
<1>1. Init => LockInv
  <2> SUFFICES ASSUME Init PROVE LockInv
    OBVIOUS
  <2>1. TypeOK /\ \A r \in Requests : req[r] = Idle
    BY InitType DEF Init
  <2>2. \A r \in Requests : req[r].op = "none"
    BY <2>1 DEF Idle
  <2>3. \A a \in ApptIds : ~Exists(a)
    BY DEF Init, NoRow, Exists
  <2> QED BY <2>1, <2>2, <2>3, RequestAssumption
       DEF Init, LockInv, LocksMatchTx, InTx, ReadUnderLock, OwnEnquiry
<1>2. ASSUME LockInv, [Next]_vars PROVE LockInv'
  <2>1. TypeOK /\ TypeOK'
    BY <1>2, NextType DEF LockInv
  <2>2. ASSUME NEW r \in Requests, RequestStarts(r) \/ RequestStep(r) \/ RequestFails(r)
        PROVE  LocksMatchTx' /\ ReadUnderLock' /\ OwnEnquiry'
    <3>1. ASSUME RequestFails(r) \/ LockWaitFails(r)
          PROVE  LocksMatchTx' /\ ReadUnderLock' /\ OwnEnquiry'
      <4>1. SameBooking /\ Abort(r)
        BY <3>1 DEF RequestFails, LockWaitFails, SameBooking, dbVars
      <4> QED BY <1>2, <4>1, AbortLocks
    <3> QED BY <1>2, <2>2, <3>1, StartsLocks, CreateLocks, EditLocks, PushLocks, WritesLocks
         DEF RequestStep
  <2>3. ASSUME \/ WorkerStep \/ WorkerFails \/ Disconnect \/ Connect \/ ClockTick
               \/ ServerIdle \/ UNCHANGED vars
        PROVE  LocksMatchTx' /\ ReadUnderLock' /\ OwnEnquiry'
    <3>1. UNCHANGED <<lock, req>>
      BY <2>3 DEF WorkerStep, WorkerTick, WorkerPush, WorkerBreak, WorkerSave, WorkerFails,
                  Disconnect, Connect, ClockTick, ServerIdle, vars
    <3>2. SameBooking
      <4>1. CASE WorkerSave
        <5>1. PICK item \in worker.queue :
                WriteSync(item.appt, worker.result,
                          IF worker.result # 0 THEN "SYNCED" ELSE "FAILED")
          BY <4>1 DEF WorkerSave
        <5>2. item.appt \in ApptIds
          BY <2>1 DEF TypeOK, Ticks
        <5> QED BY <2>1, <5>1, <5>2, WriteSyncKeeps
      <4>2. CASE ~WorkerSave
        BY <2>3, <4>2 DEF WorkerStep, WorkerTick, WorkerPush, WorkerBreak, WorkerFails,
             Disconnect, Connect, ClockTick, ServerIdle, vars, dbVars, SameBooking
      <4> QED BY <4>1, <4>2
    <3>3. LocksMatchTx'
      BY <1>2, <3>1 DEF LockInv, LocksMatchTx, InTx
    <3>4. \A r \in Requests : req[r].op = "edit" => req[r].appt \in ApptIds
      BY <2>1 DEF TypeOK, OnBooking
    <3>5. ReadUnderLock'
      BY <1>2, <3>1, <3>2, <3>4 DEF LockInv, ReadUnderLock, SameBooking, Active
    <3>6. OwnEnquiry'
      BY <1>2, <3>1, <3>2 DEF LockInv, OwnEnquiry, SameBooking, Exists
    <3> QED BY <3>3, <3>5, <3>6
  <2> QED BY <1>2, <2>1, <2>2, <2>3 DEF Next, LockInv
<1> QED BY <1>1, <1>2

\* A request holds the lock of an enquiry exactly while it is between the first
\* locking read and the commit of a transaction on it: no write without the
\* lock, no lock left behind.
THEOREM LockDiscipline == Spec => []LocksMatchTx
<1>1. LockInv => LocksMatchTx
  BY DEF LockInv
<1> QED BY <1>1, LockInvInductive, PTL DEF Spec

\* What an edit has read of its booking still holds when it writes, because the
\* joined SELECT ... FOR UPDATE keeps the enquiry of the row locked in between.
THEOREM EditReadsStayTrue == Spec => []ReadUnderLock
<1>1. LockInv => ReadUnderLock
  BY DEF LockInv
<1> QED BY <1>1, LockInvInductive, PTL DEF Spec

----------------------------------------
(* Slots.  While a row is active, its entry in the UNIQUE index is a copy of *)
(* its bucket; the index then keeps active rows apart.  The two invariants   *)
(* are inductive only together, and only with the lock discipline: an edit   *)
(* of a row cancelled meanwhile would give the row its index entry back.     *)

SlotInv == LockInv /\ KeyIffActive /\ SlotExclusive

\* A step that leaves the bookings alone leaves their slots exclusive.
LEMMA SameBookingSlots ==
  ASSUME SlotInv, SameBooking
  PROVE  KeyIffActive' /\ SlotExclusive'
  BY DEF SlotInv, SameBooking, KeyIffActive, SlotExclusive, Active

\* The three writes keep the index and the rows together: a bucket is taken
\* only when no index entry has it, and given back with the booking.
LEMMA WritesSlots ==
  ASSUME SlotInv, NEW r \in Requests, CreateInsert(r) \/ EditWrite(r) \/ CancelWrite(r)
  PROVE  KeyIffActive' /\ SlotExclusive'
<1> DEFINE s == req[r].slot
           a == req[r].appt
<1>0. TypeOK /\ LockInv
  BY DEF SlotInv, LockInv
<1>1. CASE UNCHANGED dbVars
  BY <1>1, SameBookingSlots DEF SameBooking, dbVars
<1>2. CASE CreateInsert(r) /\ ~(Abort(r) /\ UNCHANGED dbVars)
  <2>1. PICK b \in ApptIds :
          /\ ~KeyTaken(s, 0)
          /\ appt'[b].slot = s /\ appt'[b].key = s /\ appt'[b].status = "active"
          /\ \A c \in ApptIds \ {b} : appt'[c] = appt[c]
    BY <1>0, <1>2, InsertEffect
  <2>2. \A c \in ApptIds : appt[c].key # s
    BY <2>1 DEF KeyTaken
  <2> QED BY <2>1, <2>2 DEF SlotInv, KeyIffActive, SlotExclusive, Active
<1>3. CASE EditWrite(r) /\ ~(Abort(r) /\ UNCHANGED dbVars)
  <2>1. /\ req[r].op = "edit" /\ req[r].pc = "write" /\ a \in ApptIds
        /\ ~KeyTaken(s, a)
        /\ appt'[a].slot = s /\ appt'[a].key = s /\ appt'[a].status = appt[a].status
        /\ \A c \in ApptIds \ {a} : appt'[c] = appt[c]
    BY <1>0, <1>3, EditEffect
  <2>2. Active(a)
    BY <1>0, <2>1 DEF LockInv, ReadUnderLock
  <2>3. \A c \in ApptIds \ {a} : appt[c].key # s
    BY <2>1 DEF KeyTaken
  <2> QED BY <2>1, <2>2, <2>3 DEF SlotInv, KeyIffActive, SlotExclusive, Active
<1>4. CASE CancelWrite(r) /\ ~(Abort(r) /\ UNCHANGED dbVars)
  <2>1. /\ a \in ApptIds /\ appt'[a].slot = appt[a].slot
        /\ appt'[a].key = 0 /\ appt'[a].status = "cancelled"
        /\ \A c \in ApptIds \ {a} : appt'[c] = appt[c]
    BY <1>0, <1>4, CancelEffect
  <2> QED BY <2>1 DEF SlotInv, KeyIffActive, SlotExclusive, Active
<1> QED BY <1>1, <1>2, <1>3, <1>4

\* The invariant of the slots holds at the start and in every step.
LEMMA SlotInvInductive ==
  /\ Init => SlotInv
  /\ SlotInv /\ [Next]_vars => SlotInv'
<1>1. Init => SlotInv
  <2> SUFFICES ASSUME Init PROVE SlotInv
    OBVIOUS
  <2>1. \A a \in ApptIds : ~Active(a) /\ appt[a].key = 0
    BY DEF Init, NoRow, Active
  <2> QED BY <2>1, LockInvInductive DEF SlotInv, KeyIffActive, SlotExclusive
<1>2. ASSUME SlotInv, [Next]_vars PROVE SlotInv'
  <2>1. LockInv' /\ TypeOK
    BY <1>2, LockInvInductive DEF SlotInv, LockInv
  <2> QED BY <1>2, <2>1, WritesSlots, OtherStepsKeep, SameBookingSlots DEF SlotInv
<1> QED BY <1>1, <1>2

\* Two active appointments never share a bucket, for every number of requests
\* and whatever their interleaving, failures and lost calls.
THEOREM SlotExclusivity == Spec => []SlotExclusive
<1>1. SlotInv => SlotExclusive
  BY DEF SlotInv
<1> QED BY <1>1, SlotInvInductive, PTL DEF Spec

\* The index entry of a row is its bucket while it is active, and is given back
\* with the booking.
THEOREM IndexFollowsRow == Spec => []KeyIffActive
<1>1. SlotInv => KeyIffActive
  BY DEF SlotInv
<1> QED BY <1>1, SlotInvInductive, PTL DEF Spec

----------------------------------------
(* Cancelled bookings                                                       *)

\* Only the three writes add to a timeline.
LEMMA OtherStepsHistory ==
  ASSUME [Next]_vars,
         \A r \in Requests : ~(CreateInsert(r) \/ EditWrite(r) \/ CancelWrite(r))
  PROVE  UNCHANGED hist
  BY ZenonT(60) DEF Next, RequestStarts, StartCreate, StartEdit, StartCancel, StartRetry, RequestStep,
         CreateFreebusy, CreateBegin, CreateCheck, EditRead, EditFreebusy, EditCheck, CancelDrop,
         PushEvent, PushNotConnected, SaveSync, LockWaitFails, RequestFails, WorkerStep, WorkerTick,
         WorkerPush, WorkerBreak, WorkerSave, WorkerFails, Disconnect, Connect, ClockTick,
         ServerIdle, vars, dbVars

\* A cancelled booking keeps its status, its bucket and its timeline.
LEMMA CancelledStep ==
  ASSUME LockInv, [Next]_vars, NEW a \in ApptIds, appt[a].status = "cancelled"
  PROVE  /\ appt'[a].status = "cancelled"
         /\ appt'[a].slot = appt[a].slot
         /\ hist'[a] = hist[a]
<1>0. TypeOK /\ hist \in [ApptIds -> Seq(Entries)]
  BY DEF LockInv, TypeOK
<1>1. CASE \A r \in Requests : ~(CreateInsert(r) \/ EditWrite(r) \/ CancelWrite(r))
  BY <1>0, <1>1, OtherStepsKeep, OtherStepsHistory DEF SameBooking
<1>2. CASE UNCHANGED dbVars
  BY <1>2 DEF dbVars
<1>3. ASSUME NEW r \in Requests, CreateInsert(r), ~(Abort(r) /\ UNCHANGED dbVars)
      PROVE  appt'[a] = appt[a] /\ hist'[a] = hist[a]
  <2>1. PICK b \in ApptIds :
          /\ ~Exists(b)
          /\ \A c \in ApptIds \ {b} : appt'[c] = appt[c]
          /\ hist' = [hist EXCEPT ![b] = Append(@, Entry("created", 0, req[r].slot))]
    BY <1>0, <1>3, InsertEffect
  <2>2. a # b
    BY <2>1 DEF Exists
  <2> QED BY <1>0, <2>1, <2>2
<1>4. ASSUME NEW r \in Requests, EditWrite(r) \/ CancelWrite(r), ~(Abort(r) /\ UNCHANGED dbVars)
      PROVE  appt'[a] = appt[a] /\ hist'[a] = hist[a]
  <2> DEFINE b == req[r].appt
  <2>1. /\ b \in ApptIds /\ Active(b)
        /\ \A c \in ApptIds \ {b} : appt'[c] = appt[c]
        /\ \E x : hist' = [hist EXCEPT ![b] = x]
    <3>1. CASE EditWrite(r)
      <4>1. req[r].op = "edit" /\ req[r].pc = "write" /\ b \in ApptIds
        BY <1>0, <1>4, <3>1, EditEffect
      <4>2. Active(b)
        BY <4>1 DEF LockInv, ReadUnderLock
      <4> QED BY <1>0, <1>4, <3>1, <4>1, <4>2, EditEffect
    <3>2. CASE CancelWrite(r)
      BY <1>0, <1>4, <3>2, CancelEffect
    <3> QED BY <1>4, <3>1, <3>2
  <2>2. a # b
    BY <2>1 DEF Active
  <2> QED BY <1>0, <2>1, <2>2
<1> QED BY <1>1, <1>2, <1>3, <1>4

\* A booking that was cancelled is never edited, revived or cancelled again,
\* even by a request that read it while it was still active.
THEOREM CancelIsFinal == Spec => CancelledIsFinal
<1>1. LockInv /\ [Next]_vars =>
        [\A a \in ApptIds : appt[a].status = "cancelled" =>
            /\ appt'[a].status = "cancelled"
            /\ appt'[a].slot = appt[a].slot
            /\ hist'[a] = hist[a]]_vars
  BY CancelledStep
<1> QED BY <1>1, LockInvInductive, PTL DEF Spec, CancelledIsFinal

----------------------------------------
(* Timelines.  A timeline is told of a status and a bucket, whatever row    *)
(* they belong to: three lemmas say what each kind of entry adds.           *)

Tells(h, status, slot) ==
  IF status = "none" THEN Len(h) = 0
  ELSE /\ Len(h) > 0
       /\ \A i \in 1..Len(h) : /\ h[i].action = "created" <=> i = 1
                               /\ i > 1 => h[i].from = h[i-1].to
                               /\ h[i].action = "cancelled" => i = Len(h) /\ status # "active"
       /\ IF status = "active" THEN h[Len(h)].to = slot
          ELSE h[Len(h)].action = "cancelled" /\ h[Len(h)].from = slot

\* The invariant is this, row by row.
LEMMA ReplayByRow ==
  HistoryReplaysRow <=> \A a \in ApptIds : Tells(hist[a], appt[a].status, appt[a].slot)
  BY DEF HistoryReplaysRow, Tells, Exists, Active

\* What a sequence looks like after one more entry.
LEMMA AppendEntry ==
  ASSUME NEW h \in Seq(Entries), NEW x \in Entries
  PROVE  /\ Append(h, x) \in Seq(Entries)
         /\ Len(Append(h, x)) = Len(h) + 1
         /\ Append(h, x)[Len(h) + 1] = x
         /\ \A i \in 1..Len(h) : Append(h, x)[i] = h[i]
  OBVIOUS

\* A first 'created' entry opens the timeline of a row.
LEMMA TellsCreated ==
  ASSUME NEW h \in Seq(Entries), NEW s \in 0..MaxSlot, NEW t, Tells(h, "none", t)
  PROVE  Tells(Append(h, Entry("created", 0, s)), "active", s)
<1> DEFINE x == Entry("created", 0, s)
<1>1. x \in Entries /\ x.action = "created" /\ x.to = s
  BY DEF Entry, Entries
<1>2. Len(h) = 0
  BY DEF Tells
<1> HIDE DEF x
<1> DEFINE k == Append(h, x)
<1>3. Len(k) = 1 /\ k[1] = x
  BY <1>1, <1>2, AppendEntry
<1> HIDE DEF k
<1>4. Tells(k, "active", s)
  BY <1>1, <1>3 DEF Tells
<1> QED BY <1>4 DEF k, x

\* An 'edited' entry that starts in the bucket of the row leads to its new one.
LEMMA TellsEdited ==
  ASSUME NEW h \in Seq(Entries), NEW s \in 0..MaxSlot, NEW t \in 0..MaxSlot, Tells(h, "active", s)
  PROVE  Tells(Append(h, Entry("edited", s, t)), "active", t)
<1> DEFINE x == Entry("edited", s, t)
<1>1. x \in Entries /\ x.action = "edited" /\ x.from = s /\ x.to = t
  BY DEF Entry, Entries
<1>2. Len(h) \in Nat /\ Len(h) > 0 /\ h[Len(h)].to = s
  BY DEF Tells
<1> HIDE DEF x
<1>3. \A i \in 1..Len(h) : /\ h[i].action = "created" <=> i = 1
                           /\ i > 1 => h[i].from = h[i-1].to
                           /\ h[i].action # "cancelled"
  BY DEF Tells
<1> DEFINE k == Append(h, x)
<1>4. /\ Len(k) = Len(h) + 1 /\ k[Len(h) + 1] = x
      /\ \A i \in 1..Len(h) : k[i] = h[i]
  BY <1>1, AppendEntry
<1> HIDE DEF k
<1>5. \A i \in 1..Len(k) : /\ k[i].action = "created" <=> i = 1
                           /\ i > 1 => k[i].from = k[i-1].to
                           /\ k[i].action # "cancelled"
  <2> SUFFICES ASSUME NEW i \in 1..Len(k)
               PROVE  /\ k[i].action = "created" <=> i = 1
                      /\ i > 1 => k[i].from = k[i-1].to
                      /\ k[i].action # "cancelled"
    OBVIOUS
  <2>1. CASE i \in 1..Len(h)
    <3>1. k[i] = h[i] /\ (i > 1 => k[i-1] = h[i-1])
      BY <1>2, <1>4, <2>1
    <3> QED BY <1>3, <2>1, <3>1
  <2>2. CASE i = Len(h) + 1
    BY <1>1, <1>2, <1>4, <2>2
  <2> QED BY <1>2, <1>4, <2>1, <2>2
<1>6. Tells(k, "active", t)
  BY <1>1, <1>2, <1>4, <1>5 DEF Tells
<1> QED BY <1>6 DEF k, x

\* A 'cancelled' entry names the bucket the row had, and closes the timeline.
LEMMA TellsCancelled ==
  ASSUME NEW h \in Seq(Entries), NEW s \in 0..MaxSlot, Tells(h, "active", s)
  PROVE  Tells(Append(h, Entry("cancelled", s, 0)), "cancelled", s)
<1> DEFINE x == Entry("cancelled", s, 0)
<1>1. x \in Entries /\ x.action = "cancelled" /\ x.from = s
  BY DEF Entry, Entries
<1>2. Len(h) \in Nat /\ Len(h) > 0 /\ h[Len(h)].to = s
  BY DEF Tells
<1> HIDE DEF x
<1>3. \A i \in 1..Len(h) : /\ h[i].action = "created" <=> i = 1
                           /\ i > 1 => h[i].from = h[i-1].to
                           /\ h[i].action # "cancelled"
  BY DEF Tells
<1> DEFINE k == Append(h, x)
<1>4. /\ Len(k) = Len(h) + 1 /\ k[Len(h) + 1] = x
      /\ \A i \in 1..Len(h) : k[i] = h[i]
  BY <1>1, AppendEntry
<1> HIDE DEF k
<1>5. \A i \in 1..Len(k) : /\ k[i].action = "created" <=> i = 1
                           /\ i > 1 => k[i].from = k[i-1].to
                           /\ k[i].action = "cancelled" => i = Len(k)
  <2> SUFFICES ASSUME NEW i \in 1..Len(k)
               PROVE  /\ k[i].action = "created" <=> i = 1
                      /\ i > 1 => k[i].from = k[i-1].to
                      /\ k[i].action = "cancelled" => i = Len(k)
    OBVIOUS
  <2>1. CASE i \in 1..Len(h)
    <3>1. k[i] = h[i] /\ (i > 1 => k[i-1] = h[i-1])
      BY <1>2, <1>4, <2>1
    <3> QED BY <1>3, <2>1, <3>1
  <2>2. CASE i = Len(h) + 1
    BY <1>1, <1>2, <1>4, <2>2
  <2> QED BY <1>2, <1>4, <2>1, <2>2
<1>6. Tells(k, "cancelled", s)
  BY <1>1, <1>2, <1>4, <1>5 DEF Tells
<1> QED BY <1>6 DEF k, x

----------------------------------------
(* The timeline of every row, as the requests write it.                     *)

HistInv == SlotInv /\ HistoryReplaysRow

\* A step that writes no booking and no timeline keeps them in agreement.
LEMMA SameBookingTells ==
  ASSUME HistoryReplaysRow, SameBooking, UNCHANGED hist
  PROVE  HistoryReplaysRow'
  BY DEF HistoryReplaysRow, SameBooking, Exists, Active

\* The row a request writes is told of, the others are left alone.
LEMMA RowTold ==
  ASSUME HistoryReplaysRow, NEW a \in ApptIds,
         \A b \in ApptIds \ {a} : appt'[b] = appt[b] /\ hist'[b] = hist[b],
         Tells(hist'[a], appt'[a].status, appt'[a].slot)
  PROVE  HistoryReplaysRow'
<1>1. \A b \in ApptIds : Tells(hist[b], appt[b].status, appt[b].slot)
  BY ReplayByRow
<1>2. \A b \in ApptIds : Tells(hist'[b], appt'[b].status, appt'[b].slot)
  BY <1>1
<1>3. HistoryReplaysRow' <=> \A b \in ApptIds : Tells(hist'[b], appt'[b].status, appt'[b].slot)
  BY DEF HistoryReplaysRow, Tells, Exists, Active
<1> QED BY <1>2, <1>3

\* An insert opens a timeline, an edit goes on where the row was, a cancel
\* closes it: the edit is where the lock matters, for the bucket it calls its
\* old one was read before.
LEMMA WritesTell ==
  ASSUME HistInv, NEW r \in Requests, CreateInsert(r) \/ EditWrite(r) \/ CancelWrite(r)
  PROVE  HistoryReplaysRow'
<1>0. /\ TypeOK /\ LockInv /\ HistoryReplaysRow
      /\ hist \in [ApptIds -> Seq(Entries)] /\ appt \in [ApptIds -> Row]
      /\ \A b \in ApptIds : Tells(hist[b], appt[b].status, appt[b].slot)
  BY ReplayByRow DEF HistInv, SlotInv, LockInv, TypeOK
<1>1. CASE UNCHANGED dbVars
  BY <1>0, <1>1, SameBookingTells DEF SameBooking, dbVars
<1>2. CASE CreateInsert(r) /\ ~(Abort(r) /\ UNCHANGED dbVars)
  <2>1. PICK a \in ApptIds :
          /\ ~Exists(a)
          /\ appt'[a].slot = req[r].slot /\ appt'[a].status = "active"
          /\ \A b \in ApptIds \ {a} : appt'[b] = appt[b]
          /\ hist' = [hist EXCEPT ![a] = Append(@, Entry("created", 0, req[r].slot))]
    BY <1>0, <1>2, InsertEffect
  <2>2. req[r].slot \in 0..MaxSlot
    BY <1>0 DEF TypeOK, Request
  <2>3. Tells(hist'[a], "active", req[r].slot)
    BY <1>0, <2>1, <2>2, TellsCreated DEF Exists
  <2> QED BY <1>0, <2>1, <2>3, RowTold
<1>3. CASE EditWrite(r) /\ ~(Abort(r) /\ UNCHANGED dbVars)
  <2> DEFINE a == req[r].appt
             s == req[r].slot
  <2>1. /\ req[r].op = "edit" /\ req[r].pc = "write" /\ a \in ApptIds
        /\ appt'[a].slot = s /\ appt'[a].status = appt[a].status
        /\ \A b \in ApptIds \ {a} : appt'[b] = appt[b]
        /\ hist' = [hist EXCEPT ![a] = Append(@, Entry("edited", req[r].from, s))]
    BY <1>0, <1>3, EditEffect
  <2>2. Active(a) /\ appt[a].slot = req[r].from
    BY <1>0, <2>1 DEF LockInv, ReadUnderLock
  <2>3. s \in 0..MaxSlot /\ req[r].from \in 0..MaxSlot
    BY <1>0 DEF TypeOK, Request
  <2>4. Tells(hist[a], "active", req[r].from) /\ hist[a] \in Seq(Entries)
    BY <1>0, <2>1, <2>2 DEF Active
  <2>5. Tells(hist'[a], "active", s)
    BY <1>0, <2>1, <2>3, <2>4, TellsEdited
  <2>6. /\ Tells(hist'[a], appt'[a].status, appt'[a].slot)
        /\ \A b \in ApptIds \ {a} : appt'[b] = appt[b] /\ hist'[b] = hist[b]
    BY <1>0, <2>1, <2>2, <2>5 DEF Active
  <2> HIDE DEF a, s
  <2> QED BY <1>0, <2>1, <2>6, RowTold
<1>4. CASE CancelWrite(r) /\ ~(Abort(r) /\ UNCHANGED dbVars)
  <2> DEFINE a == req[r].appt
             s == appt[a].slot
  <2>1. /\ a \in ApptIds /\ Active(a)
        /\ appt'[a].slot = s /\ appt'[a].status = "cancelled"
        /\ \A b \in ApptIds \ {a} : appt'[b] = appt[b]
        /\ hist' = [hist EXCEPT ![a] = Append(@, Entry("cancelled", s, 0))]
    BY <1>0, <1>4, CancelEffect
  <2>2. s \in 0..MaxSlot
    BY <1>0, <2>1 DEF Row
  <2>3. Tells(hist[a], "active", s) /\ hist[a] \in Seq(Entries)
    BY <1>0, <2>1 DEF Active
  <2>4. Tells(hist'[a], "cancelled", s)
    BY <1>0, <2>1, <2>2, <2>3, TellsCancelled
  <2>5. /\ Tells(hist'[a], appt'[a].status, appt'[a].slot)
        /\ \A b \in ApptIds \ {a} : appt'[b] = appt[b] /\ hist'[b] = hist[b]
    BY <1>0, <2>1, <2>4
  <2> HIDE DEF a, s
  <2> QED BY <1>0, <2>1, <2>5, RowTold
<1> QED BY <1>1, <1>2, <1>3, <1>4

\* The timelines agree with the rows at the start and after every step.
LEMMA HistInvInductive ==
  /\ Init => HistInv
  /\ HistInv /\ [Next]_vars => HistInv'
<1>1. Init => HistInv
  <2> SUFFICES ASSUME Init PROVE HistInv
    OBVIOUS
  <2>1. \A a \in ApptIds : ~Exists(a) /\ Len(hist[a]) = 0
    BY DEF Init, NoRow, Exists
  <2> QED BY <2>1, SlotInvInductive DEF HistInv, HistoryReplaysRow
<1>2. ASSUME HistInv, [Next]_vars PROVE HistInv'
  <2>1. SlotInv' /\ TypeOK /\ HistoryReplaysRow
    BY <1>2, SlotInvInductive DEF HistInv, SlotInv, LockInv
  <2> QED BY <1>2, <2>1, WritesTell, OtherStepsKeep, OtherStepsHistory, SameBookingTells DEF HistInv
<1> QED BY <1>1, <1>2

\* The timeline of a booking tells its whole life: it opens with 'created', its
\* entries join up, it closes with 'cancelled' exactly when the row is
\* cancelled, and it ends in the bucket the row has (the INSERT INTO
\* crm_appointment_history of every handler of appointmentSlots.js).
THEOREM TimelineIsTrue == Spec => []HistoryReplaysRow
<1>1. HistInv => HistoryReplaysRow
  BY DEF HistInv
<1> QED BY <1>1, HistInvInductive, PTL DEF Spec

----------------------------------------
(* Mails.  A notification is sent when the push of a booking is over, long   *)
(* after the commit it tells of, and the row may have changed since: what    *)
(* makes it true is that the timeline only grows.                            *)

\* The timeline has an entry of this kind about this bucket.
InTimeline(h, mode, s) == \E i \in 1..Len(h) : /\ h[i].action = mode
                                                /\ s = IF mode = "cancelled" THEN h[i].from
                                                                             ELSE h[i].to

\* What a request whose booking is committed is about to tell the admin.
RequestsToldOf ==
  \A r \in Requests :
    /\ req[r].pc \in {"push", "save"} /\ req[r].op = "create" =>
         InTimeline(hist[req[r].appt], "created", req[r].slot)
    /\ req[r].pc \in {"push", "save"} /\ req[r].op = "edit" =>
         InTimeline(hist[req[r].appt], "edited", req[r].slot)
    /\ req[r].pc = "drop" => InTimeline(hist[req[r].appt], "cancelled", req[r].slot)

MailsTold == \A m \in mail : m.appt \in ApptIds /\ InTimeline(hist[m.appt], m.mode, m.slot)

MailInv == LockInv /\ RequestsToldOf /\ MailsTold

\* An entry is found at the end of the timeline it was written to ...
LEMMA JustWritten ==
  ASSUME NEW h \in Seq(Entries), NEW x \in Entries,
         NEW mode, mode = x.action,
         NEW s, s = IF mode = "cancelled" THEN x.from ELSE x.to
  PROVE  InTimeline(Append(h, x), mode, s)
<1>1. Len(Append(h, x)) = Len(h) + 1 /\ Append(h, x)[Len(h) + 1] = x /\ Len(h) \in Nat
  BY AppendEntry
<1> QED BY <1>1 DEF InTimeline

\* ... and one found before is found after.
LEMMA StillWritten ==
  ASSUME NEW h \in Seq(Entries), NEW x \in Entries, NEW mode, NEW s, InTimeline(h, mode, s)
  PROVE  InTimeline(Append(h, x), mode, s)
<1>1. PICK i \in 1..Len(h) : /\ h[i].action = mode
                             /\ s = IF mode = "cancelled" THEN h[i].from ELSE h[i].to
  BY DEF InTimeline
<1>2. Append(h, x)[i] = h[i] /\ i \in 1..Len(Append(h, x))
  BY AppendEntry
<1> QED BY <1>1, <1>2 DEF InTimeline

\* Timelines only grow.
LEMMA TimelinesGrow ==
  ASSUME TypeOK, [Next]_vars, NEW a \in ApptIds, NEW mode, NEW s, InTimeline(hist[a], mode, s)
  PROVE  InTimeline(hist'[a], mode, s)
<1>0. hist \in [ApptIds -> Seq(Entries)] /\ appt \in [ApptIds -> Row]
  BY DEF TypeOK
<1>1. CASE \A r \in Requests : ~(CreateInsert(r) \/ EditWrite(r) \/ CancelWrite(r))
  BY <1>1, OtherStepsHistory
<1>2. CASE UNCHANGED dbVars
  BY <1>2 DEF dbVars
<1>3. ASSUME NEW b \in ApptIds, NEW x \in Entries, hist' = [hist EXCEPT ![b] = Append(@, x)]
      PROVE  InTimeline(hist'[a], mode, s)
  <2>1. CASE a = b
    <3>1. hist'[a] = Append(hist[a], x)
      BY <1>0, <1>3, <2>1
    <3> QED BY <1>0, <3>1, StillWritten
  <2>2. CASE a # b
    BY <1>0, <1>3, <2>2
  <2> QED BY <2>1, <2>2
<1>4. ASSUME NEW r \in Requests, CreateInsert(r) \/ EditWrite(r) \/ CancelWrite(r),
             ~(Abort(r) /\ UNCHANGED dbVars)
      PROVE  InTimeline(hist'[a], mode, s)
  <2>0. req[r].slot \in 0..MaxSlot /\ req[r].from \in 0..MaxSlot
    BY DEF TypeOK, Request
  <2>1. CASE CreateInsert(r)
    <3>1. Entry("created", 0, req[r].slot) \in Entries
      BY <2>0 DEF Entry, Entries
    <3>2. PICK b \in ApptIds :
            hist' = [hist EXCEPT ![b] = Append(@, Entry("created", 0, req[r].slot))]
      BY <1>4, <2>1, InsertEffect
    <3> QED BY <1>3, <3>1, <3>2
  <2>2. CASE EditWrite(r)
    <3>1. Entry("edited", req[r].from, req[r].slot) \in Entries
      BY <2>0 DEF Entry, Entries
    <3> QED BY <1>3, <1>4, <2>2, <3>1, EditEffect
  <2>3. CASE CancelWrite(r)
    <3>0. /\ req[r].appt \in ApptIds
          /\ hist' = [hist EXCEPT ![req[r].appt] =
                        Append(@, Entry("cancelled", appt[req[r].appt].slot, 0))]
      BY <1>4, <2>3, CancelEffect
    <3>1. Entry("cancelled", appt[req[r].appt].slot, 0) \in Entries
      BY <1>0, <3>0 DEF Entry, Entries, Row
    <3> QED BY <1>3, <3>0, <3>1
  <2> QED BY <1>4, <2>1, <2>2, <2>3
<1> QED BY <1>1, <1>2, <1>4

\* What a step other than the three writes does to a request in the tail of its
\* work: nothing, a start of something else, an end, or the push of its event.
MovesOn(q) ==
  \/ req'[q] = req[q]
  \/ req'[q].pc \notin {"push", "save", "drop"}
  \/ req'[q].op = "retry" /\ req'[q].pc = "push"
  \/ /\ req[q].pc = "push" /\ req'[q].pc = "save"
     /\ req'[q].op = req[q].op /\ req'[q].appt = req[q].appt
     /\ req'[q].slot = req[q].slot /\ req'[q].event = req[q].event

\* A request that ends, or hands on to the change of a status, is out of the tail.
LEMMA EndMovesOn ==
  ASSUME TypeOK, NEW r \in Requests, Abort(r) \/ Return(r), NEW q \in Requests
  PROVE  MovesOn(q)
<1>1. req \in [Requests -> Request] /\ req[r].then \in {"idle", "status"}
  BY DEF TypeOK, Request
<1>2. \A rec : req' = [req EXCEPT ![r] = rec] /\ rec.pc \in {"idle", "status"} => MovesOn(q)
  BY <1>1 DEF MovesOn
<1>3. Idle.pc = "idle"
  BY DEF Idle
<1>4. [req[r] EXCEPT !.pc = "status"].pc = "status"
  BY <1>1 DEF Request
<1>5. CASE Abort(r)
  BY <1>2, <1>3, <1>5 DEF Abort
<1>6. CASE Return(r) /\ req[r].then = "idle"
  BY <1>2, <1>3, <1>6 DEF Return
<1>7. CASE Return(r) /\ req[r].then = "status"
  <2>1. req' = [req EXCEPT ![r] = [req[r] EXCEPT !.pc = "status"]]
    BY <1>7 DEF Return
  <2> QED BY <1>2, <1>4, <2>1
<1> QED BY <1>1, <1>5, <1>6, <1>7

\* Only the three writes bring a request to the tail of its work.
LEMMA OtherStepsMoveOn ==
  ASSUME TypeOK, [Next]_vars, NEW q \in Requests,
         \A r \in Requests : ~(CreateInsert(r) \/ EditWrite(r) \/ CancelWrite(r))
  PROVE  MovesOn(q)
<1>0. req \in [Requests -> Request]
  BY DEF TypeOK
<1>1. ASSUME NEW r \in Requests, RequestStarts(r) PROVE MovesOn(q)
  <2>1. ASSUME NEW rec, req' = [req EXCEPT ![r] = rec],
               rec.pc \notin {"push", "save", "drop"} \/ (rec.op = "retry" /\ rec.pc = "push")
        PROVE  MovesOn(q)
    BY <1>0, <2>1 DEF MovesOn
  <2>2. ASSUME NEW e \in Enquiries, NEW s \in Slots, StartCreate(r, e, s) PROVE MovesOn(q)
    BY <2>1, <2>2 DEF StartCreate, Issue, Idle
  <2>3. ASSUME NEW a \in ApptIds, NEW s \in Slots, StartEdit(r, a, s) PROVE MovesOn(q)
    BY <2>1, <2>3 DEF StartEdit, Issue, Idle
  <2>4. ASSUME NEW a \in ApptIds, StartCancel(r, a) PROVE MovesOn(q)
    BY <2>1, <2>4 DEF StartCancel, Issue, Idle
  <2>5. ASSUME NEW a \in ApptIds, StartRetry(r, a) PROVE MovesOn(q)
    BY <2>1, <2>5 DEF StartRetry, Issue, Idle
  <2> QED BY <1>1, <2>2, <2>3, <2>4, <2>5 DEF RequestStarts
<1>2. ASSUME NEW r \in Requests, RequestFails(r) \/ LockWaitFails(r) \/ CancelDrop(r)
                                  \/ PushNotConnected(r) \/ SaveSync(r)
      PROVE  MovesOn(q)
  BY <1>2, EndMovesOn DEF RequestFails, LockWaitFails, CancelDrop, PushNotConnected, SaveSync
<1>3. ASSUME NEW r \in Requests, CreateFreebusy(r) \/ CreateBegin(r) \/ CreateCheck(r)
                                  \/ EditFreebusy(r) \/ EditCheck(r)
      PROVE  MovesOn(q)
  <2>1. ASSUME NEW pc \in {"begin", "check", "insert", "write"}, Goto(r, pc)
        PROVE  MovesOn(q)
    <3>1. req'[q] = req[q] \/ req'[q].pc = pc
      BY <1>0, <2>1 DEF Goto, Request
    <3> QED BY <2>1, <3>1 DEF MovesOn
  <2> QED BY <1>3, <2>1, EndMovesOn DEF CreateFreebusy, CreateBegin, CreateCheck, EditFreebusy, EditCheck
<1>4. ASSUME NEW r \in Requests, EditRead(r) PROVE MovesOn(q)
  <2>1. CASE Abort(r)
    BY <2>1, EndMovesOn
  <2>2. CASE ~Abort(r)
    <3>1. req'[q] = req[q] \/ req'[q].pc \in {"busy", "write"}
      BY <1>0, <1>4, <2>2, SMTT(30) DEF EditRead, Request
    <3> QED BY <3>1 DEF MovesOn
  <2> QED BY <2>1, <2>2
<1>5. ASSUME NEW r \in Requests, PushEvent(r) PROVE MovesOn(q)
  BY <1>0, <1>5 DEF PushEvent, MovesOn, Request
<1>6. ASSUME WorkerStep \/ WorkerFails \/ Disconnect \/ Connect \/ ClockTick \/ ServerIdle
             \/ UNCHANGED vars
      PROVE  MovesOn(q)
  BY <1>6 DEF WorkerStep, WorkerTick, WorkerPush, WorkerBreak, WorkerSave, WorkerFails, Disconnect,
              Connect, ClockTick, ServerIdle, vars, MovesOn
<1> QED BY <1>1, <1>2, <1>3, <1>4, <1>5, <1>6 DEF Next, RequestStep

\* What a request will tell was true when it was committed, and stays true.
LEMMA MovesOnTold ==
  ASSUME TypeOK, RequestsToldOf, [Next]_vars, NEW q \in Requests, MovesOn(q)
  PROVE  /\ req'[q].pc \in {"push", "save"} /\ req'[q].op = "create" =>
              InTimeline(hist'[req'[q].appt], "created", req'[q].slot)
         /\ req'[q].pc \in {"push", "save"} /\ req'[q].op = "edit" =>
              InTimeline(hist'[req'[q].appt], "edited", req'[q].slot)
         /\ req'[q].pc = "drop" => InTimeline(hist'[req'[q].appt], "cancelled", req'[q].slot)
<1>1. req[q].pc \in {"push", "save", "drop"} => req[q].appt \in ApptIds
  BY DEF TypeOK, OnBooking
<1>2. /\ req[q].pc \in {"push", "save"} /\ req[q].op = "create" =>
           InTimeline(hist[req[q].appt], "created", req[q].slot)
      /\ req[q].pc \in {"push", "save"} /\ req[q].op = "edit" =>
           InTimeline(hist[req[q].appt], "edited", req[q].slot)
      /\ req[q].pc = "drop" => InTimeline(hist[req[q].appt], "cancelled", req[q].slot)
  BY DEF RequestsToldOf
<1>3. /\ req[q].pc \in {"push", "save"} /\ req[q].op = "create" =>
           InTimeline(hist'[req[q].appt], "created", req[q].slot)
      /\ req[q].pc \in {"push", "save"} /\ req[q].op = "edit" =>
           InTimeline(hist'[req[q].appt], "edited", req[q].slot)
      /\ req[q].pc = "drop" => InTimeline(hist'[req[q].appt], "cancelled", req[q].slot)
  BY <1>1, <1>2, TimelinesGrow
<1>4. CASE req'[q] = req[q]
  BY <1>3, <1>4
<1>5. CASE req'[q] # req[q]
  BY <1>3, <1>5 DEF MovesOn
<1> QED BY <1>4, <1>5

\* The three writes put the entry there that the mail will name.
LEMMA WritesTold ==
  ASSUME LockInv, RequestsToldOf, [Next]_vars, NEW r \in Requests,
         CreateInsert(r) \/ EditWrite(r) \/ CancelWrite(r)
  PROVE  RequestsToldOf'
<1>0. /\ TypeOK /\ hist \in [ApptIds -> Seq(Entries)] /\ appt \in [ApptIds -> Row]
      /\ req \in [Requests -> Request]
      /\ req[r].slot \in 0..MaxSlot /\ req[r].from \in 0..MaxSlot
  BY DEF LockInv, TypeOK, Request
<1>1. CASE Abort(r)
  BY <1>0, <1>1, EndMovesOn, MovesOnTold DEF RequestsToldOf
<1>2. ASSUME NEW rec, req' = [req EXCEPT ![r] = rec],
             /\ rec.pc \in {"push", "save"} /\ rec.op = "create" =>
                  InTimeline(hist'[rec.appt], "created", rec.slot)
             /\ rec.pc \in {"push", "save"} /\ rec.op = "edit" =>
                  InTimeline(hist'[rec.appt], "edited", rec.slot)
             /\ rec.pc = "drop" => InTimeline(hist'[rec.appt], "cancelled", rec.slot)
      PROVE  RequestsToldOf'
  <2>1. ASSUME NEW q \in Requests, q # r PROVE MovesOn(q)
    BY <1>0, <1>2, <2>1 DEF MovesOn
  <2>2. req'[r] = rec
    BY <1>0, <1>2
  <2> QED BY <1>0, <1>2, <2>1, <2>2, MovesOnTold DEF RequestsToldOf
<1>3. CASE CreateInsert(r) /\ ~Abort(r)
  <2>1. PICK a \in ApptIds :
          /\ hist' = [hist EXCEPT ![a] = Append(@, Entry("created", 0, req[r].slot))]
          /\ req' = [req EXCEPT ![r] = [req[r] EXCEPT !.pc = "push", !.appt = a]]
    BY <1>0, <1>3, InsertEffect
  <2> DEFINE x   == Entry("created", 0, req[r].slot)
             rec == [req[r] EXCEPT !.pc = "push", !.appt = a]
  <2>2. x \in Entries /\ x.action = "created" /\ x.to = req[r].slot
    BY <1>0 DEF Entry, Entries
  <2>3. rec.pc = "push" /\ rec.op = "create" /\ rec.appt = a /\ rec.slot = req[r].slot
    BY <1>0, <1>3 DEF Request, CreateInsert, At
  <2>4. hist'[a] = Append(hist[a], x) /\ hist[a] \in Seq(Entries)
    BY <1>0, <2>1
  <2>5. InTimeline(hist'[a], "created", req[r].slot)
    <3> HIDE DEF x
    <3> QED BY <2>2, <2>4, JustWritten
  <2>6. req' = [req EXCEPT ![r] = rec]
    BY <2>1
  <2> HIDE DEF rec
  <2> QED BY <1>2, <2>3, <2>5, <2>6
<1>4. CASE EditWrite(r) /\ ~Abort(r)
  <2> DEFINE a   == req[r].appt
             x   == Entry("edited", req[r].from, req[r].slot)
             rec == [req[r] EXCEPT !.pc = "push"]
  <2>1. /\ a \in ApptIds /\ req[r].op = "edit"
        /\ hist' = [hist EXCEPT ![a] = Append(@, x)]
        /\ Goto(r, "push")
    BY <1>0, <1>4, EditEffect
  <2>2. x \in Entries /\ x.action = "edited" /\ x.to = req[r].slot
    BY <1>0 DEF Entry, Entries
  <2>3. rec.pc = "push" /\ rec.op = "edit" /\ rec.appt = a /\ rec.slot = req[r].slot
    BY <1>0, <2>1 DEF Request
  <2>4. hist'[a] = Append(hist[a], x) /\ hist[a] \in Seq(Entries)
    BY <1>0, <2>1
  <2>5. InTimeline(hist'[a], "edited", req[r].slot)
    <3> HIDE DEF x
    <3> QED BY <2>2, <2>4, JustWritten
  <2>6. req' = [req EXCEPT ![r] = rec]
    BY <1>0, <2>1 DEF Goto
  <2> HIDE DEF rec
  <2> QED BY <1>2, <2>3, <2>5, <2>6
<1>5. CASE CancelWrite(r) /\ ~Abort(r)
  <2> DEFINE a   == req[r].appt
             s   == appt[a].slot
             x   == Entry("cancelled", s, 0)
             rec == [req[r] EXCEPT !.pc = "drop", !.event = appt[a].event, !.slot = s]
  <2>1. /\ a \in ApptIds
        /\ hist' = [hist EXCEPT ![a] = Append(@, x)]
        /\ req' = [req EXCEPT ![r] = rec]
    BY <1>0, <1>5, CancelEffect
  <2>2. x \in Entries /\ x.action = "cancelled" /\ x.from = s
    BY <1>0, <2>1 DEF Entry, Entries, Row
  <2>3. rec.pc = "drop" /\ rec.appt = a /\ rec.slot = s
    BY <1>0 DEF Request
  <2>4. hist'[a] = Append(hist[a], x) /\ hist[a] \in Seq(Entries)
    BY <1>0, <2>1
  <2>5. InTimeline(hist'[a], "cancelled", s)
    <3> HIDE DEF x
    <3> QED BY <2>2, <2>4, JustWritten
  <2> HIDE DEF rec, s
  <2> QED BY <1>2, <2>1, <2>3, <2>5
<1> QED BY <1>1, <1>3, <1>4, <1>5

\* A mail that goes out says what its request was about to tell.
LEMMA MailsStayTold ==
  ASSUME MailInv, [Next]_vars
  PROVE  MailsTold'
<1>0. TypeOK /\ req \in [Requests -> Request]
  BY DEF MailInv, LockInv, TypeOK
<1>1. \A m \in mail : m.appt \in ApptIds /\ InTimeline(hist'[m.appt], m.mode, m.slot)
  BY <1>0, TimelinesGrow DEF MailInv, MailsTold
<1>2. CASE mail' = mail
  BY <1>1, <1>2 DEF MailsTold
<1>3. ASSUME NEW r \in Requests, req[r].pc \in {"push", "save", "drop"}, NEW mode, NEW sync,
             Notify(r, mode, sync), InTimeline(hist[req[r].appt], mode, req[r].slot)
      PROVE  MailsTold'
  <2>1. req[r].appt \in ApptIds
    BY <1>0, <1>3 DEF TypeOK, OnBooking
  <2>2. InTimeline(hist'[req[r].appt], mode, req[r].slot)
    BY <1>0, <1>3, <2>1, TimelinesGrow
  <2> QED BY <1>1, <1>3, <2>1, <2>2 DEF MailsTold, Notify
<1>4. ASSUME NEW r \in Requests, CancelDrop(r) PROVE MailsTold'
  BY <1>3, <1>4 DEF CancelDrop, At, MailInv, RequestsToldOf
<1>5. ASSUME NEW r \in Requests, req[r].pc \in {"push", "save"}, NEW sync, NotifyPushed(r, sync)
      PROVE  MailsTold'
  BY <1>2, <1>3, <1>5 DEF NotifyPushed, MailInv, RequestsToldOf
<1>6. ASSUME NEW r \in Requests, PushNotConnected(r) \/ SaveSync(r) PROVE MailsTold'
  BY <1>5, <1>6 DEF PushNotConnected, SaveSync
<1>7. ASSUME NEW r \in Requests, RequestStarts(r) \/ RequestFails(r) PROVE mail' = mail
  BY <1>7 DEF RequestStarts, StartCreate, StartEdit, StartCancel, StartRetry, RequestFails
<1>8. ASSUME NEW r \in Requests, RequestStep(r),
             ~(CancelDrop(r) \/ PushNotConnected(r) \/ SaveSync(r))
      PROVE  mail' = mail
  BY <1>8 DEF RequestStep, CreateFreebusy, CreateBegin, CreateCheck, CreateInsert, EditRead,
              EditFreebusy, EditCheck, EditWrite, CancelWrite, PushEvent, LockWaitFails
<1>9. ASSUME WorkerStep \/ WorkerFails \/ Disconnect \/ Connect \/ ClockTick \/ ServerIdle
             \/ UNCHANGED vars
      PROVE  mail' = mail
  BY <1>9 DEF WorkerStep, WorkerTick, WorkerPush, WorkerBreak, WorkerSave, WorkerFails, Disconnect,
              Connect, ClockTick, ServerIdle, vars
<1> QED BY <1>2, <1>4, <1>6, <1>7, <1>8, <1>9 DEF Next

\* The invariant of the mails holds at the start and is kept by every step.
LEMMA MailInvInductive ==
  /\ Init => MailInv
  /\ MailInv /\ [Next]_vars => MailInv'
<1>1. Init => MailInv
  <2> SUFFICES ASSUME Init PROVE MailInv
    OBVIOUS
  <2>1. LockInv /\ mail = {} /\ \A r \in Requests : req[r].pc = "idle"
    BY LockInvInductive DEF Init, Idle
  <2> QED BY <2>1 DEF MailInv, RequestsToldOf, MailsTold
<1>2. ASSUME MailInv, [Next]_vars PROVE MailInv'
  <2>1. LockInv /\ LockInv' /\ TypeOK /\ RequestsToldOf
    BY <1>2, LockInvInductive DEF MailInv, LockInv
  <2>2. RequestsToldOf'
    <3>1. CASE \E r \in Requests : CreateInsert(r) \/ EditWrite(r) \/ CancelWrite(r)
      BY <1>2, <2>1, <3>1, WritesTold
    <3>2. CASE \A r \in Requests : ~(CreateInsert(r) \/ EditWrite(r) \/ CancelWrite(r))
      BY <1>2, <2>1, <3>2, OtherStepsMoveOn, MovesOnTold DEF RequestsToldOf
    <3> QED BY <3>1, <3>2
  <2> QED BY <1>2, <2>1, <2>2, MailsStayTold DEF MailInv
<1> QED BY <1>1, <1>2

\* Every notification the admin gets is about a booking, a move or a
\* cancellation that was committed, with the bucket that was committed, however
\* late the mail goes out and whatever became of the row
\* (notifyAppointmentByEmail in appointmentSlots.js).
THEOREM MailsAreTrue == Spec => []MailTellsHistory
<1>1. MailInv => MailTellsHistory
  BY DEF MailInv, MailsTold, MailTellsHistory, InTimeline
<1> QED BY <1>1, MailInvInductive, PTL DEF Spec

----------------------------------------
(* Events.  An event is made for one booking and stays its own: requests and *)
(* the worker carry ids of events of the booking they work for, and whoever  *)
(* writes last, the row gets one of those.                                   *)

\* The events a request knows of: the one its row had, the one Google gave it.
RequestsOwnEvents ==
  \A r \in Requests :
    /\ req[r].op \in {"none", "create"} => req[r].event = 0
    /\ req[r].event # 0 => gcal[req[r].event].appt = req[r].appt
    /\ req[r].pc = "save" /\ req[r].result # 0 => gcal[req[r].result].appt = req[r].appt

\* The event the worker has just made is the one of the item it is at.
WorkerOwnsEvent ==
  \A item \in worker.queue :
    worker.pc = "save" /\ worker.result # 0 /\ IsFirst(item) =>
      gcal[worker.result].appt = item.appt

EventInv == TypeOK /\ EventBelongsToRow /\ RequestsOwnEvents /\ WorkerOwnsEvent

\* Once made for a booking, an event is never another's.
EventsKept == \A g \in EventIds : gcal[g].appt # 0 => gcal'[g].appt = gcal[g].appt

\* Every call to Google keeps the events it has, and a creation that answers
\* with an id has made that event for the booking it was asked for.
LEMMA CreateKeepsEvents ==
  ASSUME TypeOK, NEW a, NEW s, NEW res, CreateEvent(a, s, res)
  PROVE  EventsKept /\ (res # 0 => res \in EventIds /\ gcal'[res].appt = a)
<1>1. gcal \in [EventIds -> Event]
  BY DEF TypeOK
<1>2. ASSUME NEW g \in EventIds, IsNextEvent(g), PutEvent(g, a, s)
      PROVE  EventsKept /\ gcal'[g].appt = a
  BY <1>1, <1>2 DEF IsNextEvent, Unused, PutEvent, EventsKept
<1>3. CASE UNCHANGED gcal /\ res = 0
  BY <1>3 DEF EventsKept
<1> QED BY <1>2, <1>3 DEF CreateEvent

\* Updating and deleting keep the booking of an event too.
LEMMA UpdateKeepsEvents ==
  ASSUME TypeOK, NEW g \in EventIds,
         \/ \E s, res : UpdateEvent(g, s, res)
         \/ DeleteEvent(g)
  PROVE  EventsKept
<1>1. gcal \in [EventIds -> Event]
  BY DEF TypeOK
<1>2. CASE UNCHANGED gcal
  BY <1>2 DEF EventsKept
<1>3. ASSUME NEW s, gcal' = [gcal EXCEPT ![g].slot = s] PROVE EventsKept
  <2>1. gcal'[g].appt = gcal[g].appt /\ \A h \in EventIds \ {g} : gcal'[h] = gcal[h]
    BY <1>1, <1>3 DEF Event
  <2> QED BY <2>1 DEF EventsKept
<1>4. ASSUME gcal' = [gcal EXCEPT ![g].live = FALSE] PROVE EventsKept
  <2>1. gcal'[g].appt = gcal[g].appt /\ \A h \in EventIds \ {g} : gcal'[h] = gcal[h]
    BY <1>1, <1>4 DEF Event
  <2> QED BY <2>1 DEF EventsKept
<1> QED BY <1>2, <1>3, <1>4 DEF UpdateEvent, DeleteEvent

\* No step takes an event from its booking.
LEMMA StepKeepsEvents ==
  ASSUME TypeOK, [Next]_vars
  PROVE  EventsKept
<1>1. CASE UNCHANGED gcal
  BY <1>1 DEF EventsKept
<1>2. ASSUME NEW r \in Requests, PushEvent(r) PROVE EventsKept
  <2>1. PICK res \in 0..MaxEvents :
          IF req[r].op = "edit" /\ req[r].event # 0
            THEN UpdateEvent(req[r].event, req[r].slot, res)
            ELSE CreateEvent(req[r].appt, req[r].slot, res)
    BY <1>2 DEF PushEvent
  <2>2. req[r].event # 0 => req[r].event \in EventIds
    BY DEF TypeOK, Request
  <2> QED BY <2>1, <2>2, CreateKeepsEvents, UpdateKeepsEvents
<1>3. ASSUME NEW r \in Requests, CancelDrop(r) PROVE EventsKept
  <2>1. req[r].event # 0 => req[r].event \in EventIds
    BY DEF TypeOK, Request
  <2> QED BY <1>1, <1>3, <2>1, UpdateKeepsEvents DEF CancelDrop
<1>4. ASSUME WorkerPush PROVE EventsKept
  BY <1>4, CreateKeepsEvents DEF WorkerPush
<1>5. ASSUME NEW r \in Requests, RequestStarts(r) \/ RequestFails(r) PROVE UNCHANGED gcal
  BY <1>5 DEF RequestStarts, StartCreate, StartEdit, StartCancel, StartRetry, RequestFails
<1>6. ASSUME NEW r \in Requests, RequestStep(r), ~(PushEvent(r) \/ CancelDrop(r))
      PROVE  UNCHANGED gcal
  BY <1>6 DEF RequestStep, CreateFreebusy, CreateBegin, CreateCheck, CreateInsert, EditRead,
              EditFreebusy, EditCheck, EditWrite, CancelWrite, PushNotConnected, SaveSync,
              LockWaitFails
<1>7. ASSUME WorkerTick \/ WorkerBreak \/ WorkerSave \/ WorkerFails \/ Disconnect \/ Connect
             \/ ClockTick \/ ServerIdle \/ UNCHANGED vars
      PROVE  UNCHANGED gcal
  BY <1>7 DEF WorkerTick, WorkerBreak, WorkerSave, WorkerFails, Disconnect, Connect, ClockTick,
              ServerIdle, vars
<1> QED BY <1>1, <1>2, <1>3, <1>4, <1>5, <1>6, <1>7 DEF Next, WorkerStep

\* The rows: only an insert and the writing of a sync result touch the event of
\* a row, and what they write is 0 or an event of that row.
LEMMA RowsOwnEvents ==
  ASSUME EventInv, [Next]_vars
  PROVE  EventBelongsToRow'
<1>0. TypeOK /\ appt \in [ApptIds -> Row] /\ gcal \in [EventIds -> Event] /\ EventsKept
  BY StepKeepsEvents DEF EventInv, TypeOK
<1>1. ASSUME \A a \in ApptIds : \/ appt'[a].event = appt[a].event
                                \/ appt'[a].event = 0
                                \/ /\ appt'[a].event \in EventIds
                                   /\ gcal[appt'[a].event].appt = a
      PROVE  EventBelongsToRow'
  <2> SUFFICES ASSUME NEW a \in ApptIds, appt'[a].event # 0
               PROVE  gcal'[appt'[a].event].appt = a
    BY DEF EventBelongsToRow
  <2>1. appt[a].event # 0 => appt[a].event \in EventIds /\ gcal[appt[a].event].appt = a
    BY <1>0 DEF EventInv, EventBelongsToRow, Row
  <2>2. appt'[a].event \in EventIds /\ gcal[appt'[a].event].appt = a
    BY <1>1, <2>1
  <2> QED BY <1>0, <2>2 DEF EventsKept
<1>2. ASSUME NEW a \in ApptIds, NEW event, NEW sync, WriteSync(a, event, sync),
             event = 0 \/ (event \in EventIds /\ gcal[event].appt = a)
      PROVE  EventBelongsToRow'
  <2>1. appt'[a].event = event /\ \A b \in ApptIds \ {a} : appt'[b] = appt[b]
    BY <1>0, <1>2 DEF WriteSync, Pushed, Row
  <2> QED BY <1>1, <1>2, <2>1
<1>3. ASSUME NEW r \in Requests, SaveSync(r) PROVE EventBelongsToRow'
  <2>1. req[r].appt \in ApptIds /\ req[r].pc = "save"
    BY <1>0, <1>3 DEF SaveSync, TypeOK, OnBooking
  <2>2. /\ req[r].event = 0 \/ (req[r].event \in EventIds /\ gcal[req[r].event].appt = req[r].appt)
        /\ req[r].result = 0 \/ (req[r].result \in EventIds /\ gcal[req[r].result].appt = req[r].appt)
    BY <1>0, <2>1 DEF EventInv, RequestsOwnEvents, TypeOK, Request
  <2> QED BY <1>2, <1>3, <2>1, <2>2 DEF SaveSync
<1>4. ASSUME WorkerSave PROVE EventBelongsToRow'
  <2>1. PICK item \in worker.queue :
          /\ IsFirst(item)
          /\ WriteSync(item.appt, worker.result, IF worker.result # 0 THEN "SYNCED" ELSE "FAILED")
    BY <1>4 DEF WorkerSave
  <2>2. item.appt \in ApptIds /\ worker.pc = "save"
    BY <1>0, <1>4 DEF WorkerSave, TypeOK, Ticks
  <2>3. worker.result = 0 \/ (worker.result \in EventIds /\ gcal[worker.result].appt = item.appt)
    BY <1>0, <2>1, <2>2 DEF EventInv, WorkerOwnsEvent, TypeOK, Ticks
  <2> QED BY <1>2, <2>1, <2>2, <2>3
<1>5. ASSUME NEW r \in Requests, CreateInsert(r) PROVE EventBelongsToRow'
  <2>1. CASE UNCHANGED dbVars
    BY <1>1, <2>1 DEF dbVars
  <2>2. CASE ~UNCHANGED dbVars
    <3>1. PICK a \in ApptIds : appt' = [appt EXCEPT ![a] = Booked(req[r].enq, req[r].slot)]
      BY <1>5, <2>2 DEF CreateInsert
    <3>2. appt'[a].event = 0 /\ \A b \in ApptIds \ {a} : appt'[b] = appt[b]
      BY <1>0, <3>1 DEF Booked
    <3> QED BY <1>1, <3>2
  <2> QED BY <2>1, <2>2
<1>6. ASSUME NEW r \in Requests, EditWrite(r) \/ CancelWrite(r) PROVE EventBelongsToRow'
  <2>1. req[r].appt \in ApptIds
    BY <1>0, <1>6 DEF EditWrite, CancelWrite, At, TypeOK, OnBooking
  <2>2. CASE UNCHANGED dbVars
    BY <1>1, <2>2 DEF dbVars
  <2>3. ASSUME NEW a \in ApptIds, NEW row, appt' = [appt EXCEPT ![a] = row], row.event = appt[a].event
        PROVE  EventBelongsToRow'
    BY <1>0, <1>1, <2>3
  <2>4. /\ Moved(appt[req[r].appt], req[r].slot).event = appt[req[r].appt].event
        /\ Cancelled(appt[req[r].appt]).event = appt[req[r].appt].event
    BY <1>0, <2>1 DEF Moved, Cancelled, Row
  <2> QED BY <1>6, <2>1, <2>2, <2>3, <2>4 DEF EditWrite, CancelWrite
<1>7. CASE UNCHANGED appt
  BY <1>1, <1>7
<1>8. ASSUME NEW r \in Requests, RequestStarts(r) \/ RequestFails(r) PROVE UNCHANGED appt
  BY <1>8 DEF RequestStarts, StartCreate, StartEdit, StartCancel, StartRetry, RequestFails, dbVars
<1>9. ASSUME NEW r \in Requests, RequestStep(r),
             ~(CreateInsert(r) \/ EditWrite(r) \/ CancelWrite(r) \/ SaveSync(r))
      PROVE  UNCHANGED appt
  BY <1>9 DEF RequestStep, CreateFreebusy, CreateBegin, CreateCheck, EditRead, EditFreebusy,
              EditCheck, CancelDrop, PushEvent, PushNotConnected, LockWaitFails, dbVars
<1>10. ASSUME WorkerTick \/ WorkerPush \/ WorkerBreak \/ WorkerFails \/ Disconnect \/ Connect
              \/ ClockTick \/ ServerIdle \/ UNCHANGED vars
       PROVE  UNCHANGED appt
  BY <1>10 DEF WorkerTick, WorkerPush, WorkerBreak, WorkerFails, Disconnect, Connect, ClockTick,
               ServerIdle, vars, dbVars
<1> QED BY <1>3, <1>4, <1>5, <1>6, <1>7, <1>8, <1>9, <1>10 DEF Next, WorkerStep

\* The requests: what a request learns of an event it learns of its own.
OwnEvents(x, events) ==
  /\ x.op \in {"none", "create"} => x.event = 0
  /\ x.event # 0 => events[x.event].appt = x.appt
  /\ x.pc = "save" /\ x.result # 0 => events[x.result].appt = x.appt

\* A request that stands still keeps its events, whatever the others do.
LEMMA EventsStayOwn ==
  ASSUME EventInv, EventsKept, NEW r \in Requests
  PROVE  OwnEvents(req[r], gcal')
<1>1. /\ req[r].event # 0 => req[r].event \in EventIds /\ gcal[req[r].event].appt = req[r].appt
      /\ req[r].pc = "save" /\ req[r].result # 0 =>
           req[r].result \in EventIds /\ gcal[req[r].result].appt = req[r].appt
      /\ req[r].op \in {"none", "create"} => req[r].event = 0
  BY DEF EventInv, RequestsOwnEvents, TypeOK, Request
<1>2. /\ req[r].event # 0 => req[r].appt \in ApptIds
      /\ req[r].pc = "save" => req[r].appt \in ApptIds
  BY <1>1 DEF EventInv, TypeOK, Request, OnBooking
<1> QED BY <1>1, <1>2 DEF OwnEvents, EventsKept

\* So a step of one request has to account for that one only.
LEMMA OneRequestOwnsEvents ==
  ASSUME EventInv, EventsKept, NEW r \in Requests, NEW rec, req' = [req EXCEPT ![r] = rec],
         OwnEvents(rec, gcal')
  PROVE  RequestsOwnEvents'
<1>0. req \in [Requests -> Request]
  BY DEF EventInv, TypeOK
<1> SUFFICES ASSUME NEW q \in Requests PROVE OwnEvents(req'[q], gcal')
  BY DEF RequestsOwnEvents, OwnEvents
<1>1. CASE q = r
  BY <1>0, <1>1
<1>2. CASE q # r
  BY <1>0, <1>2, EventsStayOwn
<1> QED BY <1>1, <1>2

\* A request that goes on, ends, fails or begins learns of no event.
LEMMA GoingOnOwnsEvents ==
  ASSUME EventInv, EventsKept, NEW r \in Requests,
         \/ \E pc : pc # "save" /\ Goto(r, pc)
         \/ Abort(r) \/ Return(r) \/ RequestStarts(r)
  PROVE  RequestsOwnEvents'
<1>0. req \in [Requests -> Request]
  BY DEF EventInv, TypeOK
<1>1. ASSUME NEW rec, req' = [req EXCEPT ![r] = rec], rec.event = 0, rec.pc # "save"
      PROVE  RequestsOwnEvents'
  BY <1>1, OneRequestOwnsEvents DEF OwnEvents
<1>2. ASSUME NEW pc, pc # "save", req' = [req EXCEPT ![r] = [req[r] EXCEPT !.pc = pc]]
      PROVE  RequestsOwnEvents'
  <2> DEFINE rec == [req[r] EXCEPT !.pc = pc]
  <2>1. /\ rec.op = req[r].op /\ rec.appt = req[r].appt /\ rec.event = req[r].event /\ rec.pc = pc
    BY <1>0 DEF Request
  <2>2. req' = [req EXCEPT ![r] = rec]
    BY <1>2
  <2> HIDE DEF rec
  <2>3. OwnEvents(rec, gcal')
    BY <1>2, <2>1, EventsStayOwn DEF OwnEvents
  <2> QED BY <2>2, <2>3, OneRequestOwnsEvents
<1>3. ASSUME NEW pc, pc # "save", Goto(r, pc) PROVE RequestsOwnEvents'
  BY <1>0, <1>2, <1>3 DEF Goto
<1>4. CASE Abort(r)
  <2>1. Idle.event = 0 /\ Idle.pc # "save"
    BY DEF Idle
  <2> QED BY <1>1, <1>4, <2>1 DEF Abort
<1>5. CASE Return(r)
  <2>1. req[r].then \in {"idle", "status"}
    BY <1>0 DEF Request
  <2>2. CASE req[r].then = "idle"
    <3>1. Idle.event = 0 /\ Idle.pc # "save"
      BY DEF Idle
    <3> QED BY <1>1, <1>5, <2>2, <3>1 DEF Return
  <2>3. CASE req[r].then = "status"
    BY <1>2, <1>5, <2>3 DEF Return
  <2> QED BY <2>1, <2>2, <2>3
<1>6. ASSUME NEW op, NEW rec, Issue(r, op, rec), rec.event = 0, rec.pc # "save"
      PROVE  RequestsOwnEvents'
  BY <1>1, <1>6 DEF Issue
<1>7. ASSUME NEW e \in Enquiries, NEW s \in Slots, StartCreate(r, e, s) PROVE RequestsOwnEvents'
  <2> DEFINE rec == [Idle EXCEPT !.op = "create", !.pc = "busy", !.enq = e, !.slot = s]
  <2>1. rec.event = 0 /\ rec.pc # "save"
    BY DEF Idle
  <2>2. Issue(r, "create", rec)
    BY <1>7 DEF StartCreate
  <2> HIDE DEF rec
  <2> QED BY <1>6, <2>1, <2>2
<1>8. ASSUME NEW a \in ApptIds, NEW s \in Slots, StartEdit(r, a, s) PROVE RequestsOwnEvents'
  <2> DEFINE rec == [Idle EXCEPT !.op = "edit", !.pc = "read", !.appt = a, !.slot = s]
  <2>1. rec.event = 0 /\ rec.pc # "save"
    BY DEF Idle
  <2>2. Issue(r, "edit", rec)
    BY <1>8 DEF StartEdit
  <2> HIDE DEF rec
  <2> QED BY <1>6, <2>1, <2>2
<1>9. ASSUME NEW a \in ApptIds, StartCancel(r, a) PROVE RequestsOwnEvents'
  <2> DEFINE rec == [Idle EXCEPT !.op = "cancel", !.pc = "cancel", !.appt = a]
  <2>1. rec.event = 0 /\ rec.pc # "save"
    BY DEF Idle
  <2>2. Issue(r, "cancel", rec)
    BY <1>9 DEF StartCancel
  <2> HIDE DEF rec
  <2> QED BY <1>6, <2>1, <2>2
<1>10. ASSUME NEW a \in ApptIds, StartRetry(r, a) PROVE RequestsOwnEvents'
  <2> DEFINE rec == [Idle EXCEPT !.op = "retry", !.pc = "push", !.appt = a, !.slot = appt[a].slot]
  <2>1. rec.event = 0 /\ rec.pc # "save"
    BY DEF Idle
  <2>2. Issue(r, "retry", rec)
    BY <1>10 DEF StartRetry
  <2> HIDE DEF rec
  <2> QED BY <1>6, <2>1, <2>2
<1> QED BY <1>3, <1>4, <1>5, <1>7, <1>8, <1>9, <1>10 DEF RequestStarts

\* Four steps tell a request something new: its row, the event its row has, or
\* the answer of Google.
LEMMA LearningOwnsEvents ==
  ASSUME EventInv, EventsKept, NEW r \in Requests,
         CreateInsert(r) \/ EditRead(r) \/ CancelWrite(r) \/ PushEvent(r), ~Abort(r)
  PROVE  RequestsOwnEvents'
<1>0. /\ TypeOK /\ req \in [Requests -> Request] /\ appt \in [ApptIds -> Row]
  BY DEF EventInv, TypeOK
<1>1. CASE CreateInsert(r)
  <2>1. PICK a \in ApptIds : req' = [req EXCEPT ![r] = [req[r] EXCEPT !.pc = "push", !.appt = a]]
    BY <1>0, <1>1, InsertEffect
  <2> DEFINE rec == [req[r] EXCEPT !.pc = "push", !.appt = a]
  <2>2. rec.op = "create" /\ rec.event = req[r].event /\ rec.pc = "push" /\ req[r].op = "create"
    BY <1>0, <1>1 DEF Request, CreateInsert, At
  <2>3. req' = [req EXCEPT ![r] = rec]
    BY <2>1
  <2> HIDE DEF rec
  <2>4. OwnEvents(rec, gcal')
    BY <2>2 DEF OwnEvents, EventInv, RequestsOwnEvents
  <2> QED BY <2>3, <2>4, OneRequestOwnsEvents
<1>2. ASSUME NEW rec, req' = [req EXCEPT ![r] = rec], rec.appt \in ApptIds,
             rec.op \in {"edit", "cancel"}, rec.event = appt[rec.appt].event, rec.pc # "save"
      PROVE  RequestsOwnEvents'
  <2>1. rec.event # 0 => rec.event \in EventIds /\ gcal[rec.event].appt = rec.appt
    BY <1>0, <1>2 DEF EventInv, EventBelongsToRow, Row
  <2>2. OwnEvents(rec, gcal')
    BY <1>2, <2>1 DEF OwnEvents, EventsKept
  <2> QED BY <1>2, <2>2, OneRequestOwnsEvents
<1>3. CASE EditRead(r)
  <2> DEFINE a   == req[r].appt
             rec == [req[r] EXCEPT !.enq = appt[a].enq, !.from = appt[a].slot,
                       !.event = appt[a].event, !.moved = appt[a].key # req[r].slot,
                       !.pc = IF appt[a].key # req[r].slot THEN "busy" ELSE "write"]
  <2>1. a \in ApptIds /\ req[r].op = "edit"
    BY <1>0, <1>3 DEF EditRead, At, TypeOK, OnBooking
  <2>2. req' = [req EXCEPT ![r] = rec]
    BY <1>0, <1>3 DEF EditRead
  <2>3. rec.appt = a /\ rec.op = "edit" /\ rec.event = appt[a].event /\ rec.pc # "save"
    BY <1>0, <2>1 DEF Request
  <2> HIDE DEF rec
  <2> QED BY <1>2, <2>1, <2>2, <2>3
<1>4. CASE CancelWrite(r)
  <2> DEFINE a   == req[r].appt
             rec == [req[r] EXCEPT !.pc = "drop", !.event = appt[a].event, !.slot = appt[a].slot]
  <2>1. req[r].op = "cancel" /\ a \in ApptIds /\ req' = [req EXCEPT ![r] = rec]
    BY <1>0, <1>4, CancelEffect
  <2>2. rec.appt = a /\ rec.op = "cancel" /\ rec.event = appt[a].event /\ rec.pc # "save"
    BY <1>0, <2>1 DEF Request
  <2> HIDE DEF rec
  <2> QED BY <1>2, <2>1, <2>2
<1>5. CASE PushEvent(r)
  <2>1. PICK res \in 0..MaxEvents :
          /\ IF req[r].op = "edit" /\ req[r].event # 0
               THEN UpdateEvent(req[r].event, req[r].slot, res)
               ELSE CreateEvent(req[r].appt, req[r].slot, res)
          /\ req' = [req EXCEPT ![r].pc = "save", ![r].result = res]
    BY <1>5 DEF PushEvent
  <2> DEFINE rec == [req[r] EXCEPT !.pc = "save", !.result = res]
  <2>2. /\ rec.op = req[r].op /\ rec.appt = req[r].appt /\ rec.event = req[r].event
        /\ rec.result = res
    BY <1>0 DEF Request
  <2>3. req' = [req EXCEPT ![r] = rec]
    BY <1>0, <2>1
  <2> HIDE DEF rec
  <2>4. OwnEvents(req[r], gcal')
    BY EventsStayOwn
  <2>5. res # 0 => gcal'[res].appt = req[r].appt
    <3>1. CASE req[r].op = "edit" /\ req[r].event # 0
      BY <2>1, <2>4, <3>1 DEF UpdateEvent, OwnEvents
    <3>2. CASE ~(req[r].op = "edit" /\ req[r].event # 0)
      BY <1>0, <2>1, <3>2, CreateKeepsEvents
    <3> QED BY <3>1, <3>2
  <2> QED BY <2>2, <2>3, <2>4, <2>5, OneRequestOwnsEvents DEF OwnEvents
<1> QED BY <1>1, <1>3, <1>4, <1>5

\* The requests as a whole.
LEMMA RequestsStayOwners ==
  ASSUME EventInv, [Next]_vars
  PROVE  RequestsOwnEvents'
<1>0. TypeOK /\ EventsKept
  BY StepKeepsEvents DEF EventInv
<1>1. CASE UNCHANGED req
  BY <1>0, <1>1, EventsStayOwn DEF RequestsOwnEvents, OwnEvents
<1>2. ASSUME NEW r \in Requests, RequestStarts(r) \/ RequestFails(r) PROVE RequestsOwnEvents'
  BY <1>0, <1>2, GoingOnOwnsEvents DEF RequestFails
<1>3. ASSUME NEW r \in Requests, CreateInsert(r) \/ EditRead(r) \/ CancelWrite(r) \/ PushEvent(r)
      PROVE  RequestsOwnEvents'
  BY <1>0, <1>3, GoingOnOwnsEvents, LearningOwnsEvents
<1>4. ASSUME NEW r \in Requests, RequestStep(r),
             ~(CreateInsert(r) \/ EditRead(r) \/ CancelWrite(r) \/ PushEvent(r))
      PROVE  RequestsOwnEvents'
  <2>1. (\E pc \in {"begin", "check", "insert", "write", "push"} : Goto(r, pc)) \/ Abort(r) \/ Return(r)
    BY <1>4 DEF RequestStep, CreateFreebusy, CreateBegin, CreateCheck, EditFreebusy, EditCheck,
                EditWrite, CancelDrop, PushNotConnected, SaveSync, LockWaitFails
  <2> QED BY <1>0, <2>1, GoingOnOwnsEvents
<1>5. ASSUME WorkerStep \/ WorkerFails \/ Disconnect \/ Connect \/ ClockTick \/ ServerIdle
             \/ UNCHANGED vars
      PROVE  UNCHANGED req
  BY <1>5 DEF WorkerStep, WorkerTick, WorkerPush, WorkerBreak, WorkerSave, WorkerFails, Disconnect,
              Connect, ClockTick, ServerIdle, vars
<1> QED BY <1>1, <1>2, <1>3, <1>4, <1>5 DEF Next

\* The worker: the event it has just made is of the item it takes to the row.
LEMMA WorkerStaysOwner ==
  ASSUME EventInv, [Next]_vars
  PROVE  WorkerOwnsEvent'
<1>0. TypeOK /\ EventsKept /\ worker \in Ticks
  BY StepKeepsEvents DEF EventInv, TypeOK
<1>1. CASE UNCHANGED worker
  <2> SUFFICES ASSUME NEW item \in worker.queue, worker.pc = "save", worker.result # 0, IsFirst(item)
               PROVE  gcal'[worker.result].appt = item.appt
    BY <1>1 DEF WorkerOwnsEvent, IsFirst
  <2>1. gcal[worker.result].appt = item.appt
    BY DEF EventInv, WorkerOwnsEvent
  <2>2. worker.result \in EventIds /\ item.appt \in ApptIds
    BY <1>0 DEF Ticks
  <2> QED BY <1>0, <2>1, <2>2 DEF EventsKept
<1>2. CASE worker'.pc # "save"
  BY <1>2 DEF WorkerOwnsEvent
<1>3. CASE WorkerPush
  <2>1. PICK item \in worker.queue, res \in 0..MaxEvents :
          /\ IsFirst(item)
          /\ CreateEvent(item.appt, item.slot, res)
          /\ worker' = [worker EXCEPT !.pc = "save", !.result = res]
    BY <1>3 DEF WorkerPush
  <2>2. worker'.queue = worker.queue /\ worker'.result = res
    BY <1>0, <2>1 DEF Ticks
  <2>3. res # 0 => gcal'[res].appt = item.appt
    BY <1>0, <2>1, CreateKeepsEvents
  <2>4. \A other \in worker.queue : IsFirst(other) => other.appt = item.appt
    BY <1>0, <2>1 DEF IsFirst, Ticks
  <2> QED BY <2>2, <2>3, <2>4 DEF WorkerOwnsEvent, IsFirst
<1>4. ASSUME WorkerTick \/ WorkerBreak \/ WorkerSave \/ WorkerFails PROVE worker'.pc # "save"
  <2>1. NoTick.pc = "idle" /\ \A batch : [NoTick EXCEPT !.pc = "push", !.queue = batch].pc = "push"
    BY DEF NoTick
  <2>2. \A rest : [pc |-> "push", queue |-> rest, result |-> 0].pc = "push"
    OBVIOUS
  <2> QED BY <1>4, <2>1, <2>2 DEF WorkerTick, WorkerBreak, WorkerSave, WorkerFails, Rest
<1>5. ASSUME NEW r \in Requests, RequestStarts(r) \/ RequestStep(r) \/ RequestFails(r)
      PROVE  UNCHANGED worker
  BY <1>5 DEF RequestStarts, StartCreate, StartEdit, StartCancel, StartRetry, RequestStep,
              CreateFreebusy, CreateBegin, CreateCheck, CreateInsert, EditRead, EditFreebusy,
              EditCheck, EditWrite, CancelWrite, CancelDrop, PushEvent, PushNotConnected, SaveSync,
              LockWaitFails, RequestFails
<1>6. ASSUME Disconnect \/ Connect \/ ClockTick \/ ServerIdle \/ UNCHANGED vars
      PROVE  UNCHANGED worker
  BY <1>6 DEF Disconnect, Connect, ClockTick, ServerIdle, vars
<1> QED BY <1>1, <1>2, <1>3, <1>4, <1>5, <1>6 DEF Next, WorkerStep

\* The invariant of the events holds at the start and is kept by every step.
LEMMA EventInvInductive ==
  /\ Init => EventInv
  /\ EventInv /\ [Next]_vars => EventInv'
<1>1. Init => EventInv
  <2> SUFFICES ASSUME Init PROVE EventInv
    OBVIOUS
  <2>1. /\ TypeOK /\ \A a \in ApptIds : appt[a].event = 0
        /\ \A r \in Requests : req[r].event = 0 /\ req[r].pc = "idle"
        /\ worker.pc = "idle"
    BY InitType DEF Init, NoRow, Idle, NoTick
  <2> QED BY <2>1 DEF EventInv, EventBelongsToRow, RequestsOwnEvents, WorkerOwnsEvent
<1>2. ASSUME EventInv, [Next]_vars PROVE EventInv'
  BY <1>2, NextType, RowsOwnEvents, RequestsStayOwners, WorkerStaysOwner DEF EventInv
<1> QED BY <1>1, <1>2

\* No row ever points at an event of another booking, whatever the order in
\* which handlers, retries and the worker write their results
\* (updateAppointmentGoogleSync in db/queries/appointments.js).
THEOREM RowsKeepTheirEvents == Spec => []EventBelongsToRow
<1>1. EventInv => EventBelongsToRow
  BY DEF EventInv
<1> QED BY <1>1, EventInvInductive, PTL DEF Spec

----------------------------------------
(* The diary.  Seen through Holder and Released, an insert is Book, an edit  *)
(* that moves is Move, a cancel is Release, and every other step is nothing. *)

\* Whoever holds or asks for a bucket names a real one.
SlotsNamed == /\ \A a \in ApptIds : Active(a) => appt[a].slot \in Slots
              /\ \A r \in Requests : req[r].op \in {"create", "edit"} => req[r].slot \in Slots

DiaryInv == SlotInv /\ SlotsNamed

\* What a request asks for is fixed when it comes in.
LEMMA AsksKept ==
  ASSUME TypeOK, [Next]_vars, NEW q \in Requests,
         req[q].op \in {"create", "edit"} => req[q].slot \in Slots
  PROVE  req'[q].op \in {"create", "edit"} => req'[q].slot \in Slots
<1> DEFINE Named(x) == x.op \in {"create", "edit"} => x.slot \in Slots
<1>0. TypeOK /\ req \in [Requests -> Request] /\ Named(req[q])
  BY DEF TypeOK
<1>1. ASSUME NEW r \in Requests, NEW rec, req' = [req EXCEPT ![r] = rec],
             Named(rec) \/ (rec.op = req[r].op /\ rec.slot = req[r].slot)
      PROVE  Named(req'[q])
  BY <1>0, <1>1
<1>2. ASSUME NEW r \in Requests, Abort(r) \/ Return(r) \/ (\E pc : Goto(r, pc))
      PROVE  Named(req'[q])
  <2>1. ASSUME NEW pc, req' = [req EXCEPT ![r] = [req[r] EXCEPT !.pc = pc]] PROVE Named(req'[q])
    <3> DEFINE rec == [req[r] EXCEPT !.pc = pc]
    <3>1. rec.op = req[r].op /\ rec.slot = req[r].slot /\ req' = [req EXCEPT ![r] = rec]
      BY <1>0, <2>1 DEF Request
    <3> HIDE DEF rec, Named
    <3> QED BY <1>1, <3>1
  <2>2. Idle.op = "none"
    BY DEF Idle
  <2>3. CASE Abort(r)
    BY <1>1, <2>2, <2>3 DEF Abort
  <2>4. ASSUME NEW pc, Goto(r, pc) PROVE Named(req'[q])
    <3>1. req' = [req EXCEPT ![r] = [req[r] EXCEPT !.pc = pc]]
      BY <1>0, <2>4 DEF Goto
    <3> HIDE DEF Named
    <3> QED BY <2>1, <3>1
  <2>5. CASE Return(r)
    <3> HIDE DEF Named
    <3>1. CASE req[r].then = "idle"
      <4>1. Named(Idle)
        BY <2>2 DEF Named
      <4> QED BY <1>1, <2>5, <3>1, <4>1 DEF Return
    <3>2. CASE req[r].then # "idle"
      <4>1. req' = [req EXCEPT ![r] = [req[r] EXCEPT !.pc = req[r].then]]
        BY <2>5, <3>2 DEF Return
      <4> QED BY <2>1, <4>1
    <3> QED BY <3>1, <3>2
  <2> QED BY <1>2, <2>3, <2>4, <2>5
<1>3. ASSUME NEW r \in Requests, RequestStarts(r) PROVE Named(req'[q])
  <2>1. ASSUME NEW op, NEW rec, Issue(r, op, rec), Named(rec) PROVE Named(req'[q])
    BY <1>1, <2>1 DEF Issue
  <2>2. ASSUME NEW e \in Enquiries, NEW s \in Slots, StartCreate(r, e, s) PROVE Named(req'[q])
    <3>1. Named([Idle EXCEPT !.op = "create", !.pc = "busy", !.enq = e, !.slot = s])
      BY DEF Idle
    <3> HIDE DEF Named
    <3> QED BY <2>1, <2>2, <3>1 DEF StartCreate
  <2>3. ASSUME NEW a \in ApptIds, NEW s \in Slots, StartEdit(r, a, s) PROVE Named(req'[q])
    <3>1. Named([Idle EXCEPT !.op = "edit", !.pc = "read", !.appt = a, !.slot = s])
      BY DEF Idle
    <3> HIDE DEF Named
    <3> QED BY <2>1, <2>3, <3>1 DEF StartEdit
  <2>4. ASSUME NEW a \in ApptIds, StartCancel(r, a) PROVE Named(req'[q])
    <3>1. Named([Idle EXCEPT !.op = "cancel", !.pc = "cancel", !.appt = a])
      BY DEF Idle
    <3> HIDE DEF Named
    <3> QED BY <2>1, <2>4, <3>1 DEF StartCancel
  <2>5. ASSUME NEW a \in ApptIds, StartRetry(r, a) PROVE Named(req'[q])
    <3>1. Named([Idle EXCEPT !.op = "retry", !.pc = "push", !.appt = a, !.slot = appt[a].slot])
      BY DEF Idle
    <3> HIDE DEF Named
    <3> QED BY <2>1, <2>5, <3>1 DEF StartRetry
  <2> HIDE DEF Named
  <2> QED BY <1>3, <2>2, <2>3, <2>4, <2>5 DEF RequestStarts
<1>4. ASSUME NEW r \in Requests, CreateInsert(r) \/ EditRead(r) \/ CancelWrite(r) \/ PushEvent(r)
      PROVE  Named(req'[q])
  <2>1. CASE Abort(r)
    BY <1>2, <2>1
  <2>2. CASE CreateInsert(r) /\ ~Abort(r)
    <3>1. PICK a \in ApptIds : req' = [req EXCEPT ![r] = [req[r] EXCEPT !.pc = "push", !.appt = a]]
      BY <1>0, <2>2, InsertEffect
    <3> QED BY <1>0, <3>1 DEF Request
  <2>3. CASE EditRead(r) /\ ~Abort(r)
    BY <1>0, <2>3, SMTT(30) DEF EditRead, Request
  <2>4. CASE CancelWrite(r) /\ ~Abort(r)
    <3> DEFINE rec == [req[r] EXCEPT !.pc = "drop", !.event = appt[req[r].appt].event,
                                     !.slot = appt[req[r].appt].slot]
    <3>1. req[r].op = "cancel" /\ req' = [req EXCEPT ![r] = rec]
      BY <1>0, <2>4, CancelEffect
    <3>2. rec.op = "cancel"
      BY <1>0, <3>1 DEF Request
    <3> HIDE DEF rec
    <3> QED BY <1>1, <3>1, <3>2
  <2>5. CASE PushEvent(r)
    BY <1>0, <2>5 DEF PushEvent, Request
  <2> QED BY <1>4, <2>1, <2>2, <2>3, <2>4, <2>5
<1>5. ASSUME NEW r \in Requests, RequestStep(r) \/ RequestFails(r),
             ~(CreateInsert(r) \/ EditRead(r) \/ CancelWrite(r) \/ PushEvent(r))
      PROVE  Named(req'[q])
  <2>1. (\E pc : Goto(r, pc)) \/ Abort(r) \/ Return(r)
    BY <1>5 DEF RequestStep, CreateFreebusy, CreateBegin, CreateCheck, EditFreebusy, EditCheck,
                EditWrite, CancelDrop, PushNotConnected, SaveSync, LockWaitFails, RequestFails
  <2> QED BY <1>2, <2>1
<1>6. ASSUME WorkerStep \/ WorkerFails \/ Disconnect \/ Connect \/ ClockTick \/ ServerIdle
             \/ UNCHANGED vars
      PROVE  Named(req'[q])
  <2>1. UNCHANGED req
    BY <1>6 DEF WorkerStep, WorkerTick, WorkerPush, WorkerBreak, WorkerSave, WorkerFails, Disconnect,
                Connect, ClockTick, ServerIdle, vars
  <2> QED BY <1>0, <2>1
<1>7. Named(req'[q])
  <2> HIDE DEF Named
  <2> QED BY <1>3, <1>4, <1>5, <1>6 DEF Next
<1> QED BY <1>7

\* Who holds a bucket is who is active in it.
LEMMA HolderIs ==
  ASSUME SlotExclusive
  PROVE  /\ Holder = [s \in Slots |-> Holder[s]]
         /\ \A s \in Slots : Holder[s] \in ApptIds \cup {0}
         /\ \A s \in Slots, a \in ApptIds : Holder[s] = a <=> Active(a) /\ appt[a].slot = s
<1>1. \A s \in Slots : Holder[s] = IF \E a \in ApptIds : Active(a) /\ appt[a].slot = s
                                     THEN CHOOSE a \in ApptIds : Active(a) /\ appt[a].slot = s
                                     ELSE 0
  BY DEF Holder
<1>2. Holder = [s \in Slots |-> Holder[s]]
  BY DEF Holder
<1>3. ASSUME NEW s \in Slots, NEW a \in ApptIds, Active(a), appt[a].slot = s
      PROVE  Holder[s] = a
  BY <1>1, <1>3 DEF SlotExclusive
<1>4. ASSUME NEW s \in Slots, ~ \E a \in ApptIds : Active(a) /\ appt[a].slot = s
      PROVE  Holder[s] = 0
  BY <1>1, <1>4
<1> QED BY <1>2, <1>3, <1>4

\* Whatever names the active row of every bucket is the next holder function.
LEMMA NextHolderIs ==
  ASSUME SlotExclusive',
         NEW f, f = [s \in Slots |-> f[s]], \A s \in Slots : f[s] \in ApptIds \cup {0},
         \A s \in Slots, a \in ApptIds :
           f[s] = a <=> appt'[a].status = "active" /\ appt'[a].slot = s
  PROVE  Holder' = f
<1>1. Holder' = [s \in Slots |-> IF \E a \in ApptIds : appt'[a].status = "active" /\ appt'[a].slot = s
                                  THEN CHOOSE a \in ApptIds : appt'[a].status = "active" /\ appt'[a].slot = s
                                  ELSE 0]
  BY DEF Holder, Active
<1>2. \A s \in Slots : Holder'[s] = f[s]
  <2> SUFFICES ASSUME NEW s \in Slots PROVE Holder'[s] = f[s]
    OBVIOUS
  <2>1. CASE \E a \in ApptIds : appt'[a].status = "active" /\ appt'[a].slot = s
    <3>1. PICK a \in ApptIds : appt'[a].status = "active" /\ appt'[a].slot = s
      BY <2>1
    <3>2. \A b \in ApptIds : appt'[b].status = "active" /\ appt'[b].slot = s => b = a
      BY <3>1 DEF SlotExclusive, Active
    <3> QED BY <1>1, <2>1, <3>1, <3>2
  <2>2. CASE ~ \E a \in ApptIds : appt'[a].status = "active" /\ appt'[a].slot = s
    BY <1>1, <2>2
  <2> QED BY <2>1, <2>2
<1> QED BY <1>1, <1>2

\* A step that leaves the bookings alone is not seen in the diary.
LEMMA SameBookingStutters ==
  ASSUME SlotInv, SlotInv', SameBooking
  PROVE  UNCHANGED Diary!bookVars
<1>1. SlotExclusive /\ SlotExclusive'
  BY DEF SlotInv
<1>2. \A a \in ApptIds : appt'[a].status = appt[a].status /\ appt'[a].slot = appt[a].slot
  BY DEF SameBooking
<1>3. Holder' = Holder
  BY <1>1, <1>2, HolderIs, NextHolderIs DEF Active
<1>4. Released' = Released
  BY <1>2 DEF Released
<1> QED BY <1>3, <1>4 DEF Diary!bookVars

\* The insert books a free bucket for a booking nobody has seen.
LEMMA InsertBooks ==
  ASSUME DiaryInv, SlotInv', NEW r \in Requests, CreateInsert(r), ~(Abort(r) /\ UNCHANGED dbVars)
  PROVE  Diary!BookNext
<1> DEFINE s == req[r].slot
<1>0. TypeOK /\ KeyIffActive /\ SlotExclusive /\ SlotExclusive' /\ s \in Slots
  BY DEF DiaryInv, SlotInv, LockInv, SlotsNamed, CreateInsert, At
<1>1. PICK a \in ApptIds :
        /\ ~KeyTaken(s, 0)
        /\ ~Exists(a)
        /\ appt'[a].slot = s /\ appt'[a].status = "active"
        /\ \A b \in ApptIds \ {a} : appt'[b] = appt[b]
  BY <1>0, InsertEffect
<1>2. \A b \in ApptIds : ~(Active(b) /\ appt[b].slot = s)
  BY <1>0, <1>1 DEF KeyTaken, KeyIffActive
<1>3. Holder[s] = 0
  BY <1>0, <1>2, HolderIs, SMTT(30)
<1>4. a \notin Diary!Held \cup Released
  BY <1>0, <1>1, HolderIs DEF Diary!Held, Released, Active, Exists
<1>5. Released' = Released
  BY <1>1 DEF Released, Exists
<1>6. Holder' = [Holder EXCEPT ![s] = a]
  <2> DEFINE f == [Holder EXCEPT ![s] = a]
  <2>1. /\ f = [t \in Slots |-> f[t]] /\ f[s] = a
        /\ \A t \in Slots : f[t] \in ApptIds \cup {0}
        /\ \A t \in Slots \ {s} : f[t] = Holder[t]
    BY <1>0, HolderIs
  <2>2. \A t \in Slots, b \in ApptIds : f[t] = b <=> appt'[b].status = "active" /\ appt'[b].slot = t
    <3> SUFFICES ASSUME NEW t \in Slots, NEW b \in ApptIds
                 PROVE  f[t] = b <=> appt'[b].status = "active" /\ appt'[b].slot = t
      OBVIOUS
    <3> HIDE DEF f
    <3>1. CASE b = a
      BY <1>0, <1>1, <2>1, <3>1, HolderIs DEF Active, Exists
    <3>2. CASE b # a
      BY <1>0, <1>1, <1>2, <2>1, <3>2, HolderIs, SMTT(30) DEF Active
    <3> QED BY <3>1, <3>2
  <2> HIDE DEF f
  <2>3. Holder' = f
    BY <1>0, <2>1, <2>2, NextHolderIs, SMTT(30)
  <2> QED BY <2>3 DEF f
<1> QED BY <1>0, <1>3, <1>4, <1>5, <1>6 DEF Diary!BookNext, Diary!Book

\* The edit moves its booking to a free bucket, or only touches its notes.
LEMMA EditMoves ==
  ASSUME DiaryInv, SlotInv', NEW r \in Requests, EditWrite(r), ~(Abort(r) /\ UNCHANGED dbVars)
  PROVE  Diary!BookNext \/ UNCHANGED Diary!bookVars
<1> DEFINE a == req[r].appt
           s == appt[a].slot
           t == req[r].slot
<1>0. TypeOK /\ LockInv /\ KeyIffActive /\ SlotExclusive /\ SlotExclusive'
  BY DEF DiaryInv, SlotInv, LockInv
<1>1. /\ req[r].op = "edit" /\ req[r].pc = "write" /\ a \in ApptIds
      /\ ~KeyTaken(t, a)
      /\ appt'[a].slot = t /\ appt'[a].status = appt[a].status
      /\ \A b \in ApptIds \ {a} : appt'[b] = appt[b]
  BY <1>0, EditEffect
<1>2. Active(a)
  BY <1>0, <1>1 DEF LockInv, ReadUnderLock
<1>3. s \in Slots /\ t \in Slots
  BY <1>1, <1>2 DEF DiaryInv, SlotsNamed
<1>4. \A b \in ApptIds \ {a} : ~(Active(b) /\ appt[b].slot = t)
  BY <1>0, <1>1 DEF KeyTaken, KeyIffActive
<1>5. Released' = Released
  BY <1>1 DEF Released
<1> HIDE DEF a, s, t
<1>6. CASE s = t
  <2>1. \A b \in ApptIds : appt'[b].status = appt[b].status /\ appt'[b].slot = appt[b].slot
    BY <1>1, <1>6 DEF s
  <2>2. Holder' = Holder
    BY <1>0, <2>1, HolderIs, NextHolderIs, SMTT(30) DEF Active
  <2> QED BY <1>5, <2>2 DEF Diary!bookVars
<1>7. CASE s # t
  <2>1. Holder[s] = a /\ Holder[t] = 0
    BY <1>0, <1>1, <1>2, <1>3, <1>4, <1>7, HolderIs DEF s
  <2> DEFINE f == [Holder EXCEPT ![s] = 0, ![t] = a]
  <2>2. /\ f = [u \in Slots |-> f[u]] /\ f[s] = 0 /\ f[t] = a
        /\ \A u \in Slots : f[u] \in ApptIds \cup {0}
        /\ \A u \in Slots \ {s, t} : f[u] = Holder[u]
    BY <1>0, <1>1, <1>3, <1>7, HolderIs
  <2> HIDE DEF f
  <2>3. ASSUME NEW u \in Slots, NEW b \in ApptIds
        PROVE  f[u] = b <=> appt'[b].status = "active" /\ appt'[b].slot = u
    <3>1. CASE b = a
      BY <1>0, <1>1, <1>2, <1>3, <1>7, <2>1, <2>2, <3>1, HolderIs DEF Active, s
    <3>2. CASE b # a
      BY <1>0, <1>1, <1>2, <1>3, <1>4, <1>7, <2>1, <2>2, <3>2, HolderIs DEF Active
    <3> QED BY <3>1, <3>2
  <2>4. Holder' = f
    BY <1>0, <2>2, <2>3, NextHolderIs
  <2> QED BY <1>1, <1>3, <1>5, <2>1, <2>4 DEF Diary!BookNext, Diary!Move, f
<1> QED BY <1>6, <1>7

\* The cancel gives the bucket back for good.
LEMMA CancelReleases ==
  ASSUME DiaryInv, SlotInv', NEW r \in Requests, CancelWrite(r), ~(Abort(r) /\ UNCHANGED dbVars)
  PROVE  Diary!BookNext
<1> DEFINE a == req[r].appt
           s == appt[a].slot
<1>0. TypeOK /\ SlotExclusive /\ SlotExclusive'
  BY DEF DiaryInv, SlotInv, LockInv
<1>1. /\ a \in ApptIds /\ Active(a) /\ appt'[a].status = "cancelled"
      /\ \A b \in ApptIds \ {a} : appt'[b] = appt[b]
  BY <1>0, CancelEffect
<1>2. s \in Slots
  BY <1>1 DEF DiaryInv, SlotsNamed
<1>3. Holder[s] = a
  BY <1>0, <1>1, <1>2, HolderIs
<1>4. Released' = Released \cup {a}
  BY <1>1 DEF Released, Active
<1> HIDE DEF a
<1> DEFINE f == [Holder EXCEPT ![s] = 0]
<1>5. /\ f = [u \in Slots |-> f[u]] /\ f[s] = 0
      /\ \A u \in Slots : f[u] \in ApptIds \cup {0}
      /\ \A u \in Slots \ {s} : f[u] = Holder[u]
  BY <1>0, <1>2, HolderIs
<1> HIDE DEF f
<1>6. ASSUME NEW u \in Slots, NEW b \in ApptIds
      PROVE  f[u] = b <=> appt'[b].status = "active" /\ appt'[b].slot = u
  <2>1. CASE b = a
    BY <1>0, <1>1, <1>2, <1>3, <1>5, <2>1, HolderIs DEF Active
  <2>2. CASE b # a
    BY <1>0, <1>1, <1>2, <1>3, <1>5, <2>2, HolderIs DEF Active
  <2> QED BY <2>1, <2>2
<1>7. Holder' = f
  BY <1>0, <1>5, <1>6, NextHolderIs
<1> QED BY <1>1, <1>2, <1>3, <1>4, <1>7 DEF Diary!BookNext, Diary!Release, f

\* What is named stays named.
LEMMA NamesKept ==
  ASSUME DiaryInv, [Next]_vars
  PROVE  SlotsNamed'
<1>0. TypeOK /\ LockInv /\ SlotsNamed
  BY DEF DiaryInv, SlotInv, LockInv
<1>1. \A r \in Requests : req'[r].op \in {"create", "edit"} => req'[r].slot \in Slots
  BY <1>0, AsksKept DEF SlotsNamed
<1>2. CASE SameBooking
  BY <1>0, <1>1, <1>2 DEF SlotsNamed, SameBooking, Active
<1>3. ASSUME NEW r \in Requests, CreateInsert(r), ~(Abort(r) /\ UNCHANGED dbVars)
      PROVE  SlotsNamed'
  <2>1. PICK a \in ApptIds : /\ appt'[a].slot = req[r].slot
                             /\ \A b \in ApptIds \ {a} : appt'[b] = appt[b]
    BY <1>0, <1>3, InsertEffect
  <2>2. req[r].slot \in Slots
    BY <1>0, <1>3 DEF SlotsNamed, CreateInsert, At
  <2> QED BY <1>0, <1>1, <2>1, <2>2 DEF SlotsNamed, Active
<1>4. ASSUME NEW r \in Requests, EditWrite(r), ~(Abort(r) /\ UNCHANGED dbVars)
      PROVE  SlotsNamed'
  <2>1. /\ appt'[req[r].appt].slot = req[r].slot /\ req[r].op = "edit"
        /\ \A b \in ApptIds \ {req[r].appt} : appt'[b] = appt[b]
    BY <1>0, <1>4, EditEffect
  <2>2. req[r].slot \in Slots
    BY <1>0, <2>1 DEF SlotsNamed
  <2> QED BY <1>0, <1>1, <2>1, <2>2 DEF SlotsNamed, Active
<1>5. ASSUME NEW r \in Requests, CancelWrite(r), ~(Abort(r) /\ UNCHANGED dbVars)
      PROVE  SlotsNamed'
  <2>1. /\ appt'[req[r].appt].status = "cancelled"
        /\ \A b \in ApptIds \ {req[r].appt} : appt'[b] = appt[b]
    BY <1>0, <1>5, CancelEffect
  <2> QED BY <1>0, <1>1, <2>1 DEF SlotsNamed, Active
<1>6. CASE UNCHANGED dbVars
  BY <1>2, <1>6 DEF SameBooking, dbVars
<1> QED BY <1>0, <1>2, <1>3, <1>4, <1>5, <1>6, OtherStepsKeep

\* The booking engine implements the diary of SlotBook: seen from outside, every
\* behaviour of the handlers, the worker and the calendar books free buckets,
\* moves bookings to free buckets and releases them for good, and nothing else.
THEOREM EngineImplementsDiary == Spec => ImplementsDiary
<1>1. Init => DiaryInv /\ Diary!BookInit
  <2> SUFFICES ASSUME Init PROVE DiaryInv /\ Diary!BookInit
    OBVIOUS
  <2>1. /\ SlotInv /\ \A a \in ApptIds : appt[a].status = "none"
        /\ \A r \in Requests : req[r].op = "none"
    BY SlotInvInductive DEF Init, NoRow, Idle
  <2>2. Holder = [s \in Slots |-> 0] /\ Released = {}
    BY <2>1 DEF Holder, Released, Active
  <2> QED BY <2>1, <2>2 DEF DiaryInv, SlotsNamed, Active, Diary!BookInit
<1>2. DiaryInv /\ [Next]_vars => DiaryInv'
  BY SlotInvInductive, NamesKept DEF DiaryInv
<1>3. DiaryInv /\ [Next]_vars => [Diary!BookNext]_Diary!bookVars
  <2> SUFFICES ASSUME DiaryInv, [Next]_vars PROVE Diary!BookNext \/ UNCHANGED Diary!bookVars
    OBVIOUS
  <2>1. SlotInv /\ SlotInv' /\ TypeOK
    BY SlotInvInductive DEF DiaryInv, SlotInv, LockInv
  <2>2. CASE UNCHANGED dbVars
    <3>1. SameBooking
      BY <2>2 DEF SameBooking, dbVars
    <3> QED BY <2>1, <3>1, SameBookingStutters
  <2>3. CASE \A r \in Requests : ~(CreateInsert(r) \/ EditWrite(r) \/ CancelWrite(r))
    BY <2>1, <2>3, OtherStepsKeep, SameBookingStutters
  <2> QED BY <2>1, <2>2, <2>3, InsertBooks, EditMoves, CancelReleases
<1> QED BY <1>1, <1>2, <1>3, PTL DEF Spec, ImplementsDiary, Diary!BookSpec

=============================================================================
