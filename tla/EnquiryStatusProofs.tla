------------------------ MODULE EnquiryStatusProofs ------------------------
(***************************************************************************)
(* Proofs about the status changes of leads, for every number of requests, *)
(* enquiries and columns: the timeline explains the lead, the promises of   *)
(* the booking engine survive the third kind of request, and the calendar  *)
(* shows the bookings when one request runs at a time.                     *)
(***************************************************************************)
EXTENDS EnquiryStatus, AppointmentsProofs

USE BoundAssumption DEF ApptIds, Slots, EventIds

-----------------------------------------------------------------------------
(* Timelines                                                                *)

Codes   == Values \cup {Cleared}
Changes == [from : Codes, to : Codes]

\* What a timeline says of a column that now has the value v.
Explains(h, v) == /\ \A i \in 2..Len(h) : h[i].from = h[i-1].to
                  /\ Len(h) > 0 => h[Len(h)].to = v

\* An entry that starts at the column's value goes on with the timeline.
LEMMA EntryGoesOn ==
  ASSUME NEW h \in Seq(Changes), NEW v \in Codes, NEW w \in Codes, Explains(h, v)
  PROVE  /\ Append(h, [from |-> v, to |-> w]) \in Seq(Changes)
         /\ Explains(Append(h, [from |-> v, to |-> w]), w)
<1> DEFINE x == [from |-> v, to |-> w]
           k == Append(h, x)
<1>1. x \in Changes /\ x.from = v /\ x.to = w
  BY DEF Changes
<1> HIDE DEF x
<1>2. /\ k \in Seq(Changes) /\ Len(k) = Len(h) + 1 /\ Len(h) \in Nat
      /\ \A i \in 1..Len(h) : k[i] = h[i]
      /\ k[Len(h) + 1] = x
  BY <1>1
<1> HIDE DEF k
<1>3. ASSUME NEW i \in 2..Len(k) PROVE k[i].from = k[i-1].to
  <2>1. CASE i = Len(k)
    <3>1. k[i] = x /\ i - 1 = Len(h) /\ Len(h) \in 1..Len(h) /\ Len(h) > 0
      BY <1>2, <2>1
    <3>2. k[i-1] = h[Len(h)] /\ h[Len(h)].to = v
      BY <1>2, <3>1 DEF Explains
    <3> QED BY <1>1, <3>1, <3>2
  <2>2. CASE i # Len(k)
    <3>1. i \in 2..Len(h) /\ i \in 1..Len(h) /\ i - 1 \in 1..Len(h)
      BY <1>2, <2>2
    <3>2. k[i] = h[i] /\ k[i-1] = h[i-1]
      BY <1>2, <3>1
    <3> QED BY <3>1, <3>2 DEF Explains
  <2> QED BY <2>1, <2>2
<1>4. k[Len(k)].to = w
  BY <1>1, <1>2
<1>5. k \in Seq(Changes) /\ Explains(k, w)
  BY <1>2, <1>3, <1>4 DEF Explains
<1> QED BY <1>5 DEF k, x

-----------------------------------------------------------------------------
(* Who changes a lead.  A request that is to change a lead has its enquiry,  *)
(* through the booking it may make first and up to the end.                  *)

FollowUp(x) == /\ x.then = "status" => x.op = "create" /\ x.enq \in Enquiries
               /\ x.pc \in {"status", "sweep"} => x.enq \in Enquiries

FollowUps == \A r \in Requests : FollowUp(req[r])

\* The booking engine keeps what a request goes on with.
LEMMA FollowUpsKept ==
  ASSUME TypeOK, FollowUps, [Next]_vars
  PROVE  FollowUps'
<1>0. TypeOK /\ req \in [Requests -> Request] /\ \A q \in Requests : FollowUp(req[q])
  BY DEF TypeOK, FollowUps
<1>1. ASSUME NEW r \in Requests, NEW rec, req' = [req EXCEPT ![r] = rec], FollowUp(rec)
      PROVE  FollowUps'
  BY <1>0, <1>1 DEF FollowUps
<1>2. ASSUME NEW r \in Requests, NEW rec, req' = [req EXCEPT ![r] = rec],
             rec.op = req[r].op, rec.enq = req[r].enq, rec.then = req[r].then,
             rec.pc \in {"status", "sweep"} => req[r].then = "status"
      PROVE  FollowUps'
  <2>1. FollowUp(req[r])
    BY <1>0
  <2>2. FollowUp(rec)
    BY <1>2, <2>1 DEF FollowUp
  <2> QED BY <1>1, <1>2, <2>2
<1>3. FollowUp(Idle)
  BY DEF FollowUp, Idle
<1>4. ASSUME NEW r \in Requests, Abort(r) PROVE FollowUps'
  BY <1>1, <1>3, <1>4 DEF Abort
<1>5. ASSUME NEW r \in Requests, NEW pc, pc \notin {"status", "sweep"} \/ req[r].then = "status",
             req' = [req EXCEPT ![r] = [req[r] EXCEPT !.pc = pc]]
      PROVE  FollowUps'
  <2> DEFINE rec == [req[r] EXCEPT !.pc = pc]
  <2>1. /\ rec.op = req[r].op /\ rec.enq = req[r].enq /\ rec.then = req[r].then /\ rec.pc = pc
        /\ req' = [req EXCEPT ![r] = rec]
    BY <1>0, <1>5 DEF Request
  <2> HIDE DEF rec
  <2> QED BY <1>2, <1>5, <2>1
<1>6. ASSUME NEW r \in Requests, NEW pc, pc \notin {"status", "sweep"}, Goto(r, pc) PROVE FollowUps'
  <2>1. req' = [req EXCEPT ![r] = [req[r] EXCEPT !.pc = pc]]
    BY <1>0, <1>6 DEF Goto
  <2> QED BY <1>5, <1>6, <2>1
<1>7. ASSUME NEW r \in Requests, Return(r) PROVE FollowUps'
  <2>1. CASE req[r].then = "idle"
    <3>1. req' = [req EXCEPT ![r] = Idle]
      BY <1>7, <2>1 DEF Return
    <3> QED BY <1>1, <1>3, <3>1
  <2>2. CASE req[r].then # "idle"
    <3>1. req[r].then = "status"
      BY <1>0, <2>2 DEF Request
    <3>2. req' = [req EXCEPT ![r] = [req[r] EXCEPT !.pc = req[r].then]]
      BY <1>7, <2>2 DEF Return
    <3> QED BY <1>5, <3>1, <3>2
  <2> QED BY <2>1, <2>2
<1>8. ASSUME NEW r \in Requests, RequestStarts(r) PROVE FollowUps'
  <2>1. ASSUME NEW op, NEW rec, Issue(r, op, rec), FollowUp(rec) PROVE FollowUps'
    BY <1>1, <2>1 DEF Issue
  <2>2. ASSUME NEW e \in Enquiries, NEW s \in Slots, StartCreate(r, e, s) PROVE FollowUps'
    <3>1. FollowUp([Idle EXCEPT !.op = "create", !.pc = "busy", !.enq = e, !.slot = s])
      BY DEF Idle, FollowUp
    <3> QED BY <2>1, <2>2, <3>1 DEF StartCreate
  <2>3. ASSUME NEW a \in ApptIds, NEW s \in Slots, StartEdit(r, a, s) PROVE FollowUps'
    <3>1. FollowUp([Idle EXCEPT !.op = "edit", !.pc = "read", !.appt = a, !.slot = s])
      BY DEF Idle, FollowUp
    <3> QED BY <2>1, <2>3, <3>1 DEF StartEdit
  <2>4. ASSUME NEW a \in ApptIds, StartCancel(r, a) PROVE FollowUps'
    <3>1. FollowUp([Idle EXCEPT !.op = "cancel", !.pc = "cancel", !.appt = a])
      BY DEF Idle, FollowUp
    <3> QED BY <2>1, <2>4, <3>1 DEF StartCancel
  <2>5. ASSUME NEW a \in ApptIds, StartRetry(r, a) PROVE FollowUps'
    <3>1. FollowUp([Idle EXCEPT !.op = "retry", !.pc = "push", !.appt = a, !.slot = appt[a].slot])
      BY DEF Idle, FollowUp
    <3> QED BY <2>1, <2>5, <3>1 DEF StartRetry
  <2> QED BY <1>8, <2>2, <2>3, <2>4, <2>5 DEF RequestStarts
<1>9. ASSUME NEW r \in Requests, CreateInsert(r) PROVE FollowUps'
  <2>1. CASE Abort(r)
    BY <1>4, <2>1
  <2>2. CASE ~Abort(r)
    <3>1. PICK a \in ApptIds : req' = [req EXCEPT ![r] = [req[r] EXCEPT !.pc = "push", !.appt = a]]
      BY <1>0, <1>9, <2>2, InsertEffect
    <3> DEFINE rec == [req[r] EXCEPT !.pc = "push", !.appt = a]
    <3>2. rec.op = req[r].op /\ rec.enq = req[r].enq /\ rec.then = req[r].then /\ rec.pc = "push"
      BY <1>0 DEF Request
    <3>3. req' = [req EXCEPT ![r] = rec]
      BY <3>1
    <3> HIDE DEF rec
    <3> QED BY <1>2, <3>2, <3>3
  <2> QED BY <2>1, <2>2
<1>10. ASSUME NEW r \in Requests, EditRead(r) PROVE FollowUps'
  <2>1. CASE Abort(r)
    BY <1>4, <2>1
  <2>2. CASE ~Abort(r)
    <3> DEFINE b   == appt[req[r].appt]
               rec == [req[r] EXCEPT !.enq = b.enq, !.from = b.slot, !.event = b.event,
                         !.moved = b.key # req[r].slot,
                         !.pc = IF b.key # req[r].slot THEN "busy" ELSE "write"]
    <3>1. req[r].op = "edit" /\ req' = [req EXCEPT ![r] = rec]
      BY <1>0, <1>10, <2>2 DEF EditRead, At, Abort
    <3>2. rec.op = "edit" /\ rec.then = req[r].then /\ rec.pc \in {"busy", "write"}
      BY <1>0, <3>1 DEF Request
    <3>3. req[r].then # "status"
      BY <1>0, <3>1 DEF FollowUp
    <3> HIDE DEF rec
    <3>4. FollowUp(rec)
      BY <3>2, <3>3 DEF FollowUp
    <3> QED BY <1>1, <3>1, <3>4
  <2> QED BY <2>1, <2>2
<1>11. ASSUME NEW r \in Requests, CancelWrite(r) PROVE FollowUps'
  <2>1. CASE Abort(r)
    BY <1>4, <2>1
  <2>2. CASE ~Abort(r)
    <3> DEFINE rec == [req[r] EXCEPT !.pc = "drop", !.event = appt[req[r].appt].event,
                                     !.slot = appt[req[r].appt].slot]
    <3>1. req' = [req EXCEPT ![r] = rec]
      BY <1>0, <1>11, <2>2, CancelEffect
    <3>2. rec.op = req[r].op /\ rec.enq = req[r].enq /\ rec.then = req[r].then /\ rec.pc = "drop"
      BY <1>0 DEF Request
    <3> HIDE DEF rec
    <3> QED BY <1>2, <3>1, <3>2
  <2> QED BY <2>1, <2>2
<1>12. ASSUME NEW r \in Requests, PushEvent(r) PROVE FollowUps'
  <2>1. PICK res \in 0..MaxEvents : req' = [req EXCEPT ![r].pc = "save", ![r].result = res]
    BY <1>12 DEF PushEvent
  <2> DEFINE rec == [req[r] EXCEPT !.pc = "save", !.result = res]
  <2>2. /\ rec.op = req[r].op /\ rec.enq = req[r].enq /\ rec.then = req[r].then /\ rec.pc = "save"
        /\ req' = [req EXCEPT ![r] = rec]
    BY <1>0, <2>1 DEF Request
  <2> HIDE DEF rec
  <2> QED BY <1>2, <2>2
<1>13. ASSUME NEW r \in Requests, RequestStep(r) \/ RequestFails(r),
              ~(CreateInsert(r) \/ EditRead(r) \/ CancelWrite(r) \/ PushEvent(r))
       PROVE  FollowUps'
  <2>1. (\E pc : pc \notin {"status", "sweep"} /\ Goto(r, pc)) \/ Abort(r) \/ Return(r)
    <3>1. \A pc \in {"begin", "check", "insert", "write", "push"} : pc \notin {"status", "sweep"}
      OBVIOUS
    <3>2. \/ \E pc \in {"begin", "check", "insert", "write", "push"} : Goto(r, pc)
          \/ Abort(r) \/ Return(r)
      BY <1>13 DEF RequestStep, CreateFreebusy, CreateBegin, CreateCheck, EditFreebusy, EditCheck,
                   EditWrite, CancelDrop, PushNotConnected, SaveSync, LockWaitFails, RequestFails
    <3> QED BY <3>1, <3>2
  <2> QED BY <1>4, <1>6, <1>7, <2>1
<1>14. ASSUME WorkerStep \/ WorkerFails \/ Disconnect \/ Connect \/ ClockTick \/ ServerIdle
              \/ UNCHANGED vars
       PROVE  FollowUps'
  <2>1. UNCHANGED req
    BY <1>14 DEF WorkerStep, WorkerTick, WorkerPush, WorkerBreak, WorkerSave, WorkerFails, Disconnect,
                 Connect, ClockTick, ServerIdle, vars
  <2> QED BY <1>0, <2>1 DEF FollowUps
<1> QED BY <1>8, <1>9, <1>10, <1>11, <1>12, <1>13, <1>14 DEF Next

-----------------------------------------------------------------------------
(* The steps of changeStatus: what they do to the requests.                  *)

\* A step that replaces one request, and writes neither a booking nor a lock.
LEMMA LeadRequestKeeps ==
  ASSUME SlotInv, FollowUps, NEW r \in Requests, NEW rec \in Request,
         req' = [req EXCEPT ![r] = rec],
         UNCHANGED <<now, appt, hist, lock, worker, gcal, connected, mail, faults>>,
         issued' \in 0..MaxIssued,
         ~Holds(req[r]), ~Holds(rec), FollowUp(rec),
         rec.op = "create" => rec.enq \in Enquiries,
         (rec.op \in {"edit", "cancel", "retry"} \/ rec.pc \in {"drop", "push", "save"})
            => rec.appt \in ApptIds
  PROVE  SlotInv' /\ FollowUps'
<1>0. LockInv /\ TypeOK
  BY DEF SlotInv, LockInv
<1>1. SameBooking
  BY DEF SameBooking
<1>2. TypeOK'
  BY <1>0, RequestUpdate DEF TypeOK
<1>3. Disciplined(rec)
  BY DEF Disciplined, Holds
<1>4. LocksMatchTx'
  BY <1>0, LockStep
<1>5. LocksMatchTx' /\ ReadUnderLock' /\ OwnEnquiry'
  BY <1>0, <1>1, <1>3, <1>4, RequestKeeps
<1>6. KeyIffActive' /\ SlotExclusive'
  BY <1>1, SameBookingSlots
<1>7. FollowUps'
  BY <1>0 DEF FollowUps, TypeOK
<1> QED BY <1>2, <1>5, <1>6, <1>7 DEF SlotInv, LockInv

\* The request comes in: with a booking to make first, or without.
LEMMA StartStatusKeeps ==
  ASSUME SlotInv, FollowUps, NEW r \in Requests, NEW e \in Enquiries, NEW to \in Targets,
         NEW s \in 0..MaxSlot, StartStatus(r, e, to, s)
  PROVE  SlotInv' /\ FollowUps'
<1>0. TypeOK /\ req \in [Requests -> Request] /\ issued \in 0..MaxIssued
  BY DEF SlotInv, LockInv, TypeOK
<1>1. /\ UNCHANGED <<now, appt, hist, lock, worker, gcal, connected, mail, faults>>
      /\ req[r].pc = "idle" /\ issued < MaxIssued /\ issued' = issued + 1
  BY DEF StartStatus, Issue, dbVars
<1>2. ~Holds(req[r]) /\ issued' \in 0..MaxIssued
  BY <1>0, <1>1 DEF Holds
<1>3. CASE s = 0
  <2> DEFINE rec == [Idle EXCEPT !.pc = "status", !.enq = e]
  <2>1. req' = [req EXCEPT ![r] = rec]
    BY <1>3 DEF StartStatus, Issue
  <2>2. rec \in Request
    BY IdleType DEF Request, Points
  <2>3. rec.op = "none" /\ rec.pc = "status" /\ rec.enq = e /\ rec.then = "idle"
    BY DEF Idle
  <2> HIDE DEF rec
  <2>4. ~Holds(rec) /\ FollowUp(rec)
    BY <2>3 DEF Holds, FollowUp
  <2> QED BY <1>1, <1>2, <2>1, <2>2, <2>3, <2>4, LeadRequestKeeps
<1>4. CASE s # 0
  <2> DEFINE rec == [Idle EXCEPT !.op = "create", !.pc = "busy", !.enq = e,
                                 !.slot = s, !.then = "status"]
  <2>1. req' = [req EXCEPT ![r] = rec]
    BY <1>4 DEF StartStatus, Issue
  <2>2. rec \in Request
    BY IdleType DEF Request, Points
  <2>3. rec.op = "create" /\ rec.pc = "busy" /\ rec.enq = e /\ rec.then = "status"
    BY DEF Idle
  <2> HIDE DEF rec
  <2>4. ~Holds(rec) /\ FollowUp(rec)
    BY <2>3 DEF Holds, FollowUp
  <2> QED BY <1>1, <1>2, <2>1, <2>2, <2>3, <2>4, LeadRequestKeeps
<1> QED BY <1>3, <1>4

\* The second transaction goes on to the sweep or answers.
LEMMA StatusWriteKeeps ==
  ASSUME SlotInv, FollowUps, NEW r \in Requests, StatusWrite(r)
  PROVE  SlotInv' /\ FollowUps'
<1>0. /\ TypeOK /\ req \in [Requests -> Request] /\ req[r] \in Request /\ issued \in 0..MaxIssued
      /\ FollowUp(req[r]) /\ req[r].pc = "status"
      /\ OnBooking(r) => req[r].appt \in ApptIds
      /\ req[r].op = "create" => req[r].enq \in Enquiries
  BY DEF SlotInv, LockInv, OwnEnquiry, TypeOK, FollowUps, StatusWrite
<1>1. UNCHANGED <<now, appt, hist, lock, worker, gcal, connected, mail, faults, issued>>
  BY DEF StatusWrite, dbVars
<1>2. ~Holds(req[r])
  BY <1>0 DEF Holds
<1>3. CASE Goto(r, "sweep")
  <2> DEFINE rec == [req[r] EXCEPT !.pc = "sweep"]
  <2>1. req' = [req EXCEPT ![r] = rec]
    BY <1>0, <1>3 DEF Goto
  <2>2. /\ rec \in Request /\ rec.op = req[r].op /\ rec.enq = req[r].enq /\ rec.then = req[r].then
        /\ rec.appt = req[r].appt /\ rec.pc = "sweep"
    BY <1>0 DEF Request, Points
  <2> HIDE DEF rec
  <2>3. ~Holds(rec) /\ FollowUp(rec)
    BY <1>0, <2>2 DEF Holds, FollowUp
  <2>4. rec.op \in {"edit", "cancel", "retry"} => rec.appt \in ApptIds
    BY <1>0, <2>2 DEF OnBooking
  <2> QED BY <1>0, <1>1, <1>2, <2>1, <2>2, <2>3, <2>4, LeadRequestKeeps
<1>4. CASE req' = [req EXCEPT ![r] = Idle]
  <2>1. ~Holds(Idle) /\ FollowUp(Idle) /\ Idle.op = "none" /\ Idle.pc = "idle"
    BY DEF Idle, Holds, FollowUp
  <2> QED BY <1>0, <1>1, <1>2, <1>4, <2>1, IdleType, LeadRequestKeeps
<1> QED BY <1>3, <1>4 DEF StatusWrite

\* After it a closed lead may lose a booking, by a cancel like any other.
LEMMA SweepKeeps ==
  ASSUME SlotInv, FollowUps, NEW r \in Requests, Sweep(r)
  PROVE  SlotInv' /\ FollowUps'
<1>0. /\ TypeOK /\ req \in [Requests -> Request] /\ issued \in 0..MaxIssued /\ req[r].pc = "sweep"
  BY DEF SlotInv, LockInv, TypeOK, Sweep
<1>1. UNCHANGED <<now, appt, hist, lock, worker, gcal, connected, mail, faults, issued>>
  BY DEF Sweep, dbVars
<1>2. ~Holds(req[r])
  BY <1>0 DEF Holds
<1>3. ASSUME NEW a \in ApptIds,
             req' = [req EXCEPT ![r] = [Idle EXCEPT !.op = "cancel", !.pc = "cancel", !.appt = a]]
      PROVE  SlotInv' /\ FollowUps'
  <2> DEFINE rec == [Idle EXCEPT !.op = "cancel", !.pc = "cancel", !.appt = a]
  <2>1. a \in 0..MaxAppts
    OBVIOUS
  <2>2. rec \in Request
    BY <2>1, IdleType, StartRecord, Zenon
  <2>3. rec.op = "cancel" /\ rec.pc = "cancel" /\ rec.appt = a /\ rec.then = "idle"
    BY DEF Idle
  <2>4. req' = [req EXCEPT ![r] = rec]
    BY <1>3
  <2> HIDE DEF rec
  <2>5. ~Holds(rec) /\ FollowUp(rec)
    BY <2>3 DEF Holds, FollowUp
  <2> QED BY <1>0, <1>1, <1>2, <2>2, <2>3, <2>4, <2>5, LeadRequestKeeps
<1>4. CASE req' = [req EXCEPT ![r] = Idle]
  <2>1. ~Holds(Idle) /\ FollowUp(Idle) /\ Idle.op = "none" /\ Idle.pc = "idle"
    BY DEF Idle, Holds, FollowUp
  <2> QED BY <1>0, <1>1, <1>2, <1>4, <2>1, IdleType, LeadRequestKeeps
<1> QED BY <1>3, <1>4 DEF Sweep, LatestActive

-----------------------------------------------------------------------------
(* The invariant of the leads                                                *)

LeadColumns ==
  /\ lead \in [Enquiries -> [Fields -> Codes]]
  /\ \A e \in Enquiries, f \in Fields : lead[e][f] = Cleared => f = "lead_rating"
  /\ target \in [Requests -> Targets \cup {NoTarget}]
  /\ timeline \in [Enquiries -> [Fields -> Seq(Changes)]]
  /\ \A e \in Enquiries, f \in Fields : Explains(timeline[e][f], lead[e][f])

LeadInv == SlotInv /\ FollowUps /\ LeadColumns

\* What a request asks for, column by column.
LEMMA TargetFields ==
  ASSUME NEW t \in Targets \cup {NoTarget}, NEW f \in Fields
  PROVE  /\ t[f] # Keep => t[f] \in Codes
         /\ t[f] = Cleared => f = "lead_rating"
  BY ValueAssumption DEF Targets, NoTarget, Codes

\* The second transaction leaves the columns and their timelines in step.
LEMMA StatusWriteColumns ==
  ASSUME LeadInv, NEW r \in Requests, StatusWrite(r)
  PROVE  LeadColumns'
<1> DEFINE e  == req[r].enq
           to == target[r]
           v(f) == IF to[f] = Keep THEN lead[e][f] ELSE to[f]
           h(f) == IF Recorded(e, f, to[f])
                     THEN Append(timeline[e][f], [from |-> lead[e][f], to |-> to[f]])
                     ELSE timeline[e][f]
<1>0. /\ lead \in [Enquiries -> [Fields -> Codes]]
      /\ \A d \in Enquiries, f \in Fields : lead[d][f] = Cleared => f = "lead_rating"
      /\ target \in [Requests -> Targets \cup {NoTarget}]
      /\ timeline \in [Enquiries -> [Fields -> Seq(Changes)]]
      /\ \A d \in Enquiries, f \in Fields : Explains(timeline[d][f], lead[d][f])
  BY DEF LeadInv, LeadColumns
<1>1. e \in Enquiries
  BY DEF LeadInv, FollowUps, FollowUp, StatusWrite
<1>2. /\ lead' = [lead EXCEPT ![e] = [f \in Fields |-> v(f)]]
      /\ timeline' = [timeline EXCEPT ![e] = [f \in Fields |-> h(f)]]
  BY DEF StatusWrite
<1>3. target' \in [Requests -> Targets \cup {NoTarget}]
  BY <1>0 DEF StatusWrite
<1>4. ASSUME NEW f \in Fields
      PROVE  /\ v(f) \in Codes
             /\ v(f) = Cleared => f = "lead_rating"
             /\ h(f) \in Seq(Changes)
             /\ Explains(h(f), v(f))
  <2>1. /\ lead[e][f] \in Codes /\ (lead[e][f] = Cleared => f = "lead_rating")
        /\ timeline[e][f] \in Seq(Changes) /\ Explains(timeline[e][f], lead[e][f])
        /\ to \in Targets \cup {NoTarget}
    BY <1>0, <1>1
  <2>2. (to[f] # Keep => to[f] \in Codes) /\ (to[f] = Cleared => f = "lead_rating")
    BY <2>1, TargetFields
  <2>3. v(f) \in Codes /\ (v(f) = Cleared => f = "lead_rating")
    BY <2>1, <2>2
  <2>4. CASE Recorded(e, f, to[f])
    <3>1. to[f] # Keep
      BY <2>4 DEF Recorded
    <3>2. /\ to[f] \in Codes /\ v(f) = to[f]
          /\ h(f) = Append(timeline[e][f], [from |-> lead[e][f], to |-> to[f]])
      BY <2>2, <2>4, <3>1
    <3> HIDE DEF v, h, e, to
    <3> QED BY <2>1, <2>3, <3>2, EntryGoesOn
  <2>5. CASE ~Recorded(e, f, to[f])
    <3>1. v(f) = lead[e][f]
      BY <2>5 DEF Recorded
    <3>2. h(f) = timeline[e][f]
      BY <2>5
    <3> QED BY <2>1, <2>3, <3>1, <3>2
  <2> QED BY <2>4, <2>5
<1> HIDE DEF v, h, e, to
<1>5. ASSUME NEW d \in Enquiries, NEW f \in Fields
      PROVE  /\ lead'[d][f] \in Codes
             /\ lead'[d][f] = Cleared => f = "lead_rating"
             /\ timeline'[d][f] \in Seq(Changes)
             /\ Explains(timeline'[d][f], lead'[d][f])
  <2>1. CASE d = e
    <3>1. lead'[d][f] = v(f) /\ timeline'[d][f] = h(f)
      BY <1>0, <1>1, <1>2, <2>1
    <3> QED BY <1>4, <3>1
  <2>2. CASE d # e
    <3>1. lead'[d][f] = lead[d][f] /\ timeline'[d][f] = timeline[d][f]
      BY <1>0, <1>1, <1>2, <2>2
    <3> QED BY <1>0, <3>1
  <2> QED BY <2>1, <2>2
<1>6. lead' \in [Enquiries -> [Fields -> Codes]]
  <2>1. [f \in Fields |-> v(f)] \in [Fields -> Codes]
    BY <1>4
  <2> QED BY <1>0, <1>2, <2>1
<1>7. timeline' \in [Enquiries -> [Fields -> Seq(Changes)]]
  <2>1. [f \in Fields |-> h(f)] \in [Fields -> Seq(Changes)]
    BY <1>4
  <2> QED BY <1>0, <1>2, <2>1
<1> QED BY <1>3, <1>5, <1>6, <1>7 DEF LeadColumns

\* The invariant of the leads holds at the start and in every step.
LEMMA LeadInvInductive ==
  /\ LeadInit => LeadInv
  /\ LeadInv /\ [LeadNext]_allVars => LeadInv'
<1>1. LeadInit => LeadInv
  <2> SUFFICES ASSUME LeadInit PROVE LeadInv
    OBVIOUS
  <2>1. SlotInv
    BY SlotInvInductive DEF LeadInit
  <2>2. FollowUps
    <3>1. FollowUp(Idle)
      BY DEF FollowUp, Idle
    <3> QED BY <3>1 DEF FollowUps, LeadInit, Init
  <2>3. PICK v \in Values \ Closed :
          lead = [e \in Enquiries |-> [f \in Fields |-> IF f = "lead_rating" THEN Cleared ELSE v]]
    BY DEF LeadInit
  <2>4. /\ timeline = [e \in Enquiries |-> [f \in Fields |-> <<>>]]
        /\ target = [r \in Requests |-> NoTarget]
    BY DEF LeadInit
  <2>5. <<>> \in Seq(Changes) /\ \A w : Explains(<<>>, w)
    BY DEF Explains
  <2>6. v # Cleared /\ v \in Codes /\ Cleared \in Codes
    BY ValueAssumption DEF Codes
  <2>7. LeadColumns
    BY <2>3, <2>4, <2>5, <2>6 DEF LeadColumns
  <2> QED BY <2>1, <2>2, <2>7 DEF LeadInv
<1>2. ASSUME LeadInv, [LeadNext]_allVars PROVE LeadInv'
  <2>0. SlotInv /\ FollowUps /\ LeadColumns /\ TypeOK
    BY <1>2 DEF LeadInv, SlotInv, LockInv
  <2>1. CASE [Next]_vars /\ UNCHANGED leadVars
    <3>1. SlotInv'
      BY <2>0, <2>1, SlotInvInductive
    <3>2. FollowUps'
      BY <2>0, <2>1, FollowUpsKept
    <3>3. LeadColumns'
      BY <2>0, <2>1 DEF leadVars, LeadColumns
    <3> QED BY <3>1, <3>2, <3>3 DEF LeadInv
  <2>2. ASSUME NEW r \in Requests, NEW e \in Enquiries, NEW to \in Targets, NEW s \in 0..MaxSlot,
               StartStatus(r, e, to, s)
        PROVE  LeadInv'
    <3>1. SlotInv' /\ FollowUps'
      BY <2>0, <2>2, StartStatusKeeps
    <3>2. UNCHANGED <<lead, timeline>> /\ target' = [target EXCEPT ![r] = to]
      BY <2>2 DEF StartStatus
    <3>3. LeadColumns'
      BY <2>0, <3>2 DEF LeadColumns
    <3> QED BY <3>1, <3>3 DEF LeadInv
  <2>3. ASSUME NEW r \in Requests, StatusWrite(r) PROVE LeadInv'
    BY <1>2, <2>0, <2>3, StatusWriteKeeps, StatusWriteColumns DEF LeadInv
  <2>4. ASSUME NEW r \in Requests, Sweep(r) PROVE LeadInv'
    <3>1. SlotInv' /\ FollowUps'
      BY <2>0, <2>4, SweepKeeps
    <3>2. UNCHANGED <<lead, timeline>> /\ target' = [target EXCEPT ![r] = NoTarget]
      BY <2>4 DEF Sweep
    <3>3. LeadColumns'
      BY <2>0, <3>2 DEF LeadColumns
    <3> QED BY <3>1, <3>3 DEF LeadInv
  <2>5. CASE UNCHANGED allVars
    BY <2>1, <2>5 DEF allVars, vars, leadVars
  <2> QED BY <1>2, <2>1, <2>2, <2>3, <2>4, <2>5 DEF LeadNext, StatusStep
<1> QED BY <1>1, <1>2

\* The timeline of each column of a lead is unbroken and ends at the value the
\* column has, however many requests change the lead at once and wherever they
\* die (changeStatus, crm_status_history).
THEOREM LeadsAreExplained == LeadSpec => []TimelineExplainsLead
<1>1. LeadInv => TimelineExplainsLead
  BY DEF LeadInv, LeadColumns, SlotInv, LockInv, TimelineExplainsLead, LeadTypeOK, Explains, Codes
<1> QED BY <1>1, LeadInvInductive, PTL DEF LeadSpec

\* Bookings that come in through a status change, and those it cancels, keep two
\* active appointments out of one bucket like any other.
THEOREM LeadsKeepSlotsExclusive == LeadSpec => []SlotExclusive
<1>1. LeadInv => SlotExclusive
  BY DEF LeadInv, SlotInv
<1> QED BY <1>1, LeadInvInductive, PTL DEF LeadSpec

-----------------------------------------------------------------------------
(* One request at a time on a calendar that answers: what a request owes the  *)
(* calendar is the only difference between the bookings and the events, and   *)
(* it is paid when the request ends.                                          *)

\* One request at a time, no failure, the calendar linked throughout, and neither
\* the worker nor a retry pushes what a handler has already pushed.
OneAdmin == /\ \E r : Requests = {r}
            /\ MaxFaults = 0
            /\ Ops \cap {"retry", "worker", "link"} = {}

Shown(b, events)    == {g \in EventIds : events[g].appt = b /\ events[g].live}
Shows(b, g, events) == g # 0 /\ Shown(b, events) = {g}

\* The calendar and the row of a booking agree.
Settled(b, rows, events) ==
  IF rows[b].status = "active"
    THEN Shows(b, rows[b].event, events) /\ events[rows[b].event].slot = rows[b].slot
    ELSE Shown(b, events) = {}

\* A committed request whose call to Google, or whose note of it, is to come.
Owing(x) == x.pc \in {"push", "save", "drop"}
Owes(x, rows, events) ==
  /\ x.pc = "push" => /\ x.op \in {"create", "edit"}
                      /\ rows[x.appt].status = "active" /\ rows[x.appt].slot = x.slot
                      /\ IF x.op = "edit" THEN Shows(x.appt, x.event, events)
                         ELSE Shown(x.appt, events) = {}
  /\ x.pc = "save" => /\ rows[x.appt].status = "active"
                      /\ Shows(x.appt, x.result, events)
                      /\ events[x.result].slot = rows[x.appt].slot
  /\ x.pc = "drop" => rows[x.appt].status # "active" /\ Shows(x.appt, x.event, events)
  /\ x.op = "edit" /\ x.pc \in {"busy", "check", "write"} => x.event = rows[x.appt].event

Square(x, rows, events) ==
  /\ x.op # "retry"
  /\ Owes(x, rows, events)
  /\ \A b \in ApptIds : Settled(b, rows, events) \/ (Owing(x) /\ x.appt = b)

Calm == connected /\ worker.pc = "idle" /\ faults = 0

CalInv == Calm /\ \A r \in Requests : Square(req[r], appt, gcal)

\* Nothing fails, and nobody but the requests has anything to do with the calendar.
LEMMA StaysCalm ==
  ASSUME OneAdmin, TypeOK', Calm, [LeadNext]_allVars
  PROVE  Calm'
<1>1. "retry" \notin Ops /\ "worker" \notin Ops /\ "link" \notin Ops /\ MaxFaults = 0
  BY DEF OneAdmin
<1>2. faults' = 0
  BY <1>1 DEF TypeOK
<1>3. ~Fault
  BY <1>1 DEF Fault, Calm
<1>4. UNCHANGED <<connected, worker>>
  <2>1. ASSUME NEW r \in Requests, RequestStarts(r) PROVE UNCHANGED <<connected, worker>>
    BY <2>1 DEF RequestStarts, StartCreate, StartEdit, StartCancel, StartRetry
  <2>2. ASSUME NEW r \in Requests, RequestStep(r) \/ RequestFails(r)
        PROVE  UNCHANGED <<connected, worker>>
    BY <2>2 DEF RequestStep, CreateFreebusy, CreateBegin, CreateCheck, CreateInsert, EditRead,
                EditFreebusy, EditCheck, EditWrite, CancelWrite, CancelDrop, PushEvent,
                PushNotConnected, SaveSync, LockWaitFails, RequestFails
  <2>3. CASE WorkerStep \/ WorkerFails \/ Disconnect \/ Connect \/ ClockTick \/ ServerIdle
    BY <1>1, <1>3, <2>3 DEF WorkerStep, WorkerTick, WorkerPush, WorkerBreak, WorkerSave, WorkerFails,
                            Disconnect, Connect, ClockTick, ServerIdle, vars, Calm
  <2>4. ASSUME NEW r \in Requests, StatusStep(r) PROVE UNCHANGED <<connected, worker>>
    BY <2>4 DEF StatusStep, StatusWrite, Sweep
  <2>5. ASSUME NEW r \in Requests, NEW e \in Enquiries, NEW to \in Targets, NEW s \in 0..MaxSlot,
               StartStatus(r, e, to, s)
        PROVE  UNCHANGED <<connected, worker>>
    BY <2>5 DEF StartStatus
  <2>6. CASE UNCHANGED allVars
    BY <2>6 DEF allVars, vars
  <2> QED BY <2>1, <2>2, <2>3, <2>4, <2>5, <2>6 DEF LeadNext, Next
<1> QED BY <1>2, <1>4 DEF Calm

\* A request that owed nothing goes on to where it owes nothing.
LEMMA OwesNothing ==
  ASSUME NEW x, NEW y, NEW rows, NEW events, Square(x, rows, events),
         ~Owing(x), ~Owing(y), y.op # "retry",
         y.op = "edit" /\ y.pc \in {"busy", "check", "write"} => y.event = rows[y.appt].event
  PROVE  Square(y, rows, events)
  BY DEF Square, Owes, Owing

\* An event more, or one event's time or end, is seen by its own booking only.
LEMMA EventSeenByOwner ==
  ASSUME NEW rows, NEW events, NEW later, NEW b \in ApptIds, NEW g \in EventIds,
         \A h \in EventIds \ {g} : later[h] = events[h],
         events[g].appt # b, later[g].appt # b,
         Settled(b, rows, events)
  PROVE  Settled(b, rows, later)
<1>1. Shown(b, later) = Shown(b, events)
  BY DEF Shown
<1>2. CASE rows[b].status = "active"
  <2>1. rows[b].event \in Shown(b, events)
    BY <1>2 DEF Settled, Shows
  <2>2. rows[b].event \in EventIds \ {g}
    BY <2>1 DEF Shown
  <2> QED BY <1>1, <1>2, <2>2 DEF Settled, Shows
<1>3. CASE rows[b].status # "active"
  BY <1>1, <1>3 DEF Settled
<1> QED BY <1>2, <1>3

\* A booking is settled by its row and its events alone.
LEMMA SettledByRow ==
  ASSUME NEW rows, NEW later, NEW events, NEW b, later[b] = rows[b], Settled(b, rows, events)
  PROVE  Settled(b, later, events)
  BY DEF Settled

\* The steps of one request on its own.
LEMMA RequestStaysSquare ==
  ASSUME OneAdmin, SlotInv, NEW r \in Requests, Calm, Square(req[r], appt, gcal),
         RequestStarts(r) \/ RequestStep(r) \/ RequestFails(r)
  PROVE  Square(req'[r], appt', gcal')
<1> DEFINE x == req[r]
<1>0. /\ TypeOK /\ appt \in [ApptIds -> Row] /\ gcal \in [EventIds -> Event]
      /\ req \in [Requests -> Request] /\ x \in Request
      /\ x.event \in 0..MaxEvents /\ x.result \in 0..MaxEvents
      /\ OnBooking(r) => x.appt \in ApptIds
      /\ connected /\ ~Fault /\ "retry" \notin Ops
  BY DEF SlotInv, LockInv, TypeOK, Calm, OneAdmin, Fault, Request
<1>1. /\ x.op # "retry" /\ Owes(x, appt, gcal)
      /\ \A b \in ApptIds : Settled(b, appt, gcal) \/ (Owing(x) /\ x.appt = b)
  BY DEF Square
<1>2. \A y : /\ UNCHANGED <<appt, gcal>> /\ req' = [req EXCEPT ![r] = y] /\ ~Owing(x) /\ ~Owing(y)
             /\ y.op # "retry"
             /\ y.op = "edit" /\ y.pc \in {"busy", "check", "write"} => y.event = appt[y.appt].event
             => Square(req'[r], appt', gcal')
  BY <1>0, OwesNothing
<1>3. /\ Idle.pc = "idle" /\ Idle.op = "none" /\ ~Owing(Idle)
  BY DEF Idle, Owing
<1>4. ASSUME UNCHANGED <<appt, gcal>>, ~Owing(x), Abort(r)
      PROVE  Square(req'[r], appt', gcal')
  BY <1>2, <1>3, <1>4 DEF Abort
<1>5. ASSUME RequestStarts(r) PROVE Square(req'[r], appt', gcal')
  <2>1. ASSUME NEW op, NEW rec, Issue(r, op, rec), UNCHANGED <<appt, gcal>>,
               rec.pc \in {"busy", "read", "cancel"}, rec.op \in {"create", "edit", "cancel"},
               rec.op = "edit" => rec.pc = "read"
        PROVE  Square(req'[r], appt', gcal')
    BY <1>2, <2>1 DEF Issue, Owing
  <2>2. ASSUME NEW e \in Enquiries, NEW s \in Slots, StartCreate(r, e, s)
        PROVE  Square(req'[r], appt', gcal')
    BY <2>1, <2>2 DEF StartCreate, dbVars, Idle
  <2>3. ASSUME NEW b \in ApptIds, NEW s \in Slots, StartEdit(r, b, s)
        PROVE  Square(req'[r], appt', gcal')
    BY <2>1, <2>3 DEF StartEdit, dbVars, Idle
  <2>4. ASSUME NEW b \in ApptIds, StartCancel(r, b) PROVE Square(req'[r], appt', gcal')
    BY <2>1, <2>4 DEF StartCancel, dbVars, Idle
  <2>5. ASSUME NEW b \in ApptIds, StartRetry(r, b) PROVE FALSE
    BY <1>0, <2>5 DEF StartRetry, Issue
  <2> QED BY <1>5, <2>2, <2>3, <2>4, <2>5 DEF RequestStarts
<1>6. ASSUME CreateFreebusy(r) \/ CreateBegin(r) \/ CreateCheck(r) \/ EditFreebusy(r) \/ EditCheck(r)
      PROVE  Square(req'[r], appt', gcal')
  <2>1. /\ UNCHANGED <<appt, gcal>> /\ ~Owing(x)
        /\ x.op \in {"create", "edit"} /\ (x.op = "edit" => x.pc \in {"busy", "check"})
    BY <1>6 DEF CreateFreebusy, CreateBegin, CreateCheck, EditFreebusy, EditCheck, At, dbVars, Owing
  <2>2. ASSUME NEW pc \in {"begin", "check", "insert", "write"}, Goto(r, pc)
        PROVE  Square(req'[r], appt', gcal')
    <3> DEFINE y == [x EXCEPT !.pc = pc]
    <3>1. /\ y.op = x.op /\ y.appt = x.appt /\ y.event = x.event /\ y.pc = pc
          /\ req' = [req EXCEPT ![r] = y]
      BY <1>0, <2>2 DEF Goto, Request
    <3> HIDE DEF y
    <3>2. y.op = "edit" => y.event = appt[y.appt].event
      BY <1>1, <2>1, <3>1 DEF Owes
    <3> QED BY <1>2, <2>1, <2>2, <3>1, <3>2 DEF Owing
  <2> QED BY <1>4, <1>6, <2>1, <2>2 DEF CreateFreebusy, CreateBegin, CreateCheck, EditFreebusy, EditCheck
<1>7. ASSUME CreateInsert(r) PROVE Square(req'[r], appt', gcal')
  <2>1. UNCHANGED gcal /\ x.op = "create" /\ ~Owing(x)
    BY <1>7 DEF CreateInsert, At, Owing
  <2>2. CASE Abort(r) /\ UNCHANGED dbVars
    BY <1>4, <2>1, <2>2 DEF dbVars
  <2>3. CASE ~(Abort(r) /\ UNCHANGED dbVars)
    <3>1. PICK b \in ApptIds :
            /\ ~Exists(b) /\ appt'[b].slot = x.slot /\ appt'[b].status = "active"
            /\ \A c \in ApptIds \ {b} : appt'[c] = appt[c]
            /\ req' = [req EXCEPT ![r] = [x EXCEPT !.pc = "push", !.appt = b]]
      BY <1>0, <1>7, <2>3, InsertEffect
    <3> DEFINE y == [x EXCEPT !.pc = "push", !.appt = b]
    <3>2. req'[r] = y /\ y.op = "create" /\ y.pc = "push" /\ y.appt = b /\ y.slot = x.slot
      BY <1>0, <2>1, <3>1 DEF Request
    <3> HIDE DEF y
    <3>3. Shown(b, gcal) = {}
      BY <1>1, <2>1, <3>1 DEF Settled, Exists
    <3>4. Owes(y, appt', gcal')
      BY <2>1, <3>1, <3>2, <3>3 DEF Owes
    <3>5. \A c \in ApptIds : Settled(c, appt', gcal') \/ (Owing(y) /\ y.appt = c)
      BY <1>1, <2>1, <3>1, <3>2, SettledByRow DEF Owing
    <3> QED BY <3>2, <3>4, <3>5 DEF Square
  <2> QED BY <2>2, <2>3
<1>8. ASSUME EditRead(r) PROVE Square(req'[r], appt', gcal')
  <2>1. UNCHANGED <<appt, gcal>> /\ x.op = "edit" /\ ~Owing(x)
    BY <1>8 DEF EditRead, At, Owing, dbVars
  <2>2. CASE Abort(r)
    BY <1>4, <2>1, <2>2
  <2>3. CASE ~Abort(r)
    <3> DEFINE b == appt[x.appt]
               y == [x EXCEPT !.enq = b.enq, !.from = b.slot, !.event = b.event,
                         !.moved = b.key # x.slot, !.pc = IF b.key # x.slot THEN "busy" ELSE "write"]
    <3>1. req' = [req EXCEPT ![r] = y]
      BY <1>0, <1>8, <2>3 DEF EditRead, Abort
    <3>2. y.op = "edit" /\ y.appt = x.appt /\ y.event = appt[x.appt].event /\ y.pc \in {"busy", "write"}
      BY <1>0, <2>1 DEF Request
    <3> HIDE DEF y
    <3> QED BY <1>2, <2>1, <3>1, <3>2 DEF Owing
  <2> QED BY <2>2, <2>3
<1>9. ASSUME EditWrite(r) PROVE Square(req'[r], appt', gcal')
  <2>1. UNCHANGED gcal /\ x.op = "edit" /\ x.pc = "write" /\ ~Owing(x) /\ x.appt \in ApptIds
    BY <1>0, <1>9 DEF EditWrite, At, Owing, OnBooking
  <2>2. CASE Abort(r) /\ UNCHANGED dbVars
    BY <1>4, <2>1, <2>2 DEF dbVars
  <2>3. CASE ~(Abort(r) /\ UNCHANGED dbVars)
    <3>1. /\ appt'[x.appt].slot = x.slot /\ appt'[x.appt].status = appt[x.appt].status
          /\ \A c \in ApptIds \ {x.appt} : appt'[c] = appt[c]
          /\ Goto(r, "push")
      BY <1>0, <1>9, <2>3, EditEffect
    <3>2. appt[x.appt].status = "active"
      BY <2>1 DEF SlotInv, LockInv, ReadUnderLock, Active
    <3>3. Shows(x.appt, x.event, gcal)
      BY <1>1, <2>1, <3>2 DEF Settled, Owes
    <3> DEFINE y == [x EXCEPT !.pc = "push"]
    <3>4. /\ req'[r] = y /\ y.op = "edit" /\ y.pc = "push" /\ y.appt = x.appt /\ y.slot = x.slot
          /\ y.event = x.event
      BY <1>0, <2>1, <3>1 DEF Request, Goto
    <3> HIDE DEF y
    <3>5. Owes(y, appt', gcal')
      BY <2>1, <3>1, <3>2, <3>3, <3>4 DEF Owes
    <3>6. \A c \in ApptIds : Settled(c, appt', gcal') \/ (Owing(y) /\ y.appt = c)
      BY <1>1, <2>1, <3>1, <3>4, SettledByRow DEF Owing
    <3> QED BY <3>4, <3>5, <3>6 DEF Square
  <2> QED BY <2>2, <2>3
<1>10. ASSUME CancelWrite(r) PROVE Square(req'[r], appt', gcal')
  <2>1. UNCHANGED gcal /\ x.op = "cancel" /\ ~Owing(x) /\ x.appt \in ApptIds
    BY <1>0, <1>10 DEF CancelWrite, At, Owing, OnBooking
  <2>2. CASE Abort(r) /\ UNCHANGED dbVars
    BY <1>4, <2>1, <2>2 DEF dbVars
  <2>3. CASE ~(Abort(r) /\ UNCHANGED dbVars)
    <3> DEFINE y == [x EXCEPT !.pc = "drop", !.event = appt[x.appt].event, !.slot = appt[x.appt].slot]
    <3>1. /\ Active(x.appt) /\ appt'[x.appt].status = "cancelled"
          /\ \A c \in ApptIds \ {x.appt} : appt'[c] = appt[c]
          /\ req' = [req EXCEPT ![r] = y]
      BY <1>0, <1>10, <2>3, CancelEffect
    <3>2. /\ req'[r] = y /\ y.op = "cancel" /\ y.pc = "drop" /\ y.appt = x.appt
          /\ y.event = appt[x.appt].event
      BY <1>0, <2>1, <3>1 DEF Request
    <3> HIDE DEF y
    <3>3. Shows(x.appt, appt[x.appt].event, gcal)
      BY <1>1, <2>1, <3>1 DEF Settled, Active
    <3>4. Owes(y, appt', gcal')
      BY <2>1, <3>1, <3>2, <3>3 DEF Owes
    <3>5. \A c \in ApptIds : Settled(c, appt', gcal') \/ (Owing(y) /\ y.appt = c)
      BY <1>1, <2>1, <3>1, <3>2, SettledByRow DEF Owing
    <3> QED BY <3>2, <3>4, <3>5 DEF Square
  <2> QED BY <2>2, <2>3
<1>11. ASSUME PushEvent(r) PROVE Square(req'[r], appt', gcal')
  <2>1. PICK res \in 0..MaxEvents :
          /\ IF x.op = "edit" /\ x.event # 0 THEN UpdateEvent(x.event, x.slot, res)
             ELSE CreateEvent(x.appt, x.slot, res)
          /\ req' = [req EXCEPT ![r].pc = "save", ![r].result = res]
    BY <1>11 DEF PushEvent
  <2>2. x.pc = "push" /\ UNCHANGED appt /\ x.appt \in ApptIds
    BY <1>0, <1>11 DEF PushEvent, dbVars, OnBooking
  <2>3. /\ appt[x.appt].status = "active" /\ appt[x.appt].slot = x.slot
        /\ IF x.op = "edit" THEN Shows(x.appt, x.event, gcal) ELSE Shown(x.appt, gcal) = {}
    BY <1>1, <2>2 DEF Owes
  <2> DEFINE y == [x EXCEPT !.pc = "save", !.result = res]
  <2>4. /\ req'[r] = y /\ y.op = x.op /\ y.pc = "save" /\ y.appt = x.appt /\ y.result = res
    BY <1>0, <2>1 DEF Request
  <2> HIDE DEF y
  <2>5. /\ res \in EventIds /\ gcal'[res].slot = x.slot /\ gcal'[res].appt = x.appt /\ gcal'[res].live
        /\ \A h \in EventIds \ {res} : gcal'[h] = gcal[h]
        /\ gcal[res].appt \in {0, x.appt}
        /\ Shown(x.appt, gcal) \subseteq {res}
    <3>1. CASE x.op = "edit"
      <4>1. x.event # 0 /\ x.event \in EventIds /\ Shown(x.appt, gcal) = {x.event}
        BY <1>0, <2>3, <3>1 DEF Shows
      <4>2. gcal[x.event].live /\ gcal[x.event].appt = x.appt
        BY <4>1 DEF Shown
      <4>3. res = x.event /\ gcal' = [gcal EXCEPT ![x.event].slot = x.slot]
        BY <1>0, <2>1, <3>1, <4>1, <4>2 DEF UpdateEvent
      <4>4. gcal'[res] = [gcal[res] EXCEPT !.slot = x.slot] /\ \A h \in EventIds \ {res} : gcal'[h] = gcal[h]
        BY <1>0, <4>1, <4>3
      <4> QED BY <1>0, <4>1, <4>2, <4>3, <4>4 DEF Event
    <3>2. CASE x.op # "edit"
      <4>1. res \in EventIds /\ IsNextEvent(res) /\ PutEvent(res, x.appt, x.slot)
        BY <1>0, <2>1, <3>2 DEF CreateEvent
      <4> QED BY <1>0, <2>3, <3>2, <4>1 DEF IsNextEvent, Unused, PutEvent
    <3> QED BY <3>1, <3>2
  <2>6. Shows(x.appt, res, gcal')
    BY <2>5 DEF Shows, Shown
  <2>7. Owes(y, appt', gcal')
    BY <2>2, <2>3, <2>4, <2>5, <2>6 DEF Owes
  <2>8. ASSUME NEW c \in ApptIds, c # x.appt PROVE Settled(c, appt', gcal')
    <3>1. gcal[res].appt # c /\ gcal'[res].appt # c /\ Settled(c, appt, gcal)
      BY <1>1, <2>5, <2>8
    <3> QED BY <2>2, <2>5, <3>1, EventSeenByOwner
  <2>9. x.op # "retry" /\ Owing(y)
    BY <1>1, <2>4 DEF Owing
  <2> QED BY <2>4, <2>7, <2>8, <2>9 DEF Square
<1>12. ASSUME Return(r), NEW b \in ApptIds, x.appt = b, Settled(b, appt', gcal'),
              \A c \in ApptIds \ {b} : Settled(c, appt', gcal')
       PROVE  Square(req'[r], appt', gcal')
  <2>1. PICK y : req'[r] = y /\ (y = Idle \/ y = [x EXCEPT !.pc = "status"])
    BY <1>0, <1>12 DEF Return, Request
  <2>2. y.op # "retry" /\ y.pc \in {"idle", "status"}
    BY <1>0, <1>1, <1>3, <2>1 DEF Request
  <2> QED BY <1>12, <2>1, <2>2 DEF Square, Owes
<1>13. ASSUME CancelDrop(r) PROVE Square(req'[r], appt', gcal')
  <2>1. x.pc = "drop" /\ UNCHANGED appt /\ x.appt \in ApptIds /\ Return(r)
    BY <1>0, <1>13 DEF CancelDrop, At, dbVars, OnBooking
  <2>2. /\ appt[x.appt].status # "active" /\ x.event # 0 /\ x.event \in EventIds
        /\ Shown(x.appt, gcal) = {x.event}
    BY <1>0, <1>1, <2>1 DEF Owes, Shows
  <2>3. gcal[x.event].appt = x.appt
    BY <2>2 DEF Shown
  <2>4. gcal' = [gcal EXCEPT ![x.event].live = FALSE]
    BY <1>0, <1>13, <2>2 DEF CancelDrop, DeleteEvent
  <2>5. /\ ~gcal'[x.event].live /\ gcal'[x.event].appt = x.appt
        /\ \A h \in EventIds \ {x.event} : gcal'[h] = gcal[h]
    BY <1>0, <2>2, <2>3, <2>4 DEF Event
  <2>6. Settled(x.appt, appt', gcal')
    BY <2>1, <2>2, <2>5 DEF Settled, Shown
  <2>7. ASSUME NEW c \in ApptIds \ {x.appt} PROVE Settled(c, appt', gcal')
    <3>1. gcal[x.event].appt # c /\ gcal'[x.event].appt # c /\ Settled(c, appt, gcal)
      BY <1>1, <2>3, <2>5
    <3> QED BY <2>1, <2>2, <2>5, <3>1, EventSeenByOwner
  <2> QED BY <1>12, <2>1, <2>6, <2>7
<1>14. ASSUME SaveSync(r) PROVE Square(req'[r], appt', gcal')
  <2>1. x.pc = "save" /\ UNCHANGED gcal /\ x.appt \in ApptIds /\ Return(r)
    BY <1>0, <1>14 DEF SaveSync, OnBooking
  <2>2. /\ appt[x.appt].status = "active" /\ x.result # 0 /\ Shows(x.appt, x.result, gcal)
        /\ gcal[x.result].slot = appt[x.appt].slot
    BY <1>1, <2>1 DEF Owes, Shows
  <2>3. appt' = [appt EXCEPT ![x.appt] = [appt[x.appt] EXCEPT !.event = x.result, !.sync = "SYNCED"]]
    BY <1>0, <1>14, <2>1, <2>2 DEF SaveSync, WriteSync, Pushed
  <2>4. /\ appt'[x.appt].status = "active" /\ appt'[x.appt].event = x.result
        /\ appt'[x.appt].slot = appt[x.appt].slot
        /\ \A c \in ApptIds \ {x.appt} : appt'[c] = appt[c]
    BY <1>0, <2>1, <2>2, <2>3 DEF Row
  <2>5. Settled(x.appt, appt', gcal')
    BY <2>1, <2>2, <2>4 DEF Settled
  <2>6. \A c \in ApptIds \ {x.appt} : Settled(c, appt', gcal')
    BY <1>1, <2>1, <2>4, SettledByRow
  <2> QED BY <1>12, <2>1, <2>5, <2>6
<1>15. ASSUME LockWaitFails(r) PROVE Square(req'[r], appt', gcal')
  BY <1>4, <1>15 DEF LockWaitFails, dbVars, Owing
<1>16. ~PushNotConnected(r) /\ ~RequestFails(r)
  BY <1>0 DEF PushNotConnected, RequestFails
<1> QED BY <1>5, <1>6, <1>7, <1>8, <1>9, <1>10, <1>11, <1>13, <1>14, <1>15, <1>16 DEF RequestStep

\* The steps of changeStatus owe the calendar nothing: a booking to make or to
\* cancel is a request of its own from there on.
LEMMA LeadStaysSquare ==
  ASSUME SlotInv, NEW r \in Requests, Square(req[r], appt, gcal),
         \/ StatusStep(r)
         \/ \E e \in Enquiries, to \in Targets, s \in 0..MaxSlot : StartStatus(r, e, to, s)
  PROVE  Square(req'[r], appt', gcal')
<1>0. req \in [Requests -> Request] /\ req[r] \in Request /\ req[r].op # "retry"
  BY DEF SlotInv, LockInv, TypeOK, Square
<1>1. UNCHANGED <<appt, gcal>> /\ ~Owing(req[r])
  BY DEF StatusStep, StatusWrite, Sweep, StartStatus, Issue, dbVars, Owing
<1>2. PICK y : /\ req' = [req EXCEPT ![r] = y] /\ y.op # "retry"
               /\ y.pc \in {"idle", "status", "sweep", "busy", "cancel"}
               /\ y.pc = "busy" => y.op = "create"
  <2>1. CASE StatusWrite(r)
    <3>1. \/ req' = [req EXCEPT ![r] = [req[r] EXCEPT !.pc = "sweep"]]
          \/ req' = [req EXCEPT ![r] = Idle]
      BY <1>0, <2>1 DEF StatusWrite, Goto
    <3>2. [req[r] EXCEPT !.pc = "sweep"].op = req[r].op /\ [req[r] EXCEPT !.pc = "sweep"].pc = "sweep"
      BY <1>0 DEF Request
    <3>3. Idle.op = "none" /\ Idle.pc = "idle"
      BY DEF Idle
    <3> QED BY <1>0, <3>1, <3>2, <3>3
  <2>2. CASE Sweep(r)
    <3>1. PICK y : /\ req' = [req EXCEPT ![r] = y]
                   /\ y = Idle \/ \E b : y = [Idle EXCEPT !.op = "cancel", !.pc = "cancel", !.appt = b]
      BY <2>2, Zenon DEF Sweep
    <3>2. y.op \in {"none", "cancel"} /\ y.pc \in {"idle", "cancel"}
      <4>1. CASE y = Idle
        BY <4>1 DEF Idle
      <4>2. ASSUME NEW b, y = [Idle EXCEPT !.op = "cancel", !.pc = "cancel", !.appt = b]
            PROVE  y.op = "cancel" /\ y.pc = "cancel"
        BY <4>2 DEF Idle
      <4> QED BY <3>1, <4>1, <4>2
    <3> QED BY <3>1, <3>2
  <2>3. ASSUME NEW e \in Enquiries, NEW to \in Targets, NEW s \in 0..MaxSlot, StartStatus(r, e, to, s)
        PROVE  \E y : /\ req' = [req EXCEPT ![r] = y] /\ y.op # "retry"
                      /\ y.pc \in {"idle", "status", "sweep", "busy", "cancel"}
                      /\ y.pc = "busy" => y.op = "create"
    <3>1. PICK y : /\ req' = [req EXCEPT ![r] = y]
                   /\ \/ y = [Idle EXCEPT !.pc = "status", !.enq = e]
                      \/ y = [Idle EXCEPT !.op = "create", !.pc = "busy", !.enq = e,
                                          !.slot = s, !.then = "status"]
      BY <2>3, Zenon DEF StartStatus, Issue
    <3>2. y.op \in {"none", "create"} /\ y.pc \in {"status", "busy"} /\ (y.pc = "busy" => y.op = "create")
      BY <3>1 DEF Idle
    <3> QED BY <3>1, <3>2
  <2> QED BY <2>1, <2>2, <2>3 DEF StatusStep
<1>3. ~Owing(y) /\ ~(y.op = "edit" /\ y.pc \in {"busy", "check", "write"})
  BY <1>2 DEF Owing
<1> QED BY <1>0, <1>1, <1>2, <1>3, OwesNothing

\* With one request at a time, no failure and the calendar linked, Google shows
\* exactly the active bookings whenever the server is idle: each create, edit and
\* cancel, and each follow-up a status change books or sweeps, has paid what it
\* owed the calendar when it answers.
THEOREM CalendarIsRight ==
  ASSUME OneAdmin
  PROVE  LeadSpec => []CalendarAgrees
<1>1. LeadInit => CalInv
  <2> SUFFICES ASSUME LeadInit PROVE CalInv
    OBVIOUS
  <2>1. /\ appt = [b \in ApptIds |-> NoRow] /\ gcal = [g \in EventIds |-> NoEvent]
        /\ req = [r \in Requests |-> Idle] /\ worker = NoTick /\ connected /\ faults = 0
    BY DEF LeadInit, Init
  <2>2. \A b \in ApptIds : Settled(b, appt, gcal)
    BY <2>1 DEF Settled, Shown, NoRow, NoEvent
  <2>3. Idle.op = "none" /\ Idle.pc = "idle" /\ NoTick.pc = "idle"
    BY DEF Idle, NoTick
  <2> QED BY <2>1, <2>2, <2>3 DEF CalInv, Calm, Square, Owes
<1>2. LeadInv /\ LeadInv' /\ CalInv /\ [LeadNext]_allVars => CalInv'
  <2> SUFFICES ASSUME LeadInv, LeadInv', CalInv, [LeadNext]_allVars PROVE CalInv'
    OBVIOUS
  <2>0. SlotInv /\ TypeOK' /\ Calm
    BY DEF LeadInv, SlotInv, LockInv, CalInv
  <2>1. PICK r : Requests = {r}
    BY DEF OneAdmin
  <2>2. r \in Requests /\ Square(req[r], appt, gcal)
    BY <2>1 DEF CalInv
  <2>3. Calm'
    BY <2>0, StaysCalm
  <2>4. Square(req'[r], appt', gcal')
    <3>1. CASE RequestStarts(r) \/ RequestStep(r) \/ RequestFails(r)
      BY <2>0, <2>2, <3>1, RequestStaysSquare
    <3>2. CASE \/ StatusStep(r)
               \/ \E e \in Enquiries, to \in Targets, s \in 0..MaxSlot : StartStatus(r, e, to, s)
      BY <2>0, <2>2, <3>2, LeadStaysSquare
    <3>3. CASE WorkerStep \/ WorkerFails \/ Disconnect \/ Connect \/ ClockTick \/ ServerIdle
               \/ UNCHANGED allVars
      <4>1. "worker" \notin Ops /\ "link" \notin Ops /\ ~Fault
        BY <2>0 DEF OneAdmin, Fault, Calm
      <4>2. UNCHANGED <<req, appt, gcal>>
        BY <2>0, <3>3, <4>1 DEF WorkerStep, WorkerTick, WorkerPush, WorkerBreak, WorkerSave, WorkerFails,
             Disconnect, Connect, ClockTick, ServerIdle, allVars, vars, dbVars, Calm
      <4> QED BY <2>2, <4>2
    <3> QED BY <2>1, <3>1, <3>2, <3>3 DEF LeadNext, Next
  <2> QED BY <2>1, <2>3, <2>4 DEF CalInv
<1>3. LeadInv /\ CalInv => CalendarAgrees
  <2> SUFFICES ASSUME CalInv, \A r \in Requests : req[r].pc = "idle", NEW b \in ApptIds
               PROVE  {gcal[g].slot : g \in {h \in EventIds : gcal[h].appt = b /\ gcal[h].live}}
                        = IF Active(b) THEN {appt[b].slot} ELSE {}
    BY DEF CalendarAgrees
  <2>1. Settled(b, appt, gcal)
    <3>1. PICK r : r \in Requests
      BY DEF OneAdmin
    <3> QED BY <3>1 DEF CalInv, Square, Owing
  <2>2. {gcal[g].slot : g \in Shown(b, gcal)} = IF Active(b) THEN {appt[b].slot} ELSE {}
    BY <2>1 DEF Settled, Shows, Active
  <2> QED BY <2>2 DEF Shown
<1> QED BY <1>1, <1>2, <1>3, LeadInvInductive, PTL DEF LeadSpec

=============================================================================
