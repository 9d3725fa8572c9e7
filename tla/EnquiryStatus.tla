---------------------------- MODULE EnquiryStatus ----------------------------
(***************************************************************************)
(* changeStatus of services/crm/enquiries.js on top of the booking engine: *)
(* one request may book a follow-up, then changes the lead's columns and   *)
(* writes their timeline, and, when the lead is closed, cancels a booking. *)
(* The three parts are three transactions: other requests run between them *)
(* and the handler can die between them.                                   *)
(***************************************************************************)
EXTENDS Appointments

CONSTANTS
  Fields,    \* columns of the lead that changeStatus writes; one is "status"
  Values,    \* codes of the masters
  Cleared,   \* the NULL of lead_rating_code, '__cleared__' in the timeline
  Keep,      \* a field the request does not mention
  Closed     \* the codes closed_won and closed_lost

ASSUME FieldAssumption == "status" \in Fields
ASSUME ValueAssumption == Cleared \notin Values /\ Keep \notin Values \cup {Cleared}
ASSUME ClosedAssumption == Closed \subseteq Values

VARIABLES
  lead,      \* crm_enquiries: the columns of each enquiry
  timeline,  \* crm_status_history, per enquiry and field_scope
  target     \* the to_* fields of each request in flight

leadVars == <<lead, timeline, target>>
allVars  == <<vars, leadVars>>

NoTarget == [f \in Fields |-> Keep]

\* Only the rating can be cleared; asking for no change at all is a 400.
Targets == {t \in [Fields -> Values \cup {Cleared, Keep}] :
              /\ t # NoTarget
              /\ \A f \in Fields : t[f] = Cleared => f = "lead_rating"}

-----------------------------------------------------------------------------

\* With scheduled_at the booking goes first and a 409 ends the request.
StartStatus(r, e, to, s) ==
  /\ s = 0 \/ (Bookable(s) /\ RowsLeft)
  /\ Issue(r, "status", IF s = 0 THEN [Idle EXCEPT !.pc = "status", !.enq = e]
                        ELSE [Idle EXCEPT !.op = "create", !.pc = "busy", !.enq = e,
                                          !.slot = s, !.then = "status"])
  /\ target' = [target EXCEPT ![r] = to]
  /\ UNCHANGED <<now, dbVars, lock, worker, gcal, connected, mail, faults, lead, timeline>>

\* Mutant of Recorded: clearing the rating leaves no trace.
RecordedUnlessCleared(e, f, to) == \/ f = "status" /\ to # Keep
                                   \/ f # "status" /\ to \notin {Keep, Cleared, lead[e][f]}
\* A status transition is recorded even when it changes nothing, the other
\* fields only when they change.
Recorded(e, f, to) == \/ f = "status" /\ to # Keep
                      \/ f # "status" /\ to \notin {Keep, lead[e][f]}

\* The second transaction: lock the enquiry, write its columns and timeline.
StatusWrite(r) ==
  LET e  == req[r].enq
      to == target[r]
  IN /\ req[r].pc = "status"
     /\ Free(e)
     /\ lead' = [lead EXCEPT ![e] = [f \in Fields |-> IF to[f] = Keep THEN @[f] ELSE to[f]]]
     /\ timeline' = [timeline EXCEPT ![e] =
          [f \in Fields |-> IF Recorded(e, f, to[f])
                            THEN Append(@[f], [from |-> lead[e][f], to |-> to[f]])
                            ELSE @[f]]]
     /\ IF to["status"] \in Closed
          THEN Goto(r, "sweep") /\ UNCHANGED target
          ELSE req' = [req EXCEPT ![r] = Idle] /\ target' = [target EXCEPT ![r] = NoTarget]
     /\ UNCHANGED <<now, dbVars, lock, worker, gcal, connected, mail, issued, faults>>

\* Mutant of LatestActive: the last row of the enquiry, if it is active.
LastRowIfActive(e) == {a \in ApptIds : /\ Active(a) /\ appt[a].enq = e
                                       /\ \A b \in ApptIds : appt[b].enq = e => b <= a}
\* getActiveAppointmentForEnquiry: the active booking latest in time, then by id.
LatestActive(e) ==
  {a \in ApptIds : /\ Active(a) /\ appt[a].enq = e
                   /\ \A b \in ApptIds : Active(b) /\ appt[b].enq = e =>
                        appt[b].slot < appt[a].slot \/ (appt[b].slot = appt[a].slot /\ b <= a)}

\* After the commit a closed lead loses that booking, unless this request made it.
Sweep(r) ==
  /\ req[r].pc = "sweep"
  /\ LET found == LatestActive(req[r].enq) \ {req[r].appt}
     IN \/ \E a \in found : req' = [req EXCEPT ![r] = [Idle EXCEPT !.op = "cancel",
                                                         !.pc = "cancel", !.appt = a]]
        \/ found = {} /\ req' = [req EXCEPT ![r] = Idle]
  /\ target' = [target EXCEPT ![r] = NoTarget]
  /\ UNCHANGED <<now, dbVars, lock, worker, gcal, connected, mail, issued, faults, lead, timeline>>

-----------------------------------------------------------------------------

LeadInit == /\ Init
            /\ \E v \in Values \ Closed :
                 lead = [e \in Enquiries |-> [f \in Fields |-> IF f = "lead_rating" THEN Cleared ELSE v]]
            /\ timeline = [e \in Enquiries |-> [f \in Fields |-> <<>>]]
            /\ target = [r \in Requests |-> NoTarget]

StatusStep(r) == StatusWrite(r) \/ Sweep(r)

LeadNext == \/ Next /\ UNCHANGED leadVars
            \/ \E r \in Requests :
                 \/ \E e \in Enquiries, to \in Targets, s \in 0..MaxSlot : StartStatus(r, e, to, s)
                 \/ StatusStep(r)

LeadSpec == LeadInit /\ [][LeadNext]_allVars

LeadFairSpec == LeadSpec /\ \A r \in Requests :
                  WF_allVars(StatusStep(r) \/ (RequestStep(r) /\ UNCHANGED leadVars))

-----------------------------------------------------------------------------

\* The booking engine keeps its types under the third kind of request, and only
\* the rating is ever cleared.
LeadTypeOK ==
  /\ TypeOK
  /\ lead \in [Enquiries -> [Fields -> Values \cup {Cleared}]]
  /\ \A e \in Enquiries, f \in Fields : lead[e][f] = Cleared => f = "lead_rating"
  /\ target \in [Requests -> Targets \cup {NoTarget}]

\* The timeline of each field is unbroken and ends at the column's value, when
\* several requests change one lead at once (crm_status_history is immutable and
\* must explain the columns it records).
TimelineExplainsLead ==
  /\ LeadTypeOK
  /\ \A e \in Enquiries, f \in Fields :
       LET h == timeline[e][f]
       IN /\ \A i \in 2..Len(h) : h[i].from = h[i-1].to
          /\ Len(h) > 0 => h[Len(h)].to = lead[e][f]

\* Closing a lead whose only booking was made by an earlier request gives that
\* booking's slot back (with nobody else at work on the lead meanwhile).
ClosingReleasesSlot ==
  \A r \in Requests, a \in ApptIds :
    (/\ req[r].pc = "sweep" /\ req[r].appt # a
     /\ {b \in ApptIds : Active(b) /\ appt[b].enq = req[r].enq} = {a}) ~> ~Active(a)

\* The header of enquiries.js: "no orphaned calendar rows, no half-applied status
\* changes".  A request that booked for a status change ends with it recorded.
NoHalfAppliedChange ==
  [][\A r \in Requests :
       (/\ req[r].then = "status" /\ req[r].appt # 0
        /\ req[r].pc \in {"push", "save", "status"}
        /\ req'[r].pc = "idle") => timeline' # timeline]_allVars

=============================================================================
