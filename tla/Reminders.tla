------------------------------ MODULE Reminders ------------------------------
(***************************************************************************)
(* The reminder mails of a booked call: services/crm/appointmentReminders  *)
(* and the queries it runs (db/queries/appointments.js).  The interval     *)
(* worker and the cron endpoint run the same dispatch, with no flag that   *)
(* keeps two of them apart: what keeps a mail from going out twice is that *)
(* a dispatch claims a row, by setting its stamp, before it sends.         *)
(*                                                                         *)
(* Bookings are made, moved and cancelled meanwhile; only the columns the  *)
(* dispatch reads are kept.                                                *)
(***************************************************************************)
EXTENDS Integers, Sequences, FiniteSets

CONSTANTS
  Bookings,     \* rows of crm_calendar_activities, numbered from 1
  Dispatchers,  \* the interval worker, the cron request
  LeadA,        \* reminder_minutes_before_a, in units of time
  LeadB,        \* reminder_minutes_before_b, and the floor of kind a
  Limit,        \* rows one scan returns
  Horizon,      \* bound: the last instant
  MaxMoves,     \* bound: reschedules in a behaviour
  MaxFaults,    \* bound: failures in a behaviour
  Timely        \* TRUE: every unit of time sees a whole dispatch

ASSUME BookingAssumption == Bookings \subseteq Nat \ {0} /\ IsFiniteSet(Bookings)
ASSUME LeadAssumption == LeadB \in Nat \ {0} /\ LeadA \in Nat /\ LeadA >= LeadB
ASSUME BoundAssumption == /\ Limit \in Nat /\ Horizon \in Nat
                          /\ MaxMoves \in Nat /\ MaxFaults \in Nat
ASSUME TimelyAssumption == Timely \in BOOLEAN

Kinds    == {"a", "b"}
Lead(k)  == IF k = "a" THEN LeadA ELSE LeadB
\* Mutant of Floor: the farther window reaches into the nearer one.
NoFloor(k) == 0
Floor(k) == IF k = "a" THEN LeadB ELSE 0

VARIABLES
  now,     \* IST wall clock
  row,     \* sched, status and the two stamps (NULL or not) of each booking
  run,     \* the dispatch each dispatcher is in
  sent,    \* reminders handed to the mailer
  moves,   \* reschedules so far
  faults,  \* failures so far
  epoch,   \* how often each booking has been given a time (for the properties)
  since,   \* when it was given its present time (for the properties)
  seen     \* a dispatch that began in this unit of time is through

vars == <<now, row, run, sent, moves, faults, epoch, since, seen>>

NoRow  == [sched |-> 0, status |-> "none", stamp |-> [k \in Kinds |-> FALSE]]
NoRun  == [pc |-> "idle", kind |-> "a", now |-> 0, queue |-> <<>>, epoch |-> 0]
Active(b) == row[b].status = "active"
Fault  == faults < MaxFaults /\ faults' = faults + 1

-----------------------------------------------------------------------------
(* The operators' side                                                     *)

\* A booking is made for a later bucket; both stamps are NULL.
Make(b, t) ==
  /\ row[b].status = "none" /\ t > now
  /\ row' = [row EXCEPT ![b] = [NoRow EXCEPT !.sched = t, !.status = "active"]]
  /\ epoch' = [epoch EXCEPT ![b] = 1]
  /\ since' = [since EXCEPT ![b] = now]
  /\ UNCHANGED <<now, run, sent, moves, faults, seen>>

\* A real move of the slot re-arms both reminders.
Move(b, t) ==
  /\ Active(b) /\ t > now /\ t # row[b].sched /\ moves < MaxMoves
  /\ row' = [row EXCEPT ![b] = [NoRow EXCEPT !.sched = t, !.status = "active"]]
  /\ moves' = moves + 1
  /\ epoch' = [epoch EXCEPT ![b] = @ + 1]
  /\ since' = [since EXCEPT ![b] = now]
  /\ UNCHANGED <<now, run, sent, faults, seen>>

Cancel(b) ==
  /\ Active(b)
  /\ row' = [row EXCEPT ![b].status = "cancelled"]
  /\ UNCHANGED <<now, run, sent, moves, faults, epoch, since, seen>>

-----------------------------------------------------------------------------
(* The dispatch                                                            *)

\* Mutant of Due: one reminder of either kind is enough.
DueOnce(b, k, t) == /\ Active(b) /\ \A j \in Kinds : ~row[b].stamp[j]
                    /\ row[b].sched > t /\ row[b].sched <= t + Lead(k) /\ row[b].sched > t + Floor(k)
\* listDueAppointmentReminders at instant t: active, not stamped, still ahead,
\* inside the lead window, not yet inside the nearer one.
Due(b, k, t) == /\ Active(b)
                /\ ~row[b].stamp[k]
                /\ Lead(k) > 0
                /\ row[b].sched > t
                /\ row[b].sched <= t + Lead(k)
                /\ row[b].sched > t + Floor(k)

\* ORDER BY scheduled_at, id LIMIT n, with the values the rows have now.
Scan(k, t) ==
  LET due == {b \in Bookings : Due(b, k, t)}
      before(b, c) == \/ row[b].sched < row[c].sched
                      \/ row[b].sched = row[c].sched /\ b < c
      nth(n) == CHOOSE b \in due : Cardinality({c \in due : before(c, b)}) = n - 1
      size == IF Cardinality(due) < Limit THEN Cardinality(due) ELSE Limit
  IN [n \in 1..size |-> [id |-> nth(n), sched |-> row[nth(n)].sched]]

\* The instant is read once, for the whole dispatch.
Begin(d) ==
  /\ run[d].pc = "idle"
  /\ run' = [run EXCEPT ![d] = [NoRun EXCEPT !.pc = "scan", !.now = now]]
  /\ UNCHANGED <<now, row, sent, moves, faults, epoch, since, seen>>

\* What follows the last row of a kind: the other kind, or the end.
NextKind(d) ==
  IF run[d].kind = "a"
    THEN /\ run' = [run EXCEPT ![d].pc = "scan", ![d].kind = "b", ![d].queue = <<>>]
         /\ UNCHANGED seen
    ELSE /\ run' = [run EXCEPT ![d] = NoRun]
         /\ seen' = (seen \/ run[d].now = now)

ScanDue(d) ==
  /\ run[d].pc = "scan"
  /\ run' = [run EXCEPT ![d].pc = "claim", ![d].queue = Scan(run[d].kind, run[d].now)]
  /\ UNCHANGED <<now, row, sent, moves, faults, epoch, since, seen>>

\* The scan throws: on to the other kind.
ScanFails(d) ==
  /\ run[d].pc = "scan" /\ Fault
  /\ NextKind(d)
  /\ UNCHANGED <<now, row, sent, moves, epoch, since>>

\* The batch is through.
KindDone(d) ==
  /\ run[d].pc = "claim" /\ run[d].queue = <<>>
  /\ NextKind(d)
  /\ UNCHANGED <<now, row, sent, moves, faults, epoch, since>>

\* Mutant of Claimable: UPDATE without "AND stamp IS NULL".
ClaimableTwice(b, k) == Active(b)
\* UPDATE ... SET stamp WHERE stamp IS NULL AND active: one row changed or none.
Claimable(b, k) == ~row[b].stamp[k] /\ Active(b)
Claim(d) ==
  /\ run[d].pc = "claim" /\ run[d].queue # <<>>
  /\ LET b == Head(run[d].queue).id
         k == run[d].kind
     IN IF Claimable(b, k)
          THEN /\ row' = [row EXCEPT ![b].stamp[k] = TRUE]
               /\ run' = [run EXCEPT ![d].pc = "send", ![d].epoch = epoch[b]]
          ELSE /\ run' = [run EXCEPT ![d].queue = Tail(@)]
               /\ UNCHANGED row
  /\ UNCHANGED <<now, sent, moves, faults, epoch, since, seen>>

Pop(d) == run' = [run EXCEPT ![d].pc = "claim", ![d].queue = Tail(@), ![d].epoch = 0]

\* The claim throws: the row is passed over, stamped or not.
ClaimFails(d) ==
  /\ run[d].pc = "claim" /\ run[d].queue # <<>> /\ Fault
  /\ LET b == Head(run[d].queue).id
         k == run[d].kind
     IN \/ UNCHANGED row
        \/ Claimable(b, k) /\ row' = [row EXCEPT ![b].stamp[k] = TRUE]
  /\ Pop(d)
  /\ UNCHANGED <<now, sent, moves, epoch, since, seen>>

\* The mail is built from the row as it was scanned and handed over: sent, or
\* queued in the outbox, or skipped for want of an address.  The claim stays.
Send(d) ==
  LET item == Head(run[d].queue)
  IN /\ run[d].pc = "send"
     /\ sent' = Append(sent, [id |-> item.id, kind |-> run[d].kind, sched |-> item.sched,
                              epoch |-> run[d].epoch, now |-> run[d].now])
     /\ Pop(d)
     /\ UNCHANGED <<now, row, moves, faults, epoch, since, seen>>

\* Building the mail throws: the claim is given back, whoever holds it by now.
BuildFails(d) ==
  /\ run[d].pc = "send" /\ Fault
  /\ row' = [row EXCEPT ![Head(run[d].queue).id].stamp[run[d].kind] = FALSE]
  /\ Pop(d)
  /\ UNCHANGED <<now, sent, moves, epoch, since, seen>>

\* The process stops: a claim that was not followed by its mail is lost.
Crash(d) ==
  /\ run[d].pc # "idle" /\ Fault
  /\ run' = [run EXCEPT ![d] = NoRun]
  /\ UNCHANGED <<now, row, sent, moves, epoch, since, seen>>

Step(d) == Begin(d) \/ ScanDue(d) \/ KindDone(d) \/ Claim(d) \/ Send(d)

\* Timely: the interval (5 minutes) is shorter than a unit of time, so that every
\* unit sees a whole dispatch, and none lasts beyond the unit after the one it
\* began in.
Tick == /\ now < Horizon
        /\ Timely => /\ seen
                     /\ \A d \in Dispatchers : run[d].pc # "idle" => run[d].now = now
        /\ now' = now + 1
        /\ seen' = FALSE
        /\ UNCHANGED <<row, run, sent, moves, faults, epoch, since>>

AllPast == now = Horizon /\ (\A d \in Dispatchers : run[d].pc = "idle") /\ UNCHANGED vars

-----------------------------------------------------------------------------

Init == /\ now = 0
        /\ row = [b \in Bookings |-> NoRow]
        /\ run = [d \in Dispatchers |-> NoRun]
        /\ sent = <<>>
        /\ moves = 0 /\ faults = 0
        /\ epoch = [b \in Bookings |-> 0]
        /\ since = [b \in Bookings |-> 0]
        /\ seen = FALSE

Next == \/ \E b \in Bookings, t \in 1..Horizon : Make(b, t) \/ Move(b, t)
        \/ \E b \in Bookings : Cancel(b)
        \/ \E d \in Dispatchers : Step(d) \/ ScanFails(d) \/ ClaimFails(d) \/ BuildFails(d) \/ Crash(d)
        \/ Tick
        \/ AllPast

Spec == Init /\ [][Next]_vars

-----------------------------------------------------------------------------

TypeOK ==
  /\ now \in 0..Horizon
  /\ row \in [Bookings -> [sched : 0..Horizon, status : {"none", "active", "cancelled"},
                           stamp : [Kinds -> BOOLEAN]]]
  /\ run \in [Dispatchers -> [pc : {"idle", "scan", "claim", "send"}, kind : Kinds, now : 0..Horizon,
                              queue : Seq([id : Bookings, sched : 0..Horizon]), epoch : Nat]]
  /\ sent \in Seq([id : Bookings, kind : Kinds, sched : 0..Horizon, epoch : Nat, now : 0..Horizon])
  /\ moves \in 0..MaxMoves /\ faults \in 0..MaxFaults
  /\ epoch \in [Bookings -> Nat] /\ since \in [Bookings -> 0..Horizon]
  /\ seen \in BOOLEAN

\* "the admin never receives the same reminder twice" (appointments.js, on the
\* claim): for one time given to a booking, one mail of each kind, whatever
\* dispatches overlap.  A booking that is moved while its mail fails to be built
\* is left out: the claim given back then is the one of the new time.
ReminderAtMostOnce ==
  /\ TypeOK
  /\ (moves = 0 \/ faults = 0) => \A i, j \in 1..Len(sent) :
       (/\ sent[i].id = sent[j].id /\ sent[i].kind = sent[j].kind
        /\ sent[i].epoch = sent[j].epoch) => i = j

\* A call booked inside the nearer window gets the 1-hour mail alone: the same
\* instant never sends both kinds for one time of one booking.
OneKindPerInstant ==
  \A i, j \in 1..Len(sent) :
    (/\ sent[i].id = sent[j].id /\ sent[i].sched = sent[j].sched
     /\ sent[i].now = sent[j].now) => sent[i].kind = sent[j].kind

\* With a dispatch in every unit of time, a call that was given its time more
\* than a unit ahead, and two units more per failure, has its 1-hour reminder
\* claimed before the call, also when building the mail fails and is tried again.
NoCallUnreminded ==
  \A b \in Bookings :
    (Active(b) /\ row[b].sched <= now /\ row[b].sched > since[b] + 1 + 2 * faults) => row[b].stamp["b"]

\* appointments.js on rescheduling: "so the new time gets its own 1-day / 1-hour
\* pair".  A stamp that stands, with nobody sending, means a mail of this time.
StampMeansThisTime ==
  \A b \in Bookings, k \in Kinds :
    (/\ row[b].stamp[k] /\ faults = 0 /\ Active(b)
     /\ \A d \in Dispatchers : run[d].pc # "send")
       => \E i \in 1..Len(sent) : /\ sent[i].id = b /\ sent[i].kind = k
                                  /\ sent[i].sched = row[b].sched

=============================================================================
