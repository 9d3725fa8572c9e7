----------------------------- MODULE EmailOutbox -----------------------------
(***************************************************************************)
(* The retry queue of admin mails: services/email/outbox.js over           *)
(* db/queries/email_outbox.js.  A batch is claimed by pushing the due time *)
(* of its rows five minutes ahead in a transaction, so a claim is a lease; *)
(* the mails are then sent one by one, and each outcome is written by id   *)
(* alone.  The cron endpoint and the "Run now" button run batches at the   *)
(* same time, and an admin can requeue or delete a row.                    *)
(*                                                                         *)
(* Instants are kept as the time that is left until them, so the model     *)
(* needs no last instant.                                                  *)
(***************************************************************************)
EXTENDS Integers, Sequences, FiniteSets

CONSTANTS
  Messages,     \* rows of email_outbox, numbered from 1
  Workers,      \* batches that can be running: cron, Run now
  BatchSize,    \* rows one batch claims
  Lease,        \* the 5 minutes a claim lasts
  Backoff,      \* BACKOFF_MINUTES: the wait after each failed attempt
  MaxRequeues,  \* bound: requeues and deletes by an admin
  MaxCrashes,   \* bound: batches that die, and outcomes that cannot be written
  MaxLapses     \* bound: times a mail comes due again in a batch's hands

ASSUME MessageAssumption == Messages \subseteq Nat \ {0} /\ IsFiniteSet(Messages)
ASSUME BoundAssumption == /\ BatchSize \in Nat \ {0} /\ Lease \in Nat \ {0}
                          /\ MaxRequeues \in Nat /\ MaxCrashes \in Nat /\ MaxLapses \in Nat
                          /\ IsFiniteSet(Workers)
ASSUME BackoffAssumption == Backoff \in Seq(Nat)

MaxAttempts == Len(Backoff) + 1

VARIABLES
  box,       \* the rows: status, attempts, time to next_attempt_at (0: due)
  job,       \* the batch each worker runs, with the attempts it read
  delivered, \* SMTP sends that went through, per message
  tries,     \* SMTP sends tried since the row was last (re)queued, up to MaxAttempts
  requeues,  \* admin actions so far
  crashes,   \* failures of the process and of the database so far
  lapses     \* times the row came due while a batch still held it, per message

vars == <<box, job, delivered, tries, requeues, crashes, lapses>>

Absent  == [status |-> "none", attempts |-> 0, due |-> 0]
NoJob   == [pc |-> "idle", queue |-> <<>>, ok |-> FALSE]
Present(m) == box[m].status \notin {"none", "deleted"}
\* The batch claimed the row and has not marked it yet.
Holds(j, m) == \E i \in 1..Len(j.queue) : j.queue[i].id = m

-----------------------------------------------------------------------------

\* trySendMail could not send: the row is due at once.
Enqueue(m) ==
  /\ box[m].status = "none"
  /\ box' = [box EXCEPT ![m].status = "pending"]
  /\ UNCHANGED <<job, delivered, tries, requeues, crashes, lapses>>

\* Mutant of Due: the lease is not looked at.
DueOrLeased == {m \in Messages : box[m].status = "pending"}
\* claimBatch: the first due rows by id, locked, leased and committed in one go.
Due == {m \in Messages : box[m].status = "pending" /\ box[m].due = 0}

ClaimBatch(w) ==
  LET rank(m) == Cardinality({n \in Due : n <= m})
      taken   == {m \in Due : rank(m) <= BatchSize}
      nth(i)  == CHOOSE m \in taken : rank(m) = i
  IN /\ job[w].pc = "idle"
     /\ taken # {}
     /\ job' = [job EXCEPT ![w] = [NoJob EXCEPT !.pc = "send",
                  !.queue = [i \in 1..Cardinality(taken) |->
                               [id |-> nth(i), attempts |-> box[nth(i)].attempts]]]]
     /\ box' = [m \in Messages |-> IF m \in taken THEN [box[m] EXCEPT !.due = Lease] ELSE box[m]]
     /\ UNCHANGED <<delivered, tries, requeues, crashes, lapses>>

\* One SMTP attempt of the row as it was claimed.
Send(w) ==
  LET m == Head(job[w].queue).id
  IN /\ job[w].pc = "send"
     /\ tries' = [tries EXCEPT ![m] = IF @ < MaxAttempts THEN @ + 1 ELSE @]
     /\ \E ok \in BOOLEAN :
          /\ delivered' = [delivered EXCEPT ![m] = IF ok THEN @ + 1 ELSE @]
          /\ job' = [job EXCEPT ![w].pc = "mark", ![w].ok = ok]
     /\ UNCHANGED <<box, requeues, crashes, lapses>>

\* Mutants of Outcome: one attempt short, one too many, and never giving up.
OneShort(row, ok, n) ==
  CASE ok -> [row EXCEPT !.status = "sent", !.due = 0]
    [] ~ok /\ n + 1 >= MaxAttempts -> [status |-> "failed", attempts |-> n, due |-> 0]
    [] OTHER -> [status |-> "pending", attempts |-> n, due |-> Backoff[n]]
NeverGivesUp(row, ok, n) ==
  IF ok THEN [row EXCEPT !.status = "sent", !.due = 0]
  ELSE [status |-> "pending", attempts |-> row.attempts, due |-> Backoff[1]]
\* markSent, markFailedPermanent or markRetry.  The attempt number counts from
\* what the claim read.
Outcome(row, ok, n) ==
  CASE ok                          -> [row EXCEPT !.status = "sent", !.due = 0]
    [] ~ok /\ n >= MaxAttempts     -> [status |-> "failed", attempts |-> n, due |-> 0]
    [] ~ok /\ n < MaxAttempts      -> [status |-> "pending", attempts |-> n, due |-> Backoff[n]]

\* UPDATE ... WHERE id = ?: the row as it is by now, nothing if it was deleted.
Mark(w) ==
  LET item == Head(job[w].queue)
  IN /\ job[w].pc = "mark"
     /\ box' = IF Present(item.id)
                 THEN [box EXCEPT ![item.id] = Outcome(@, job[w].ok, item.attempts + 1)]
                 ELSE box
     /\ job' = [job EXCEPT ![w] = IF Len(job[w].queue) = 1 THEN NoJob
                                  ELSE [job[w] EXCEPT !.pc = "send", !.queue = Tail(@)]]
     /\ UNCHANGED <<delivered, tries, requeues, crashes, lapses>>

\* markSent throws inside the same try as the send: a mail that went out is
\* handled as one that failed.
MarkSentFails(w) ==
  /\ job[w].pc = "mark" /\ job[w].ok /\ crashes < MaxCrashes
  /\ crashes' = crashes + 1
  /\ job' = [job EXCEPT ![w].ok = FALSE]
  /\ UNCHANGED <<box, delivered, tries, requeues, lapses>>

\* The process stops: the lease of what was claimed runs out by itself.
Crash(w) ==
  /\ job[w].pc # "idle" /\ crashes < MaxCrashes
  /\ crashes' = crashes + 1
  /\ job' = [job EXCEPT ![w] = NoJob]
  /\ UNCHANGED <<box, delivered, tries, requeues, lapses>>

\* "Retry now": attempts start over and the row is due, whatever its status was.
Requeue(m) ==
  /\ Present(m) /\ requeues < MaxRequeues
  /\ requeues' = requeues + 1
  /\ box' = [box EXCEPT ![m] = [status |-> "pending", attempts |-> 0, due |-> 0]]
  /\ tries' = [tries EXCEPT ![m] = 0]
  /\ UNCHANGED <<job, delivered, crashes, lapses>>

Delete(m) ==
  /\ Present(m) /\ requeues < MaxRequeues
  /\ requeues' = requeues + 1
  /\ box' = [box EXCEPT ![m] = [Absent EXCEPT !.status = "deleted"]]
  /\ UNCHANGED <<job, delivered, tries, crashes, lapses>>

\* A unit of time passes, however far the batches are: a lease may run out in
\* the hands of the batch that took it.
Sooner(t) == IF t = 0 THEN 0 ELSE t - 1
Lapsing(m) == box[m].due = 1 /\ \E w \in Workers : Holds(job[w], m)
Tick ==
  /\ \E m \in Messages : box[m].due > 0
  /\ \A m \in Messages : Lapsing(m) => lapses[m] < MaxLapses
  /\ box' = [m \in Messages |-> [box[m] EXCEPT !.due = Sooner(@)]]
  /\ lapses' = [m \in Messages |-> lapses[m] + IF Lapsing(m) THEN 1 ELSE 0]
  /\ UNCHANGED <<job, delivered, tries, requeues, crashes>>

NothingDue == /\ \A w \in Workers : job[w].pc = "idle"
              /\ \A m \in Messages : box[m].status # "pending"
              /\ UNCHANGED vars

-----------------------------------------------------------------------------

Init == /\ box = [m \in Messages |-> Absent]
        /\ job = [w \in Workers |-> NoJob]
        /\ delivered = [m \in Messages |-> 0]
        /\ tries = [m \in Messages |-> 0]
        /\ requeues = 0
        /\ crashes = 0
        /\ lapses = [m \in Messages |-> 0]

Step(w) == ClaimBatch(w) \/ Send(w) \/ Mark(w)

Next == \/ \E m \in Messages : Enqueue(m) \/ Requeue(m) \/ Delete(m)
        \/ \E w \in Workers : Step(w) \/ MarkSentFails(w) \/ Crash(w)
        \/ Tick
        \/ NothingDue

Spec == Init /\ [][Next]_vars

\* cron calls the endpoint again and again, and a started batch runs on.
FairSpec == Spec /\ WF_vars(Tick) /\ \A w \in Workers : WF_vars(Step(w))

-----------------------------------------------------------------------------

TypeOK ==
  /\ box \in [Messages -> [status : {"none", "pending", "sent", "failed", "deleted"},
                           attempts : 0..MaxAttempts, due : Nat]]
  /\ job \in [Workers -> [pc : {"idle", "send", "mark"}, ok : BOOLEAN,
                          queue : Seq([id : Messages, attempts : 0..MaxAttempts])]]
  /\ delivered \in [Messages -> Nat] /\ tries \in [Messages -> 0..MaxAttempts]
  /\ requeues \in 0..MaxRequeues /\ crashes \in 0..MaxCrashes
  /\ lapses \in [Messages -> 0..MaxLapses]

\* A mail is sent again only for a reason (outbox.js, processBatch; claimBatch):
\* every delivery after the first is paid for by a lease that ran out while a
\* batch still held the row, by a batch that died or a success that could not be
\* written, or by an admin's requeue; never by two batches that run at once.
DeliveredOnce ==
  \A m \in Messages : delivered[m] <= 1 + lapses[m] + crashes + requeues

\* A row says "sent" only of a mail that went out, and gives up only after the
\* whole backoff schedule was tried (when no admin requeued it under a running
\* batch), also when batches die.
StatusIsEarned ==
  /\ TypeOK
  /\ \A m \in Messages :
       /\ box[m].status = "sent" => delivered[m] > 0
       /\ (box[m].status = "failed" /\ requeues = 0) => tries[m] >= MaxAttempts

\* Every queued mail is settled in the end: sent, given up after all attempts, or
\* deleted, also when batches die while they hold it.
EventuallySettled == \A m \in Messages :
                       (box[m].status = "pending") ~> (box[m].status # "pending")

=============================================================================
