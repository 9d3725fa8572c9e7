--------------------------- MODULE RemindersProofs ---------------------------
(***************************************************************************)
(* The promises of the reminder mails, for every number of bookings and    *)
(* dispatchers, every pair of lead times, every schedule and every number  *)
(* of moves and failures: one mail of a kind for one time of a booking,    *)
(* one kind for one instant, and no call without its last reminder.        *)
(***************************************************************************)
EXTENDS Reminders, FiniteSetTheorems, TLAPS

USE BookingAssumption, LeadAssumption, BoundAssumption DEF Kinds

Items == [id : Bookings, sched : 0..Horizon]
Rows  == [sched : 0..Horizon, status : {"none", "active", "cancelled"},
          stamp : [Kinds -> BOOLEAN]]
Runs  == [pc : {"idle", "scan", "claim", "send"}, kind : Kinds, now : 0..Horizon,
          queue : Seq(Items), epoch : Nat]
Mails == [id : Bookings, kind : Kinds, sched : 0..Horizon, epoch : Nat, now : 0..Horizon]

-----------------------------------------------------------------------------
(* What a scan returns.  The rows are picked by their rank in a strict order *)
(* of the due ones: ranks number a finite set without a gap.                 *)

Before(b, c) == \/ row[b].sched < row[c].sched
                \/ row[b].sched = row[c].sched /\ b < c

Rank(S, b) == Cardinality({c \in S : Before(c, b)})

\* Of two rows one comes before the other, and what is before the earlier one is
\* before the later one.
LEMMA BeforeOrders ==
  ASSUME TypeOK
  PROVE  /\ \A b \in Bookings : ~Before(b, b)
         /\ \A b, c \in Bookings : b # c => Before(b, c) \/ Before(c, b)
         /\ \A b, c, e \in Bookings : Before(b, c) /\ Before(c, e) => Before(b, e)
<1>1. \A b \in Bookings : row[b].sched \in Nat /\ b \in Nat
  BY DEF TypeOK
<1> QED BY <1>1 DEF Before

\* Ranks grow along the order.
LEMMA RankGrows ==
  ASSUME TypeOK, NEW S \in SUBSET Bookings, NEW b \in S, NEW c \in S, Before(b, c)
  PROVE  Rank(S, b) \in Nat /\ Rank(S, c) \in Nat /\ Rank(S, b) < Rank(S, c)
<1> DEFINE A == {e \in S : Before(e, b)}
           B == {e \in S : Before(e, c)}
<1>0. IsFiniteSet(S)
  BY FS_Subset
<1>1. /\ IsFiniteSet(B) /\ Cardinality(B) \in Nat
      /\ IsFiniteSet(A) /\ Cardinality(A) \in Nat
  BY <1>0, FS_Subset, FS_CardinalityType
<1>2. A \subseteq B /\ b \in B /\ b \notin A
  BY BeforeOrders
<1>3. Cardinality(A) <= Cardinality(B) /\ Cardinality(A) # Cardinality(B)
  <2> HIDE DEF A, B
  <2> QED BY <1>1, <1>2, FS_Subset
<1> QED BY <1>1, <1>3 DEF Rank

\* Ranks are the numbers from 0 up to the size of the set, each of them once.
LEMMA RankNumbers ==
  ASSUME TypeOK, NEW S \in SUBSET Bookings
  PROVE  /\ IsFiniteSet(S) /\ Cardinality(S) \in Nat
         /\ \A b \in S : Rank(S, b) \in 0..(Cardinality(S) - 1)
         /\ \A i \in 0..(Cardinality(S) - 1) : \E b \in S : Rank(S, b) = i
<1>1. IsFiniteSet(S) /\ Cardinality(S) \in Nat
  BY FS_Subset, FS_CardinalityType
<1>2. ASSUME NEW b \in S PROVE Rank(S, b) \in 0..(Cardinality(S) - 1)
  <2> DEFINE A == {e \in S : Before(e, b)}
  <2>1. IsFiniteSet(A) /\ Cardinality(A) \in Nat /\ A \subseteq S /\ b \notin A
    BY <1>1, FS_Subset, FS_CardinalityType, BeforeOrders
  <2>2. Cardinality(A) <= Cardinality(S) /\ Cardinality(A) # Cardinality(S)
    <3> HIDE DEF A
    <3> QED BY <1>1, <2>1, FS_Subset
  <2> QED BY <1>1, <2>1, <2>2 DEF Rank
<1>3. ASSUME NEW b \in S, NEW c \in S, Rank(S, b) = Rank(S, c) PROVE b = c
  <2>1. CASE Before(b, c)
    BY <1>3, <2>1, RankGrows
  <2>2. CASE Before(c, b)
    BY <1>3, <2>2, RankGrows
  <2> QED BY <2>1, <2>2, BeforeOrders
<1>4. \A i \in 0..(Cardinality(S) - 1) : \E b \in S : Rank(S, b) = i
  <2> DEFINE T == 0..(Cardinality(S) - 1)
             f == [b \in S |-> Rank(S, b)]
  <2>1. f \in Injection(S, T)
    BY <1>2, <1>3 DEF Injection, IsInjective
  <2>2. IsFiniteSet(T) /\ Cardinality(T) = Cardinality(S)
    <3> DEFINE n == Cardinality(S) - 1
    <3>1. n \in Int /\ n >= -1 /\ Cardinality(S) = n + 1
      BY <1>1
    <3> HIDE DEF n
    <3>2. IsFiniteSet(0..n) /\ Cardinality(0..n) = n + 1
      <4>1. IsFiniteSet(0..n) /\ Cardinality(0..n) = IF 0 > n THEN 0 ELSE n - 0 + 1
        BY <3>1, FS_Interval
      <4>2. (IF 0 > n THEN 0 ELSE n - 0 + 1) = n + 1
        BY <3>1
      <4> QED BY <4>1, <4>2
    <3> QED BY <3>1, <3>2 DEF n
  <2>3. f \in Surjection(S, T)
    <3> HIDE DEF f, T
    <3> QED BY <2>1, <2>2, FS_Injection
  <2> QED BY <2>3 DEF Surjection
<1> QED BY <1>1, <1>2, <1>4

\* Every row of a scan was due, as it was then; and a scan that may take as many
\* rows as there are takes all that are due.
LEMMA ScanTakesDue ==
  ASSUME TypeOK, NEW k \in Kinds, NEW t \in Nat
  PROVE  /\ Scan(k, t) \in Seq(Items)
         /\ \A i \in 1..Len(Scan(k, t)) :
              LET item == Scan(k, t)[i]
              IN item.id \in Bookings /\ Due(item.id, k, t) /\ item.sched = row[item.id].sched
         /\ Cardinality(Bookings) <= Limit =>
              \A b \in Bookings : Due(b, k, t) => \E i \in 1..Len(Scan(k, t)) : Scan(k, t)[i].id = b
<1> DEFINE due    == {b \in Bookings : Due(b, k, t)}
           nth(n) == CHOOSE b \in due : Rank(due, b) = n - 1
           size   == IF Cardinality(due) < Limit THEN Cardinality(due) ELSE Limit
           q      == [n \in 1..size |-> [id |-> nth(n), sched |-> row[nth(n)].sched]]
<1>1. Scan(k, t) = q
  BY DEF Scan, Rank, Before
<1>2. due \subseteq Bookings /\ (\A b \in Bookings : Due(b, k, t) <=> b \in due)
  OBVIOUS
<1> HIDE DEF due
<1>3. /\ Cardinality(due) \in Nat
      /\ \A b \in due : Rank(due, b) \in 0..(Cardinality(due) - 1)
      /\ \A i \in 0..(Cardinality(due) - 1) : \E b \in due : Rank(due, b) = i
  BY <1>2, RankNumbers
<1>4. size \in Nat /\ size <= Cardinality(due)
  BY <1>3
<1>5. \A n \in 1..size : nth(n) \in due /\ Rank(due, nth(n)) = n - 1
  <2> SUFFICES ASSUME NEW n \in 1..size PROVE \E b \in due : Rank(due, b) = n - 1
    OBVIOUS
  <2>1. n - 1 \in 0..(Cardinality(due) - 1)
    BY <1>3, <1>4
  <2> QED BY <1>3, <2>1
<1>6. Cardinality(Bookings) <= Limit => size = Cardinality(due)
  <2>1. Cardinality(due) <= Cardinality(Bookings) /\ Cardinality(Bookings) \in Nat
    BY <1>2, FS_Subset, FS_CardinalityType
  <2> QED BY <1>3, <2>1
<1> HIDE DEF size
<1>7. Len(q) = size /\ \A n \in 1..size : q[n].id = nth(n) /\ q[n].sched = row[nth(n)].sched
  <2> HIDE DEF nth
  <2> QED BY <1>4
<1>8. q \in Seq(Items)
  <2>1. \A n \in 1..size : nth(n) \in Bookings /\ row[nth(n)].sched \in 0..Horizon
    BY <1>2, <1>5 DEF TypeOK
  <2> HIDE DEF nth
  <2>2. \A n \in 1..size : q[n] \in Items
    BY <2>1 DEF Items
  <2> QED BY <1>4, <2>2
<1>9. ASSUME Cardinality(Bookings) <= Limit, NEW b \in due
      PROVE  \E i \in 1..size : nth(i) = b
  <2> DEFINE i == Rank(due, b) + 1
  <2>1. i \in 1..size /\ i - 1 = Rank(due, b)
    BY <1>3, <1>6, <1>9
  <2> HIDE DEF i
  <2>2. nth(i) \in due /\ Rank(due, nth(i)) = Rank(due, b)
    BY <1>5, <2>1
  <2>3. nth(i) = b
    <3> DEFINE c == nth(i)
    <3>1. c \in due /\ Rank(due, c) = Rank(due, b) /\ c \in Bookings /\ b \in Bookings
      BY <1>2, <2>2
    <3> HIDE DEF c
    <3>2. ~Before(c, b)
      BY <1>2, <1>3, <3>1, RankGrows
    <3>3. ~Before(b, c)
      BY <1>2, <1>3, <3>1, RankGrows
    <3>4. c = b
      BY <3>1, <3>2, <3>3, BeforeOrders
    <3> QED BY <3>4 DEF c
  <2> QED BY <2>1, <2>3
<1> HIDE DEF nth, q
<1>10. \A i \in 1..Len(q) : q[i].id \in Bookings /\ Due(q[i].id, k, t) /\ q[i].sched = row[q[i].id].sched
  BY <1>2, <1>5, <1>7
<1>11. Cardinality(Bookings) <= Limit =>
         \A b \in Bookings : Due(b, k, t) => \E i \in 1..Len(q) : q[i].id = b
  <2> SUFFICES ASSUME Cardinality(Bookings) <= Limit, NEW b \in Bookings, Due(b, k, t)
               PROVE  \E i \in 1..Len(q) : q[i].id = b
    OBVIOUS
  <2>1. PICK i \in 1..size : nth(i) = b
    BY <1>2, <1>9
  <2> QED BY <1>7, <2>1
<1> QED BY <1>1, <1>8, <1>10, <1>11

-----------------------------------------------------------------------------
(* Types, and what a step makes of the dispatch it belongs to.               *)

TypeInv == TypeOK /\ \A d \in Dispatchers : run[d].pc = "send" => run[d].queue # <<>>

Begun      == [NoRun EXCEPT !.pc = "scan", !.now = now]
Scanned(j) == [j EXCEPT !.pc = "claim", !.queue = Scan(j.kind, j.now)]
Turned(j)  == IF j.kind = "a" THEN [j EXCEPT !.pc = "scan", !.kind = "b", !.queue = <<>>] ELSE NoRun
Passed(j)  == [j EXCEPT !.queue = Tail(j.queue)]
Claimed(j) == [j EXCEPT !.pc = "send", !.epoch = epoch[Head(j.queue).id]]
Popped(j)  == [j EXCEPT !.pc = "claim", !.queue = Tail(j.queue), !.epoch = 0]

\* The actions of a dispatch, as the record they leave of it.
LEMMA DispatchMoves ==
  ASSUME TypeOK, NEW d \in Dispatchers
  PROVE  /\ Begin(d) => run' = [run EXCEPT ![d] = Begun]
         /\ ScanDue(d) => run' = [run EXCEPT ![d] = Scanned(run[d])]
         /\ NextKind(d) => run' = [run EXCEPT ![d] = Turned(run[d])]
         /\ Claim(d) => run' = [run EXCEPT ![d] =
              IF Claimable(Head(run[d].queue).id, run[d].kind) THEN Claimed(run[d]) ELSE Passed(run[d])]
         /\ Pop(d) => run' = [run EXCEPT ![d] = Popped(run[d])]
<1>1. run \in [Dispatchers -> Runs] /\ run[d] \in Runs
  BY DEF TypeOK, Runs, Items
<1>2. Begin(d) => run' = [run EXCEPT ![d] = Begun]
  BY DEF Begin, Begun
<1>3. ScanDue(d) => run' = [run EXCEPT ![d] = Scanned(run[d])]
  BY <1>1 DEF ScanDue, Scanned, Runs
<1>4. NextKind(d) => run' = [run EXCEPT ![d] = Turned(run[d])]
  BY <1>1 DEF NextKind, Turned, Runs
<1>5. Claim(d) => run' = [run EXCEPT ![d] =
        IF Claimable(Head(run[d].queue).id, run[d].kind) THEN Claimed(run[d]) ELSE Passed(run[d])]
  BY <1>1 DEF Claim, Claimed, Passed, Runs
<1>6. Pop(d) => run' = [run EXCEPT ![d] = Popped(run[d])]
  BY <1>1 DEF Pop, Popped, Runs
<1> QED BY <1>2, <1>3, <1>4, <1>5, <1>6

\* The first item of a queue, and the rest of it.
LEMMA QueueSplits ==
  ASSUME NEW q \in Seq(Items), q # <<>>
  PROVE  /\ Head(q) \in Items /\ Head(q) = q[1] /\ Len(q) \in Nat /\ Len(q) > 0 /\ 1 \in 1..Len(q)
         /\ Tail(q) \in Seq(Items) /\ Len(Tail(q)) = Len(q) - 1
         /\ \A i \in 1..Len(Tail(q)) : Tail(q)[i] = q[i + 1] /\ i + 1 \in 1..Len(q)
  OBVIOUS

\* What these records are.
LEMMA RecordsTyped ==
  ASSUME TypeOK, NEW j \in Runs
  PROVE  /\ NoRun \in Runs /\ Begun \in Runs /\ Scanned(j) \in Runs /\ Turned(j) \in Runs
         /\ j.queue # <<>> => Passed(j) \in Runs /\ Claimed(j) \in Runs /\ Popped(j) \in Runs
<1>1. NoRun \in Runs /\ Begun \in Runs /\ Turned(j) \in Runs
  <2>1. <<>> \in Seq(Items) /\ 0 \in 0..Horizon /\ now \in 0..Horizon /\ 0 \in Nat
    BY DEF TypeOK
  <2>2. NoRun \in Runs
    BY <2>1 DEF NoRun, Runs
  <2>3. Begun \in Runs
    BY <2>1, <2>2 DEF Begun, Runs
  <2>4. Turned(j) \in Runs
    BY <2>1, <2>2 DEF Turned, Runs
  <2> QED BY <2>2, <2>3, <2>4
<1>2. Scanned(j) \in Runs
  <2>1. Scan(j.kind, j.now) \in Seq(Items)
    <3>1. j.kind \in Kinds /\ j.now \in Nat
      BY DEF Runs
    <3> QED BY <3>1, ScanTakesDue
  <2> DEFINE q == Scan(j.kind, j.now)
  <2> HIDE DEF q
  <2>2. [j EXCEPT !.pc = "claim", !.queue = q] \in Runs
    BY <2>1 DEF Runs, q
  <2> QED BY <2>2 DEF Scanned, q
<1>3. ASSUME j.queue # <<>> PROVE Passed(j) \in Runs /\ Claimed(j) \in Runs /\ Popped(j) \in Runs
  <2>1. /\ j.queue \in Seq(Items) /\ Tail(j.queue) \in Seq(Items)
        /\ epoch[Head(j.queue).id] \in Nat
    <3>1. j.queue \in Seq(Items)
      BY DEF Runs
    <3>2. Tail(j.queue) \in Seq(Items) /\ Head(j.queue) \in Items
      BY <1>3, <3>1, QueueSplits
    <3> QED BY <3>1, <3>2 DEF Items, TypeOK
  <2> QED BY <2>1 DEF Passed, Claimed, Popped, Runs
<1> QED BY <1>1, <1>2, <1>3

\* Initially.
LEMMA InitTyped == Init => TypeInv
<1> SUFFICES ASSUME Init PROVE TypeInv
  OBVIOUS
<1>1. NoRow \in Rows /\ NoRow.status = "none"
  <2>1. [k \in Kinds |-> FALSE] \in [Kinds -> BOOLEAN] /\ 0 \in 0..Horizon
    OBVIOUS
  <2> QED BY <2>1 DEF NoRow, Rows
<1>2. NoRun \in Runs /\ NoRun.pc = "idle"
  <2>1. <<>> \in Seq(Items) /\ 0 \in 0..Horizon /\ 0 \in Nat
    OBVIOUS
  <2> QED BY <2>1 DEF NoRun, Runs
<1>3. /\ now \in 0..Horizon /\ sent \in Seq(Mails) /\ moves \in 0..MaxMoves /\ faults \in 0..MaxFaults
      /\ epoch \in [Bookings -> Nat] /\ since \in [Bookings -> 0..Horizon] /\ seen \in BOOLEAN
  <2>1. 0 \in 0..Horizon /\ 0 \in 0..MaxMoves /\ 0 \in 0..MaxFaults /\ 0 \in Nat /\ <<>> \in Seq(Mails)
    OBVIOUS
  <2> QED BY <2>1 DEF Init
<1>4. row \in [Bookings -> Rows] /\ run \in [Dispatchers -> Runs]
  BY <1>1, <1>2 DEF Init
<1>5. \A d \in Dispatchers : run[d].pc = "idle"
  BY <1>2 DEF Init
<1> QED BY <1>3, <1>4, <1>5 DEF TypeInv, TypeOK, Runs, Items, Rows, Mails

\* A step of one dispatch keeps the types when the record it leaves is one.
LEMMA OneRunTyped ==
  ASSUME TypeInv, NEW d \in Dispatchers, NEW j \in Runs, run' = [run EXCEPT ![d] = j],
         j.pc = "send" => j.queue # <<>>,
         row' \in [Bookings -> Rows], sent' \in Seq(Mails), faults' \in 0..MaxFaults,
         seen' \in BOOLEAN, UNCHANGED <<now, moves, epoch, since>>
  PROVE  TypeInv'
<1>1. run \in [Dispatchers -> Runs] /\ \A e \in Dispatchers : run[e].pc = "send" => run[e].queue # <<>>
  BY DEF TypeInv, TypeOK, Runs, Items
<1>2. run' \in [Dispatchers -> Runs] /\ \A e \in Dispatchers : run'[e].pc = "send" => run'[e].queue # <<>>
  BY <1>1
<1>3. /\ now' \in 0..Horizon /\ moves' \in 0..MaxMoves /\ epoch' \in [Bookings -> Nat]
      /\ since' \in [Bookings -> 0..Horizon]
  BY DEF TypeInv, TypeOK
<1> QED BY <1>2, <1>3 DEF TypeInv, TypeOK, Runs, Items, Rows, Mails

\* The failures are counted up to their bound.
LEMMA FaultCounts ==
  ASSUME TypeOK, Fault
  PROVE  faults' \in 0..MaxFaults /\ faults \in Nat /\ faults' = faults + 1
  BY DEF TypeOK, Fault

\* One stamp of one row is written.
LEMMA StampTyped ==
  ASSUME TypeOK, NEW b \in Bookings, NEW k \in Kinds, NEW v \in BOOLEAN
  PROVE  [row EXCEPT ![b].stamp[k] = v] \in [Bookings -> Rows]
<1> DEFINE old == row[b]
           st  == [old.stamp EXCEPT ![k] = v]
           new == [old EXCEPT !.stamp = st]
<1>1. row \in [Bookings -> Rows] /\ old \in Rows
  BY DEF TypeOK, Rows
<1>2. st \in [Kinds -> BOOLEAN]
  BY <1>1 DEF Rows
<1>3. new \in Rows
  <2> HIDE DEF st, old
  <2> QED BY <1>1, <1>2 DEF Rows
<1>4. [row EXCEPT ![b].stamp[k] = v] = [row EXCEPT ![b] = new]
  BY <1>1
<1> HIDE DEF new
<1> QED BY <1>1, <1>3, <1>4

\* Every step keeps the types.
LEMMA StepTyped == TypeInv /\ [Next]_vars => TypeInv'
<1> SUFFICES ASSUME TypeInv, [Next]_vars PROVE TypeInv'
  OBVIOUS
<1>0. /\ TypeOK /\ row \in [Bookings -> Rows] /\ sent \in Seq(Mails) /\ faults \in 0..MaxFaults
      /\ seen \in BOOLEAN /\ run \in [Dispatchers -> Runs] /\ now \in 0..Horizon
  BY DEF TypeInv, TypeOK, Runs, Items, Rows, Mails
<1>1. ASSUME NEW b \in Bookings, NEW t \in 1..Horizon, Make(b, t) \/ Move(b, t) PROVE TypeInv'
  <2> DEFINE new == [NoRow EXCEPT !.sched = t, !.status = "active"]
  <2>1. new \in Rows /\ row' = [row EXCEPT ![b] = new]
    <3>1. [k \in Kinds |-> FALSE] \in [Kinds -> BOOLEAN] /\ t \in 0..Horizon
      OBVIOUS
    <3>2. new \in Rows
      BY <3>1 DEF NoRow, Rows
    <3> QED BY <1>1, <3>2 DEF Make, Move
  <2> HIDE DEF new
  <2>2. row' \in [Bookings -> Rows]
    BY <1>0, <2>1
  <2>3. epoch' \in [Bookings -> Nat] /\ since' \in [Bookings -> 0..Horizon] /\ moves' \in 0..MaxMoves
    <3>1. /\ moves \in 0..MaxMoves /\ epoch \in [Bookings -> Nat]
          /\ since \in [Bookings -> 0..Horizon]
      BY DEF TypeInv, TypeOK
    <3>2. since' = [since EXCEPT ![b] = now] /\ (epoch' = [epoch EXCEPT ![b] = 1] \/ epoch' = [epoch EXCEPT ![b] = @ + 1])
      BY <1>1 DEF Make, Move
    <3>3. moves' = moves \/ (moves < MaxMoves /\ moves' = moves + 1)
      BY <1>1 DEF Make, Move
    <3>4. moves' \in 0..MaxMoves
      BY <3>1, <3>3
    <3> QED BY <1>0, <3>1, <3>2, <3>4
  <2>4. UNCHANGED <<now, run, sent, faults, seen>>
    BY <1>1 DEF Make, Move
  <2> QED BY <2>2, <2>3, <2>4 DEF TypeInv, TypeOK, Rows
<1>2. ASSUME NEW b \in Bookings, Cancel(b) PROVE TypeInv'
  <2>1. row' \in [Bookings -> Rows]
    BY <1>0, <1>2 DEF Cancel, Rows
  <2> QED BY <1>2, <2>1 DEF Cancel, TypeInv, TypeOK, Rows
<1>3. ASSUME NEW d \in Dispatchers, Begin(d) PROVE TypeInv'
  <2>1. run' = [run EXCEPT ![d] = Begun] /\ Begun \in Runs /\ Begun.pc = "scan"
    BY <1>0, <1>3, DispatchMoves, RecordsTyped DEF Begun, NoRun
  <2> QED BY <1>0, <1>3, <2>1, OneRunTyped DEF Begin
<1>4. ASSUME NEW d \in Dispatchers, ScanDue(d) PROVE TypeInv'
  <2>1. run' = [run EXCEPT ![d] = Scanned(run[d])] /\ Scanned(run[d]) \in Runs
    BY <1>0, <1>4, DispatchMoves, RecordsTyped
  <2>2. Scanned(run[d]).pc = "claim"
    BY <1>0 DEF Scanned, Runs
  <2> QED BY <1>0, <1>4, <2>1, <2>2, OneRunTyped DEF ScanDue
<1>5. ASSUME NEW d \in Dispatchers, NextKind(d), UNCHANGED <<now, row, sent, moves, epoch, since>>,
             faults' \in 0..MaxFaults
      PROVE  TypeInv'
  <2>1. run' = [run EXCEPT ![d] = Turned(run[d])] /\ Turned(run[d]) \in Runs
    BY <1>0, <1>5, DispatchMoves, RecordsTyped
  <2>2. Turned(run[d]).pc # "send"
    BY <1>0 DEF Turned, Runs, NoRun
  <2>3. seen' \in BOOLEAN
    BY <1>0, <1>5 DEF NextKind
  <2> QED BY <1>0, <1>5, <2>1, <2>2, <2>3, OneRunTyped
<1>6. ASSUME NEW d \in Dispatchers, ScanFails(d) PROVE TypeInv'
  BY <1>0, <1>5, <1>6, FaultCounts DEF ScanFails
<1>7. ASSUME NEW d \in Dispatchers, KindDone(d) PROVE TypeInv'
  BY <1>0, <1>5, <1>7 DEF KindDone
<1>8. ASSUME NEW d \in Dispatchers, Claim(d) PROVE TypeInv'
  <2> DEFINE b == Head(run[d].queue).id
             k == run[d].kind
  <2>1. run[d].queue # <<>> /\ run[d] \in Runs /\ run[d].queue \in Seq(Items) /\ k \in Kinds
    BY <1>0, <1>8 DEF Claim, Runs
  <2>2. b \in Bookings
    BY <2>1, QueueSplits DEF Items
  <2>3. Passed(run[d]) \in Runs /\ Claimed(run[d]) \in Runs
    BY <1>0, <2>1, RecordsTyped
  <2>4. UNCHANGED <<now, sent, moves, faults, epoch, since, seen>>
    BY <1>8 DEF Claim
  <2>5. CASE Claimable(b, k)
    <3>1. row' = [row EXCEPT ![b].stamp[k] = TRUE]
      BY <1>8, <2>5 DEF Claim
    <3>2. run' = [run EXCEPT ![d] = Claimed(run[d])] /\ Claimed(run[d]).queue = run[d].queue
      BY <1>0, <1>8, <2>1, <2>5, DispatchMoves DEF Claimed, Runs
    <3>3. row' \in [Bookings -> Rows]
      BY <1>0, <2>1, <2>2, <3>1, StampTyped
    <3> QED BY <1>0, <2>1, <2>3, <2>4, <3>2, <3>3, OneRunTyped
  <2>6. CASE ~Claimable(b, k)
    <3>1. row' = row /\ run[d].pc = "claim"
      BY <1>8, <2>6 DEF Claim
    <3>2. run' = [run EXCEPT ![d] = Passed(run[d])]
      BY <1>0, <1>8, <2>6, DispatchMoves
    <3>3. Passed(run[d]).pc = "claim"
      BY <2>1, <3>1 DEF Passed, Runs
    <3> QED BY <1>0, <2>3, <2>4, <3>1, <3>2, <3>3, OneRunTyped
  <2> QED BY <2>5, <2>6
<1>9. ASSUME NEW d \in Dispatchers, Pop(d), run[d].queue # <<>>, row' \in [Bookings -> Rows],
             sent' \in Seq(Mails), faults' \in 0..MaxFaults, UNCHANGED <<now, moves, epoch, since, seen>>
      PROVE  TypeInv'
  <2>1. run' = [run EXCEPT ![d] = Popped(run[d])] /\ Popped(run[d]) \in Runs
    BY <1>0, <1>9, DispatchMoves, RecordsTyped
  <2>2. Popped(run[d]).pc = "claim"
    BY <1>0 DEF Popped, Runs
  <2> QED BY <1>0, <1>9, <2>1, <2>2, OneRunTyped
<1>10. ASSUME NEW d \in Dispatchers, run[d].queue # <<>>
       PROVE  Head(run[d].queue).id \in Bookings /\ Head(run[d].queue).sched \in 0..Horizon /\ run[d] \in Runs
  <2>1. run[d] \in Runs /\ run[d].queue \in Seq(Items)
    BY <1>0 DEF Runs
  <2>2. Head(run[d].queue) \in Items
    BY <1>10, <2>1, QueueSplits
  <2> QED BY <2>1, <2>2 DEF Items
<1>11. ASSUME NEW d \in Dispatchers, ClaimFails(d) PROVE TypeInv'
  <2>1. run[d].queue # <<>> /\ Pop(d) /\ UNCHANGED <<now, sent, moves, epoch, since, seen>> /\ Fault
    BY <1>11 DEF ClaimFails
  <2>2. row' = row \/ row' = [row EXCEPT ![Head(run[d].queue).id].stamp[run[d].kind] = TRUE]
    BY <1>11 DEF ClaimFails
  <2>3. row' \in [Bookings -> Rows]
    <3>1. Head(run[d].queue).id \in Bookings /\ run[d].kind \in Kinds /\ TRUE \in BOOLEAN
      BY <1>10, <2>1 DEF Runs
    <3>2. [row EXCEPT ![Head(run[d].queue).id].stamp[run[d].kind] = TRUE] \in [Bookings -> Rows]
      BY <1>0, <3>1, StampTyped
    <3> QED BY <1>0, <2>2, <3>2
  <2> QED BY <1>0, <1>9, <2>1, <2>3, FaultCounts
<1>12. ASSUME NEW d \in Dispatchers, BuildFails(d) PROVE TypeInv'
  <2>1. run[d].queue # <<>> /\ Pop(d) /\ UNCHANGED <<now, sent, moves, epoch, since, seen>> /\ Fault
    BY <1>12 DEF BuildFails, TypeInv
  <2>2. row' = [row EXCEPT ![Head(run[d].queue).id].stamp[run[d].kind] = FALSE]
    BY <1>12 DEF BuildFails
  <2>3. row' \in [Bookings -> Rows]
    <3>1. Head(run[d].queue).id \in Bookings /\ run[d].kind \in Kinds /\ FALSE \in BOOLEAN
      BY <1>10, <2>1 DEF Runs
    <3> QED BY <1>0, <2>2, <3>1, StampTyped
  <2> QED BY <1>0, <1>9, <2>1, <2>3, FaultCounts
<1>13. ASSUME NEW d \in Dispatchers, Send(d) PROVE TypeInv'
  <2> DEFINE mail == [id |-> Head(run[d].queue).id, kind |-> run[d].kind, sched |-> Head(run[d].queue).sched,
                      epoch |-> run[d].epoch, now |-> run[d].now]
  <2>1. /\ run[d].queue # <<>> /\ Pop(d) /\ UNCHANGED <<now, row, moves, faults, epoch, since, seen>>
        /\ sent' = Append(sent, mail)
    BY <1>13 DEF Send, TypeInv
  <2>2. mail \in Mails
    BY <1>10, <2>1 DEF Mails, Runs
  <2> HIDE DEF mail
  <2>3. sent' \in Seq(Mails)
    BY <1>0, <2>1, <2>2
  <2> QED BY <1>0, <1>9, <2>1, <2>3
<1>14. ASSUME NEW d \in Dispatchers, Crash(d) PROVE TypeInv'
  <2>1. run' = [run EXCEPT ![d] = NoRun] /\ NoRun \in Runs /\ NoRun.pc = "idle"
    BY <1>0, <1>14, RecordsTyped DEF Crash, NoRun
  <2> QED BY <1>0, <1>14, <2>1, OneRunTyped, FaultCounts DEF Crash
<1>15. ASSUME Tick PROVE TypeInv'
  <2>0. now < Horizon /\ now' = now + 1 /\ seen' = FALSE /\ UNCHANGED <<row, run, sent, moves, faults, epoch, since>>
    BY <1>15 DEF Tick
  <2>1. now' \in 0..Horizon /\ seen' \in BOOLEAN
    <3>1. now \in 0..Horizon /\ Horizon \in Nat
      BY <1>0
    <3>2. now' \in 0..Horizon
      BY <2>0, <3>1
    <3> QED BY <2>0, <3>2
  <2> QED BY <2>0, <2>1 DEF TypeInv, TypeOK
<1>16. ASSUME UNCHANGED vars PROVE TypeInv'
  BY <1>16 DEF vars, TypeInv, TypeOK
<1> QED BY <1>1, <1>2, <1>3, <1>4, <1>6, <1>7, <1>8, <1>11, <1>12, <1>13, <1>14, <1>15, <1>16
        DEF Next, Step, AllPast

-----------------------------------------------------------------------------
(* One kind for one instant.  What a dispatch has in hand lay in the window  *)
(* of its kind when it began, and so did what it sent; the windows of the    *)
(* two kinds do not meet.                                                    *)

Window(k, t, s) == t + Floor(k) < s /\ s <= t + Lead(k)

Fits(j) == \A i \in 1..Len(j.queue) : Window(j.kind, j.now, j.queue[i].sched)

WindowInv == /\ \A d \in Dispatchers : Fits(run[d])
             /\ \A i \in 1..Len(sent) : Window(sent[i].kind, sent[i].now, sent[i].sched)

\* The other dispatches are not touched.
LEMMA OneRunFits ==
  ASSUME TypeInv, WindowInv, NEW d \in Dispatchers, NEW j, run' = [run EXCEPT ![d] = j], Fits(j)
  PROVE  \A e \in Dispatchers : Fits(run'[e])
<1>1. run \in [Dispatchers -> Runs]
  BY DEF TypeInv, TypeOK, Runs, Items
<1>2. \A e \in Dispatchers : run'[e] = IF e = d THEN j ELSE run[e]
  BY <1>1
<1> QED BY <1>2 DEF WindowInv

\* What is left of a queue fits when the queue did.
LEMMA RestFits ==
  ASSUME NEW j \in Runs, Fits(j), j.queue # <<>>
  PROVE  Fits(Passed(j)) /\ Fits(Claimed(j)) /\ Fits(Popped(j))
<1>0. j.queue \in Seq(Items)
  BY DEF Runs
<1>1. /\ \A i \in 1..Len(Tail(j.queue)) : Tail(j.queue)[i] = j.queue[i + 1] /\ i + 1 \in 1..Len(j.queue)
  BY <1>0, QueueSplits
<1> DEFINE q == Tail(j.queue)
<1>2. \A i \in 1..Len(q) : Window(j.kind, j.now, q[i].sched)
  <2> SUFFICES ASSUME NEW i \in 1..Len(q) PROVE Window(j.kind, j.now, q[i].sched)
    OBVIOUS
  <2>1. q[i] = j.queue[i + 1] /\ i + 1 \in 1..Len(j.queue)
    BY <1>1
  <2> QED BY <2>1 DEF Fits
<1> HIDE DEF q
<1>3. Passed(j).queue = q /\ Passed(j).kind = j.kind /\ Passed(j).now = j.now
  BY DEF Passed, Runs, q
<1>4. Popped(j).queue = q /\ Popped(j).kind = j.kind /\ Popped(j).now = j.now
  BY DEF Popped, Runs, q
<1>5. Claimed(j).queue = j.queue /\ Claimed(j).kind = j.kind /\ Claimed(j).now = j.now
  BY DEF Claimed, Runs
<1> QED BY <1>2, <1>3, <1>4, <1>5 DEF Fits

\* An empty queue fits.
LEMMA NothingFits == ASSUME NEW j, j.queue = <<>> PROVE Fits(j)
  BY DEF Fits

\* Initially.
LEMMA InitFits == Init => WindowInv
  BY DEF Init, WindowInv, Fits, NoRun

\* Every step keeps to the windows.
LEMMA StepFits == TypeInv /\ WindowInv /\ [Next]_vars => WindowInv'
<1> SUFFICES ASSUME TypeInv, WindowInv, [Next]_vars PROVE WindowInv'
  OBVIOUS
<1>0. /\ TypeOK /\ run \in [Dispatchers -> Runs] /\ sent \in Seq(Mails)
  BY DEF TypeInv, TypeOK, Runs, Items, Mails
<1>1. ASSUME UNCHANGED <<run, sent>> PROVE WindowInv'
  BY <1>1 DEF WindowInv
<1>2. ASSUME NEW d \in Dispatchers, NEW j, run' = [run EXCEPT ![d] = j], Fits(j), UNCHANGED sent
      PROVE  WindowInv'
  BY <1>2, OneRunFits DEF WindowInv
<1>3. ASSUME NEW d \in Dispatchers, Begin(d) PROVE WindowInv'
  <2>1. run' = [run EXCEPT ![d] = Begun] /\ Fits(Begun)
    BY <1>0, <1>3, DispatchMoves DEF Begun, NoRun, Fits
  <2> QED BY <1>2, <1>3, <2>1 DEF Begin
<1>4. ASSUME NEW d \in Dispatchers, ScanDue(d) PROVE WindowInv'
  <2> DEFINE j == run[d]
             q == Scan(j.kind, j.now)
  <2>1. run' = [run EXCEPT ![d] = Scanned(j)]
    BY <1>0, <1>4, DispatchMoves
  <2>2. j \in Runs /\ j.kind \in Kinds /\ j.now \in Nat
    BY <1>0 DEF Runs
  <2> HIDE DEF j
  <2>3. \A i \in 1..Len(q) : Window(j.kind, j.now, q[i].sched)
    BY <1>0, <2>2, ScanTakesDue, SMTT(30) DEF Due, Window
  <2>4. Scanned(j).queue = q /\ Scanned(j).kind = j.kind /\ Scanned(j).now = j.now
    BY <2>2 DEF Scanned, Runs
  <2> HIDE DEF q
  <2>5. Fits(Scanned(j))
    BY <2>3, <2>4 DEF Fits
  <2> QED BY <1>2, <1>4, <2>1, <2>5 DEF ScanDue
<1>5. ASSUME NEW d \in Dispatchers, NextKind(d), UNCHANGED sent PROVE WindowInv'
  <2>1. run' = [run EXCEPT ![d] = Turned(run[d])]
    BY <1>0, <1>5, DispatchMoves
  <2>2. Turned(run[d]).queue = <<>>
    BY <1>0 DEF Turned, NoRun, Runs
  <2>3. Fits(Turned(run[d]))
    BY <2>2, NothingFits
  <2> QED BY <1>2, <1>5, <2>1, <2>3
<1>6. ASSUME NEW d \in Dispatchers, Claim(d) PROVE WindowInv'
  <2>1. run[d].queue # <<>> /\ UNCHANGED sent /\ Fits(run[d]) /\ run[d] \in Runs
    BY <1>0, <1>6 DEF Claim, WindowInv
  <2>2. Fits(Passed(run[d])) /\ Fits(Claimed(run[d]))
    BY <2>1, RestFits
  <2>3. \/ run' = [run EXCEPT ![d] = Claimed(run[d])]
        \/ run' = [run EXCEPT ![d] = Passed(run[d])]
    BY <1>0, <1>6, DispatchMoves
  <2> QED BY <1>2, <2>1, <2>2, <2>3
<1>7. ASSUME NEW d \in Dispatchers, Pop(d), run[d].queue # <<>> PROVE \A e \in Dispatchers : Fits(run'[e])
  <2>1. Fits(run[d]) /\ run[d] \in Runs
    BY <1>0 DEF WindowInv
  <2>2. run' = [run EXCEPT ![d] = Popped(run[d])] /\ Fits(Popped(run[d]))
    BY <1>0, <1>7, <2>1, DispatchMoves, RestFits
  <2> QED BY <2>2, OneRunFits
<1>8. ASSUME NEW d \in Dispatchers, ClaimFails(d) \/ BuildFails(d) PROVE WindowInv'
  <2>1. Pop(d) /\ run[d].queue # <<>> /\ UNCHANGED sent
    BY <1>8 DEF ClaimFails, BuildFails, TypeInv
  <2> QED BY <1>7, <2>1 DEF WindowInv
<1>9. ASSUME NEW d \in Dispatchers, Send(d) PROVE WindowInv'
  <2> DEFINE mail == [id |-> Head(run[d].queue).id, kind |-> run[d].kind, sched |-> Head(run[d].queue).sched,
                      epoch |-> run[d].epoch, now |-> run[d].now]
  <2>1. Pop(d) /\ run[d].queue # <<>> /\ sent' = Append(sent, mail)
    BY <1>9 DEF Send, TypeInv
  <2>2. Window(mail.kind, mail.now, mail.sched)
    <3>1. run[d].queue \in Seq(Items) /\ Fits(run[d])
      BY <1>0 DEF WindowInv, Runs
    <3>2. Head(run[d].queue) = run[d].queue[1] /\ 1 \in 1..Len(run[d].queue)
      BY <2>1, <3>1, QueueSplits
    <3> QED BY <3>1, <3>2 DEF Fits
  <2> HIDE DEF mail
  <2>3. \A i \in 1..Len(sent') : Window(sent'[i].kind, sent'[i].now, sent'[i].sched)
    <3>1. /\ Len(sent') = Len(sent) + 1 /\ Len(sent) \in Nat /\ sent'[Len(sent) + 1] = mail
          /\ \A i \in 1..Len(sent) : sent'[i] = sent[i]
      BY <1>0, <2>1
    <3>2. \A i \in 1..Len(sent') : i \in 1..Len(sent) \/ i = Len(sent) + 1
      BY <3>1
    <3> QED BY <2>2, <3>1, <3>2 DEF WindowInv
  <2> QED BY <1>7, <2>1, <2>3 DEF WindowInv
<1>10. ASSUME NEW d \in Dispatchers, Crash(d) PROVE WindowInv'
  <2>1. Fits(NoRun)
    BY NothingFits DEF NoRun
  <2> QED BY <1>2, <1>10, <2>1 DEF Crash
<1> QED BY <1>1, <1>3, <1>4, <1>5, <1>6, <1>8, <1>9, <1>10
        DEF Next, Step, AllPast, Make, Move, Cancel, ScanFails, KindDone, Tick, vars

\* A call booked inside the nearer window gets the 1-hour mail alone: no dispatch
\* sends both kinds for one time of one booking (the floor of
\* listDueAppointmentReminders).
THEOREM KindsKeepApart == Spec => []OneKindPerInstant
<1>1. TypeInv /\ WindowInv => OneKindPerInstant
  <2> SUFFICES ASSUME TypeInv, WindowInv, NEW i \in 1..Len(sent), NEW j \in 1..Len(sent),
                      sent[i].sched = sent[j].sched, sent[i].now = sent[j].now
               PROVE  sent[i].kind = sent[j].kind
    BY DEF OneKindPerInstant
  <2>1. sent \in Seq(Mails)
    BY DEF TypeInv, TypeOK, Mails
  <2>2. sent[i] \in Mails /\ sent[j] \in Mails
    BY <2>1
  <2>3. /\ sent[i].kind \in Kinds /\ sent[j].kind \in Kinds
        /\ sent[i].now \in Nat /\ sent[i].sched \in Nat
    BY <2>2 DEF Mails
  <2>4. /\ Window(sent[i].kind, sent[i].now, sent[i].sched)
        /\ Window(sent[j].kind, sent[i].now, sent[i].sched)
    BY DEF WindowInv
  <2> QED BY <2>3, <2>4 DEF Window, Floor, Lead
<1>2. Init => TypeInv /\ WindowInv
  BY InitTyped, InitFits
<1>3. TypeInv /\ WindowInv /\ [Next]_vars => TypeInv' /\ WindowInv'
  BY StepTyped, StepFits
<1> QED BY <1>1, <1>2, <1>3, PTL DEF Spec

-----------------------------------------------------------------------------
(* At most one mail.  A reminder is in one place: in the hand of the dispatch *)
(* that claimed it, or among those sent.  While it is of the present time of  *)
(* its booking the stamp stands, so nobody else can claim it; a move gives    *)
(* the booking a new epoch.  Giving a claim back (BuildFails) only clears     *)
(* the stamp of one's own claim if the booking was not moved meanwhile.       *)

Sending(j) == j.pc = "send"
InHand(j)  == <<j.queue[1].id, j.kind, j.epoch>>
Mailed(x)  == <<x.id, x.kind, x.epoch>>

Reminders == Bookings \X Kinds \X Nat

\* With the epochs e and the rows x.
Given(c, e)      == 1 <= c[3] /\ c[3] <= e[c[1]]
Stamped(c, e, x) == c[3] = e[c[1]] => x[c[1]].stamp[c[2]]

EpochsFit == \A b \in Bookings : /\ row[b].status = "none" => epoch[b] = 0
                                 /\ row[b].status # "none" => epoch[b] >= 1
                                 /\ moves = 0 => epoch[b] <= 1

AllGiven == /\ \A d \in Dispatchers : Sending(run[d]) => Given(InHand(run[d]), epoch)
            /\ \A i \in 1..Len(sent) : Given(Mailed(sent[i]), epoch)

AllStamped == /\ \A d \in Dispatchers : Sending(run[d]) => Stamped(InHand(run[d]), epoch, row)
              /\ \A i \in 1..Len(sent) : Stamped(Mailed(sent[i]), epoch, row)

OnePlace == /\ \A d, e \in Dispatchers : (/\ Sending(run[d]) /\ Sending(run[e])
                                          /\ InHand(run[d]) = InHand(run[e])) => d = e
            /\ \A d \in Dispatchers : Sending(run[d]) =>
                 \A i \in 1..Len(sent) : Mailed(sent[i]) # InHand(run[d])
            /\ \A i, j \in 1..Len(sent) : Mailed(sent[i]) = Mailed(sent[j]) => i = j

Untangled == moves = 0 \/ faults = 0

OnceInv == /\ TypeInv /\ EpochsFit /\ AllGiven
           /\ Untangled => AllStamped /\ OnePlace

\* What is in hand or sent is a reminder.
LEMMA PlacesTyped ==
  ASSUME TypeInv
  PROVE  /\ \A d \in Dispatchers : Sending(run[d]) => InHand(run[d]) \in Reminders
         /\ \A i \in 1..Len(sent) : Mailed(sent[i]) \in Reminders
<1>1. /\ run \in [Dispatchers -> Runs] /\ sent \in Seq(Mails)
      /\ \A d \in Dispatchers : run[d].pc = "send" => run[d].queue # <<>>
  BY DEF TypeInv, TypeOK, Runs, Items, Mails
<1>2. ASSUME NEW d \in Dispatchers, Sending(run[d]) PROVE InHand(run[d]) \in Reminders
  <2>1. run[d] \in Runs /\ run[d].queue \in Seq(Items) /\ run[d].queue # <<>>
    BY <1>1, <1>2 DEF Runs, Sending
  <2>2. run[d].queue[1] \in Items
    BY <2>1, QueueSplits
  <2> QED BY <2>1, <2>2 DEF InHand, Reminders, Items, Runs
<1>3. ASSUME NEW i \in 1..Len(sent) PROVE Mailed(sent[i]) \in Reminders
  <2>1. sent[i] \in Mails
    BY <1>1
  <2> QED BY <2>1 DEF Mailed, Reminders, Mails
<1> QED BY <1>2, <1>3

\* A step that hands out no reminder and clears no stamp.
LEMMA PlacesKept ==
  ASSUME OnceInv, TypeInv', UNCHANGED <<sent, epoch, moves>>, Untangled' => Untangled,
         \A d \in Dispatchers : Sending(run'[d]) => Sending(run[d]) /\ InHand(run'[d]) = InHand(run[d]),
         \A b \in Bookings : row'[b].status = "none" <=> row[b].status = "none",
         \A b \in Bookings, k \in Kinds : row[b].stamp[k] => row'[b].stamp[k]
  PROVE  OnceInv'
<1>1. EpochsFit'
  BY DEF OnceInv, EpochsFit
<1>2. AllGiven'
  BY DEF OnceInv, AllGiven, Given
<1>3. ASSUME Untangled' PROVE AllStamped' /\ OnePlace'
  <2>1. AllStamped /\ OnePlace
    BY <1>3 DEF OnceInv
  <2>2. OnePlace'
    BY <2>1 DEF OnePlace
  <2>3. \A c \in Reminders : Stamped(c, epoch, row) => Stamped(c, epoch', row')
    BY DEF Reminders, Stamped
  <2>4. AllStamped'
    <3>1. ASSUME NEW d \in Dispatchers, Sending(run'[d]) PROVE Stamped(InHand(run'[d]), epoch', row')
      <4>1. Sending(run[d]) /\ InHand(run'[d]) = InHand(run[d])
        BY <3>1
      <4>2. InHand(run[d]) \in Reminders /\ Stamped(InHand(run[d]), epoch, row)
        BY <2>1, <4>1, PlacesTyped DEF OnceInv, AllStamped
      <4> QED BY <2>3, <4>1, <4>2
    <3>2. ASSUME NEW i \in 1..Len(sent') PROVE Stamped(Mailed(sent'[i]), epoch', row')
      <4>1. Mailed(sent[i]) \in Reminders /\ Stamped(Mailed(sent[i]), epoch, row)
        BY <2>1, PlacesTyped DEF OnceInv, AllStamped
      <4> QED BY <2>3, <4>1
    <3> QED BY <3>1, <3>2 DEF AllStamped
  <2> QED BY <2>2, <2>4
<1> QED BY <1>1, <1>2, <1>3 DEF OnceInv

\* A booking gets a time, its first or a new one: what is in hand or sent is of an
\* earlier epoch.
LEMMA TimeGivenOnce ==
  ASSUME OnceInv, TypeInv', NEW b \in Bookings, NEW t \in 1..Horizon, Make(b, t) \/ Move(b, t)
  PROVE  OnceInv'
<1>0. /\ row \in [Bookings -> Rows] /\ epoch \in [Bookings -> Nat] /\ moves \in Nat /\ TypeInv
      /\ EpochsFit /\ AllGiven /\ UNCHANGED <<run, sent, faults>>
  <2>1. TypeInv /\ EpochsFit /\ AllGiven
    BY DEF OnceInv
  <2>2. row \in [Bookings -> Rows] /\ epoch \in [Bookings -> Nat] /\ moves \in Nat
    BY <2>1 DEF TypeInv, TypeOK, Rows
  <2> QED BY <2>1, <2>2 DEF Make, Move
<1> DEFINE new == [NoRow EXCEPT !.sched = t, !.status = "active"]
<1>1. row' = [row EXCEPT ![b] = new] /\ new.status = "active"
  BY DEF Make, Move, NoRow
<1> HIDE DEF new
<1>2. epoch' = [epoch EXCEPT ![b] = epoch[b] + 1]
  <2>1. CASE Make(b, t)
    <3>1. epoch[b] = 0 /\ epoch' = [epoch EXCEPT ![b] = 1]
      BY <1>0, <2>1 DEF Make, EpochsFit
    <3> QED BY <3>1
  <2>2. CASE Move(b, t)
    BY <2>2 DEF Move
  <2> QED BY <2>1, <2>2
<1>3. moves' = 0 => moves = 0 /\ epoch[b] = 0
  <2>1. CASE Make(b, t)
    BY <1>0, <2>1 DEF Make, EpochsFit
  <2>2. CASE Move(b, t)
    BY <1>0, <2>2 DEF Move
  <2> QED BY <2>1, <2>2
<1>4. EpochsFit'
  BY <1>0, <1>1, <1>2, <1>3 DEF EpochsFit
<1>5. \A c \in Reminders : Given(c, epoch) => Given(c, epoch')
  BY <1>0, <1>2 DEF Reminders, Given
<1>6. AllGiven'
  BY <1>0, <1>5, PlacesTyped DEF AllGiven
<1>7. \A c \in Reminders : Given(c, epoch) /\ Stamped(c, epoch, row) => Stamped(c, epoch', row')
  BY <1>0, <1>1, <1>2 DEF Reminders, Given, Stamped
<1>8. Untangled' => Untangled
  BY <1>0, <1>3 DEF Untangled
<1>9. ASSUME Untangled' PROVE AllStamped' /\ OnePlace'
  BY <1>0, <1>7, <1>8, <1>9, PlacesTyped DEF OnceInv, AllGiven, AllStamped, OnePlace
<1> QED BY <1>4, <1>6, <1>9 DEF OnceInv

\* A claim that succeeds: nobody has this reminder in hand, and it was not sent.
LEMMA ClaimsOnce ==
  ASSUME OnceInv, TypeInv', NEW d \in Dispatchers, Claim(d),
         Claimable(Head(run[d].queue).id, run[d].kind)
  PROVE  OnceInv'
<1> DEFINE b == Head(run[d].queue).id
           k == run[d].kind
           new == <<b, k, epoch[b]>>
<1>0. /\ row \in [Bookings -> Rows] /\ epoch \in [Bookings -> Nat] /\ TypeInv /\ TypeOK
      /\ EpochsFit /\ AllGiven /\ run \in [Dispatchers -> Runs]
      /\ UNCHANGED <<now, sent, moves, faults, epoch, since, seen>>
  BY DEF OnceInv, TypeInv, TypeOK, Rows, Runs, Items, Claim
<1>1. /\ run[d].pc = "claim" /\ run[d].queue \in Seq(Items) /\ run[d].queue # <<>> /\ k \in Kinds
      /\ b \in Bookings /\ Head(run[d].queue) = run[d].queue[1]
  <2>1. run[d].pc = "claim" /\ run[d].queue \in Seq(Items) /\ run[d].queue # <<>> /\ k \in Kinds
    BY <1>0 DEF Claim, Runs
  <2>2. Head(run[d].queue) \in Items /\ Head(run[d].queue) = run[d].queue[1]
    BY <2>1, QueueSplits
  <2> QED BY <2>1, <2>2 DEF Items
<1>2. run' = [run EXCEPT ![d] = Claimed(run[d])]
  BY <1>0, DispatchMoves
<1>3. /\ Sending(run'[d]) /\ InHand(run'[d]) = new
      /\ \A e \in Dispatchers \ {d} : run'[e] = run[e]
  BY <1>0, <1>1, <1>2 DEF Claimed, Sending, InHand, Runs
<1>4. row' = [row EXCEPT ![b].stamp[k] = TRUE]
  BY DEF Claim
<1>5. /\ ~row[b].stamp[k] /\ epoch[b] >= 1
  BY <1>0, <1>1 DEF Claimable, Active, EpochsFit
<1>6. /\ \A c \in Bookings : row'[c].status = row[c].status
      /\ \A c \in Bookings, j \in Kinds : row[c].stamp[j] => row'[c].stamp[j]
      /\ row'[b].stamp[k]
  BY <1>0, <1>1, <1>4 DEF Rows
<1>7. new \in Reminders /\ Given(new, epoch') /\ Stamped(new, epoch', row') /\ ~Stamped(new, epoch, row)
  <2>1. new[1] = b /\ new[2] = k /\ new[3] = epoch[b] /\ epoch[b] \in Nat /\ epoch' = epoch
    BY <1>0, <1>1
  <2>2. new \in Reminders
    BY <1>1, <2>1 DEF Reminders
  <2> HIDE DEF new, k, b
  <2> QED BY <1>5, <1>6, <2>1, <2>2 DEF Given, Stamped
<1> HIDE DEF new
<1>8. EpochsFit'
  BY <1>0, <1>6 DEF EpochsFit
<1>9. AllGiven'
  BY <1>0, <1>3, <1>7 DEF AllGiven
<1>10. ASSUME Untangled' PROVE AllStamped' /\ OnePlace'
  <2>1. AllStamped /\ OnePlace
    BY <1>0, <1>10 DEF OnceInv, Untangled
  <2>2. \A c \in Reminders : Stamped(c, epoch, row) => Stamped(c, epoch', row')
    BY <1>0, <1>6 DEF Reminders, Stamped
  <2>3. AllStamped'
    BY <1>0, <1>3, <1>7, <2>1, <2>2, PlacesTyped DEF AllStamped
  <2>4. /\ \A e \in Dispatchers : Sending(run[e]) => InHand(run[e]) # new
        /\ \A i \in 1..Len(sent) : Mailed(sent[i]) # new
    BY <1>7, <2>1 DEF AllStamped
  <2>5. OnePlace'
    BY <1>0, <1>3, <2>1, <2>4 DEF OnePlace
  <2> QED BY <2>3, <2>5
<1> QED BY <1>8, <1>9, <1>10 DEF OnceInv

\* A send: the reminder leaves the hand.
LEMMA SendsOnce ==
  ASSUME OnceInv, TypeInv', NEW d \in Dispatchers, Send(d)
  PROVE  OnceInv'
<1> DEFINE mail == [id |-> Head(run[d].queue).id, kind |-> run[d].kind, sched |-> Head(run[d].queue).sched,
                    epoch |-> run[d].epoch, now |-> run[d].now]
<1>0. /\ TypeInv /\ TypeOK /\ EpochsFit /\ AllGiven /\ run \in [Dispatchers -> Runs] /\ sent \in Seq(Mails)
      /\ UNCHANGED <<now, row, moves, faults, epoch, since, seen>>
  BY DEF OnceInv, TypeInv, TypeOK, Runs, Items, Mails, Send
<1>1. run[d].pc = "send" /\ run[d].queue \in Seq(Items) /\ run[d].queue # <<>>
  BY <1>0 DEF Send, Runs, TypeInv
<1>2. Sending(run[d]) /\ Mailed(mail) = InHand(run[d])
  <2>1. Head(run[d].queue) = run[d].queue[1]
    BY <1>1, QueueSplits
  <2> QED BY <1>1, <2>1 DEF Sending, Mailed, InHand
<1>3. sent' = Append(sent, mail)
  BY DEF Send
<1> HIDE DEF mail
<1>4. /\ Len(sent') = Len(sent) + 1 /\ Len(sent) \in Nat /\ sent'[Len(sent) + 1] = mail
      /\ \A i \in 1..Len(sent) : sent'[i] = sent[i]
  BY <1>0, <1>3
<1>5. /\ \A i \in 1..Len(sent') : \/ i \in 1..Len(sent) /\ sent'[i] = sent[i]
                                  \/ i = Len(sent) + 1 /\ sent'[i] = mail
  BY <1>4
<1>6. /\ ~Sending(run'[d])
      /\ \A e \in Dispatchers \ {d} : run'[e] = run[e]
  <2>1. run' = [run EXCEPT ![d] = Popped(run[d])]
    BY <1>0, DispatchMoves DEF Send
  <2> QED BY <1>0, <2>1 DEF Popped, Sending, Runs
<1>7. EpochsFit'
  BY <1>0 DEF EpochsFit
<1>8. AllGiven'
  BY <1>0, <1>2, <1>5, <1>6 DEF AllGiven
<1>9. ASSUME Untangled' PROVE AllStamped' /\ OnePlace'
  <2>1. AllStamped /\ OnePlace
    BY <1>0, <1>9 DEF OnceInv, Untangled
  <2>2. AllStamped'
    BY <1>0, <1>2, <1>5, <1>6, <2>1 DEF AllStamped
  <2>3. \A e \in Dispatchers : Sending(run'[e]) => e # d /\ Sending(run[e]) /\ InHand(run'[e]) = InHand(run[e])
    BY <1>6
  <2>4. \A e \in Dispatchers : Sending(run'[e]) =>
          \A i \in 1..Len(sent') : Mailed(sent'[i]) # InHand(run'[e])
    BY <1>2, <1>5, <2>1, <2>3 DEF OnePlace
  <2>5. \A i, j \in 1..Len(sent') : Mailed(sent'[i]) = Mailed(sent'[j]) => i = j
    BY <1>2, <1>5, <2>1 DEF OnePlace
  <2>6. \A e, f \in Dispatchers : (/\ Sending(run'[e]) /\ Sending(run'[f])
                                   /\ InHand(run'[e]) = InHand(run'[f])) => e = f
    BY <2>1, <2>3 DEF OnePlace
  <2> QED BY <2>2, <2>4, <2>5, <2>6 DEF OnePlace
<1> QED BY <1>7, <1>8, <1>9 DEF OnceInv

\* A claim given back: as long as no booking was moved, it was this one's.
LEMMA BuildFailsOnce ==
  ASSUME OnceInv, TypeInv', NEW d \in Dispatchers, BuildFails(d)
  PROVE  OnceInv'
<1> DEFINE b == Head(run[d].queue).id
           k == run[d].kind
<1>0. /\ TypeInv /\ TypeOK /\ EpochsFit /\ AllGiven /\ run \in [Dispatchers -> Runs]
      /\ row \in [Bookings -> Rows] /\ epoch \in [Bookings -> Nat]
      /\ UNCHANGED <<now, sent, moves, epoch, since, seen>> /\ faults' # 0
  <2>1. TypeInv /\ TypeOK /\ EpochsFit /\ AllGiven /\ Fault
    BY DEF OnceInv, TypeInv, BuildFails
  <2>2. faults' # 0
    BY <2>1, FaultCounts
  <2>3. UNCHANGED <<now, sent, moves, epoch, since, seen>>
    BY DEF BuildFails
  <2> QED BY <2>1, <2>2, <2>3 DEF TypeOK, Runs, Items, Rows
<1>1. run[d].pc = "send" /\ run[d].queue \in Seq(Items) /\ run[d].queue # <<>> /\ k \in Kinds
  BY <1>0 DEF BuildFails, Runs, TypeInv
<1>2. b \in Bookings /\ b = run[d].queue[1].id
  <2>1. Head(run[d].queue) = run[d].queue[1] /\ Head(run[d].queue) \in Items
    BY <1>1, QueueSplits
  <2> QED BY <2>1 DEF Items
<1>3. row' = [row EXCEPT ![b].stamp[k] = FALSE]
  BY DEF BuildFails
<1>4. /\ ~Sending(run'[d])
      /\ \A e \in Dispatchers \ {d} : run'[e] = run[e]
  <2>1. run' = [run EXCEPT ![d] = Popped(run[d])]
    BY <1>0, DispatchMoves DEF BuildFails
  <2> QED BY <1>0, <2>1 DEF Popped, Sending, Runs
<1>5. Sending(run[d]) /\ InHand(run[d]) = <<b, k, run[d].epoch>> /\ run[d].epoch \in Nat
  BY <1>0, <1>1, <1>2 DEF Sending, InHand, Runs
<1>6. /\ \A c \in Bookings : row'[c].status = row[c].status
      /\ \A c \in Bookings, j \in Kinds : (c # b \/ j # k) => row'[c].stamp[j] = row[c].stamp[j]
  BY <1>0, <1>1, <1>2, <1>3, ZenonT(60) DEF Rows
<1>7. EpochsFit'
  BY <1>0, <1>6 DEF EpochsFit
<1>8. AllGiven'
  BY <1>0, <1>4 DEF AllGiven
<1>9. ASSUME Untangled' PROVE AllStamped' /\ OnePlace'
  <2>1. AllStamped /\ OnePlace /\ moves = 0
    BY <1>0, <1>9 DEF OnceInv, Untangled
  <2>2. \A c \in Reminders : Given(c, epoch) /\ c # InHand(run[d]) => c[1] # b \/ c[2] # k
    <3> SUFFICES ASSUME NEW c \in Reminders, Given(c, epoch), c[1] = b, c[2] = k
                 PROVE  c = InHand(run[d])
      OBVIOUS
    <3>1. epoch[b] \in Nat /\ epoch[b] <= 1
      BY <1>0, <1>2, <2>1 DEF EpochsFit
    <3>2. c[3] = 1
      BY <3>1 DEF Given, Reminders
    <3>3. run[d].epoch = 1
      BY <1>0, <1>5, <3>1 DEF AllGiven, Given
    <3> QED BY <1>5, <3>2, <3>3 DEF Reminders
  <2>3. \A c \in Reminders : Given(c, epoch) /\ c # InHand(run[d]) /\ Stamped(c, epoch, row)
                               => Stamped(c, epoch', row')
    BY <1>0, <1>6, <2>2 DEF Reminders, Stamped
  <2>4. \A e \in Dispatchers : Sending(run'[e]) => e # d /\ Sending(run[e]) /\ run'[e] = run[e]
    BY <1>4
  <2>5. ASSUME NEW e \in Dispatchers, Sending(run'[e]) PROVE Stamped(InHand(run'[e]), epoch', row')
    <3>1. e # d /\ Sending(run[e]) /\ run'[e] = run[e]
      BY <2>4, <2>5
    <3>2. InHand(run[e]) # InHand(run[d])
      BY <1>5, <2>1, <3>1 DEF OnePlace
    <3>3. InHand(run[e]) \in Reminders /\ Given(InHand(run[e]), epoch) /\ Stamped(InHand(run[e]), epoch, row)
      BY <1>0, <2>1, <3>1, PlacesTyped DEF AllGiven, AllStamped
    <3> QED BY <2>3, <3>1, <3>2, <3>3
  <2>6. ASSUME NEW i \in 1..Len(sent') PROVE Stamped(Mailed(sent'[i]), epoch', row')
    <3>1. Mailed(sent[i]) # InHand(run[d])
      BY <1>0, <1>5, <2>1 DEF OnePlace
    <3>2. Mailed(sent[i]) \in Reminders /\ Given(Mailed(sent[i]), epoch) /\ Stamped(Mailed(sent[i]), epoch, row)
      BY <1>0, <2>1, PlacesTyped DEF AllGiven, AllStamped
    <3> QED BY <1>0, <2>3, <3>1, <3>2
  <2>7. OnePlace'
    BY <1>0, <2>1, <2>4 DEF OnePlace
  <2> QED BY <2>5, <2>6, <2>7 DEF AllStamped
<1> QED BY <1>7, <1>8, <1>9 DEF OnceInv

\* Every step keeps a reminder in one place.
LEMMA StepOnce == OnceInv /\ [Next]_vars => OnceInv'
<1> SUFFICES ASSUME OnceInv, [Next]_vars PROVE OnceInv'
  OBVIOUS
<1>0. /\ TypeInv /\ TypeInv' /\ TypeOK /\ run \in [Dispatchers -> Runs] /\ row \in [Bookings -> Rows]
      /\ faults \in Nat
  <2>1. TypeInv /\ TypeInv'
    BY StepTyped DEF OnceInv
  <2>2. faults \in Nat
    BY <2>1 DEF TypeInv, TypeOK
  <2>3. TypeOK /\ run \in [Dispatchers -> Runs] /\ row \in [Bookings -> Rows]
    BY <2>1 DEF TypeInv, TypeOK, Runs, Items, Rows
  <2> QED BY <2>1, <2>2, <2>3
\* One dispatch moves on, with nothing new in hand.
<1>1. ASSUME NEW d \in Dispatchers, NEW j, run' = [run EXCEPT ![d] = j], j.pc # "send",
             UNCHANGED <<row, sent, epoch, moves>>, Untangled' => Untangled
      PROVE  OnceInv'
  <2>1. \A e \in Dispatchers : Sending(run'[e]) => Sending(run[e]) /\ InHand(run'[e]) = InHand(run[e])
    BY <1>0, <1>1 DEF Sending
  <2>2. /\ \A b \in Bookings : row'[b].status = "none" <=> row[b].status = "none"
        /\ \A b \in Bookings, k \in Kinds : row[b].stamp[k] => row'[b].stamp[k]
    BY <1>1
  <2> QED BY <1>0, <1>1, <2>1, <2>2, PlacesKept
<1>2. ASSUME Fault, UNCHANGED moves PROVE Untangled' => Untangled
  BY <1>0, <1>2, FaultCounts DEF Untangled
<1>3. ASSUME UNCHANGED <<faults, moves>> PROVE Untangled' => Untangled
  BY <1>3 DEF Untangled
<1>4. ASSUME NEW b \in Bookings, Cancel(b) PROVE OnceInv'
  <2>1. /\ row' = [row EXCEPT ![b].status = "cancelled"] /\ row[b].status = "active"
        /\ UNCHANGED <<now, run, sent, moves, faults, epoch, since, seen>>
    BY <1>4 DEF Cancel, Active
  <2>2. /\ \A c \in Bookings : row'[c].status = "none" <=> row[c].status = "none"
        /\ \A c \in Bookings, k \in Kinds : row[c].stamp[k] => row'[c].stamp[k]
    BY <1>0, <2>1 DEF Rows
  <2> QED BY <1>0, <1>3, <2>1, <2>2, PlacesKept
<1>5. ASSUME NEW d \in Dispatchers, Begin(d) PROVE OnceInv'
  <2>1. run' = [run EXCEPT ![d] = Begun] /\ Begun.pc # "send"
    BY <1>0, <1>5, DispatchMoves DEF Begun, NoRun
  <2> QED BY <1>1, <1>3, <1>5, <2>1 DEF Begin
<1>6. ASSUME NEW d \in Dispatchers, ScanDue(d) PROVE OnceInv'
  <2>1. run' = [run EXCEPT ![d] = Scanned(run[d])]
    BY <1>0, <1>6, DispatchMoves
  <2>2. Scanned(run[d]).pc # "send"
    <3>1. run[d] \in Runs
      BY <1>0
    <3> QED BY <3>1 DEF Scanned, Runs
  <2> QED BY <1>1, <1>3, <1>6, <2>1, <2>2 DEF ScanDue
<1>7. ASSUME NEW d \in Dispatchers, NextKind(d) PROVE run' = [run EXCEPT ![d] = Turned(run[d])] /\ Turned(run[d]).pc # "send"
  BY <1>0, <1>7, DispatchMoves, ZenonT(60) DEF Turned, NoRun, Runs
<1>8. ASSUME NEW d \in Dispatchers, ScanFails(d) PROVE OnceInv'
  <2>1. NextKind(d) /\ Fault /\ UNCHANGED <<row, sent, epoch, moves>>
    BY <1>8 DEF ScanFails
  <2> QED BY <1>1, <1>2, <1>7, <2>1
<1>9. ASSUME NEW d \in Dispatchers, KindDone(d) PROVE OnceInv'
  <2>1. NextKind(d) /\ UNCHANGED <<row, sent, epoch, moves, faults>>
    BY <1>9 DEF KindDone
  <2> QED BY <1>1, <1>3, <1>7, <2>1
<1>10. ASSUME NEW d \in Dispatchers, Claim(d) PROVE OnceInv'
  <2>1. CASE Claimable(Head(run[d].queue).id, run[d].kind)
    BY <1>0, <1>10, <2>1, ClaimsOnce
  <2>2. CASE ~Claimable(Head(run[d].queue).id, run[d].kind)
    <3>1. run' = [run EXCEPT ![d] = Passed(run[d])]
      BY <1>0, <1>10, <2>2, DispatchMoves
    <3>2. Passed(run[d]).pc # "send" /\ UNCHANGED <<row, sent, epoch, moves, faults>>
      BY <1>0, <1>10, <2>2 DEF Claim, Passed, Runs
    <3> QED BY <1>1, <1>3, <3>1, <3>2
  <2> QED BY <2>1, <2>2
<1>11. ASSUME NEW d \in Dispatchers, ClaimFails(d) PROVE OnceInv'
  <2> DEFINE b == Head(run[d].queue).id
             k == run[d].kind
  <2>1. /\ run[d].queue # <<>> /\ Pop(d) /\ UNCHANGED <<now, sent, moves, epoch, since, seen>> /\ Fault
        /\ row' = row \/ row' = [row EXCEPT ![b].stamp[k] = TRUE]
    BY <1>11 DEF ClaimFails
  <2>2. run' = [run EXCEPT ![d] = Popped(run[d])] /\ Popped(run[d]).pc # "send"
    <3>1. run' = [run EXCEPT ![d] = Popped(run[d])] /\ run[d] \in Runs
      BY <1>0, <2>1, DispatchMoves
    <3>2. Popped(run[d]).pc # "send"
      BY <3>1 DEF Popped, Runs
    <3> QED BY <3>1, <3>2
  <2>3. \A e \in Dispatchers : Sending(run'[e]) => Sending(run[e]) /\ InHand(run'[e]) = InHand(run[e])
    BY <1>0, <2>2 DEF Sending
  <2>4. b \in Bookings /\ k \in Kinds
    <3>1. run[d].queue \in Seq(Items) /\ k \in Kinds
      BY <1>0 DEF Runs
    <3>2. Head(run[d].queue) \in Items
      BY <2>1, <3>1, QueueSplits
    <3> QED BY <3>1, <3>2 DEF Items
  <2> HIDE DEF b, k
  <2>5. /\ \A c \in Bookings : row'[c].status = "none" <=> row[c].status = "none"
        /\ \A c \in Bookings, i \in Kinds : row[c].stamp[i] => row'[c].stamp[i]
    <3>1. CASE row' = row
      BY <3>1
    <3>2. CASE row' = [row EXCEPT ![b].stamp[k] = TRUE]
      BY <1>0, <2>4, <3>2 DEF Rows
    <3> QED BY <2>1, <3>1, <3>2
  <2> QED BY <1>0, <1>2, <2>1, <2>3, <2>5, PlacesKept
<1>12. ASSUME NEW d \in Dispatchers, Crash(d) PROVE OnceInv'
  <2>1. NoRun.pc # "send" /\ run' = [run EXCEPT ![d] = NoRun] /\ Fault /\ UNCHANGED <<row, sent, epoch, moves>>
    BY <1>12 DEF NoRun, Crash
  <2> QED BY <1>1, <1>2, <2>1
<1>13. ASSUME UNCHANGED <<row, run, sent, epoch, moves, faults>> PROVE OnceInv'
  BY <1>0, <1>3, <1>13, PlacesKept
<1>14. CASE Tick \/ UNCHANGED vars
  BY <1>13, <1>14 DEF Tick, vars
<1>15. ASSUME NEW b \in Bookings, NEW t \in 1..Horizon, Make(b, t) \/ Move(b, t) PROVE OnceInv'
  BY <1>0, <1>15, TimeGivenOnce
<1>16. ASSUME NEW d \in Dispatchers, Send(d) PROVE OnceInv'
  BY <1>0, <1>16, SendsOnce
<1>17. ASSUME NEW d \in Dispatchers, BuildFails(d) PROVE OnceInv'
  BY <1>0, <1>17, BuildFailsOnce
<1> QED BY <1>4, <1>5, <1>6, <1>8, <1>9, <1>10, <1>11, <1>12, <1>14, <1>15, <1>16, <1>17
        DEF Next, Step, AllPast

\* "the admin never receives the same reminder twice" (claimAppointmentReminder):
\* whatever dispatches overlap, fail or stop, one time of a booking gets one mail
\* of each kind, unless a booking is moved while the mail of another fails.
THEOREM RemindersGoOutOnce == Spec => []ReminderAtMostOnce
<1>1. Init => OnceInv
  <2> SUFFICES ASSUME Init PROVE OnceInv
    OBVIOUS
  <2>1. TypeInv
    BY InitTyped
  <2>2. EpochsFit
    BY DEF Init, EpochsFit, NoRow
  <2>3. sent = <<>> /\ \A d \in Dispatchers : ~Sending(run[d])
    BY DEF Init, Sending, NoRun
  <2>4. Len(sent) = 0
    BY <2>3
  <2> QED BY <2>1, <2>2, <2>3, <2>4 DEF OnceInv, AllGiven, AllStamped, OnePlace
<1>2. OnceInv => ReminderAtMostOnce
  <2> SUFFICES ASSUME OnceInv, moves = 0 \/ faults = 0, NEW i \in 1..Len(sent), NEW j \in 1..Len(sent),
                      sent[i].id = sent[j].id, sent[i].kind = sent[j].kind, sent[i].epoch = sent[j].epoch
               PROVE  i = j
    BY DEF ReminderAtMostOnce, OnceInv, TypeInv
  <2>1. Mailed(sent[i]) = Mailed(sent[j])
    BY DEF Mailed
  <2> QED BY <2>1 DEF OnceInv, Untangled, OnePlace
<1> QED BY <1>1, <1>2, StepOnce, PTL DEF Spec

-----------------------------------------------------------------------------
(* No call without its last reminder.  A booking that waits for its 1-hour   *)
(* mail has been overtaken by the window no further than its failures        *)
(* account for: each can cost the unit it is in, and the one before, in      *)
(* which the mail lay claimed.  At the limit the dispatch of this unit has   *)
(* not been through yet and still has the booking before it.                 *)

\* Every unit sees a whole dispatch, a scan takes all that are due, and the window
\* has room for the failures.
Punctual == Timely /\ Cardinality(Bookings) <= Limit /\ LeadB > 2 * MaxFaults

Roomy(b)    == row[b].sched > since[b] + 1 + 2 * faults
Slack(t, b) == \/ t <= since[b] + 1 + 2 * faults
               \/ t + LeadB <= row[b].sched + 2 * faults
Waiting(b)  == Active(b) /\ Roomy(b) /\ ~row[b].stamp["b"]

InQueue(q, b, n) == \E i \in n..Len(q) : q[i].id = b
Reaches(j, b, t) ==
  j.now = t /\ j.kind = "b" => /\ j.pc = "claim" => InQueue(j.queue, b, 1)
                               /\ j.pc = "send" => InQueue(j.queue, b, 2)
Carries(j, b) == j.pc = "send" /\ j.kind = "b" /\ j.queue[1].id = b

OnTime(j, t) == j.pc # "idle" => j.now <= t /\ t <= j.now + 1

SlackInv ==
  /\ \A d \in Dispatchers : OnTime(run[d], now)
  /\ \A b \in Bookings : Waiting(b) =>
       /\ Slack(now, b)
       /\ Slack(now + 1, b) \/ (~seen /\ \A d \in Dispatchers : Reaches(run[d], b, now))
  /\ \A d \in Dispatchers, b \in Bookings :
       (Carries(run[d], b) /\ Active(b) /\ Roomy(b)) => Slack(run[d].now, b)

\* The numbers the argument is about.
LEMMA Numbers ==
  ASSUME TypeInv
  PROVE  /\ now \in Nat /\ faults \in Nat /\ faults <= MaxFaults
         /\ run \in [Dispatchers -> Runs] /\ row \in [Bookings -> Rows]
         /\ \A b \in Bookings : row[b].sched \in Nat /\ since[b] \in Nat /\ row[b].stamp["b"] \in BOOLEAN
         /\ \A d \in Dispatchers : run[d].now \in Nat
<1>1. run \in [Dispatchers -> Runs] /\ row \in [Bookings -> Rows]
  BY DEF TypeInv, TypeOK, Runs, Items, Rows
<1>2. now \in Nat /\ faults \in Nat /\ faults <= MaxFaults /\ since \in [Bookings -> 0..Horizon]
  BY DEF TypeInv, TypeOK
<1>3. \A b \in Bookings : row[b].sched \in Nat /\ row[b].stamp["b"] \in BOOLEAN
  BY <1>1 DEF Rows
<1>4. \A d \in Dispatchers : run[d].now \in Nat
  BY <1>1 DEF Runs
<1> QED BY <1>1, <1>2, <1>3, <1>4

\* A step with no failure and no new time: what its dispatches D leave must reach
\* every booking at its limit.
LEMMA CalmKeeps ==
  ASSUME TypeInv, SlackInv, UNCHANGED <<now, since, faults>>,
         NEW D \in SUBSET Dispatchers, \A e \in Dispatchers \ D : run'[e] = run[e],
         \A e \in D : OnTime(run'[e], now),
         \A b \in Bookings : row'[b].status = "active" =>
            /\ row[b].status = "active" /\ row'[b].sched = row[b].sched
            /\ row[b].stamp["b"] => row'[b].stamp["b"],
         \A b \in Bookings : (Waiting(b) /\ ~row'[b].stamp["b"] /\ ~Slack(now + 1, b)) =>
            ~seen' /\ \A e \in D : Reaches(run'[e], b, now),
         \A e \in D, b \in Bookings : (Carries(run'[e], b) /\ Active(b) /\ Roomy(b)) => Slack(run'[e].now, b)
  PROVE  SlackInv'
<1>1. \A b \in Bookings : Active(b)' => /\ Active(b) /\ (Roomy(b)' <=> Roomy(b))
                                        /\ \A t \in Nat : Slack(t, b)' <=> Slack(t, b)
  BY DEF Active, Roomy, Slack
<1>2. \A b \in Bookings : Waiting(b)' => Waiting(b) /\ ~row'[b].stamp["b"]
  <2> SUFFICES ASSUME NEW b \in Bookings, Waiting(b)' PROVE Waiting(b) /\ ~row'[b].stamp["b"]
    OBVIOUS
  <2>1. Active(b)' /\ Roomy(b)' /\ ~row'[b].stamp["b"]
    BY DEF Waiting
  <2>2. Active(b) /\ Roomy(b) /\ ~row[b].stamp["b"]
    BY <1>1, <2>1 DEF Active
  <2> QED BY <2>1, <2>2 DEF Waiting
<1>3. \A d \in Dispatchers : OnTime(run'[d], now')
  BY DEF SlackInv
<1>4. ASSUME NEW b \in Bookings, Waiting(b)'
      PROVE  /\ Slack(now, b)'
             /\ Slack(now + 1, b)' \/ (~seen' /\ \A d \in Dispatchers : Reaches(run'[d], b, now'))
  <2>1. Waiting(b) /\ ~row'[b].stamp["b"] /\ Active(b)' /\ now \in Nat
    BY <1>2, <1>4, Numbers DEF Waiting
  <2>2. (Slack(now, b)' <=> Slack(now, b)) /\ (Slack(now + 1, b)' <=> Slack(now + 1, b))
    BY <2>1 DEF Slack, Active
  <2>3. ASSUME ~Slack(now + 1, b), NEW d \in Dispatchers PROVE Reaches(run'[d], b, now')
    BY <2>1, <2>3 DEF SlackInv
  <2>4. ASSUME ~Slack(now + 1, b) PROVE ~seen'
    BY <2>1, <2>4
  <2> QED BY <2>1, <2>2, <2>3, <2>4 DEF SlackInv
<1>5. ASSUME NEW d \in Dispatchers, NEW b \in Bookings, Carries(run'[d], b), Active(b)', Roomy(b)'
      PROVE  Slack(run[d].now, b)'
  <2>1. Active(b) /\ Roomy(b)
    BY <1>1, <1>5
  <2>2. Slack(run'[d].now, b)
    BY <1>5, <2>1 DEF SlackInv
  <2> QED BY <1>5, <2>2 DEF Slack, Active
<1> QED BY <1>3, <1>4, <1>5 DEF SlackInv

\* A failure: the dispatch d is on to its next row, or gone.  What it gives back it
\* had for no longer than a unit.
LEMMA FaultKeeps ==
  ASSUME TypeInv, SlackInv, UNCHANGED <<now, since>>, faults' = faults + 1,
         NEW d \in Dispatchers, \A e \in Dispatchers \ {d} : run'[e] = run[e],
         run'[d].pc # "send", run[d].pc # "idle", run'[d].pc # "idle" => run'[d].now = run[d].now,
         \A b \in Bookings : row'[b].status = row[b].status /\ row'[b].sched = row[b].sched,
         \A b \in Bookings : row[b].stamp["b"] /\ ~row'[b].stamp["b"] => Carries(run[d], b)
  PROVE  SlackInv'
<1>1. \A b \in Bookings : /\ Active(b)' <=> Active(b)
                          /\ Roomy(b)' => Roomy(b)
                          /\ \A t \in Nat : Slack(t, b) => Slack(t, b)' /\ Slack(t + 1, b)' /\ Slack(t + 2, b)'
  BY Numbers DEF Active, Roomy, Slack
<1>2. \A e \in Dispatchers : OnTime(run'[e], now')
  BY DEF SlackInv, OnTime
<1>3. ASSUME NEW b \in Bookings, Waiting(b)' PROVE Slack(now, b)' /\ Slack(now + 1, b)'
  <2>0. /\ row'[b].sched = row[b].sched /\ since' = since /\ faults' = faults + 1 /\ now' = now
        /\ row[b].sched \in Nat /\ since[b] \in Nat /\ faults \in Nat /\ now \in Nat
    BY Numbers
  <2>1. Active(b) /\ Roomy(b) /\ ~row'[b].stamp["b"]
    BY <1>1, <1>3 DEF Waiting
  <2>2. CASE row[b].stamp["b"]
    <3>1. Slack(run[d].now, b)
      BY <2>1, <2>2 DEF SlackInv
    <3>2. run[d].now \in Nat /\ now \in Nat /\ (now = run[d].now \/ now = run[d].now + 1)
      BY Numbers DEF SlackInv, OnTime
    <3>3. Slack(now, b)' /\ Slack(now + 1, b)'
      <4> DEFINE t == run[d].now
      <4>1. t \in Nat /\ Slack(t, b) /\ now' = now /\ (now = t \/ now = t + 1) /\ now \in Nat
        BY <3>1, <3>2
      <4> HIDE DEF t
      <4> QED BY <2>0, <4>1 DEF Slack
    <3> QED BY <3>3
  <2>3. CASE ~row[b].stamp["b"]
    <3>1. Slack(now, b)
      BY <2>1, <2>3 DEF SlackInv, Waiting
    <3> QED BY <2>0, <3>1 DEF Slack
  <2> QED BY <2>2, <2>3
<1>4. ASSUME NEW e \in Dispatchers, NEW b \in Bookings, Carries(run'[e], b), Active(b)', Roomy(b)'
      PROVE  Slack(run[e].now, b)'
  <2>1. e # d /\ run'[e] = run[e] /\ Active(b) /\ Roomy(b)
    BY <1>1, <1>4 DEF Carries
  <2>2. Slack(run[e].now, b) /\ run[e].now \in Nat
    BY <1>4, <2>1, Numbers DEF SlackInv
  <2> DEFINE t == run[e].now
  <2>3. t \in Nat /\ Slack(t, b) /\ run'[e].now = t
    BY <2>1, <2>2
  <2> HIDE DEF t
  <2> QED BY <2>3, Numbers DEF Slack
<1> QED BY <1>2, <1>3, <1>4 DEF SlackInv

\* A booking that gets its time now has the whole next unit.
LEMMA TimeGivenKeeps ==
  ASSUME TypeInv, SlackInv, NEW b \in Bookings, NEW t \in 1..Horizon, Make(b, t) \/ Move(b, t)
  PROVE  SlackInv'
<1>0. /\ UNCHANGED <<now, run, faults, seen>> /\ since' = [since EXCEPT ![b] = now]
      /\ \A c \in Bookings \ {b} : row'[c] = row[c]
  BY Numbers DEF Make, Move
<1>1. /\ since'[b] = now /\ \A c \in Bookings \ {b} : since'[c] = since[c]
  BY <1>0 DEF TypeInv, TypeOK
<1>2. \A s \in Nat : s <= now + 1 => Slack(s, b)'
  BY <1>0, <1>1, Numbers DEF Slack
<1>3. \A c \in Bookings \ {b} : /\ Active(c)' <=> Active(c)
                                /\ Roomy(c)' <=> Roomy(c)
                                /\ Waiting(c)' <=> Waiting(c)
                                /\ \A s \in Nat : Slack(s, c)' <=> Slack(s, c)
  BY <1>0, <1>1 DEF Active, Roomy, Waiting, Slack
<1>4. ASSUME NEW c \in Bookings, Waiting(c)'
      PROVE  /\ Slack(now, c)'
             /\ Slack(now + 1, c)' \/ (~seen' /\ \A d \in Dispatchers : Reaches(run'[d], c, now'))
  <2>0. now \in Nat /\ now' = now
    BY <1>0, Numbers
  <2>1. CASE c = b
    <3>1. Slack(now, c)' /\ Slack(now + 1, c)'
      BY <1>0, <1>1, <2>0, <2>1, Numbers DEF Slack
    <3> QED BY <3>1
  <2>2. CASE c # b
    <3>1. /\ Slack(now, c)
          /\ Slack(now + 1, c) \/ (~seen /\ \A d \in Dispatchers : Reaches(run[d], c, now))
      BY <1>3, <1>4, <2>2 DEF SlackInv
    <3>2. row'[c] = row[c] /\ since'[c] = since[c] /\ faults' = faults
      BY <1>0, <1>1, <2>2
    <3>3. (Slack(now, c)' <=> Slack(now, c)) /\ (Slack(now + 1, c)' <=> Slack(now + 1, c))
      BY <2>0, <3>2 DEF Slack
    <3> QED BY <1>0, <3>1, <3>3
  <2> QED BY <2>1, <2>2
<1>5. ASSUME NEW d \in Dispatchers, NEW c \in Bookings, Carries(run'[d], c), Active(c)', Roomy(c)'
      PROVE  Slack(run[d].now, c)'
  <2>0. run'[d] = run[d] /\ run[d].now \in Nat /\ run[d].now <= now
    BY <1>0, <1>5, Numbers DEF SlackInv, OnTime, Carries
  <2>1. CASE c = b
    BY <1>0, <1>1, <2>0, <2>1, Numbers DEF Slack
  <2>2. CASE c # b
    <3>1. Slack(run[d].now, c)
      BY <1>3, <1>5, <2>0, <2>2 DEF SlackInv
    <3>2. row'[c] = row[c] /\ since'[c] = since[c] /\ faults' = faults
      BY <1>0, <1>1, <2>2
    <3> QED BY <2>0, <3>1, <3>2 DEF Slack
  <2> QED BY <2>1, <2>2
<1> QED BY <1>0, <1>4, <1>5 DEF SlackInv

\* Time passes: whoever was at the limit would not have been seen.
LEMMA TickKeeps ==
  ASSUME Punctual, TypeInv, SlackInv, Tick
  PROVE  SlackInv'
<1>0. /\ UNCHANGED <<row, run, sent, moves, faults, epoch, since>> /\ now' = now + 1 /\ seen' = FALSE /\ seen
      /\ now \in Nat
  BY Numbers DEF Tick, Punctual
<1>1. \A d \in Dispatchers : run[d].pc # "idle" => run[d].now = now
  BY DEF Tick, Punctual
<1>2. \A d \in Dispatchers : OnTime(run'[d], now')
  BY <1>0, <1>1 DEF OnTime
<1>3. \A d \in Dispatchers, b \in Bookings : Reaches(run'[d], b, now')
  BY <1>0, <1>1 DEF Reaches
<1>4. ASSUME NEW b \in Bookings, Waiting(b)' PROVE Slack(now, b)'
  <2>1. Waiting(b)
    BY <1>0, <1>4 DEF Waiting, Active, Roomy
  <2>2. Slack(now + 1, b)
    BY <1>0, <2>1 DEF SlackInv
  <2> QED BY <1>0, <2>2 DEF Slack
<1>5. ASSUME NEW d \in Dispatchers, NEW b \in Bookings, Carries(run'[d], b), Active(b)', Roomy(b)'
      PROVE  Slack(run[d].now, b)'
  <2>1. Slack(run[d].now, b)
    BY <1>0, <1>5 DEF SlackInv, Active, Roomy
  <2> QED BY <1>0, <2>1 DEF Slack
<1> QED BY <1>0, <1>2, <1>3, <1>4, <1>5 DEF SlackInv

\* At the limit a booking is due at this instant.
LEMMA AtLimitDue ==
  ASSUME Punctual, TypeInv, NEW b \in Bookings, Waiting(b), Slack(now, b), ~Slack(now + 1, b)
  PROVE  Due(b, "b", now)
<1> DEFINE s == row[b].sched
           z == since[b]
<1>1. s \in Nat /\ z \in Nat /\ now \in Nat /\ faults \in Nat /\ faults <= MaxFaults
  BY Numbers
<1>2. /\ s > z + 1 + 2 * faults /\ LeadB > 2 * MaxFaults
      /\ now <= z + 1 + 2 * faults \/ now + LeadB <= s + 2 * faults
      /\ ~(now + 1 + LeadB <= s + 2 * faults)
  BY <1>1 DEF Waiting, Roomy, Slack, Punctual
<1> HIDE DEF s, z
<1>3. s > now /\ s <= now + LeadB
  BY <1>1, <1>2
<1> QED BY <1>1, <1>3 DEF Due, Lead, Floor, Waiting, s

\* The scan of this unit brings it.
LEMMA ScanKeeps ==
  ASSUME Punctual, TypeInv, SlackInv, NEW d \in Dispatchers, ScanDue(d)
  PROVE  SlackInv'
<1> DEFINE j == run[d]
<1>0. /\ run' = [run EXCEPT ![d] = Scanned(j)] /\ UNCHANGED <<now, row, sent, moves, faults, epoch, since, seen>>
      /\ j.pc = "scan" /\ j \in Runs /\ TypeOK
  BY Numbers, DispatchMoves DEF ScanDue, TypeInv
<1>1. /\ run'[d] = Scanned(j) /\ \A e \in Dispatchers \ {d} : run'[e] = run[e]
  BY <1>0, Numbers
<1>2. /\ Scanned(j).pc = "claim" /\ Scanned(j).kind = j.kind /\ Scanned(j).now = j.now
      /\ Scanned(j).queue = Scan(j.kind, j.now)
  BY <1>0 DEF Scanned, Runs
<1>3. OnTime(run'[d], now) /\ \A b \in Bookings : ~Carries(run'[d], b)
  BY <1>0, <1>1, <1>2 DEF SlackInv, OnTime, Carries
<1>4. ASSUME NEW b \in Bookings, Waiting(b), ~Slack(now + 1, b)
      PROVE  ~seen' /\ Reaches(run'[d], b, now)
  <2>1. ~seen /\ Slack(now, b)
    BY <1>4 DEF SlackInv
  <2>2. Due(b, "b", now)
    BY <1>4, <2>1, AtLimitDue
  <2>3. ASSUME j.now = now, j.kind = "b" PROVE InQueue(Scan(j.kind, j.now), b, 1)
    <3>1. "b" \in Kinds /\ now \in Nat /\ Cardinality(Bookings) <= Limit
      BY Numbers DEF Punctual
    <3>2. \E i \in 1..Len(Scan("b", now)) : Scan("b", now)[i].id = b
      BY <1>0, <2>2, <3>1, ScanTakesDue
    <3> QED BY <2>3, <3>2 DEF InQueue
  <2> QED BY <1>0, <1>1, <1>2, <2>1, <2>3 DEF Reaches
<1> DEFINE D == {d}
<1>5. /\ D \in SUBSET Dispatchers /\ \A e \in Dispatchers \ D : run'[e] = run[e]
      /\ \A e \in D : OnTime(run'[e], now)
      /\ \A b \in Bookings : (Waiting(b) /\ ~row'[b].stamp["b"] /\ ~Slack(now + 1, b)) =>
            ~seen' /\ \A e \in D : Reaches(run'[e], b, now)
      /\ \A e \in D, b \in Bookings : (Carries(run'[e], b) /\ Active(b) /\ Roomy(b)) => Slack(run'[e].now, b)
  BY <1>1, <1>3, <1>4
<1> HIDE DEF D, j
<1> QED BY <1>0, <1>5, CalmKeeps

\* The rest of a queue still has whoever is not its first.
LEMMA RestReaches ==
  ASSUME NEW q \in Seq(Items), q # <<>>, NEW b
  PROVE  /\ InQueue(q, b, 2) => InQueue(Tail(q), b, 1)
         /\ InQueue(q, b, 1) /\ q[1].id # b => InQueue(q, b, 2)
<1> DEFINE r == Tail(q)
<1>1. /\ Len(r) = Len(q) - 1 /\ Len(q) \in Nat /\ Len(q) > 0
      /\ \A i \in 1..Len(r) : r[i] = q[i + 1]
  BY QueueSplits
<1> HIDE DEF r
<1>2. ASSUME InQueue(q, b, 2) PROVE InQueue(r, b, 1)
  <2>1. PICK i \in 2..Len(q) : q[i].id = b
    BY <1>2 DEF InQueue
  <2>2. i - 1 \in 1..Len(r) /\ (i - 1) + 1 = i
    BY <1>1, <2>1
  <2>3. r[i - 1].id = b
    BY <1>1, <2>1, <2>2
  <2> QED BY <2>2, <2>3 DEF InQueue
<1>3. ASSUME InQueue(q, b, 1), q[1].id # b PROVE InQueue(q, b, 2)
  <2>1. PICK i \in 1..Len(q) : q[i].id = b
    BY <1>3 DEF InQueue
  <2>2. i # 1
    BY <1>3, <2>1
  <2>3. i \in 2..Len(q)
    BY <1>1, <2>1, <2>2
  <2> QED BY <2>1, <2>3 DEF InQueue
<1> QED BY <1>2, <1>3 DEF r

\* The end of a kind: at the limit it was not the end of the nearer one, in a
\* dispatch of this unit.
LEMMA KindDoneKeeps ==
  ASSUME Punctual, TypeInv, SlackInv, NEW d \in Dispatchers, KindDone(d)
  PROVE  SlackInv'
<1> DEFINE j == run[d]
<1>0. /\ run' = [run EXCEPT ![d] = Turned(j)] /\ UNCHANGED <<now, row, sent, moves, faults, epoch, since>>
      /\ j.pc = "claim" /\ j.queue = <<>> /\ j \in Runs
      /\ (j.kind = "a" /\ seen' = seen) \/ (j.kind = "b" /\ seen' = (seen \/ j.now = now))
  BY Numbers, DispatchMoves DEF KindDone, TypeInv, NextKind, Runs
<1>1. /\ run'[d] = Turned(j) /\ \A e \in Dispatchers \ {d} : run'[e] = run[e]
  BY <1>0, Numbers
<1>2. /\ Turned(j).pc = "scan" \/ Turned(j).pc = "idle"
      /\ Turned(j).pc = "scan" => Turned(j).now = j.now
  BY <1>0 DEF Turned, Runs, NoRun
<1>3. /\ OnTime(run'[d], now)
      /\ \A b \in Bookings : ~Carries(run'[d], b) /\ Reaches(run'[d], b, now)
  BY <1>0, <1>1, <1>2 DEF SlackInv, OnTime, Carries, Reaches
<1>4. ASSUME NEW b \in Bookings, Waiting(b), ~Slack(now + 1, b) PROVE ~seen'
  <2>1. ~seen /\ Reaches(j, b, now)
    BY <1>4 DEF SlackInv
  <2>2. ~InQueue(j.queue, b, 1)
    BY <1>0 DEF InQueue
  <2>3. ~(j.kind = "b" /\ j.now = now)
    BY <1>0, <2>1, <2>2 DEF Reaches
  <2> QED BY <1>0, <2>1, <2>3
<1> DEFINE D == {d}
<1>5. /\ D \in SUBSET Dispatchers /\ \A e \in Dispatchers \ D : run'[e] = run[e]
      /\ \A e \in D : OnTime(run'[e], now)
      /\ \A b \in Bookings : (Waiting(b) /\ ~row'[b].stamp["b"] /\ ~Slack(now + 1, b)) =>
            ~seen' /\ \A e \in D : Reaches(run'[e], b, now)
      /\ \A e \in D, b \in Bookings : (Carries(run'[e], b) /\ Active(b) /\ Roomy(b)) => Slack(run'[e].now, b)
  BY <1>1, <1>3, <1>4
<1> HIDE DEF D, j
<1> QED BY <1>0, <1>5, CalmKeeps

\* A claim, won or lost: the row it is about waits no more, the others are behind it.
LEMMA ClaimKeeps ==
  ASSUME TypeInv, SlackInv, NEW d \in Dispatchers, Claim(d)
  PROVE  SlackInv'
<1> DEFINE j == run[d]
           c == Head(j.queue).id
           won == Claimable(c, j.kind)
<1>0. /\ run' = [run EXCEPT ![d] = IF won THEN Claimed(j) ELSE Passed(j)]
      /\ UNCHANGED <<now, sent, moves, faults, epoch, since, seen>>
      /\ j.pc = "claim" /\ j.queue # <<>> /\ j \in Runs /\ j.queue \in Seq(Items) /\ j.kind \in Kinds
      /\ won => row' = [row EXCEPT ![c].stamp[j.kind] = TRUE]
      /\ ~won => row' = row
  BY Numbers, DispatchMoves DEF Claim, TypeInv, Runs
<1>1. c = j.queue[1].id /\ c \in Bookings
  <2>1. Head(j.queue) = j.queue[1] /\ Head(j.queue) \in Items
    BY <1>0, QueueSplits
  <2> QED BY <2>1 DEF Items
<1>2. /\ run'[d] = IF won THEN Claimed(j) ELSE Passed(j)
      /\ \A e \in Dispatchers \ {d} : run'[e] = run[e]
  BY <1>0, Numbers
<1>3. /\ Claimed(j).pc = "send" /\ Claimed(j).kind = j.kind /\ Claimed(j).now = j.now
      /\ Claimed(j).queue = j.queue
      /\ Passed(j).pc = "claim" /\ Passed(j).kind = j.kind /\ Passed(j).now = j.now
      /\ Passed(j).queue = Tail(j.queue)
  BY <1>0 DEF Claimed, Passed, Runs
<1> HIDE DEF won
<1>4. OnTime(run'[d], now)
  BY <1>0, <1>2, <1>3 DEF SlackInv, OnTime
<1>5. \A b \in Bookings : /\ row'[b].status = row[b].status /\ row'[b].sched = row[b].sched
                          /\ row[b].stamp["b"] => row'[b].stamp["b"]
                          /\ won /\ j.kind = "b" /\ b = c => row'[b].stamp["b"]
  <2>1. CASE won
    BY <1>0, <1>1, <2>1, Numbers, SMTT(30) DEF Rows
  <2>2. CASE ~won
    BY <1>0, <2>2
  <2> QED BY <2>1, <2>2
<1>6. ASSUME NEW b \in Bookings, Waiting(b), ~row'[b].stamp["b"], ~Slack(now + 1, b)
      PROVE  ~seen' /\ Reaches(run'[d], b, now)
  <2>1. ~seen /\ Reaches(j, b, now)
    BY <1>6 DEF SlackInv
  <2>2. ASSUME j.now = now, j.kind = "b"
        PROVE  InQueue(j.queue, b, 2) /\ InQueue(Tail(j.queue), b, 1)
    <3>1. InQueue(j.queue, b, 1)
      BY <1>0, <2>1, <2>2 DEF Reaches
    <3>2. c # b
      <4>1. CASE won
        BY <1>5, <1>6, <2>2, <4>1
      <4>2. CASE ~won
        BY <1>6, <2>2, <4>2 DEF won, Claimable, Waiting
      <4> QED BY <4>1, <4>2
    <3> QED BY <1>0, <1>1, <3>1, <3>2, RestReaches
  <2>3. Reaches(run'[d], b, now)
    <3>1. CASE won
      BY <1>2, <1>3, <2>2, <3>1 DEF Reaches
    <3>2. CASE ~won
      BY <1>2, <1>3, <2>2, <3>2 DEF Reaches
    <3> QED BY <3>1, <3>2
  <2> QED BY <1>0, <2>1, <2>3
<1>7. ASSUME NEW b \in Bookings, Carries(run'[d], b), Active(b), Roomy(b) PROVE Slack(run'[d].now, b)
  <2>1. won /\ j.kind = "b" /\ c = b /\ run'[d].now = j.now
    <3>1. won
      BY <1>2, <1>3, <1>7 DEF Carries
    <3> QED BY <1>1, <1>2, <1>3, <1>7, <3>1 DEF Carries
  <2>2. Waiting(b)
    BY <1>7, <2>1 DEF Waiting, won, Claimable
  <2>3. Slack(now, b) /\ j.now <= now /\ j.now \in Nat /\ now \in Nat
    BY <1>0, <2>2, Numbers DEF SlackInv, OnTime
  <2> HIDE DEF j, c
  <2>4. Slack(j.now, b)
    BY <2>3, Numbers DEF Slack
  <2> QED BY <2>1, <2>4
<1> DEFINE D == {d}
<1>8. /\ D \in SUBSET Dispatchers /\ \A e \in Dispatchers \ D : run'[e] = run[e]
      /\ \A e \in D : OnTime(run'[e], now)
      /\ \A b \in Bookings : (Waiting(b) /\ ~row'[b].stamp["b"] /\ ~Slack(now + 1, b)) =>
            ~seen' /\ \A e \in D : Reaches(run'[e], b, now)
      /\ \A e \in D, b \in Bookings : (Carries(run'[e], b) /\ Active(b) /\ Roomy(b)) => Slack(run'[e].now, b)
  BY <1>2, <1>4, <1>6, <1>7
<1>9. /\ UNCHANGED <<now, since, faults>>
      /\ \A b \in Bookings : row'[b].status = "active" =>
            /\ row[b].status = "active" /\ row'[b].sched = row[b].sched
            /\ row[b].stamp["b"] => row'[b].stamp["b"]
  BY <1>0, <1>5
<1> HIDE DEF D, j, c
<1> QED BY <1>8, <1>9, CalmKeeps

\* A mail goes out: the rest of the queue is left.
LEMMA SendKeeps ==
  ASSUME TypeInv, SlackInv, NEW d \in Dispatchers, Send(d)
  PROVE  SlackInv'
<1> DEFINE j == run[d]
<1>0. /\ run' = [run EXCEPT ![d] = Popped(j)] /\ UNCHANGED <<now, row, moves, faults, epoch, since, seen>>
      /\ j.pc = "send" /\ j.queue # <<>> /\ j \in Runs /\ j.queue \in Seq(Items)
  BY Numbers, DispatchMoves DEF Send, TypeInv, Runs
<1>1. /\ run'[d] = Popped(j) /\ \A e \in Dispatchers \ {d} : run'[e] = run[e]
  BY <1>0, Numbers
<1>2. /\ Popped(j).pc = "claim" /\ Popped(j).kind = j.kind /\ Popped(j).now = j.now
      /\ Popped(j).queue = Tail(j.queue)
  BY <1>0 DEF Popped, Runs
<1>3. OnTime(run'[d], now) /\ \A b \in Bookings : ~Carries(run'[d], b)
  BY <1>0, <1>1, <1>2 DEF SlackInv, OnTime, Carries
<1>4. ASSUME NEW b \in Bookings, Waiting(b), ~Slack(now + 1, b)
      PROVE  ~seen' /\ Reaches(run'[d], b, now)
  <2>1. ~seen /\ Reaches(j, b, now)
    BY <1>4 DEF SlackInv
  <2>2. ASSUME j.now = now, j.kind = "b" PROVE InQueue(Tail(j.queue), b, 1)
    BY <1>0, <2>1, <2>2, RestReaches DEF Reaches
  <2> QED BY <1>0, <1>1, <1>2, <2>1, <2>2 DEF Reaches
<1> DEFINE D == {d}
<1>5. /\ D \in SUBSET Dispatchers /\ \A e \in Dispatchers \ D : run'[e] = run[e]
      /\ \A e \in D : OnTime(run'[e], now)
      /\ \A b \in Bookings : (Waiting(b) /\ ~row'[b].stamp["b"] /\ ~Slack(now + 1, b)) =>
            ~seen' /\ \A e \in D : Reaches(run'[e], b, now)
      /\ \A e \in D, b \in Bookings : (Carries(run'[e], b) /\ Active(b) /\ Roomy(b)) => Slack(run'[e].now, b)
  BY <1>1, <1>3, <1>4
<1> HIDE DEF D, j
<1> QED BY <1>0, <1>5, CalmKeeps

\* Every step keeps the slack.
LEMMA StepKeeps == Punctual /\ TypeInv /\ SlackInv /\ [Next]_vars => SlackInv'
<1> SUFFICES ASSUME Punctual, TypeInv, SlackInv, [Next]_vars PROVE SlackInv'
  OBVIOUS
<1>0. /\ TypeOK /\ run \in [Dispatchers -> Runs] /\ row \in [Bookings -> Rows] /\ now \in Nat
  BY Numbers DEF TypeInv
<1>1. ASSUME NEW b \in Bookings, Cancel(b) PROVE SlackInv'
  <2>1. /\ row' = [row EXCEPT ![b].status = "cancelled"]
        /\ UNCHANGED <<now, run, sent, moves, faults, epoch, since, seen>>
    BY <1>1 DEF Cancel
  <2>2. \A c \in Bookings : row'[c].status = "active" =>
          /\ row[c].status = "active" /\ row'[c].sched = row[c].sched
          /\ row[c].stamp["b"] => row'[c].stamp["b"]
    BY <1>0, <2>1 DEF Rows
  <2>3. \A c \in Bookings : (Waiting(c) /\ ~row'[c].stamp["b"] /\ ~Slack(now + 1, c)) => ~seen'
    BY <2>1 DEF SlackInv
  <2> DEFINE D == {}
  <2>4. /\ D \in SUBSET Dispatchers /\ \A e \in Dispatchers \ D : run'[e] = run[e]
        /\ \A e \in D : OnTime(run'[e], now)
        /\ \A c \in Bookings : (Waiting(c) /\ ~row'[c].stamp["b"] /\ ~Slack(now + 1, c)) =>
              ~seen' /\ \A e \in D : Reaches(run'[e], c, now)
        /\ \A e \in D, c \in Bookings : (Carries(run'[e], c) /\ Active(c) /\ Roomy(c)) => Slack(run'[e].now, c)
    BY <2>1, <2>3
  <2> HIDE DEF D
  <2> QED BY <2>1, <2>2, <2>4, CalmKeeps
<1>2. ASSUME NEW d \in Dispatchers, Begin(d) PROVE SlackInv'
  <2>1. /\ run' = [run EXCEPT ![d] = Begun] /\ UNCHANGED <<now, row, sent, moves, faults, epoch, since, seen>>
    BY <1>0, <1>2, DispatchMoves DEF Begin
  <2>2. /\ run'[d].pc = "scan" /\ run'[d].now = now /\ \A e \in Dispatchers \ {d} : run'[e] = run[e]
    BY <1>0, <2>1 DEF Begun, NoRun
  <2>3. OnTime(run'[d], now) /\ \A c \in Bookings : ~Carries(run'[d], c) /\ Reaches(run'[d], c, now)
    BY <1>0, <2>2 DEF OnTime, Carries, Reaches
  <2>4. \A c \in Bookings : (Waiting(c) /\ ~row'[c].stamp["b"] /\ ~Slack(now + 1, c)) => ~seen'
    BY <2>1 DEF SlackInv
  <2> DEFINE D == {d}
  <2>5. /\ D \in SUBSET Dispatchers /\ \A e \in Dispatchers \ D : run'[e] = run[e]
        /\ \A e \in D : OnTime(run'[e], now)
        /\ \A c \in Bookings : (Waiting(c) /\ ~row'[c].stamp["b"] /\ ~Slack(now + 1, c)) =>
              ~seen' /\ \A e \in D : Reaches(run'[e], c, now)
        /\ \A e \in D, c \in Bookings : (Carries(run'[e], c) /\ Active(c) /\ Roomy(c)) => Slack(run'[e].now, c)
    BY <2>2, <2>3, <2>4
  <2> HIDE DEF D
  <2> QED BY <2>1, <2>5, CalmKeeps
\* The failures.
<1>3. ASSUME NEW d \in Dispatchers, NEW j, run' = [run EXCEPT ![d] = j], Fault, UNCHANGED <<now, since>>,
             j.pc # "send", run[d].pc # "idle", j.pc # "idle" => j.now = run[d].now,
             \A b \in Bookings : row'[b].status = row[b].status /\ row'[b].sched = row[b].sched,
             \A b \in Bookings : row[b].stamp["b"] /\ ~row'[b].stamp["b"] => Carries(run[d], b)
      PROVE  SlackInv'
  <2>1. run'[d] = j /\ \A e \in Dispatchers \ {d} : run'[e] = run[e]
    BY <1>0, <1>3
  <2>2. faults' = faults + 1
    BY <1>3 DEF Fault
  <2> QED BY <1>3, <2>1, <2>2, FaultKeeps
<1>4. ASSUME NEW d \in Dispatchers, ScanFails(d) PROVE SlackInv'
  <2>1. /\ run' = [run EXCEPT ![d] = Turned(run[d])] /\ Fault /\ UNCHANGED <<now, row, since>> /\ run[d].pc = "scan"
    BY <1>0, <1>4, DispatchMoves DEF ScanFails
  <2>2. Turned(run[d]).pc # "send" /\ (Turned(run[d]).pc # "idle" => Turned(run[d]).now = run[d].now)
    BY <1>0 DEF Turned, NoRun, Runs
  <2> QED BY <1>3, <2>1, <2>2
<1>5. ASSUME NEW d \in Dispatchers, Crash(d) PROVE SlackInv'
  <2>1. run' = [run EXCEPT ![d] = NoRun] /\ Fault /\ UNCHANGED <<now, row, since>> /\ run[d].pc # "idle"
    BY <1>5 DEF Crash
  <2>2. NoRun.pc = "idle"
    BY DEF NoRun
  <2> QED BY <1>3, <2>1, <2>2
<1>6. ASSUME NEW d \in Dispatchers, ClaimFails(d) \/ BuildFails(d) PROVE SlackInv'
  <2> DEFINE c == Head(run[d].queue).id
             k == run[d].kind
  <2>1. /\ Pop(d) /\ Fault /\ UNCHANGED <<now, since>> /\ run[d].pc # "idle" /\ run[d].queue # <<>>
        /\ \/ row' = row
           \/ row' = [row EXCEPT ![c].stamp[k] = TRUE]
           \/ run[d].pc = "send" /\ row' = [row EXCEPT ![c].stamp[k] = FALSE]
    BY <1>6 DEF ClaimFails, BuildFails, TypeInv
  <2>2. run[d] \in Runs /\ run[d].queue \in Seq(Items) /\ k \in Kinds
    BY <1>0 DEF Runs
  <2>3. c = run[d].queue[1].id /\ c \in Bookings
    <3>1. Head(run[d].queue) = run[d].queue[1] /\ Head(run[d].queue) \in Items
      BY <2>1, <2>2, QueueSplits
    <3> QED BY <3>1 DEF Items
  <2>4. run' = [run EXCEPT ![d] = Popped(run[d])]
    BY <1>0, <2>1, DispatchMoves
  <2>5. Popped(run[d]).pc = "claim" /\ Popped(run[d]).now = run[d].now
    BY <2>2 DEF Popped, Runs
  <2>6. /\ \A b \in Bookings : row'[b].status = row[b].status /\ row'[b].sched = row[b].sched
        /\ \A b \in Bookings : row[b].stamp["b"] /\ ~row'[b].stamp["b"] => Carries(run[d], b)
    <3>1. CASE row' = row
      BY <3>1
    <3>2. CASE row' = [row EXCEPT ![c].stamp[k] = TRUE]
      <4> HIDE DEF c, k
      <4> QED BY <1>0, <2>2, <2>3, <3>2, SMTT(30) DEF Rows
    <3>3. CASE run[d].pc = "send" /\ row' = [row EXCEPT ![c].stamp[k] = FALSE]
      <4>1. k = "b" => Carries(run[d], c)
        BY <2>3, <3>3 DEF Carries
      <4> HIDE DEF c, k
      <4>2. \A b \in Bookings : row[b].stamp["b"] /\ ~row'[b].stamp["b"] => b = c /\ k = "b"
        BY <1>0, <2>2, <2>3, <3>3, SMTT(30) DEF Rows
      <4>3. \A b \in Bookings : row'[b].status = row[b].status /\ row'[b].sched = row[b].sched
        BY <1>0, <2>2, <2>3, <3>3, SMTT(30) DEF Rows
      <4> QED BY <4>1, <4>2, <4>3
    <3> QED BY <2>1, <3>1, <3>2, <3>3
  <2> QED BY <1>3, <2>1, <2>4, <2>5, <2>6
<1>7. ASSUME UNCHANGED vars PROVE SlackInv'
  BY <1>7 DEF vars, SlackInv, Waiting, Roomy, Active, Slack
<1>8. ASSUME NEW b \in Bookings, NEW t \in 1..Horizon, Make(b, t) \/ Move(b, t) PROVE SlackInv'
  BY <1>8, TimeGivenKeeps
<1>9. ASSUME NEW d \in Dispatchers, ScanDue(d) \/ KindDone(d) \/ Claim(d) \/ Send(d) PROVE SlackInv'
  BY <1>9, ScanKeeps, KindDoneKeeps, ClaimKeeps, SendKeeps
<1>10. ASSUME Tick PROVE SlackInv'
  BY <1>10, TickKeeps
<1> QED BY <1>1, <1>2, <1>4, <1>5, <1>6, <1>7, <1>8, <1>9, <1>10 DEF Next, Step, AllPast

\* A call is not reached unreminded: with a dispatch in every unit of time, room in
\* a scan for all that are due and in the window for the failures, a booking that
\* had its time early enough has its 1-hour reminder claimed before the call,
\* whatever claims are given back and tried again (dispatchAppointmentReminders).
THEOREM CallsAreReminded == ASSUME Punctual PROVE Spec => []NoCallUnreminded
<1>1. Init => TypeInv /\ SlackInv
  <2> SUFFICES ASSUME Init PROVE SlackInv
    BY InitTyped
  <2>1. \A b \in Bookings : ~Waiting(b)
    BY DEF Init, Waiting, Active, NoRow
  <2>2. \A d \in Dispatchers : run[d].pc = "idle"
    BY DEF Init, NoRun
  <2> QED BY <2>1, <2>2 DEF SlackInv, OnTime, Carries
<1>2. TypeInv /\ SlackInv /\ [Next]_vars => TypeInv' /\ SlackInv'
  BY StepTyped, StepKeeps
<1>3. TypeInv /\ SlackInv => NoCallUnreminded
  <2> SUFFICES ASSUME TypeInv, SlackInv, NEW b \in Bookings, Active(b), row[b].sched <= now,
                      row[b].sched > since[b] + 1 + 2 * faults, ~row[b].stamp["b"]
               PROVE  FALSE
    BY DEF NoCallUnreminded
  <2>1. Slack(now, b)
    BY DEF SlackInv, Waiting, Roomy
  <2> DEFINE s == row[b].sched
             z == since[b]
  <2>2. s \in Nat /\ z \in Nat /\ now \in Nat /\ faults \in Nat /\ faults <= MaxFaults
    BY Numbers
  <2>3. /\ s > z + 1 + 2 * faults /\ LeadB > 2 * MaxFaults /\ s <= now
        /\ now <= z + 1 + 2 * faults \/ now + LeadB <= s + 2 * faults
    BY <2>1 DEF Slack, Punctual
  <2> HIDE DEF s, z
  <2> QED BY <2>2, <2>3
<1> QED BY <1>1, <1>2, <1>3, PTL DEF Spec

=============================================================================
