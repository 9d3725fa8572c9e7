-------------------------- MODULE EmailOutboxProofs --------------------------
(***************************************************************************)
(* The promises of the retry queue, for every number of rows and running   *)
(* batches, every batch size, lease and backoff schedule: the status of a  *)
(* row is earned, and a mail goes out again only for a lease that ran out, *)
(* a failure or an admin.                                                  *)
(***************************************************************************)
EXTENDS EmailOutbox, FiniteSetTheorems, TLAPS

USE MessageAssumption, BoundAssumption

\* There is always a first attempt.
LEMMA AttemptsBound == MaxAttempts \in Nat /\ MaxAttempts > 0
  BY BackoffAssumption DEF MaxAttempts

----------------------------------------
(* What a claim takes.  The rows are picked by their rank among the due      *)
(* ones: ranks number a finite set of ids without a gap, so the batch has    *)
(* every row it leases exactly once.                                         *)

Rank(S, m) == Cardinality({n \in S : n <= m})

\* Ranks grow with the ids.
LEMMA RankGrows ==
  ASSUME NEW S \in SUBSET Nat, IsFiniteSet(S), NEW m \in S, NEW n \in S, m < n
  PROVE  Rank(S, m) \in Nat /\ Rank(S, n) \in Nat /\ Rank(S, m) < Rank(S, n)
<1> DEFINE A == {k \in S : k <= m}
           B == {k \in S : k <= n}
<1>1. IsFiniteSet(B) /\ Cardinality(B) \in Nat /\ IsFiniteSet(A) /\ Cardinality(A) \in Nat
  BY FS_Subset, FS_CardinalityType
<1>2. A \subseteq B /\ A # B
  <2>1. S \subseteq Nat /\ m \in Nat /\ n \in Nat
    OBVIOUS
  <2>2. n \in B /\ n \notin A
    BY <2>1
  <2>3. ASSUME NEW k \in A PROVE k \in B
    BY <2>1
  <2> QED BY <2>2, <2>3
<1>3. Cardinality(A) <= Cardinality(B) /\ Cardinality(A) # Cardinality(B)
  <2> HIDE DEF A, B
  <2> QED BY <1>1, <1>2, FS_Subset
<1> QED BY <1>1, <1>3 DEF Rank

\* Ranks are the numbers from 1 to the size of the set, each of them once.
LEMMA RankNumbers ==
  ASSUME NEW S \in SUBSET Nat, IsFiniteSet(S)
  PROVE  /\ Cardinality(S) \in Nat
         /\ \A m \in S : Rank(S, m) \in 1..Cardinality(S)
         /\ \A m, n \in S : Rank(S, m) = Rank(S, n) => m = n
         /\ \A i \in 1..Cardinality(S) : \E m \in S : Rank(S, m) = i
<1>1. Cardinality(S) \in Nat
  BY FS_CardinalityType
<1>2. ASSUME NEW m \in S PROVE Rank(S, m) \in 1..Cardinality(S)
  <2> DEFINE A == {k \in S : k <= m}
  <2>1. IsFiniteSet(A) /\ Cardinality(A) \in Nat /\ Cardinality(A) <= Cardinality(S)
    BY FS_Subset, FS_CardinalityType
  <2>2. m \in A
    OBVIOUS
  <2>3. Cardinality(A) # 0
    <3> HIDE DEF A
    <3> QED BY <2>1, <2>2, FS_EmptySet
  <2> QED BY <1>1, <2>1, <2>3 DEF Rank
<1>3. ASSUME NEW m \in S, NEW n \in S, Rank(S, m) = Rank(S, n) PROVE m = n
  <2>1. CASE m < n
    BY <1>3, <2>1, RankGrows
  <2>2. CASE n < m
    BY <1>3, <2>2, RankGrows
  <2> QED BY <2>1, <2>2
<1>4. \A i \in 1..Cardinality(S) : \E m \in S : Rank(S, m) = i
  <2> DEFINE T == 1..Cardinality(S)
             f == [m \in S |-> Rank(S, m)]
  <2>1. f \in Injection(S, T)
    BY <1>2, <1>3 DEF Injection, IsInjective
  <2>2. IsFiniteSet(T) /\ Cardinality(T) = Cardinality(S)
    BY <1>1, FS_Interval
  <2>3. f \in Surjection(S, T)
    <3> HIDE DEF f, T
    <3> QED BY <2>1, <2>2, FS_Injection
  <2> QED BY <2>3 DEF Surjection
<1> QED BY <1>1, <1>2, <1>3, <1>4

\* A batch as claimBatch returns it: all of its rows were due, and none is in it
\* twice.
Leases(q) ==
  /\ q \in Seq([id : Messages, attempts : 0..MaxAttempts]) /\ Len(q) > 0
  /\ \A i \in 1..Len(q) : q[i].id \in Due /\ q[i].attempts = box[q[i].id].attempts
  /\ \A i, j \in 1..Len(q) : q[i].id = q[j].id => i = j

\* What claimBatch commits.
LEMMA ClaimLeases ==
  ASSUME TypeOK, NEW w \in Workers, ClaimBatch(w)
  PROVE  \E q : /\ Leases(q)
                /\ job' = [job EXCEPT ![w] = [NoJob EXCEPT !.pc = "send", !.queue = q]]
                /\ box' = [m \in Messages |-> IF \E i \in 1..Len(q) : q[i].id = m
                                              THEN [box[m] EXCEPT !.due = Lease] ELSE box[m]]
<1> DEFINE taken  == {m \in Due : Rank(Due, m) <= BatchSize}
           nth(i) == CHOOSE m \in taken : Rank(Due, m) = i
           n      == Cardinality(taken)
           q      == [i \in 1..n |-> [id |-> nth(i), attempts |-> box[nth(i)].attempts]]
<1>1. /\ taken # {}
      /\ job' = [job EXCEPT ![w] = [NoJob EXCEPT !.pc = "send", !.queue = q]]
      /\ box' = [m \in Messages |-> IF m \in taken THEN [box[m] EXCEPT !.due = Lease] ELSE box[m]]
  BY DEF ClaimBatch, Rank
<1>2. /\ Due \in SUBSET Nat /\ IsFiniteSet(Due) /\ Due \subseteq Messages
      /\ taken \subseteq Due /\ IsFiniteSet(taken)
  <2>1. Due \subseteq Messages
    BY DEF Due
  <2>2. IsFiniteSet(Due)
    BY <2>1, FS_Subset
  <2> QED BY <2>1, <2>2, FS_Subset
<1>3. n \in Nat /\ n # 0 /\ n <= Cardinality(Due) /\ Cardinality(Due) \in Nat
  <2> HIDE DEF taken
  <2> QED BY <1>1, <1>2, FS_CardinalityType, FS_EmptySet, FS_Subset DEF n
<1>4. \A m \in taken : Rank(Due, m) \in 1..n
  <2> SUFFICES ASSUME NEW m \in taken PROVE Rank(Due, m) \in 1..n
    OBVIOUS
  <2>1. Rank(Due, m) \in 1..Cardinality(Due) /\ Rank(Due, m) <= BatchSize
    BY <1>2, RankNumbers
  <2> DEFINE A == {k \in Due : k <= m}
  <2>2. A \subseteq taken
    <3> SUFFICES ASSUME NEW k \in Due, k <= m PROVE Rank(Due, k) <= BatchSize
      OBVIOUS
    <3>1. CASE k = m
      BY <2>1, <3>1
    <3>2. CASE k < m
      <4>1. Rank(Due, k) < Rank(Due, m) /\ Rank(Due, k) \in Nat /\ Rank(Due, m) \in Nat
        BY <1>2, <3>2, RankGrows
      <4> QED BY <2>1, <4>1
    <3> QED BY <1>2, <3>1, <3>2
  <2>3. Cardinality(A) <= n
    <3> HIDE DEF A, taken
    <3> QED BY <1>2, <2>2, FS_Subset DEF n
  <2>4. Rank(Due, m) = Cardinality(A)
    BY DEF Rank
  <2> QED BY <2>1, <2>3, <2>4
<1>5. \A i \in 1..n : nth(i) \in taken /\ Rank(Due, nth(i)) = i
  <2> SUFFICES ASSUME NEW i \in 1..n PROVE \E m \in taken : Rank(Due, m) = i
    OBVIOUS
  <2> DEFINE f == [m \in taken |-> Rank(Due, m)]
             T == 1..n
  <2>0. \A m, k \in taken : Rank(Due, m) = Rank(Due, k) => m = k
    BY <1>2, RankNumbers
  <2>1. f \in Injection(taken, T)
    <3> HIDE DEF taken, n
    <3> QED BY <1>4, <2>0 DEF Injection, IsInjective
  <2>2. IsFiniteSet(T) /\ Cardinality(T) = n
    BY <1>3, FS_Interval
  <2>3. f \in Surjection(taken, T)
    <3> HIDE DEF f, T, taken
    <3> QED BY <2>1, <2>2, FS_Injection DEF n
  <2> QED BY <2>3 DEF Surjection
<1> HIDE DEF n, taken
<1>6. Len(q) = n /\ \A i \in 1..n : q[i].id = nth(i) /\ q[i].attempts = box[nth(i)].attempts
  <2> HIDE DEF nth
  <2> QED BY <1>3
<1>7. \A i \in 1..n : nth(i) \in Due
  BY <1>2, <1>5
<1>8. q \in Seq([id : Messages, attempts : 0..MaxAttempts])
  <2>1. \A i \in 1..n : box[nth(i)].attempts \in 0..MaxAttempts /\ nth(i) \in Messages
    BY <1>2, <1>7 DEF TypeOK
  <2> HIDE DEF nth
  <2> QED BY <1>3, <2>1
<1>9. \A m \in Messages : m \in taken <=> \E i \in 1..n : nth(i) = m
  <2> SUFFICES ASSUME NEW m \in Messages PROVE m \in taken <=> \E i \in 1..n : nth(i) = m
    OBVIOUS
  <2>1. ASSUME m \in taken PROVE \E i \in 1..n : nth(i) = m
    <3>1. Rank(Due, m) \in 1..n
      BY <1>4, <2>1
    <3> DEFINE k == nth(Rank(Due, m))
    <3>2. k \in Due /\ Rank(Due, k) = Rank(Due, m) /\ m \in Due
      BY <1>2, <1>5, <2>1, <3>1
    <3>3. k = m
      <4> HIDE DEF k
      <4> QED BY <1>2, <3>2, RankNumbers
    <3> QED BY <3>1, <3>3
  <2> QED BY <1>5, <2>1
<1>10. \A i, j \in 1..n : nth(i) = nth(j) => i = j
  <2> HIDE DEF nth
  <2> QED BY <1>5
<1> HIDE DEF nth, q
<1>11. Leases(q)
  <2>1. Len(q) > 0
    BY <1>3, <1>6
  <2>2. \A i \in 1..Len(q) : q[i].id \in Due /\ q[i].attempts = box[q[i].id].attempts
    BY <1>6, <1>7
  <2>3. \A i, j \in 1..Len(q) : q[i].id = q[j].id => i = j
    BY <1>6, <1>10
  <2> QED BY <1>8, <2>1, <2>2, <2>3 DEF Leases
<1>12. box' = [m \in Messages |-> IF \E i \in 1..Len(q) : q[i].id = m
                                  THEN [box[m] EXCEPT !.due = Lease] ELSE box[m]]
  BY <1>1, <1>6, <1>9
<1> QED BY <1>1, <1>11, <1>12

----------------------------------------
(* Statuses.  The attempts of a row, and those a batch has read of it, never *)
(* run ahead of the sends that were tried; a batch that is to mark a row has *)
(* tried it once more; a row that can still be claimed has attempts left.    *)

Items == [id : Messages, attempts : 0..MaxAttempts]
Rows  == [status : {"none", "pending", "sent", "failed", "deleted"},
          attempts : 0..MaxAttempts, due : Nat]
Jobs  == [pc : {"idle", "send", "mark"}, ok : BOOLEAN, queue : Seq(Items)]

\* t, d, n: the sends tried, the mails that went out, the admin's interventions.
JobEarns(j, t, d, n) ==
  /\ j.pc # "idle" => Len(j.queue) > 0
  /\ \A i \in 1..Len(j.queue) : /\ j.queue[i].attempts < MaxAttempts
                                /\ n = 0 => j.queue[i].attempts <= t[j.queue[i].id]
  /\ j.pc = "mark" => /\ n = 0 => j.queue[1].attempts < t[j.queue[1].id]
                      /\ j.ok => d[j.queue[1].id] > 0

RowEarns(x, t, d, n) ==
  /\ x.status \in {"none", "pending"} => x.attempts < MaxAttempts
  /\ n = 0 => x.attempts <= t
  /\ x.status = "sent" => d > 0
  /\ x.status = "failed" /\ n = 0 => t >= MaxAttempts

EarnedInv == /\ TypeOK
             /\ \A w \in Workers : JobEarns(job[w], tries, delivered, requeues)
             /\ \A m \in Messages : RowEarns(box[m], tries[m], delivered[m], requeues)

\* Sends, deliveries and interventions are only ever added, except that an
\* intervention sets a row back.
CountsGrow == /\ requeues \in Nat /\ requeues' \in Nat /\ (requeues' = 0 => requeues = 0)
              /\ \A m \in Messages : /\ delivered[m] <= delivered'[m]
                                     /\ requeues' = 0 => tries[m] <= tries'[m]
              /\ delivered' \in [Messages -> Nat] /\ tries' \in [Messages -> 0..MaxAttempts]

\* What a batch has earned it keeps while the others go on ...
LEMMA JobKeepsEarning ==
  ASSUME TypeOK, CountsGrow, NEW j \in Jobs, JobEarns(j, tries, delivered, requeues)
  PROVE  JobEarns(j, tries', delivered', requeues')
<1>1. \A i \in 1..Len(j.queue) : j.queue[i].id \in Messages /\ j.queue[i].attempts \in 0..MaxAttempts
  <2>1. j.queue \in Seq(Items)
    BY DEF Jobs
  <2>2. \A i \in 1..Len(j.queue) : j.queue[i] \in Items
    BY <2>1
  <2> QED BY <2>2 DEF Items
<1>2. tries \in [Messages -> 0..MaxAttempts] /\ delivered \in [Messages -> Nat] /\ Len(j.queue) \in Nat
  BY DEF TypeOK, Jobs
<1>3. /\ requeues' = 0 => requeues = 0
      /\ \A m \in Messages : /\ tries[m] \in Nat /\ tries'[m] \in Nat
                             /\ delivered[m] \in Nat /\ delivered'[m] \in Nat
                             /\ delivered[m] <= delivered'[m]
                             /\ requeues' = 0 => tries[m] <= tries'[m]
  BY <1>2 DEF CountsGrow
<1>4. \A m \in Messages, k \in Nat :
        /\ (requeues = 0 => k <= tries[m]) => (requeues' = 0 => k <= tries'[m])
        /\ (requeues = 0 => k < tries[m]) => (requeues' = 0 => k < tries'[m])
        /\ delivered[m] > 0 => delivered'[m] > 0
  <2> SUFFICES ASSUME NEW m \in Messages, NEW k \in Nat
               PROVE  /\ (requeues = 0 => k <= tries[m]) => (requeues' = 0 => k <= tries'[m])
                      /\ (requeues = 0 => k < tries[m]) => (requeues' = 0 => k < tries'[m])
                      /\ delivered[m] > 0 => delivered'[m] > 0
    OBVIOUS
  <2> QED BY <1>3
<1>5. ASSUME NEW i \in 1..Len(j.queue)
      PROVE  /\ j.queue[i].attempts < MaxAttempts
             /\ requeues' = 0 => j.queue[i].attempts <= tries'[j.queue[i].id]
  <2> DEFINE m == j.queue[i].id
             n == j.queue[i].attempts
  <2>1. m \in Messages /\ n \in Nat /\ n < MaxAttempts /\ (requeues = 0 => n <= tries[m])
    BY <1>1 DEF JobEarns
  <2> HIDE DEF m, n
  <2>2. requeues' = 0 => n <= tries'[m]
    BY <1>4, <2>1
  <2> QED BY <2>1, <2>2 DEF m, n
<1>6. ASSUME j.pc = "mark"
      PROVE  /\ requeues' = 0 => j.queue[1].attempts < tries'[j.queue[1].id]
             /\ j.ok => delivered'[j.queue[1].id] > 0
  <2> DEFINE m == j.queue[1].id
             n == j.queue[1].attempts
  <2>1. 1 \in 1..Len(j.queue)
    BY <1>2, <1>6 DEF JobEarns
  <2>2. /\ m \in Messages /\ n \in Nat
        /\ requeues = 0 => n < tries[m]
        /\ j.ok => delivered[m] > 0
    BY <1>1, <1>6, <2>1 DEF JobEarns
  <2> HIDE DEF m, n
  <2>3. /\ requeues' = 0 => n < tries'[m]
        /\ j.ok => delivered'[m] > 0
    BY <1>4, <2>2
  <2> QED BY <2>3 DEF m, n
<1>7. j.pc # "idle" => Len(j.queue) > 0
  BY DEF JobEarns
<1> QED BY <1>5, <1>6, <1>7 DEF JobEarns

\* ... and so does a row.
LEMMA RowKeepsEarning ==
  ASSUME TypeOK, CountsGrow, NEW m \in Messages, NEW x \in Rows,
         RowEarns(x, tries[m], delivered[m], requeues)
  PROVE  RowEarns(x, tries'[m], delivered'[m], requeues')
<1>1. /\ tries[m] \in Nat /\ tries'[m] \in Nat /\ delivered[m] \in Nat /\ delivered'[m] \in Nat
      /\ delivered[m] <= delivered'[m] /\ x.attempts \in 0..MaxAttempts
      /\ requeues' = 0 => requeues = 0
      /\ requeues' = 0 => tries[m] <= tries'[m]
  BY DEF TypeOK, CountsGrow, Rows
<1> QED BY <1>1, AttemptsBound DEF RowEarns

\* A step of one batch that writes no row.
LEMMA OneJobEarns ==
  ASSUME EarnedInv, CountsGrow, requeues' \in 0..MaxRequeues, crashes' \in 0..MaxCrashes,
         lapses' \in [Messages -> 0..MaxLapses],
         UNCHANGED box,
         NEW w \in Workers, NEW j \in Jobs, job' = [job EXCEPT ![w] = j],
         JobEarns(j, tries', delivered', requeues')
  PROVE  EarnedInv'
<1>0. TypeOK /\ job \in [Workers -> Jobs] /\ box \in [Messages -> Rows]
  BY DEF EarnedInv, TypeOK, Jobs, Items, Rows
<1>1. job' \in [Workers -> Jobs]
  BY <1>0
<1>2. TypeOK'
  BY <1>0, <1>1 DEF TypeOK, CountsGrow, Jobs, Items, Rows
<1>3. \A v \in Workers : JobEarns(job'[v], tries', delivered', requeues')
  <2> SUFFICES ASSUME NEW v \in Workers PROVE JobEarns(job'[v], tries', delivered', requeues')
    OBVIOUS
  <2>1. CASE v = w
    BY <1>0, <2>1
  <2>2. CASE v # w
    <3>1. job'[v] = job[v] /\ job[v] \in Jobs /\ JobEarns(job[v], tries, delivered, requeues)
      BY <1>0, <2>2 DEF EarnedInv
    <3>2. JobEarns(job[v], tries', delivered', requeues')
      BY <1>0, <3>1, JobKeepsEarning
    <3> QED BY <3>1, <3>2
  <2> QED BY <2>1, <2>2
<1>4. \A m \in Messages : RowEarns(box'[m], tries'[m], delivered'[m], requeues')
  <2> SUFFICES ASSUME NEW m \in Messages
               PROVE  RowEarns(box[m], tries'[m], delivered'[m], requeues')
    OBVIOUS
  <2> QED BY <1>0, RowKeepsEarning DEF EarnedInv
<1> QED BY <1>2, <1>3, <1>4 DEF EarnedInv

\* A step of one batch that writes one row, or none, and counts nothing.
LEMMA RowsEarn ==
  ASSUME EarnedInv, UNCHANGED <<delivered, tries>>,
         requeues' = requeues, crashes' \in 0..MaxCrashes,
         lapses' \in [Messages -> 0..MaxLapses],
         job' \in [Workers -> Jobs], box' \in [Messages -> Rows],
         \A w \in Workers : JobEarns(job'[w], tries, delivered, requeues),
         \A m \in Messages : RowEarns(box'[m], tries[m], delivered[m], requeues)
  PROVE  EarnedInv'
<1>1. TypeOK'
  BY DEF EarnedInv, TypeOK, Jobs, Items, Rows
<1> QED BY <1>1 DEF EarnedInv

\* The claim: what it reads of a row is what the row has.
LEMMA ClaimEarns ==
  ASSUME EarnedInv, NEW w \in Workers, ClaimBatch(w)
  PROVE  EarnedInv'
<1>0. /\ TypeOK /\ job \in [Workers -> Jobs] /\ box \in [Messages -> Rows]
      /\ UNCHANGED <<delivered, tries, requeues, crashes>> /\ crashes' \in 0..MaxCrashes
      /\ lapses' \in [Messages -> 0..MaxLapses]
  BY DEF EarnedInv, TypeOK, Jobs, Items, Rows, ClaimBatch
<1>1. PICK q : /\ Leases(q)
               /\ job' = [job EXCEPT ![w] = [NoJob EXCEPT !.pc = "send", !.queue = q]]
               /\ box' = [m \in Messages |-> IF \E i \in 1..Len(q) : q[i].id = m
                                             THEN [box[m] EXCEPT !.due = Lease] ELSE box[m]]
  BY <1>0, ClaimLeases
<1> DEFINE j == [NoJob EXCEPT !.pc = "send", !.queue = q]
<1>2. j \in Jobs /\ j.pc = "send" /\ j.queue = q
  <2>1. q \in Seq(Items)
    BY <1>1 DEF Leases, Items
  <2>2. NoJob \in Jobs
    <3>1. <<>> \in Seq(Items)
      OBVIOUS
    <3> QED BY <3>1 DEF NoJob, Jobs
  <2> QED BY <2>1, <2>2 DEF Jobs
<1>3. JobEarns(j, tries, delivered, requeues)
  <2>1. ASSUME NEW i \in 1..Len(q)
        PROVE  q[i].attempts < MaxAttempts /\ (requeues = 0 => q[i].attempts <= tries[q[i].id])
    <3>1. /\ q[i].id \in Messages /\ box[q[i].id].status = "pending"
          /\ q[i].attempts = box[q[i].id].attempts
      BY <1>1 DEF Leases, Due
    <3>2. RowEarns(box[q[i].id], tries[q[i].id], delivered[q[i].id], requeues)
      BY <3>1 DEF EarnedInv
    <3> QED BY <3>1, <3>2 DEF RowEarns
  <2>2. Len(q) > 0
    BY <1>1 DEF Leases
  <2> HIDE DEF j
  <2> QED BY <1>2, <2>1, <2>2 DEF JobEarns
<1> HIDE DEF j
<1>4. job' \in [Workers -> Jobs] /\ \A v \in Workers : JobEarns(job'[v], tries, delivered, requeues)
  BY <1>0, <1>1, <1>2, <1>3 DEF EarnedInv, j
<1>5. ASSUME NEW m \in Messages
      PROVE  box'[m] \in Rows /\ RowEarns(box'[m], tries[m], delivered[m], requeues)
  <2>1. box[m] \in Rows /\ RowEarns(box[m], tries[m], delivered[m], requeues)
    BY <1>0 DEF EarnedInv
  <2>2. box'[m] = box[m] \/ box'[m] = [box[m] EXCEPT !.due = Lease]
    BY <1>1
  <2> QED BY <2>1, <2>2 DEF Rows, RowEarns
<1>6. box' \in [Messages -> Rows]
  BY <1>1, <1>5
<1> QED BY <1>0, <1>4, <1>5, <1>6, RowsEarn

\* The send: the row has been tried once more before it is marked.
LEMMA SendEarns ==
  ASSUME EarnedInv, NEW w \in Workers, Send(w)
  PROVE  EarnedInv'
<1>0. TypeOK /\ job \in [Workers -> Jobs] /\ job[w] \in Jobs /\ JobEarns(job[w], tries, delivered, requeues)
  BY DEF EarnedInv, TypeOK, Jobs, Items
<1> DEFINE m == job[w].queue[1].id
           n == job[w].queue[1].attempts
<1>1. /\ job[w].pc = "send" /\ job[w].queue \in Seq(Items) /\ Len(job[w].queue) > 0
      /\ m = Head(job[w].queue).id /\ m \in Messages /\ n \in Nat
  <2>1. job[w].pc = "send" /\ job[w].queue \in Seq(Items) /\ Len(job[w].queue) > 0
    BY <1>0 DEF Send, Jobs, JobEarns
  <2>2. job[w].queue[1] = Head(job[w].queue) /\ job[w].queue[1] \in Items
    BY <2>1
  <2> QED BY <2>1, <2>2 DEF Items
<1>2. n < MaxAttempts /\ (requeues = 0 => n <= tries[m])
  BY <1>0, <1>1 DEF JobEarns
<1>3. PICK ok \in BOOLEAN :
        /\ delivered' = [delivered EXCEPT ![m] = IF ok THEN @ + 1 ELSE @]
        /\ job' = [job EXCEPT ![w].pc = "mark", ![w].ok = ok]
  BY <1>1 DEF Send
<1>4. /\ tries' = [tries EXCEPT ![m] = IF @ < MaxAttempts THEN @ + 1 ELSE @]
      /\ UNCHANGED <<box, requeues, crashes, lapses>>
  BY <1>1 DEF Send
<1> HIDE DEF m, n
<1>5. tries \in [Messages -> 0..MaxAttempts] /\ delivered \in [Messages -> Nat]
  BY <1>0 DEF TypeOK
<1>6. /\ CountsGrow
      /\ tries[m] \in Nat /\ tries'[m] = IF tries[m] < MaxAttempts THEN tries[m] + 1 ELSE tries[m]
      /\ ok => delivered'[m] > 0
  <2>1. \A k \in Messages : /\ tries[k] \in Nat /\ tries[k] <= MaxAttempts
                           /\ delivered[k] \in Nat
    BY <1>5, AttemptsBound
  <2>2. tries' \in [Messages -> 0..MaxAttempts]
    BY <1>1, <1>4, <1>5, <2>1, AttemptsBound
  <2>3. delivered' \in [Messages -> Nat]
    <3>1. CASE ok
      <4>1. delivered' = [delivered EXCEPT ![m] = delivered[m] + 1]
        BY <1>3, <3>1
      <4> QED BY <1>1, <1>5, <2>1, <4>1
    <3>2. CASE ~ok
      <4>1. delivered' = [delivered EXCEPT ![m] = delivered[m]]
        BY <1>3, <3>2
      <4> QED BY <1>1, <1>5, <2>1, <4>1
    <3> QED BY <3>1, <3>2
  <2>4. /\ tries'[m] = IF tries[m] < MaxAttempts THEN tries[m] + 1 ELSE tries[m]
        /\ delivered'[m] = IF ok THEN delivered[m] + 1 ELSE delivered[m]
        /\ \A k \in Messages \ {m} : tries'[k] = tries[k] /\ delivered'[k] = delivered[k]
    BY <1>1, <1>3, <1>4, <1>5
  <2>5. requeues \in Nat
    BY <1>0 DEF TypeOK
  <2>6. ASSUME NEW k \in Messages
        PROVE  delivered[k] <= delivered'[k] /\ tries[k] <= tries'[k]
    BY <2>1, <2>4, <2>6
  <2>7. ASSUME ok PROVE delivered'[m] > 0
    <3>1. delivered'[m] = delivered[m] + 1
      BY <2>4, <2>7
    <3>2. delivered[m] \in Nat
      BY <1>1, <1>5
    <3> QED BY <3>1, <3>2
  <2> QED BY <1>1, <1>4, <2>1, <2>2, <2>3, <2>4, <2>5, <2>6, <2>7 DEF CountsGrow
<1> DEFINE j == [job[w] EXCEPT !.pc = "mark", !.ok = ok]
<1>7. /\ j \in Jobs /\ j.pc = "mark" /\ j.ok = ok /\ j.queue = job[w].queue
      /\ job' = [job EXCEPT ![w] = j]
  BY <1>0, <1>3 DEF Jobs
<1>8. JobEarns(j, tries', delivered', requeues')
  <2> HIDE DEF j
  <2>1. JobEarns(job[w], tries', delivered', requeues')
    BY <1>0, <1>6, JobKeepsEarning
  <2>2. requeues' = 0 => n < tries'[m]
    BY <1>1, <1>2, <1>4, <1>6, AttemptsBound
  <2> QED BY <1>1, <1>6, <1>7, <2>1, <2>2 DEF JobEarns, m, n
<1>9. requeues' \in 0..MaxRequeues /\ crashes' \in 0..MaxCrashes /\ lapses' \in [Messages -> 0..MaxLapses]
  BY <1>0, <1>4 DEF TypeOK
<1> HIDE DEF j
<1> QED BY <1>4, <1>6, <1>7, <1>8, <1>9, OneJobEarns

\* What a batch goes on with after its first mail.
LEMMA RestEarns ==
  ASSUME NEW j \in Jobs, NEW t, NEW d, NEW n, JobEarns(j, t, d, n), Len(j.queue) > 1
  PROVE  /\ [j EXCEPT !.pc = "send", !.queue = Tail(j.queue)] \in Jobs
         /\ JobEarns([j EXCEPT !.pc = "send", !.queue = Tail(j.queue)], t, d, n)
<1> DEFINE k == [j EXCEPT !.pc = "send", !.queue = Tail(j.queue)]
<1>1. j.queue \in Seq(Items) /\ Len(j.queue) \in Nat
  BY DEF Jobs
<1>2. /\ Tail(j.queue) \in Seq(Items) /\ Len(Tail(j.queue)) = Len(j.queue) - 1
      /\ \A i \in 1..Len(Tail(j.queue)) : Tail(j.queue)[i] = j.queue[i + 1]
  BY <1>1
<1>3. k \in Jobs /\ k.pc = "send" /\ k.queue = Tail(j.queue)
  BY <1>2 DEF Jobs
<1> HIDE DEF k
<1>4. ASSUME NEW i \in 1..Len(k.queue)
      PROVE  /\ k.queue[i].attempts < MaxAttempts
             /\ n = 0 => k.queue[i].attempts <= t[k.queue[i].id]
  <2>1. i + 1 \in 1..Len(j.queue) /\ k.queue[i] = j.queue[i + 1]
    BY <1>1, <1>2, <1>3
  <2> QED BY <2>1 DEF JobEarns
<1>5. JobEarns(k, t, d, n)
  BY <1>1, <1>2, <1>3, <1>4 DEF JobEarns
<1> QED BY <1>3, <1>5 DEF k

\* What is written of a mail that was tried.
LEMMA OutcomeEarns ==
  ASSUME NEW x \in Rows, NEW k \in Nat, k < MaxAttempts, NEW ok \in BOOLEAN,
         NEW t \in Nat, NEW d \in Nat, NEW n,
         RowEarns(x, t, d, n), n = 0 => k < t, ok => d > 0
  PROVE  Outcome(x, ok, k + 1) \in Rows /\ RowEarns(Outcome(x, ok, k + 1), t, d, n)
<1>1. CASE ok
  <2>1. Outcome(x, ok, k + 1) = [x EXCEPT !.status = "sent", !.due = 0] /\ d > 0
    BY <1>1, Zenon DEF Outcome
  <2> DEFINE y == [x EXCEPT !.status = "sent", !.due = 0]
  <2>2. y \in Rows /\ y.status = "sent" /\ y.attempts = x.attempts
    BY DEF Rows
  <2> HIDE DEF y
  <2>3. RowEarns(y, t, d, n)
    BY <2>1, <2>2 DEF RowEarns
  <2> QED BY <2>1, <2>2, <2>3 DEF y
<1>2. CASE ~ok /\ k + 1 >= MaxAttempts
  <2>0. ~ (k + 1 < MaxAttempts)
    BY <1>2, AttemptsBound
  <2>1. Outcome(x, ok, k + 1) = [status |-> "failed", attempts |-> k + 1, due |-> 0]
    BY <1>2, <2>0, Zenon DEF Outcome
  <2> QED BY <1>2, <2>1, AttemptsBound DEF Rows, RowEarns
<1>3. CASE ~ok /\ k + 1 < MaxAttempts
  <2>1. Outcome(x, ok, k + 1) = [status |-> "pending", attempts |-> k + 1, due |-> Backoff[k + 1]]
    BY <1>3, AttemptsBound DEF Outcome
  <2>2. Backoff[k + 1] \in Nat
    BY <1>3, BackoffAssumption DEF MaxAttempts
  <2> QED BY <1>3, <2>1, <2>2, AttemptsBound DEF Rows, RowEarns
<1> QED BY <1>1, <1>2, <1>3, AttemptsBound

\* The mark: what is written of the row has been earned by the send.
LEMMA MarkEarns ==
  ASSUME EarnedInv, NEW w \in Workers, Mark(w)
  PROVE  EarnedInv'
<1>0. /\ TypeOK /\ job \in [Workers -> Jobs] /\ job[w] \in Jobs /\ box \in [Messages -> Rows]
      /\ JobEarns(job[w], tries, delivered, requeues)
      /\ tries \in [Messages -> 0..MaxAttempts] /\ delivered \in [Messages -> Nat]
      /\ UNCHANGED <<delivered, tries, requeues, crashes>> /\ crashes' \in 0..MaxCrashes
      /\ lapses' \in [Messages -> 0..MaxLapses]
  BY DEF EarnedInv, TypeOK, Jobs, Items, Rows, Mark
<1> DEFINE q == job[w].queue
           m == q[1].id
           n == q[1].attempts
<1>1. /\ job[w].pc = "mark" /\ q \in Seq(Items) /\ Len(q) > 0 /\ Len(q) \in Nat
      /\ Head(q).id = m /\ Head(q).attempts = n /\ m \in Messages /\ n \in Nat
      /\ job[w].ok \in BOOLEAN
  <2>1. job[w].pc = "mark" /\ q \in Seq(Items) /\ Len(q) > 0 /\ job[w].ok \in BOOLEAN
    BY <1>0 DEF Mark, Jobs, JobEarns
  <2>2. q[1] = Head(q) /\ q[1] \in Items
    BY <2>1
  <2> QED BY <2>1, <2>2 DEF Items
<1>2. n < MaxAttempts /\ (requeues = 0 => n < tries[m]) /\ (job[w].ok => delivered[m] > 0)
  BY <1>0, <1>1 DEF JobEarns
<1>3. /\ box' = IF Present(m) THEN [box EXCEPT ![m] = Outcome(box[m], job[w].ok, n + 1)] ELSE box
      /\ job' = [job EXCEPT ![w] = IF Len(q) = 1 THEN NoJob
                                   ELSE [job[w] EXCEPT !.pc = "send", !.queue = Tail(q)]]
  <2>1. box' = IF Present(m) THEN [box EXCEPT ![m] = Outcome(box[m], job[w].ok, n + 1)] ELSE box
    BY <1>1, Zenon DEF Mark
  <2>2. job' = [job EXCEPT ![w] = IF Len(q) = 1 THEN NoJob
                                  ELSE [job[w] EXCEPT !.pc = "send", !.queue = Tail(q)]]
    BY Zenon DEF Mark
  <2> QED BY <2>1, <2>2
<1>4. NoJob \in Jobs /\ JobEarns(NoJob, tries, delivered, requeues)
  <2>1. <<>> \in Seq(Items)
    OBVIOUS
  <2> QED BY <2>1 DEF NoJob, Jobs, JobEarns
<1>5. \E j \in Jobs : job' = [job EXCEPT ![w] = j] /\ JobEarns(j, tries, delivered, requeues)
  <2>1. CASE Len(q) = 1
    BY <1>3, <1>4, <2>1
  <2>2. CASE Len(q) # 1
    <3> DEFINE k == [job[w] EXCEPT !.pc = "send", !.queue = Tail(q)]
    <3>1. k \in Jobs /\ JobEarns(k, tries, delivered, requeues)
      <4>1. Len(q) \in Nat /\ Len(q) > 0
        BY <1>1, Zenon
      <4>2. \A i \in Nat : i > 0 /\ i # 1 => i > 1
        OBVIOUS
      <4>3. Len(job[w].queue) > 1
        BY <2>2, <4>1, <4>2, Zenon
      <4> QED BY <1>0, <4>3, RestEarns, Zenon
    <3>2. job' = [job EXCEPT ![w] = k]
      BY <1>3, <2>2
    <3> HIDE DEF k
    <3> QED BY <3>1, <3>2
  <2> QED BY <2>1, <2>2
<1>6. job' \in [Workers -> Jobs] /\ \A v \in Workers : JobEarns(job'[v], tries, delivered, requeues)
  BY <1>0, <1>5 DEF EarnedInv
<1> HIDE DEF m, n
<1>7. Outcome(box[m], job[w].ok, n + 1) \in Rows
      /\ RowEarns(Outcome(box[m], job[w].ok, n + 1), tries[m], delivered[m], requeues)
  <2>1. /\ box[m] \in Rows /\ RowEarns(box[m], tries[m], delivered[m], requeues)
        /\ tries[m] \in Nat /\ delivered[m] \in Nat
    BY <1>0, <1>1 DEF EarnedInv
  <2> QED BY <1>1, <1>2, <2>1, OutcomeEarns
<1>8. /\ box' \in [Messages -> Rows]
      /\ \A k \in Messages : RowEarns(box'[k], tries[k], delivered[k], requeues)
  <2>1. CASE Present(m)
    <3>1. box' = [box EXCEPT ![m] = Outcome(box[m], job[w].ok, n + 1)]
      BY <1>3, <2>1
    <3> QED BY <1>0, <1>1, <1>7, <3>1 DEF EarnedInv
  <2>2. CASE ~Present(m)
    BY <1>0, <1>3, <2>2 DEF EarnedInv
  <2> QED BY <2>1, <2>2
<1> QED BY <1>0, <1>6, <1>8, RowsEarn

\* What fails: the writing of a success, or the whole process.
LEMMA FailuresEarn ==
  ASSUME EarnedInv, NEW w \in Workers, MarkSentFails(w) \/ Crash(w)
  PROVE  EarnedInv'
<1>0. /\ TypeOK /\ job \in [Workers -> Jobs] /\ job[w] \in Jobs /\ box \in [Messages -> Rows]
      /\ JobEarns(job[w], tries, delivered, requeues)
      /\ UNCHANGED <<box, delivered, tries, requeues>> /\ crashes' \in 0..MaxCrashes
      /\ lapses' \in [Messages -> 0..MaxLapses]
  <2>1. /\ TypeOK /\ job \in [Workers -> Jobs] /\ box \in [Messages -> Rows]
        /\ JobEarns(job[w], tries, delivered, requeues)
    BY DEF EarnedInv, TypeOK, Jobs, Items, Rows
  <2>2. UNCHANGED <<box, delivered, tries, requeues, lapses>> /\ crashes' = crashes + 1 /\ crashes < MaxCrashes
    BY DEF MarkSentFails, Crash
  <2>3. crashes \in 0..MaxCrashes /\ lapses \in [Messages -> 0..MaxLapses]
    BY <2>1 DEF TypeOK
  <2>4. crashes' \in 0..MaxCrashes /\ lapses' \in [Messages -> 0..MaxLapses]
    BY <2>2, <2>3
  <2> QED BY <2>1, <2>2, <2>4
<1>1. ASSUME NEW j \in Jobs, job' = [job EXCEPT ![w] = j], JobEarns(j, tries, delivered, requeues)
      PROVE  EarnedInv'
  <2>1. /\ job' \in [Workers -> Jobs]
        /\ \A v \in Workers : JobEarns(job'[v], tries, delivered, requeues)
    BY <1>0, <1>1 DEF EarnedInv
  <2>2. /\ box' \in [Messages -> Rows]
        /\ \A m \in Messages : RowEarns(box'[m], tries[m], delivered[m], requeues)
    BY <1>0 DEF EarnedInv
  <2> QED BY <1>0, <2>1, <2>2, RowsEarn
<1>2. CASE MarkSentFails(w)
  <2> DEFINE j == [job[w] EXCEPT !.ok = FALSE]
  <2>1. j \in Jobs /\ j.pc = job[w].pc /\ j.queue = job[w].queue /\ ~j.ok
    BY <1>0 DEF Jobs
  <2>2. job' = [job EXCEPT ![w] = j]
    BY <1>0, <1>2 DEF MarkSentFails
  <2> HIDE DEF j
  <2>3. JobEarns(j, tries, delivered, requeues)
    BY <1>0, <2>1 DEF JobEarns
  <2> QED BY <1>1, <2>1, <2>2, <2>3
<1>3. CASE Crash(w)
  <2>1. NoJob \in Jobs /\ JobEarns(NoJob, tries, delivered, requeues)
    <3>1. <<>> \in Seq(Items)
      OBVIOUS
    <3> QED BY <3>1 DEF NoJob, Jobs, JobEarns
  <2> QED BY <1>1, <1>3, <2>1 DEF Crash
<1> QED BY <1>2, <1>3

\* What is done to one row from outside the batches.
LEMMA AdminEarns ==
  ASSUME EarnedInv, NEW m \in Messages, Enqueue(m) \/ Requeue(m) \/ Delete(m)
  PROVE  EarnedInv'
<1>0. /\ TypeOK /\ job \in [Workers -> Jobs] /\ box \in [Messages -> Rows]
      /\ tries \in [Messages -> 0..MaxAttempts] /\ delivered \in [Messages -> Nat]
      /\ requeues \in 0..MaxRequeues
      /\ UNCHANGED <<job, delivered, crashes, lapses>>
  BY DEF EarnedInv, TypeOK, Jobs, Items, Rows, Enqueue, Requeue, Delete
<1>1. requeues' \in 0..MaxRequeues /\ (requeues' = 0 => requeues = 0 /\ tries' = tries)
  BY <1>0 DEF Enqueue, Requeue, Delete
<1>2. tries' \in [Messages -> 0..MaxAttempts]
  BY <1>0, AttemptsBound DEF Enqueue, Requeue, Delete
<1>3. CountsGrow
  <2>1. \A k \in Messages : delivered[k] <= delivered'[k] /\ tries[k] <= tries[k]
    BY <1>0, AttemptsBound
  <2> QED BY <1>0, <1>1, <1>2, <2>1 DEF CountsGrow
<1>4. \A w \in Workers : JobEarns(job'[w], tries', delivered', requeues')
  <2> SUFFICES ASSUME NEW w \in Workers PROVE JobEarns(job[w], tries', delivered', requeues')
    BY <1>0
  <2> QED BY <1>0, <1>3, JobKeepsEarning DEF EarnedInv
<1>5. PICK x \in Rows : box' = [box EXCEPT ![m] = x] /\ RowEarns(x, tries'[m], delivered'[m], requeues')
  <2>1. CASE Enqueue(m)
    <3> DEFINE x == [box[m] EXCEPT !.status = "pending"]
    <3>1. /\ box[m] \in Rows /\ box[m].status = "none" /\ UNCHANGED <<tries, requeues>>
          /\ RowEarns(box[m], tries[m], delivered[m], requeues)
      BY <1>0, <2>1 DEF Enqueue, EarnedInv
    <3>2. x \in Rows /\ x.status = "pending" /\ x.attempts = box[m].attempts
      BY <3>1 DEF Rows
    <3>3. box' = [box EXCEPT ![m] = x]
      BY <1>0, <2>1 DEF Enqueue
    <3> HIDE DEF x
    <3>4. RowEarns(x, tries'[m], delivered'[m], requeues')
      BY <1>0, <3>1, <3>2 DEF RowEarns
    <3> QED BY <3>2, <3>3, <3>4
  <2>2. CASE Requeue(m)
    <3> DEFINE x == [status |-> "pending", attempts |-> 0, due |-> 0]
    <3>1. x \in Rows /\ x.status = "pending" /\ x.attempts = 0
      BY AttemptsBound DEF Rows
    <3>2. box' = [box EXCEPT ![m] = x] /\ requeues' = requeues + 1
      BY <2>2 DEF Requeue
    <3> HIDE DEF x
    <3>3. RowEarns(x, tries'[m], delivered'[m], requeues')
      BY <1>0, <3>1, <3>2, AttemptsBound DEF RowEarns
    <3> QED BY <3>1, <3>2, <3>3
  <2>3. CASE Delete(m)
    <3> DEFINE x == [Absent EXCEPT !.status = "deleted"]
    <3>1. x \in Rows /\ x.status = "deleted" /\ x.attempts = 0
      BY AttemptsBound DEF Rows, Absent
    <3>2. box' = [box EXCEPT ![m] = x] /\ requeues' = requeues + 1
      BY <2>3 DEF Delete
    <3> HIDE DEF x
    <3>3. RowEarns(x, tries'[m], delivered'[m], requeues')
      BY <1>0, <3>1, <3>2 DEF RowEarns
    <3> QED BY <3>1, <3>2, <3>3
  <2> QED BY <2>1, <2>2, <2>3
<1>6. \A k \in Messages : RowEarns(box'[k], tries'[k], delivered'[k], requeues')
  <2> SUFFICES ASSUME NEW k \in Messages
               PROVE  RowEarns(box'[k], tries'[k], delivered'[k], requeues')
    OBVIOUS
  <2>1. CASE k = m
    BY <1>0, <1>5, <2>1
  <2>2. CASE k # m
    <3>1. box'[k] = box[k] /\ box[k] \in Rows /\ RowEarns(box[k], tries[k], delivered[k], requeues)
      BY <1>0, <1>5, <2>2 DEF EarnedInv
    <3>2. RowEarns(box[k], tries'[k], delivered'[k], requeues')
      BY <1>0, <1>3, <3>1, RowKeepsEarning
    <3> QED BY <3>1, <3>2
  <2> QED BY <2>1, <2>2
<1>7. TypeOK'
  <2>1. box' \in [Messages -> Rows]
    BY <1>0, <1>5
  <2>2. crashes \in 0..MaxCrashes /\ lapses \in [Messages -> 0..MaxLapses]
    BY <1>0 DEF TypeOK
  <2> QED BY <1>0, <1>1, <1>2, <2>1, <2>2 DEF TypeOK, Jobs, Items, Rows
<1> QED BY <1>4, <1>6, <1>7 DEF EarnedInv

\* Time only moves the due times.
LEMMA TickEarns ==
  ASSUME EarnedInv, Tick
  PROVE  EarnedInv'
<1>0. /\ TypeOK /\ job \in [Workers -> Jobs] /\ box \in [Messages -> Rows]
      /\ UNCHANGED <<job, delivered, tries, requeues, crashes>> /\ crashes' \in 0..MaxCrashes
      /\ lapses' \in [Messages -> 0..MaxLapses]
  <2>1. /\ TypeOK /\ job \in [Workers -> Jobs] /\ box \in [Messages -> Rows]
        /\ UNCHANGED <<job, delivered, tries, requeues, crashes>> /\ crashes' \in 0..MaxCrashes
    BY DEF EarnedInv, TypeOK, Jobs, Items, Rows, Tick
  <2>2. ASSUME NEW m \in Messages PROVE lapses'[m] \in 0..MaxLapses
    <3>1. /\ lapses[m] \in 0..MaxLapses /\ (Lapsing(m) => lapses[m] < MaxLapses)
          /\ lapses'[m] = lapses[m] + IF Lapsing(m) THEN 1 ELSE 0
      BY <2>1 DEF Tick, TypeOK
    <3> QED BY <3>1
  <2> QED BY <2>1, <2>2 DEF Tick
<1>1. ASSUME NEW m \in Messages
      PROVE  box'[m] \in Rows /\ RowEarns(box'[m], tries[m], delivered[m], requeues)
  <2>1. box[m] \in Rows /\ RowEarns(box[m], tries[m], delivered[m], requeues)
    BY <1>0 DEF EarnedInv
  <2>2. box'[m] = [box[m] EXCEPT !.due = Sooner(@)]
    BY DEF Tick
  <2>3. Sooner(box[m].due) \in Nat
    BY <2>1 DEF Rows, Sooner
  <2> QED BY <2>1, <2>2, <2>3 DEF Rows, RowEarns
<1>2. job' \in [Workers -> Jobs] /\ \A w \in Workers : JobEarns(job'[w], tries, delivered, requeues)
  BY <1>0 DEF EarnedInv
<1>3. box' \in [Messages -> Rows]
  BY <1>1 DEF Tick
<1> QED BY <1>0, <1>1, <1>2, <1>3, RowsEarn

\* The invariant of the statuses holds at the start and is kept by every step.
LEMMA EarnedInvInductive ==
  /\ Init => EarnedInv
  /\ EarnedInv /\ [Next]_vars => EarnedInv'
<1>1. Init => EarnedInv
  <2> SUFFICES ASSUME Init PROVE EarnedInv
    OBVIOUS
  <2>1. NoJob \in Jobs /\ JobEarns(NoJob, tries, delivered, requeues)
    <3>1. <<>> \in Seq(Items)
      OBVIOUS
    <3> QED BY <3>1 DEF NoJob, Jobs, JobEarns
  <2>2. Absent \in Rows /\ Absent.status = "none" /\ Absent.attempts = 0
    BY AttemptsBound DEF Absent, Rows
  <2>3. \A m \in Messages : RowEarns(box[m], tries[m], delivered[m], requeues)
    BY <2>2, AttemptsBound DEF Init, RowEarns
  <2>4. box \in [Messages -> Rows] /\ job \in [Workers -> Jobs]
    BY <2>1, <2>2 DEF Init
  <2>5. TypeOK
    <3>1. /\ delivered \in [Messages -> Nat] /\ tries \in [Messages -> 0..MaxAttempts]
          /\ requeues \in 0..MaxRequeues /\ crashes \in 0..MaxCrashes
          /\ lapses \in [Messages -> 0..MaxLapses]
      BY AttemptsBound DEF Init
    <3> QED BY <2>4, <3>1 DEF TypeOK, Rows, Jobs, Items
  <2>6. \A w \in Workers : JobEarns(job[w], tries, delivered, requeues)
    BY <2>1 DEF Init
  <2> QED BY <2>3, <2>5, <2>6 DEF EarnedInv
<1>2. ASSUME EarnedInv, [Next]_vars PROVE EarnedInv'
  <2>1. CASE UNCHANGED vars
    BY <1>2, <2>1 DEF vars, EarnedInv, TypeOK
  <2> QED BY <1>2, <2>1, ClaimEarns, SendEarns, MarkEarns, FailuresEarn, AdminEarns, TickEarns
       DEF Next, Step, NothingDue
<1> QED BY <1>1, <1>2

\* A row says "sent" only of a mail that went out, and "failed" only after the
\* whole backoff schedule was tried, whatever batches run and die meanwhile
\* (markSent and markFailedPermanent in db/queries/email_outbox.js).
THEOREM StatusesAreEarned == Spec => []StatusIsEarned
<1>1. EarnedInv => StatusIsEarned
  BY DEF EarnedInv, RowEarns, StatusIsEarned
<1> QED BY <1>1, EarnedInvInductive, PTL DEF Spec

----------------------------------------
(* One delivery.  What a row may still lead to is counted: a send in each    *)
(* batch that holds it and has not handed it over, and one more if it can be *)
(* claimed again with nobody at work on it, or with its due time reached.    *)
(* Together with the mails that went out this never exceeds one and what the *)
(* lapses, the failures and the admin have added.                            *)

\* The mail of m went out and its row is not marked yet.
HandedOver(j, m) == j.pc = "mark" /\ j.ok /\ j.queue[1].id = m
Load(j, m) == IF Holds(j, m) /\ ~HandedOver(j, m) THEN 1 ELSE 0
Carriers(m) == {w \in Workers : Load(job[w], m) = 1}

Open(m) == \/ box[m].status = "none"
           \/ /\ box[m].status = "pending"
              /\ box[m].due = 0 \/ \A w \in Workers : ~Holds(job[w], m)
Credit(m) == IF Open(m) THEN 1 ELSE 0

Paid(m) == delivered[m] + Cardinality(Carriers(m)) + Credit(m)
             <= 1 + lapses[m] + crashes + requeues

JobShape(j) == /\ j.pc = "idle" => j.queue = <<>>
               /\ j.pc # "idle" => Len(j.queue) > 0
               /\ \A i, k \in 1..Len(j.queue) : j.queue[i].id = j.queue[k].id => i = k

PaidInv == /\ TypeOK
           /\ \A w \in Workers : JobShape(job[w])
           /\ \A m \in Messages : Paid(m)

\* The variables of the invariant, typed.
LEMMA PaidTypes ==
  ASSUME TypeOK
  PROVE  /\ job \in [Workers -> Jobs] /\ box \in [Messages -> Rows]
         /\ delivered \in [Messages -> Nat] /\ lapses \in [Messages -> Nat]
         /\ crashes \in Nat /\ requeues \in Nat
<1>1. /\ lapses \in [Messages -> 0..MaxLapses] /\ 0..MaxLapses \subseteq Nat
      /\ crashes \in Nat /\ requeues \in Nat
  BY DEF TypeOK
<1>2. lapses \in [Messages -> Nat]
  BY <1>1
<1> QED BY <1>1, <1>2 DEF TypeOK, Jobs, Items, Rows

\* The mail a batch is at is one it holds.
LEMMA HeadIsHeld ==
  ASSUME NEW j \in Jobs, JobShape(j), j.pc # "idle"
  PROVE  /\ Len(j.queue) > 0 /\ Len(j.queue) \in Nat /\ j.queue \in Seq(Items)
         /\ Head(j.queue) = j.queue[1]
         /\ j.queue[1].id \in Messages /\ Holds(j, j.queue[1].id)
<1>1. j.queue \in Seq(Items) /\ Len(j.queue) > 0 /\ Len(j.queue) \in Nat
  BY DEF Jobs, JobShape
<1>2. 1 \in 1..Len(j.queue) /\ j.queue[1] \in Items /\ Head(j.queue) = j.queue[1]
  BY <1>1
<1>3. j.queue[1].id \in Messages
  BY <1>2 DEF Items
<1> QED BY <1>1, <1>2, <1>3 DEF Holds

\* How a set changes in one place: S less w, and w if it is there.
LEMMA CountOne ==
  ASSUME NEW S \in SUBSET Workers, NEW w \in Workers
  PROVE  /\ Cardinality(S \ {w}) \in Nat
         /\ Cardinality(S) = Cardinality(S \ {w}) + IF w \in S THEN 1 ELSE 0
<1>1. IsFiniteSet(S) /\ IsFiniteSet(S \ {w})
  BY FS_Subset
<1>2. Cardinality(S \ {w}) \in Nat
  BY <1>1, FS_CardinalityType
<1>3. CASE w \in S
  <2>1. Cardinality(S \ {w}) = Cardinality(S) - 1 /\ Cardinality(S) \in Nat
    BY <1>1, <1>3, FS_RemoveElement, FS_CardinalityType
  <2> QED BY <1>2, <1>3, <2>1
<1>4. CASE w \notin S
  <2>1. S \ {w} = S
    BY <1>4
  <2> QED BY <1>2, <1>4, <2>1
<1> QED BY <1>3, <1>4

\* A step of one batch keeps the account of a row if what it adds to the mails
\* sent, to its own load and to the row's credit is paid by a failure.
LEMMA OneJobPays ==
  ASSUME TypeOK, TypeOK', NEW w \in Workers, \A v \in Workers \ {w} : job'[v] = job[v],
         NEW m \in Messages, Paid(m), UNCHANGED <<lapses, requeues>>,
         delivered'[m] + Load(job'[w], m) + Credit(m)' + crashes
           <= delivered[m] + Load(job[w], m) + Credit(m) + crashes'
  PROVE  Paid(m)'
<1> DEFINE S == Carriers(m)
           T == {v \in Workers : Load(job'[v], m) = 1}
<1>1. S \in SUBSET Workers /\ T \in SUBSET Workers /\ S \ {w} = T \ {w} /\ Carriers(m)' = T
  BY DEF Carriers
<1>2. /\ Load(job[w], m) = IF w \in S THEN 1 ELSE 0
      /\ Load(job'[w], m) = IF w \in T THEN 1 ELSE 0
  BY DEF Carriers, Load
<1> HIDE DEF S, T
<1>3. PICK n \in Nat : /\ Cardinality(S) = n + Load(job[w], m)
                       /\ Cardinality(T) = n + Load(job'[w], m)
  <2>1. Cardinality(S \ {w}) = Cardinality(T \ {w})
    BY <1>1, Zenon
  <2> QED BY <1>1, <1>2, <2>1, CountOne
<1>4. /\ delivered[m] \in Nat /\ delivered'[m] \in Nat /\ lapses[m] \in Nat
      /\ crashes \in Nat /\ crashes' \in Nat /\ requeues \in Nat
      /\ lapses'[m] = lapses[m] /\ requeues' = requeues
  <2>1. delivered[m] \in Nat /\ lapses[m] \in Nat /\ crashes \in Nat /\ requeues \in Nat
    BY PaidTypes
  <2>2. delivered'[m] \in Nat /\ crashes' \in Nat
    BY DEF TypeOK
  <2> QED BY <2>1, <2>2
<1>5. Credit(m) \in 0..1 /\ Credit(m)' \in 0..1
      /\ Load(job[w], m) \in 0..1 /\ Load(job'[w], m) \in 0..1
  BY DEF Credit, Load
<1>6. delivered[m] + Cardinality(S) + Credit(m) <= 1 + lapses[m] + crashes + requeues
  BY DEF Paid, S
<1>7. delivered'[m] + Cardinality(T) + Credit(m)' <= 1 + lapses[m] + crashes' + requeues
  BY <1>3, <1>4, <1>5, <1>6
<1> QED BY <1>1, <1>4, <1>7 DEF Paid

\* A step that leaves the batches alone keeps it if the credit it gives is paid.
LEMMA RowPays ==
  ASSUME TypeOK, TypeOK', NEW m \in Messages, Paid(m),
         UNCHANGED <<job, delivered, crashes>>,
         Credit(m)' + lapses[m] + requeues <= Credit(m) + lapses'[m] + requeues'
  PROVE  Paid(m)'
<1>1. Carriers(m)' = Carriers(m)
  BY DEF Carriers
<1>2. /\ delivered[m] \in Nat /\ delivered'[m] = delivered[m] /\ crashes' = crashes
      /\ lapses[m] \in Nat /\ lapses'[m] \in Nat /\ crashes \in Nat
      /\ requeues \in Nat /\ requeues' \in Nat
  <2>1. delivered[m] \in Nat /\ lapses[m] \in Nat /\ crashes \in Nat /\ requeues \in Nat
    BY PaidTypes
  <2>2. lapses'[m] \in 0..MaxLapses /\ requeues' \in 0..MaxRequeues
    BY DEF TypeOK
  <2> QED BY <2>1, <2>2
<1>3. Cardinality(Carriers(m)) \in Nat
  BY FS_Subset, FS_CardinalityType DEF Carriers
<1>4. Credit(m) \in 0..1 /\ Credit(m)' \in 0..1
  BY DEF Credit
<1> QED BY <1>1, <1>2, <1>3, <1>4 DEF Paid

\* A claim turns the credit of a row into a load of the batch.
LEMMA ClaimPays ==
  ASSUME PaidInv, TypeOK', NEW w \in Workers, ClaimBatch(w)
  PROVE  PaidInv'
<1>0. TypeOK /\ job \in [Workers -> Jobs] /\ box \in [Messages -> Rows]
      /\ delivered \in [Messages -> Nat] /\ crashes \in Nat
      /\ \A v \in Workers : JobShape(job[v])
  BY PaidTypes DEF PaidInv
<1>1. PICK q : /\ Leases(q)
               /\ job' = [job EXCEPT ![w] = [NoJob EXCEPT !.pc = "send", !.queue = q]]
               /\ box' = [m \in Messages |-> IF \E i \in 1..Len(q) : q[i].id = m
                                             THEN [box[m] EXCEPT !.due = Lease] ELSE box[m]]
  <2>1. TypeOK
    BY <1>0
  <2> QED BY <2>1, ClaimLeases, Zenon
<1>2. job[w].pc = "idle" /\ UNCHANGED <<delivered, crashes, lapses, requeues>>
  BY DEF ClaimBatch
<1> DEFINE j == [NoJob EXCEPT !.pc = "send", !.queue = q]
<1>3. j.pc = "send" /\ j.queue = q
  BY DEF NoJob
<1>4. job'[w] = j /\ \A v \in Workers \ {w} : job'[v] = job[v]
  BY <1>0, <1>1
<1> HIDE DEF j
<1>5. JobShape(j)
  BY <1>1, <1>3 DEF JobShape, Leases
<1>6. ASSUME NEW m \in Messages PROVE Paid(m)'
  <2>0. box[m] \in Rows /\ delivered[m] \in Nat /\ ~Holds(job[w], m)
    <3>1. job[w].queue = <<>>
      BY <1>0, <1>2 DEF JobShape
    <3> QED BY <1>0, <3>1 DEF Holds
  <2>1. Load(job[w], m) = 0 /\ (Holds(j, m) => Load(j, m) = 1) /\ (~Holds(j, m) => Load(j, m) = 0)
    BY <1>3, <2>0 DEF Load, HandedOver
  <2>2. CASE Holds(j, m)
    <3>1. m \in Due /\ box'[m] = [box[m] EXCEPT !.due = Lease]
      BY <1>1, <1>3, <2>2 DEF Holds, Leases
    <3>2. box[m].status = "pending" /\ box[m].due = 0
          /\ box'[m].status = "pending" /\ box'[m].due = Lease
      BY <2>0, <3>1 DEF Due, Rows
    <3>3. Credit(m) = 1
      BY <3>2 DEF Credit, Open
    <3>4. Credit(m)' = 0
      BY <1>4, <2>2, <3>2 DEF Credit, Open
    <3> QED BY <1>0, <1>2, <1>4, <2>0, <2>1, <2>2, <3>3, <3>4, OneJobPays DEF PaidInv
  <2>3. CASE ~Holds(j, m)
    <3>1. box'[m] = box[m]
      BY <1>1, <1>3, <2>3 DEF Holds
    <3>2. \A v \in Workers : Holds(job'[v], m) <=> Holds(job[v], m)
      BY <1>4, <2>0, <2>3
    <3>3. Credit(m)' = Credit(m)
      BY <3>1, <3>2 DEF Credit, Open
    <3>4. Credit(m) \in 0..1
      BY DEF Credit
    <3> QED BY <1>0, <1>2, <1>4, <2>0, <2>1, <2>3, <3>3, <3>4, OneJobPays DEF PaidInv
  <2> QED BY <2>2, <2>3
<1> QED BY <1>0, <1>4, <1>5, <1>6 DEF PaidInv

\* A send turns the load of the batch into a mail, or keeps it; a success that
\* cannot be written gives the load back, and is a failure.
LEMMA SendPays ==
  ASSUME PaidInv, TypeOK', NEW w \in Workers, Send(w) \/ MarkSentFails(w)
  PROVE  PaidInv'
<1>0. TypeOK /\ job \in [Workers -> Jobs] /\ box \in [Messages -> Rows]
      /\ delivered \in [Messages -> Nat] /\ crashes \in Nat
      /\ \A v \in Workers : JobShape(job[v])
  BY PaidTypes DEF PaidInv
<1> DEFINE m == job[w].queue[1].id
<1>1. job[w].pc # "idle" /\ UNCHANGED <<box, lapses, requeues>>
  BY DEF Send, MarkSentFails
<1>2. m \in Messages /\ Holds(job[w], m) /\ m = Head(job[w].queue).id
  BY <1>0, <1>1, HeadIsHeld
<1>3. PICK ok \in BOOLEAN :
        /\ job' = [job EXCEPT ![w].pc = "mark", ![w].ok = ok]
        /\ \/ /\ job[w].pc = "send" /\ crashes' = crashes
              /\ delivered' = [delivered EXCEPT ![m] = IF ok THEN @ + 1 ELSE @]
           \/ job[w].pc = "mark" /\ ~ok /\ crashes' = crashes + 1 /\ delivered' = delivered
  <2>1. CASE Send(w)
    BY <1>2, <2>1 DEF Send
  <2>2. CASE MarkSentFails(w)
    <3>1. job' = [job EXCEPT ![w].ok = FALSE] /\ job[w].pc = "mark" /\ crashes' = crashes + 1
          /\ delivered' = delivered
      BY <2>2 DEF MarkSentFails
    <3>2. [job[w] EXCEPT !.ok = FALSE] = [job[w] EXCEPT !.pc = "mark", !.ok = FALSE]
      BY <1>0, <3>1 DEF Jobs
    <3>3. job' = [job EXCEPT ![w].pc = "mark", ![w].ok = FALSE]
      BY <1>0, <3>1, <3>2
    <3> QED BY <3>1, <3>3
  <2> QED BY <2>1, <2>2
<1>4. /\ job'[w].pc = "mark" /\ job'[w].ok = ok /\ job'[w].queue = job[w].queue
      /\ \A v \in Workers \ {w} : job'[v] = job[v]
  BY <1>0, <1>3 DEF Jobs
<1>5. JobShape(job'[w])
  BY <1>0, <1>1, <1>4 DEF JobShape
<1>6. ASSUME NEW k \in Messages PROVE Paid(k)'
  <2>1. \A v \in Workers : Holds(job'[v], k) <=> Holds(job[v], k)
    BY <1>4 DEF Holds
  <2>2. Credit(k)' = Credit(k) /\ Credit(k) \in 0..1
    BY <1>1, <2>1 DEF Credit, Open
  <2>3. delivered[k] \in Nat /\ Load(job[w], k) \in 0..1 /\ Load(job'[w], k) \in 0..1
    BY <1>0 DEF Load
  <2>4. delivered'[k] + Load(job'[w], k) + crashes <= delivered[k] + Load(job[w], k) + crashes'
    <3>1. CASE job[w].pc = "mark"
      <4>1. delivered'[k] = delivered[k] /\ crashes' = crashes + 1
        BY <1>3, <3>1
      <4> QED BY <1>0, <2>3, <4>1
    <3>2. CASE job[w].pc # "mark" /\ k = m
      <4>1. Load(job[w], k) = 1 /\ crashes' = crashes
        BY <1>2, <1>3, <3>2 DEF Load, HandedOver
      <4>2. CASE ok
        <5>1. Load(job'[w], k) = 0
          BY <1>4, <3>2, <4>2 DEF Load, HandedOver
        <5>2. delivered' = [delivered EXCEPT ![m] = delivered[m] + 1]
          BY <1>3, <3>2, <4>2
        <5>3. delivered'[k] = delivered[k] + 1
          BY <1>0, <1>2, <3>2, <5>2
        <5> QED BY <1>0, <2>3, <4>1, <5>1, <5>3
      <4>3. CASE ~ok
        <5>1. delivered' = [delivered EXCEPT ![m] = delivered[m]]
          BY <1>3, <3>2, <4>3
        <5>2. delivered'[k] = delivered[k]
          BY <1>0, <1>2, <3>2, <5>1
        <5> QED BY <1>0, <2>3, <4>1, <5>2
      <4> QED BY <4>2, <4>3
    <3>3. CASE job[w].pc # "mark" /\ k # m
      <4>1. delivered'[k] = delivered[k] /\ crashes' = crashes
        BY <1>0, <1>3, <3>3
      <4>2. Load(job'[w], k) = Load(job[w], k)
        BY <1>4, <2>1, <3>3 DEF Load, HandedOver
      <4> QED BY <1>0, <2>3, <4>1, <4>2
    <3> QED BY <3>1, <3>2, <3>3
  <2>5. delivered'[k] \in Nat /\ crashes' \in Nat
    BY DEF TypeOK
  <2>6. delivered'[k] + Load(job'[w], k) + Credit(k)' + crashes
          <= delivered[k] + Load(job[w], k) + Credit(k) + crashes'
    BY <1>0, <2>2, <2>3, <2>4, <2>5
  <2> QED BY <1>0, <1>1, <1>4, <2>6, OneJobPays DEF PaidInv
<1> QED BY <1>0, <1>4, <1>5, <1>6 DEF PaidInv

\* What is written of a mail that went out gives its row no credit; what is
\* written of one that failed gives what the batch's load has paid.
LEMMA MarkPays ==
  ASSUME PaidInv, TypeOK', NEW w \in Workers, Mark(w)
  PROVE  PaidInv'
<1>0. TypeOK /\ job \in [Workers -> Jobs] /\ box \in [Messages -> Rows]
      /\ delivered \in [Messages -> Nat] /\ crashes \in Nat
      /\ \A v \in Workers : JobShape(job[v])
  BY PaidTypes DEF PaidInv
<1> DEFINE q == job[w].queue
           n == q[1].attempts
<1>1. job[w].pc = "mark" /\ UNCHANGED <<delivered, crashes, lapses, requeues>>
  BY DEF Mark
<1>2. PICK m \in Messages : /\ m = q[1].id /\ Holds(job[w], m) /\ Head(q) = q[1]
                            /\ q \in Seq(Items) /\ Len(q) > 0 /\ Len(q) \in Nat
  BY <1>0, <1>1, HeadIsHeld
<1>3. /\ box' = IF Present(m) THEN [box EXCEPT ![m] = Outcome(box[m], job[w].ok, n + 1)] ELSE box
      /\ job' = [job EXCEPT ![w] = IF Len(q) = 1 THEN NoJob
                                   ELSE [job[w] EXCEPT !.pc = "send", !.queue = Tail(q)]]
  <2>1. box' = IF Present(m) THEN [box EXCEPT ![m] = Outcome(box[m], job[w].ok, n + 1)] ELSE box
    BY <1>2, Zenon DEF Mark
  <2>2. job' = [job EXCEPT ![w] = IF Len(q) = 1 THEN NoJob
                                  ELSE [job[w] EXCEPT !.pc = "send", !.queue = Tail(q)]]
    BY Zenon DEF Mark
  <2> QED BY <2>1, <2>2
<1>4. \A v \in Workers \ {w} : job'[v] = job[v]
  BY <1>0, <1>3
<1>5. \A k \in Messages \ {m} : box'[k] = box[k]
  BY <1>0, <1>3
<1>6. /\ JobShape(job'[w]) /\ job'[w].pc # "mark"
      /\ \A k \in Messages : Holds(job'[w], k) <=> k # m /\ Holds(job[w], k)
  <2>1. CASE Len(q) = 1
    <3>1. job'[w] = NoJob
      BY <1>0, <1>3, <2>1
    <3>2. \A k \in Messages : Holds(job[w], k) => k = m
      BY <1>2, <2>1 DEF Holds
    <3> QED BY <3>1, <3>2 DEF NoJob, JobShape, Holds
  <2>2. CASE Len(q) # 1
    <3> DEFINE j == [job[w] EXCEPT !.pc = "send", !.queue = Tail(q)]
    <3>1. job'[w] = j
      BY <1>0, <1>3, <2>2
    <3>2. j.pc = "send" /\ j.queue = Tail(q)
      BY <1>0 DEF Jobs
    <3>0. Len(q) > 1
      <4>1. \A i \in Nat : i > 0 /\ i # 1 => i > 1
        OBVIOUS
      <4>2. Len(q) \in Nat /\ Len(q) > 0
        BY <1>2, Zenon
      <4> QED BY <2>2, <4>1, <4>2, Zenon
    <3> HIDE DEF j
    <3>3. /\ Len(Tail(q)) = Len(q) - 1 /\ Len(Tail(q)) \in Nat /\ Len(Tail(q)) > 0
          /\ \A i \in 1..Len(Tail(q)) : i + 1 \in 1..Len(q) /\ Tail(q)[i] = q[i + 1]
      <4>1. q \in Seq(Items) /\ Len(q) > 1
        BY <1>2, <3>0, Zenon
      <4> HIDE DEF q
      <4>2. /\ Len(Tail(q)) = Len(q) - 1 /\ Len(q) \in Nat
            /\ \A i \in 1..Len(Tail(q)) : Tail(q)[i] = q[i + 1]
        BY <4>1
      <4> QED BY <4>1, <4>2
    <3>4. \A i, k \in 1..Len(q) : q[i].id = q[k].id => i = k
      BY <1>0 DEF JobShape
    <3>5. \A i, k \in 1..Len(Tail(q)) : Tail(q)[i].id = Tail(q)[k].id => i = k
      <4> SUFFICES ASSUME NEW i \in 1..Len(Tail(q)), NEW k \in 1..Len(Tail(q)),
                          Tail(q)[i].id = Tail(q)[k].id
                   PROVE  i = k
        OBVIOUS
      <4>1. i + 1 \in 1..Len(q) /\ k + 1 \in 1..Len(q) /\ q[i + 1].id = q[k + 1].id
        BY <3>3
      <4>2. i + 1 = k + 1
        BY <3>4, <4>1
      <4> QED BY <4>2
    <3>6. \A i \in 1..Len(Tail(q)) : Tail(q)[i].id # m
      <4> SUFFICES ASSUME NEW i \in 1..Len(Tail(q)), Tail(q)[i].id = m PROVE FALSE
        OBVIOUS
      <4>1. 1 \in 1..Len(q) /\ i + 1 \in 1..Len(q) /\ q[i + 1].id = q[1].id
        BY <1>2, <3>3
      <4>2. i + 1 = 1
        BY <3>4, <4>1
      <4> QED BY <4>2
    <3>7. JobShape(j)
      BY <3>2, <3>3, <3>5 DEF JobShape
    <3>8. ASSUME NEW k \in Messages, Holds(j, k) PROVE k # m /\ Holds(job[w], k)
      <4>1. PICK i \in 1..Len(Tail(q)) : Tail(q)[i].id = k
        BY <3>2, <3>8 DEF Holds
      <4>2. i + 1 \in 1..Len(q) /\ q[i + 1].id = k
        BY <3>3, <4>1
      <4> QED BY <3>6, <4>1, <4>2 DEF Holds
    <3>9. ASSUME NEW k \in Messages, k # m, Holds(job[w], k) PROVE Holds(j, k)
      <4>1. PICK i \in 1..Len(q) : q[i].id = k
        BY <3>9 DEF Holds
      <4>2. i # 1
        BY <1>2, <3>9, <4>1
      <4> DEFINE h == i - 1
      <4>3. h \in 1..Len(Tail(q)) /\ h + 1 = i
        BY <1>2, <3>3, <4>1, <4>2
      <4> HIDE DEF h
      <4>4. Tail(q)[h].id = k
        BY <3>3, <4>1, <4>3
      <4> QED BY <3>2, <4>3, <4>4 DEF Holds
    <3> QED BY <3>1, <3>2, <3>7, <3>8, <3>9
  <2> QED BY <2>1, <2>2
<1>7. Paid(m)'
  <2>1. Load(job'[w], m) = 0 /\ Load(job[w], m) = IF job[w].ok THEN 0 ELSE 1
    BY <1>1, <1>2, <1>6 DEF Load, HandedOver
  <2>2. Credit(m) \in 0..1 /\ Credit(m)' \in 0..1
    BY DEF Credit
  <2>3. job[w].ok => Credit(m)' <= Credit(m)
    <3> SUFFICES ASSUME job[w].ok PROVE Credit(m)' <= Credit(m)
      OBVIOUS
    <3>1. CASE Present(m)
      <4>1. box[m] \in Rows /\ box'[m] = Outcome(box[m], job[w].ok, n + 1)
        BY <1>0, <1>2, <1>3, <3>1
      <4>2. Outcome(box[m], job[w].ok, n + 1) = [box[m] EXCEPT !.status = "sent", !.due = 0]
        BY Zenon DEF Outcome
      <4>3. box'[m].status = "sent"
        BY <4>1, <4>2 DEF Rows
      <4> QED BY <2>2, <4>3 DEF Credit, Open
    <3>2. CASE ~Present(m)
      <4>1. box' = box /\ box[m].status \in {"none", "deleted"}
        BY <1>3, <3>2 DEF Present
      <4> QED BY <2>2, <4>1 DEF Credit, Open
    <3> QED BY <3>1, <3>2
  <2>4. delivered[m] \in Nat
    BY <1>0, <1>2
  <2>5. delivered'[m] + Load(job'[w], m) + Credit(m)' + crashes
          <= delivered[m] + Load(job[w], m) + Credit(m) + crashes'
    BY <1>0, <1>1, <2>1, <2>2, <2>3, <2>4
  <2>6. Paid(m)
    BY <1>2 DEF PaidInv
  <2> QED BY <1>0, <1>1, <1>2, <1>4, <2>5, <2>6, OneJobPays
<1>8. ASSUME NEW k \in Messages \ {m} PROVE Paid(k)'
  <2>1. \A v \in Workers : Holds(job'[v], k) <=> Holds(job[v], k)
    BY <1>4, <1>6
  <2>2. Credit(k)' = Credit(k) /\ Credit(k) \in 0..1
    <3>1. box'[k] = box[k]
      BY <1>5
    <3> QED BY <2>1, <3>1 DEF Credit, Open
  <2>3. Load(job'[w], k) = Load(job[w], k) /\ Load(job[w], k) \in 0..1
    BY <1>2, <1>6, <2>1 DEF Load, HandedOver
  <2>4. delivered[k] \in Nat
    BY <1>0
  <2>5. delivered'[k] + Load(job'[w], k) + Credit(k)' + crashes
          <= delivered[k] + Load(job[w], k) + Credit(k) + crashes'
    BY <1>0, <1>1, <2>2, <2>3, <2>4
  <2> QED BY <1>0, <1>1, <1>4, <2>5, OneJobPays DEF PaidInv
<1> QED BY <1>0, <1>4, <1>6, <1>7, <1>8 DEF PaidInv

\* A batch that dies gives back what it held, and is a failure.
LEMMA CrashPays ==
  ASSUME PaidInv, TypeOK', NEW w \in Workers, Crash(w)
  PROVE  PaidInv'
<1>0. TypeOK /\ job \in [Workers -> Jobs] /\ delivered \in [Messages -> Nat] /\ crashes \in Nat
      /\ \A v \in Workers : JobShape(job[v])
  BY PaidTypes DEF PaidInv
<1>1. /\ job' = [job EXCEPT ![w] = NoJob] /\ crashes' = crashes + 1
      /\ UNCHANGED <<delivered, lapses, requeues>>
  BY DEF Crash
<1>2. job'[w] = NoJob /\ \A v \in Workers \ {w} : job'[v] = job[v]
  BY <1>0, <1>1
<1>3. JobShape(NoJob) /\ \A m \in Messages : Load(NoJob, m) = 0
  BY DEF NoJob, JobShape, Load, Holds
<1>4. ASSUME NEW m \in Messages PROVE Paid(m)'
  <2>1. delivered[m] \in Nat /\ Load(job[w], m) \in 0..1 /\ Credit(m) \in 0..1 /\ Credit(m)' \in 0..1
    BY <1>0 DEF Load, Credit
  <2>2. delivered'[m] + Load(job'[w], m) + Credit(m)' + crashes
          <= delivered[m] + Load(job[w], m) + Credit(m) + crashes'
    BY <1>0, <1>1, <1>2, <1>3, <2>1
  <2> QED BY <1>0, <1>1, <1>2, <2>2, OneJobPays DEF PaidInv
<1> QED BY <1>0, <1>2, <1>3, <1>4 DEF PaidInv

\* A new row has the credit of none, and an admin's action pays for what it gives.
LEMMA AdminPays ==
  ASSUME PaidInv, TypeOK', NEW m \in Messages, Enqueue(m) \/ Requeue(m) \/ Delete(m)
  PROVE  PaidInv'
<1>0. TypeOK /\ box \in [Messages -> Rows] /\ lapses \in [Messages -> Nat] /\ requeues \in Nat
  BY PaidTypes DEF PaidInv
<1>1. /\ UNCHANGED <<job, delivered, crashes, lapses>> /\ \A k \in Messages \ {m} : box'[k] = box[k]
      /\ requeues' \in {requeues, requeues + 1}
  BY <1>0 DEF Enqueue, Requeue, Delete
<1>2. ASSUME NEW k \in Messages PROVE Paid(k)'
  <2>1. Credit(k) \in 0..1 /\ Credit(k)' \in 0..1 /\ lapses[k] \in Nat
    BY <1>0 DEF Credit
  <2>2. Credit(k)' <= Credit(k) \/ requeues' = requeues + 1
    <3>1. CASE k # m
      BY <1>1, <2>1, <3>1 DEF Credit, Open
    <3>2. CASE k = m /\ Enqueue(m)
      <4>1. Credit(k) = 1
        BY <3>2 DEF Enqueue, Credit, Open
      <4> QED BY <2>1, <4>1
    <3>3. CASE Requeue(m) \/ Delete(m)
      BY <3>3 DEF Requeue, Delete
    <3> QED BY <3>1, <3>2, <3>3
  <2>3. Credit(k)' + lapses[k] + requeues <= Credit(k) + lapses'[k] + requeues'
    BY <1>0, <1>1, <2>1, <2>2
  <2> QED BY <1>0, <1>1, <2>3, RowPays DEF PaidInv
<1> QED BY <1>1, <1>2 DEF PaidInv

\* A row that comes due in a batch's hands has its credit from the lapse.
LEMMA TickPays ==
  ASSUME PaidInv, TypeOK', Tick
  PROVE  PaidInv'
<1>0. TypeOK /\ box \in [Messages -> Rows] /\ lapses \in [Messages -> Nat] /\ requeues \in Nat
  BY PaidTypes DEF PaidInv
<1>1. UNCHANGED <<job, delivered, requeues, crashes>>
  BY DEF Tick
<1>2. ASSUME NEW m \in Messages PROVE Paid(m)'
  <2>1. Credit(m) \in 0..1 /\ Credit(m)' \in 0..1 /\ lapses[m] \in Nat
    BY <1>0 DEF Credit
  <2>2. lapses'[m] = lapses[m] + IF Lapsing(m) THEN 1 ELSE 0
    BY DEF Tick
  <2>3. /\ box'[m].status = box[m].status /\ box'[m].due = Sooner(box[m].due)
        /\ box[m].due \in Nat
    <3>1. box[m] \in Rows /\ box'[m] = [box[m] EXCEPT !.due = Sooner(@)]
      BY <1>0 DEF Tick
    <3> QED BY <3>1 DEF Rows
  <2>4. ~Lapsing(m) => Credit(m)' <= Credit(m)
    <3>1. (box'[m].due = 0) => box[m].due = 0 \/ box[m].due = 1
      BY <2>3 DEF Sooner
    <3> QED BY <1>1, <2>1, <2>3, <3>1 DEF Credit, Open, Lapsing
  <2>5. Credit(m)' + lapses[m] + requeues <= Credit(m) + lapses'[m] + requeues'
    BY <1>0, <1>1, <2>1, <2>2, <2>4
  <2> QED BY <1>0, <1>1, <2>5, RowPays DEF PaidInv
<1> QED BY <1>1, <1>2 DEF PaidInv

\* The account holds at the start, where a row has its one credit, and every
\* step keeps it.
LEMMA PaidInvInductive ==
  /\ Init => PaidInv
  /\ PaidInv /\ TypeOK' /\ [Next]_vars => PaidInv'
<1>1. Init => PaidInv
  <2> SUFFICES ASSUME Init PROVE PaidInv
    OBVIOUS
  <2>1. TypeOK
    BY EarnedInvInductive DEF EarnedInv
  <2>2. \A w \in Workers : JobShape(job[w]) /\ job[w].queue = <<>>
    BY DEF Init, NoJob, JobShape
  <2>3. ASSUME NEW m \in Messages PROVE Paid(m)
    <3>1. Carriers(m) = {}
      BY <2>2 DEF Carriers, Load, Holds
    <3>2. Cardinality(Carriers(m)) = 0
      BY <3>1, FS_EmptySet
    <3>3. Credit(m) \in 0..1
      BY DEF Credit
    <3> QED BY <3>2, <3>3 DEF Init, Paid
  <2> QED BY <2>1, <2>2, <2>3 DEF PaidInv
<1>2. ASSUME PaidInv, TypeOK', [Next]_vars PROVE PaidInv'
  <2>1. CASE UNCHANGED vars
    BY <1>2, <2>1 DEF vars, PaidInv, Paid, Carriers, Credit, Open
  <2> QED BY <1>2, <2>1, ClaimPays, SendPays, MarkPays, CrashPays, AdminPays, TickPays
       DEF Next, Step, NothingDue
<1> QED BY <1>1, <1>2

\* However many batches run at once and however slow they are, a mail goes out
\* again only for a lease that ran out in a batch's hands, for a batch that died
\* or a success that could not be written, or for a requeue, and once for each
\* (processBatch and claimBatch in services/email/outbox.js and
\* db/queries/email_outbox.js): the claims alone never send a mail twice.
THEOREM BatchesDeliverOnce == Spec => []DeliveredOnce
<1>1. PaidInv => DeliveredOnce
  <2> SUFFICES ASSUME PaidInv, NEW m \in Messages
               PROVE  delivered[m] <= 1 + lapses[m] + crashes + requeues
    BY DEF DeliveredOnce
  <2>1. /\ delivered[m] \in Nat /\ lapses[m] \in Nat /\ crashes \in Nat /\ requeues \in Nat
        /\ Paid(m)
    BY PaidTypes DEF PaidInv
  <2>2. Cardinality(Carriers(m)) \in Nat /\ Credit(m) \in 0..1
    BY FS_Subset, FS_CardinalityType DEF Carriers, Credit
  <2> QED BY <2>1, <2>2 DEF Paid
<1>2. EarnedInv => TypeOK
  BY DEF EarnedInv
<1>3. EarnedInv' => TypeOK'
  BY DEF EarnedInv
<1> QED BY <1>1, <1>2, <1>3, EarnedInvInductive, PaidInvInductive, PTL DEF Spec

=============================================================================
