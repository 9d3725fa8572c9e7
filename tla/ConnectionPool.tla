---------------------------- MODULE ConnectionPool ----------------------------
(***************************************************************************)
(* The pool of database connections (db/pool.js:3-35): at most             *)
(* connectionLimit connections, callers beyond it wait in a queue without  *)
(* a limit.  Most requests hold one connection at a time.  A booking holds *)
(* one from appointmentSlots.js:616 to its finally (:795) and asks for a   *)
(* second one in between, to save what Google answered (:723, :733); an    *)
(* edit does the same (:842, :960, :1033).                                 *)
(*                                                                         *)
(* mysql2's pool itself is a library: GetConnection and ReleaseConnection  *)
(* model it as pool.js configures it.                                      *)
(***************************************************************************)
EXTENDS Integers, Sequences, FiniteSets, SequencesExt, FiniteSetsExt, Functions

CONSTANTS Callers,   \* requests that use the database
          Bookers,   \* those that create or edit bookings
          Limit      \* connectionLimit

(***************************************************************************)
(* The premise of EveryoneServed: fewer bookings run at once than there    *)
(* are connections.  With Limit bookings between :616 and :723 each holds  *)
(* the connection another one waits for, and none ever goes on.            *)
(***************************************************************************)
ASSUME LimitAssumption ==
  /\ Limit \in Nat \ {0} /\ IsFiniteSet(Callers)
  /\ Bookers \subseteq Callers /\ Cardinality(Bookers) < Limit

VARIABLES at,      \* how far each request got in its script, 0 between requests
          lent,    \* connections each request holds
          opened,  \* connections the pool has opened
          idle,    \* opened connections nobody holds
          line     \* requests waiting for a connection, first come first

poolVars == <<at, lent, opened, idle, line>>

(***************************************************************************)
(* What a request does with connections.  A booking first reads the lead   *)
(* through the pool (resolveLeadIdentity), then works in its transaction.  *)
(***************************************************************************)
Script(r) == IF r \in Bookers
             THEN <<"get", "release", "get", "get", "release", "release">>
             ELSE <<"get", "release">>

InTransaction == 4   \* where a booking holds its own connection only
Finally == 6         \* where it gives that one back

PoolInit ==
  /\ at = [r \in Callers |-> 0] /\ lent = [r \in Callers |-> 0]
  /\ opened = 0 /\ idle = 0 /\ line = << >>

Waiting(r) == r \in Range(line)
Next_(r) == IF at[r] = Len(Script(r)) THEN 0 ELSE at[r] + 1   \* 0: answered

Arrive(r) ==
  /\ at[r] = 0
  /\ at' = [at EXCEPT ![r] = 1]
  /\ UNCHANGED <<lent, opened, idle, line>>

\* pool.getConnection(): an idle connection, else a new one, else the queue
GetConnection(r) ==
  /\ at[r] # 0 /\ Script(r)[at[r]] = "get" /\ ~Waiting(r)
  /\ IF idle = 0 /\ opened = Limit
     THEN line' = Append(line, r) /\ UNCHANGED <<at, lent, opened, idle>>
     ELSE /\ at' = [at EXCEPT ![r] = Next_(r)]
          /\ lent' = [lent EXCEPT ![r] = @ + 1]
          /\ IF idle > 0 THEN idle' = idle - 1 /\ UNCHANGED opened
                         ELSE opened' = opened + 1 /\ UNCHANGED idle
          /\ UNCHANGED line

\* a mutant: a booking in the line is passed over
MutSuccessor == {line[i] : i \in DOMAIN line \cap {1}} \ Bookers

\* who gets a connection that is given back
Successor == {line[i] : i \in DOMAIN line \cap {1}}

ReleaseConnection(r) ==
  /\ at[r] # 0 /\ Script(r)[at[r]] = "release"
  /\ IF Successor = {}
     THEN /\ idle' = idle + 1
          /\ at' = [at EXCEPT ![r] = Next_(r)]
          /\ lent' = [lent EXCEPT ![r] = @ - 1]
          /\ UNCHANGED <<opened, line>>
     ELSE \E s \in Successor :
            /\ at' = [at EXCEPT ![r] = Next_(r), ![s] = Next_(s)]
            /\ lent' = [lent EXCEPT ![r] = @ - 1, ![s] = @ + 1]
            /\ line' = Tail(line)
            /\ UNCHANGED <<opened, idle>>

\* The lead is unknown or the slot is taken before the transaction begins
TurnAway(r) ==
  /\ r \in Bookers /\ at[r] = 3 /\ ~Waiting(r)
  /\ at' = [at EXCEPT ![r] = 0]
  /\ UNCHANGED <<lent, opened, idle, line>>

\* A query throws, or Google was not asked: nothing to save, on to finally
SkipSave(r) ==
  /\ r \in Bookers /\ at[r] = InTransaction /\ ~Waiting(r)
  /\ at' = [at EXCEPT ![r] = Finally]
  /\ UNCHANGED <<lent, opened, idle, line>>

Proceed(r) == \/ GetConnection(r) \/ ReleaseConnection(r)
              \/ TurnAway(r) \/ SkipSave(r)

PoolNext == \E r \in Callers : Arrive(r) \/ Proceed(r)

-----------------------------------------------------------------------------
PoolTypeOK ==
  /\ at \in [Callers -> 0..6] /\ lent \in [Callers -> 0..2]
  /\ opened \in 0..Limit /\ idle \in 0..Limit
  /\ IsInjective(line) /\ Range(line) \subseteq Callers

(***************************************************************************)
(* No connection is lost or lent twice, whatever path a request leaves by, *)
(* and nobody waits beside an idle one.                                    *)
(***************************************************************************)
PoolSound ==
  /\ SumFunction(lent) + idle = opened
  /\ line # << >> => idle = 0 /\ opened = Limit
  /\ \A r \in Callers : lent[r] =
       (IF at[r] \in {0, 1, 3} THEN 0 ELSE IF r \in Bookers /\ at[r] = 5 THEN 2 ELSE 1)

(***************************************************************************)
(* A request that waits for a connection gets it, even while bookings hold *)
(* one and wait for another (pool.js:10, appointmentSlots.js:723).         *)
(***************************************************************************)
EveryoneServed == \A r \in Callers : Waiting(r) ~> ~Waiting(r)
=============================================================================
