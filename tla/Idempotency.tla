---------------------------- MODULE Idempotency ----------------------------
(***************************************************************************)
(* middleware/idempotency.js, for the requests that carry one key: the     *)
(* first inserts the row of the key and runs the handler, the others poll  *)
(* the row and replay its answer. The handler is the create or the status  *)
(* change behind the route; it answers with res.json, so the middleware    *)
(* always sees the answer before the client does.                          *)
(***************************************************************************)
EXTENDS Naturals, FiniteSets

CONSTANTS
  Askers,    \* requests that may be open at once
  MaxAsks    \* bound: requests, retries included

ASSUME AsksAssumption == MaxAsks \in Nat

VARIABLES
  row,       \* idempotency_keys: none, or [owner, answer, old]; answer 0: pending
  ask,       \* the requests; id numbers them
  effects,   \* requests whose handler changed the data since the row last expired
  replays,   \* history: <<owner of the row, request whose answer was replayed>>
  excused,   \* history: what has happened that the key does not protect from
  asks

idemVars == <<row, ask, effects, replays, excused, asks>>

NoRow == [owner |-> 0, answer |-> 0, old |-> FALSE]
Closed == [at |-> "idle", id |-> 0]

IdempotencyInit ==
  /\ row = NoRow
  /\ ask = [r \in Askers |-> Closed]
  /\ effects = {} /\ replays = {} /\ excused = {}
  /\ asks = 0

MoveTo(r, at) == ask' = [ask EXCEPT ![r].at = at]
Close(r) == ask' = [ask EXCEPT ![r] = Closed]

\* Requests that run the handler on the strength of the row in the table.
Owner == {q \in Askers : ask[q].at \in {"handler", "persist"} /\ ask[q].id = row.owner}

\* DELETE of a row past its TTL, whoever still runs on it.
DeleteExpired(r) ==
  /\ asks < MaxAsks
  /\ asks' = asks + 1
  /\ ask' = [ask EXCEPT ![r] = [at |-> "insert", id |-> asks + 1]]
  /\ row' = IF row.old THEN NoRow ELSE row
  /\ effects' = IF row.old THEN {} ELSE effects
  /\ excused' = IF row.old /\ Owner # {} THEN excused \cup {"outlived"} ELSE excused
  /\ UNCHANGED replays

\* INSERT IGNORE: one row per key.
Claims == row = NoRow

Insert(r) ==
  /\ ask[r].at = "insert"
  /\ row' = IF Claims THEN [owner |-> ask[r].id, answer |-> 0, old |-> FALSE] ELSE row
  /\ MoveTo(r, IF Claims THEN "handler" ELSE "poll")
  /\ UNCHANGED <<effects, replays, excused, asks>>

\* The claim throws: the handler runs without the key.
ClaimFails(r) ==
  /\ ask[r].at = "insert"
  /\ MoveTo(r, "unguarded")
  /\ excused' = excused \cup {"unguarded"}
  /\ UNCHANGED <<row, effects, replays, asks>>

\* The handler changes the data and answers 2xx, or refuses (4xx) and changes
\* nothing, or fails (5xx) before or after its change.
Handler(r) ==
  /\ ask[r].at \in {"handler", "unguarded"}
  /\ \E status \in {"ok", "refused", "failed"}, changes \in BOOLEAN :
       /\ status # "failed" => (changes <=> status = "ok")
       /\ effects' = IF changes THEN effects \cup {ask[r].id} ELSE effects
       /\ IF ask[r].at = "unguarded" THEN Close(r)
          ELSE MoveTo(r, IF status = "failed" THEN "drop" ELSE "persist")
       /\ excused' = IF status = "failed" /\ changes THEN excused \cup {"failed late"} ELSE excused
  /\ UNCHANGED <<row, replays, asks>>

\* UPDATE by key and scope, whichever row that is now.
Persist(r) ==
  /\ ask[r].at = "persist"
  /\ row' = IF row = NoRow THEN row ELSE [row EXCEPT !.answer = ask[r].id]
  /\ Close(r)
  /\ UNCHANGED <<effects, replays, excused, asks>>

\* A 5xx is not kept: DELETE by key and scope, whichever row that is now.
DeletePending(r) ==
  /\ ask[r].at = "drop"
  /\ row' = NoRow
  /\ excused' = IF row.owner \notin {0, ask[r].id} THEN excused \cup {"outlived"} ELSE excused
  /\ Close(r)
  /\ UNCHANGED <<effects, replays, asks>>

MutAnswered == row # NoRow   \* mutant: a pending row is replayed

Answered == row.answer # 0

\* One poll that finds an answer replays it; the others change nothing.
Replay(r) ==
  /\ ask[r].at = "poll"
  /\ Answered
  /\ replays' = replays \cup {<<row.owner, row.answer>>}
  /\ Close(r)
  /\ UNCHANGED <<row, effects, excused, asks>>

\* 503 after WAIT_TIMEOUT_MS, or when a poll throws.
GiveUpWaiting(r) ==
  /\ ask[r].at = "poll"
  /\ Close(r)
  /\ UNCHANGED <<row, effects, replays, excused, asks>>

\* The write of the answer throws, or the process stops: a pending row stays.
AskFails(r) ==
  /\ ask[r].at \in {"insert", "handler", "persist", "drop"}
  /\ Close(r)
  /\ UNCHANGED <<row, effects, replays, excused, asks>>

RowAges ==
  /\ row # NoRow /\ ~row.old
  /\ row' = [row EXCEPT !.old = TRUE]
  /\ UNCHANGED <<ask, effects, replays, excused, asks>>

AskWork(r) ==
  \/ Insert(r) \/ ClaimFails(r) \/ Handler(r) \/ Persist(r) \/ DeletePending(r)
  \/ Replay(r) \/ GiveUpWaiting(r) \/ AskFails(r)

IdempotencyNext ==
  \/ \E r \in Askers : \/ ask[r] = Closed /\ DeleteExpired(r)
                       \/ ask[r] # Closed /\ AskWork(r)
  \/ RowAges

IdempotencySpec == IdempotencyInit /\ [][IdempotencyNext]_idemVars

---------------------------------------------------------------------------
IdempotencyTypeOK ==
  /\ row \in [owner : 0 .. MaxAsks, answer : 0 .. MaxAsks, old : BOOLEAN]
  /\ effects \subseteq 1 .. MaxAsks

\* "Two identical CONCURRENT requests are serialised": within the life of a
\* row at most one request changes the data, and what the others are told is
\* the answer of the request that owns the row; unless the claim failed, the
\* handler failed after its change, or a request outlived its row (its answer
\* then lands in the row of the next one).
OneEffectPerKey ==
  /\ IdempotencyTypeOK
  /\ excused = {} => Cardinality(effects) <= 1
  /\ "outlived" \notin excused => \A p \in replays : p[1] = p[2]
===========================================================================
