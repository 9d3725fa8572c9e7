---------------------------- MODULE AccessProofs ----------------------------
(***************************************************************************)
(* Proofs about who may do what: the idempotency keys of the routes, the   *)
(* key PINs, the link to Google Calendar, the refresh tokens of sessions   *)
(* and the one-time codes that open accounts, for every number of          *)
(* requests, accounts, tokens, codes and PINs.                             *)
(* MCAccess declares the constants p and q, so a pusher is u here.         *)
(***************************************************************************)
EXTENDS MCAccess, FiniteSetTheorems, TLAPS

----------------------------------------
(* Idempotency keys.  The row of a key belongs to the request that inserted  *)
(* it, and only that request runs the handler on the strength of it: as long *)
(* as no request outlives its row, nobody else answers for it.               *)

AskPlaces == {"idle", "insert", "unguarded", "handler", "persist", "drop", "poll"}

\* Requests are numbered in the order they come in.
AsksNumbered ==
  /\ row \in [owner : 0..MaxAsks, answer : 0..MaxAsks, old : BOOLEAN]
  /\ ask \in [Askers -> [at : AskPlaces, id : 0..MaxAsks]]
  /\ asks \in 0..MaxAsks /\ effects \subseteq 1..asks /\ row.owner <= asks
  /\ row.owner = 0 => row = NoRow
  /\ \A r \in Askers : ask[r].id <= asks /\ (ask[r].at = "idle" <=> ask[r].id = 0)
  /\ \A r, s \in Askers : ask[r].id = ask[s].id /\ ask[r].id # 0 => r = s

\* While nobody outlives a row, it stays with its owner until the owner is done.
OwnersStay ==
  "outlived" \notin excused =>
    /\ \A r \in Askers : ask[r].at \in {"handler", "persist"} => row.owner = ask[r].id
    /\ row.answer \in {0, row.owner}
    /\ \A x \in replays : x[1] = x[2]

\* Who has not run the handler has changed nothing.
EffectsOwned ==
  excused = {} =>
    /\ effects \subseteq {row.owner}
    /\ \A r \in Askers : ask[r].at # "unguarded"
    /\ \A r \in Askers : ask[r].at \in {"insert", "handler", "drop", "poll"} => ask[r].id \notin effects

KeyInv == AsksNumbered /\ OwnersStay /\ EffectsOwned

\* A request moves, or ends, under the number it has.
LEMMA AskMoves ==
  ASSUME AsksNumbered, NEW r \in Askers, ask[r] # Closed, NEW at \in AskPlaces \ {"idle"},
         MoveTo(r, at) \/ Close(r)
  PROVE  /\ ask' \in [Askers -> [at : AskPlaces, id : 0..MaxAsks]]
         /\ \A s \in Askers \ {r} : ask'[s] = ask[s]
         /\ ask'[r] = Closed \/ (ask'[r].at = at /\ ask'[r].id = ask[r].id)
         /\ \A s \in Askers : ask'[s].id \in {0, ask[s].id} /\ (ask'[s].at = "idle" <=> ask'[s].id = 0)
         /\ \A s, t \in Askers : ask'[s].id = ask'[t].id /\ ask'[s].id # 0 => s = t
<1>1. /\ ask \in [Askers -> [at : AskPlaces, id : 0..MaxAsks]]
      /\ \A s \in Askers : ask[s].at = "idle" <=> ask[s].id = 0
      /\ \A s, t \in Askers : ask[s].id = ask[t].id /\ ask[s].id # 0 => s = t
  BY DEF AsksNumbered
<1>2. ask[r].id # 0
  BY <1>1 DEF Closed
<1>3. CASE Close(r)
  <2>1. Closed \in [at : AskPlaces, id : 0..MaxAsks] /\ Closed.id = 0 /\ Closed.at = "idle"
    BY AsksAssumption DEF Closed, AskPlaces
  <2>2. ask' = [ask EXCEPT ![r] = Closed]
    BY <1>3 DEF Close
  <2> QED BY <1>1, <2>1, <2>2
<1>4. CASE MoveTo(r, at)
  <2> DEFINE x == [ask[r] EXCEPT !.at = at]
  <2>1. x \in [at : AskPlaces, id : 0..MaxAsks] /\ x.id = ask[r].id /\ x.at = at /\ at # "idle"
    BY <1>1
  <2>2. ask' = [ask EXCEPT ![r] = x]
    BY <1>1, <1>4 DEF MoveTo
  <2> HIDE DEF x
  <2> QED BY <1>1, <1>2, <2>1, <2>2
<1> QED BY <1>3, <1>4

\* A request comes in; a row past its life goes, and what was done under it is
\* no longer its business.
LEMMA ComingInKeepsKeys ==
  ASSUME KeyInv, NEW r \in Askers, ask[r] = Closed, DeleteExpired(r)
  PROVE  KeyInv'
<1> DEFINE x == [at |-> "insert", id |-> asks + 1]
<1>0. AsksNumbered /\ OwnersStay /\ EffectsOwned
  BY DEF KeyInv
<1>1. /\ asks < MaxAsks /\ asks' = asks + 1 /\ ask' = [ask EXCEPT ![r] = x]
      /\ row' = IF row.old THEN NoRow ELSE row
      /\ effects' = IF row.old THEN {} ELSE effects
      /\ excused' = IF row.old /\ Owner # {} THEN excused \cup {"outlived"} ELSE excused
      /\ UNCHANGED replays
  BY DEF DeleteExpired
<1>2. /\ asks' \in 0..MaxAsks /\ asks \in Nat /\ x.at = "insert" /\ x.id = asks + 1
      /\ x \in [at : AskPlaces, id : 0..MaxAsks]
  BY <1>0, <1>1, AsksAssumption DEF AsksNumbered, AskPlaces
<1> HIDE DEF x
<1>3. ask' \in [Askers -> [at : AskPlaces, id : 0..MaxAsks]]
      /\ ask'[r] = x /\ \A s \in Askers \ {r} : ask'[s] = ask[s]
  BY <1>0, <1>1, <1>2 DEF AsksNumbered
<1>4. /\ row' \in [owner : 0..MaxAsks, answer : 0..MaxAsks, old : BOOLEAN]
      /\ row'.owner <= asks' /\ (row'.owner = 0 => row' = NoRow)
  <2>1. NoRow \in [owner : 0..MaxAsks, answer : 0..MaxAsks, old : BOOLEAN] /\ NoRow.owner = 0
    BY AsksAssumption DEF NoRow
  <2> QED BY <1>0, <1>1, <1>2, <2>1 DEF AsksNumbered
<1>5. AsksNumbered'
  <2>1. effects' \subseteq 1..asks'
    <3>1. effects' \subseteq effects /\ effects \subseteq 1..asks
      BY <1>0, <1>1 DEF AsksNumbered
    <3>2. \A n \in 1..asks : n \in 1..(asks + 1)
      BY <1>2
    <3> QED BY <1>1, <3>1, <3>2
  <2>2. \A s \in Askers : ask'[s].id <= asks' /\ (ask'[s].at = "idle" <=> ask'[s].id = 0)
    BY <1>0, <1>1, <1>2, <1>3 DEF AsksNumbered
  <2>3. \A s \in Askers \ {r} : ask'[s].id # asks + 1
    BY <1>0, <1>2, <1>3 DEF AsksNumbered
  <2>4. \A s, t \in Askers : ask'[s].id = ask'[t].id /\ ask'[s].id # 0 => s = t
    BY <1>0, <1>2, <1>3, <2>3 DEF AsksNumbered
  <2> QED BY <1>2, <1>3, <1>4, <2>1, <2>2, <2>4 DEF AsksNumbered
<1>6. OwnersStay'
  <2> SUFFICES ASSUME "outlived" \notin excused'
               PROVE  /\ \A s \in Askers : ask'[s].at \in {"handler", "persist"} => row'.owner = ask'[s].id
                      /\ row'.answer \in {0, row'.owner}
                      /\ \A y \in replays' : y[1] = y[2]
    BY DEF OwnersStay
  <2>1. /\ \A s \in Askers : ask[s].at \in {"handler", "persist"} => row.owner = ask[s].id
        /\ row.answer \in {0, row.owner}
        /\ \A y \in replays : y[1] = y[2]
    BY <1>0, <1>1 DEF OwnersStay
  <2>2. \A s \in Askers : ask'[s].at \in {"handler", "persist"} => s # r /\ ask'[s] = ask[s]
    BY <1>2, <1>3
  <2>3. CASE row.old
    <3>1. Owner = {}
      BY <1>1, <2>3
    <3>2. \A s \in Askers : ask[s].at \notin {"handler", "persist"}
      BY <2>1, <3>1 DEF Owner
    <3> QED BY <1>1, <2>1, <2>2, <2>3, <3>2 DEF NoRow
  <2>4. CASE ~row.old
    BY <1>1, <2>1, <2>2, <2>4
  <2> QED BY <2>3, <2>4
<1>7. EffectsOwned'
  <2> SUFFICES ASSUME excused' = {}
               PROVE  /\ effects' \subseteq {row'.owner}
                      /\ \A s \in Askers : ask'[s].at # "unguarded"
                      /\ \A s \in Askers : ask'[s].at \in {"insert", "handler", "drop", "poll"}
                                             => ask'[s].id \notin effects'
    BY DEF EffectsOwned
  <2>1. /\ effects \subseteq {row.owner}
        /\ \A s \in Askers : ask[s].at # "unguarded"
        /\ \A s \in Askers : ask[s].at \in {"insert", "handler", "drop", "poll"} => ask[s].id \notin effects
    BY <1>0, <1>1 DEF EffectsOwned
  <2>2. asks + 1 \notin effects
    BY <1>0, <1>2 DEF AsksNumbered
  <2> QED BY <1>1, <1>2, <1>3, <2>1, <2>2
<1> QED BY <1>5, <1>6, <1>7 DEF KeyInv

\* A request that only moves on, or ends, and changes neither the row nor the
\* data.
LEMMA MovingKeepsKeys ==
  ASSUME KeyInv, NEW r \in Askers, ask[r] # Closed, NEW at \in AskPlaces \ {"idle"},
         \/ Close(r)
         \/ /\ MoveTo(r, at)
            /\ at = "unguarded" => excused' # {}
            /\ at = "handler" => row.owner = ask[r].id
            /\ at = "persist" => ask[r].at = "handler"
            /\ at \in {"insert", "handler", "drop", "poll"} =>
                 ask[r].at \in {"insert", "handler", "drop", "poll"},
         UNCHANGED <<row, effects, asks>>, excused \subseteq excused',
         \A x \in replays' : x \in replays \/ ("outlived" \notin excused => x[1] = x[2])
  PROVE  KeyInv'
<1>0. AsksNumbered /\ OwnersStay /\ EffectsOwned
  BY DEF KeyInv
<1>1. /\ ask' \in [Askers -> [at : AskPlaces, id : 0..MaxAsks]]
      /\ \A s \in Askers \ {r} : ask'[s] = ask[s]
      /\ ask'[r] = Closed \/ (ask'[r].at = at /\ ask'[r].id = ask[r].id)
      /\ \A s \in Askers : ask'[s].id \in {0, ask[s].id} /\ (ask'[s].at = "idle" <=> ask'[s].id = 0)
      /\ \A s, t \in Askers : ask'[s].id = ask'[t].id /\ ask'[s].id # 0 => s = t
  BY <1>0, AskMoves
<1>a. Close(r) => ask'[r] = Closed
  BY <1>0 DEF Close, AsksNumbered
<1>b. /\ ask'[r].at = "unguarded" => excused' # {}
      /\ ask'[r].at \in {"handler", "persist"} => row.owner = ask'[r].id \/ "outlived" \in excused
      /\ ask'[r].at \in {"insert", "handler", "drop", "poll"} =>
           ask[r].at \in {"insert", "handler", "drop", "poll"} /\ ask'[r].id = ask[r].id
  <2>1. CASE Close(r)
    BY <1>a, <2>1 DEF Closed
  <2>2. CASE MoveTo(r, at) /\ ask'[r] # Closed
    <3>1. ask'[r].at = at /\ ask'[r].id = ask[r].id /\ ~Close(r)
      BY <1>1, <1>a, <2>2
    <3>2. at = "persist" => ("outlived" \in excused \/ row.owner = ask[r].id)
      BY <1>0, <3>1 DEF OwnersStay
    <3> QED BY <3>1, <3>2
  <2>3. CASE ask'[r] = Closed
    BY <2>3 DEF Closed
  <2> QED BY <2>1, <2>2, <2>3
<1>2. AsksNumbered'
  <2>1. asks \in Nat /\ \A s \in Askers : ask[s].id <= asks
    BY <1>0 DEF AsksNumbered
  <2>2. \A s \in Askers : ask'[s].id <= asks
    BY <1>1, <2>1
  <2> QED BY <1>0, <1>1, <2>2 DEF AsksNumbered
<1>3. OwnersStay'
  <2> SUFFICES ASSUME "outlived" \notin excused'
               PROVE  /\ \A s \in Askers : ask'[s].at \in {"handler", "persist"} => row.owner = ask'[s].id
                      /\ row.answer \in {0, row.owner}
                      /\ \A y \in replays' : y[1] = y[2]
    BY DEF OwnersStay
  <2>1. /\ \A s \in Askers : ask[s].at \in {"handler", "persist"} => row.owner = ask[s].id
        /\ row.answer \in {0, row.owner}
        /\ \A y \in replays : y[1] = y[2]
    BY <1>0 DEF OwnersStay
  <2> QED BY <1>1, <1>b, <2>1
<1>4. EffectsOwned'
  <2> SUFFICES ASSUME excused' = {}
               PROVE  /\ effects \subseteq {row.owner}
                      /\ \A s \in Askers : ask'[s].at # "unguarded"
                      /\ \A s \in Askers : ask'[s].at \in {"insert", "handler", "drop", "poll"}
                                             => ask'[s].id \notin effects
    BY DEF EffectsOwned
  <2>1. /\ effects \subseteq {row.owner}
        /\ \A s \in Askers : ask[s].at # "unguarded"
        /\ \A s \in Askers : ask[s].at \in {"insert", "handler", "drop", "poll"} => ask[s].id \notin effects
    BY <1>0 DEF EffectsOwned
  <2> QED BY <1>1, <1>b, <2>1
<1> QED BY <1>2, <1>3, <1>4 DEF KeyInv

\* The steps that change neither the row nor the data.
LEMMA WaitingKeepsKeys ==
  ASSUME KeyInv, NEW r \in Askers, ask[r] # Closed,
         ClaimFails(r) \/ Replay(r) \/ GiveUpWaiting(r) \/ AskFails(r)
  PROVE  KeyInv'
<1>1. "unguarded" \in AskPlaces \ {"idle"} /\ "poll" \in AskPlaces \ {"idle"}
  BY DEF AskPlaces
<1>2. CASE ClaimFails(r)
  <2>1. /\ MoveTo(r, "unguarded") /\ excused' = excused \cup {"unguarded"}
        /\ UNCHANGED <<row, effects, replays, asks>>
    BY <1>2 DEF ClaimFails
  <2> QED BY <1>1, <2>1, MovingKeepsKeys
<1>3. CASE GiveUpWaiting(r) \/ AskFails(r)
  <2>1. Close(r) /\ UNCHANGED <<row, effects, replays, excused, asks>>
    BY <1>3 DEF GiveUpWaiting, AskFails
  <2> QED BY <1>1, <2>1, MovingKeepsKeys
<1>4. CASE Replay(r)
  <2>1. /\ ask[r].at = "poll" /\ row.answer # 0 /\ Close(r)
        /\ replays' = replays \cup {<<row.owner, row.answer>>}
        /\ UNCHANGED <<row, effects, excused, asks>>
    BY <1>4 DEF Replay, Answered
  <2>2. "outlived" \notin excused => row.owner = row.answer
    BY <2>1 DEF KeyInv, OwnersStay
  <2>3. \A x \in replays' : x \in replays \/ ("outlived" \notin excused => x[1] = x[2])
    BY <2>1, <2>2
  <2> QED BY <1>1, <2>1, <2>3, MovingKeepsKeys
<1> QED BY <1>2, <1>3, <1>4

\* The handler changes the data under the row of its request.
LEMMA HandlerKeepsKeys ==
  ASSUME KeyInv, NEW r \in Askers, ask[r] # Closed, Handler(r)
  PROVE  KeyInv'
<1>0. AsksNumbered /\ OwnersStay /\ EffectsOwned
  BY DEF KeyInv
<1>1. PICK status \in {"ok", "refused", "failed"}, changes \in BOOLEAN :
        /\ status # "failed" => (changes <=> status = "ok")
        /\ effects' = IF changes THEN effects \cup {ask[r].id} ELSE effects
        /\ IF ask[r].at = "unguarded" THEN Close(r)
           ELSE MoveTo(r, IF status = "failed" THEN "drop" ELSE "persist")
        /\ excused' = IF status = "failed" /\ changes THEN excused \cup {"failed late"} ELSE excused
  BY DEF Handler
<1>2. ask[r].at \in {"handler", "unguarded"} /\ UNCHANGED <<row, replays, asks>>
  BY DEF Handler
<1> DEFINE at == IF status = "failed" THEN "drop" ELSE "persist"
<1>3. at \in AskPlaces \ {"idle"} /\ (MoveTo(r, at) \/ Close(r))
  BY <1>1 DEF AskPlaces
<1>4. /\ ask' \in [Askers -> [at : AskPlaces, id : 0..MaxAsks]]
      /\ \A s \in Askers \ {r} : ask'[s] = ask[s]
      /\ ask'[r] = Closed \/ (ask'[r].at = at /\ ask'[r].id = ask[r].id)
      /\ \A s \in Askers : ask'[s].id \in {0, ask[s].id} /\ (ask'[s].at = "idle" <=> ask'[s].id = 0)
      /\ \A s, t \in Askers : ask'[s].id = ask'[t].id /\ ask'[s].id # 0 => s = t
  <2> HIDE DEF at
  <2> QED BY <1>0, <1>3, AskMoves
<1>5. ask[r].id \in 1..asks
  BY <1>0, <1>2 DEF AsksNumbered
<1>6. AsksNumbered'
  <2>1. effects' \subseteq 1..asks
    BY <1>0, <1>1, <1>5 DEF AsksNumbered
  <2>2. \A s \in Askers : ask'[s].id <= asks
    <3>1. asks \in Nat /\ \A s \in Askers : ask[s].id <= asks
      BY <1>0 DEF AsksNumbered
    <3> QED BY <1>4, <3>1
  <2> QED BY <1>0, <1>2, <1>4, <2>1, <2>2 DEF AsksNumbered
<1>7. OwnersStay'
  <2> SUFFICES ASSUME "outlived" \notin excused'
               PROVE  /\ \A s \in Askers : ask'[s].at \in {"handler", "persist"} => row.owner = ask'[s].id
                      /\ row.answer \in {0, row.owner}
                      /\ \A y \in replays : y[1] = y[2]
    BY <1>2 DEF OwnersStay
  <2>1. /\ \A s \in Askers : ask[s].at \in {"handler", "persist"} => row.owner = ask[s].id
        /\ row.answer \in {0, row.owner}
        /\ \A y \in replays : y[1] = y[2]
    BY <1>0, <1>1 DEF OwnersStay
  <2>2. ask'[r].at \in {"handler", "persist"} => row.owner = ask'[r].id
    <3>1. CASE ask[r].at = "unguarded"
      <4>1. ask' = [ask EXCEPT ![r] = Closed]
        BY <1>1, <3>1 DEF Close
      <4> QED BY <1>0, <4>1 DEF Closed, AsksNumbered
    <3>2. CASE ask[r].at = "handler"
      BY <1>4, <2>1, <3>2 DEF Closed
    <3> QED BY <1>2, <3>1, <3>2
  <2> QED BY <1>4, <2>1, <2>2
<1>8. EffectsOwned'
  <2> SUFFICES ASSUME excused' = {}
               PROVE  /\ effects' \subseteq {row.owner}
                      /\ \A s \in Askers : ask'[s].at # "unguarded"
                      /\ \A s \in Askers : ask'[s].at \in {"insert", "handler", "drop", "poll"}
                                             => ask'[s].id \notin effects'
    BY <1>2 DEF EffectsOwned
  <2>1. excused = {} /\ ~(status = "failed" /\ changes)
    BY <1>1
  <2>2. /\ effects \subseteq {row.owner}
        /\ \A s \in Askers : ask[s].at # "unguarded"
        /\ \A s \in Askers : ask[s].at \in {"insert", "handler", "drop", "poll"} => ask[s].id \notin effects
    BY <1>0, <2>1 DEF EffectsOwned
  <2>3. ask[r].at = "handler" /\ row.owner = ask[r].id
    BY <1>0, <1>2, <2>1, <2>2 DEF OwnersStay
  <2>4. \A s \in Askers \ {r} : ask[s].id # ask[r].id
    BY <1>0, <1>5 DEF AsksNumbered
  <2>5. ask'[r].at = at
    <3>1. MoveTo(r, at)
      BY <1>1, <2>3
    <3> HIDE DEF at
    <3> QED BY <1>0, <3>1 DEF MoveTo, AsksNumbered
  <2>6. CASE changes
    <3>1. status = "ok"
      BY <1>1, <2>1, <2>6
    <3>2. ask'[r].at = "persist" /\ effects' = effects \cup {ask[r].id}
      BY <1>1, <2>5, <2>6, <3>1
    <3> QED BY <1>4, <2>2, <2>3, <2>4, <3>2
  <2>7. CASE ~changes
    <3>1. effects' = effects
      BY <1>1, <2>7
    <3>2. ask'[r].at \in {"drop", "persist"} /\ ask'[r].id \notin effects
      BY <1>4, <2>2, <2>3, <2>5 DEF Closed
    <3> QED BY <1>4, <2>2, <3>1, <3>2
  <2> QED BY <2>6, <2>7
<1> QED BY <1>6, <1>7, <1>8 DEF KeyInv

\* Inserting, answering and giving up the row.
LEMMA RowStepsKeepKeys ==
  ASSUME KeyInv, NEW r \in Askers, ask[r] # Closed,
         Insert(r) \/ Persist(r) \/ DeletePending(r)
  PROVE  KeyInv'
<1>0. AsksNumbered /\ OwnersStay /\ EffectsOwned
  BY DEF KeyInv
<1> DEFINE at == IF Claims THEN "handler" ELSE "poll"
<1>1. at \in AskPlaces \ {"idle"} /\ (MoveTo(r, at) \/ Close(r)) /\ UNCHANGED <<effects, replays, asks>>
  BY DEF AskPlaces, Insert, Persist, DeletePending
<1>2. /\ ask' \in [Askers -> [at : AskPlaces, id : 0..MaxAsks]]
      /\ \A s \in Askers \ {r} : ask'[s] = ask[s]
      /\ ask'[r] = Closed \/ (ask'[r].at = at /\ ask'[r].id = ask[r].id)
      /\ \A s \in Askers : ask'[s].id \in {0, ask[s].id} /\ (ask'[s].at = "idle" <=> ask'[s].id = 0)
      /\ \A s, t \in Askers : ask'[s].id = ask'[t].id /\ ask'[s].id # 0 => s = t
  <2> HIDE DEF at
  <2> QED BY <1>0, <1>1, AskMoves
<1>3. /\ asks \in Nat /\ \A s \in Askers : ask[s].id <= asks
      /\ ask[r].id # 0 /\ ask[r].id \in 0..MaxAsks /\ ask[r].id \in 1..asks
      /\ row \in [owner : 0..MaxAsks, answer : 0..MaxAsks, old : BOOLEAN]
      /\ row.owner <= asks /\ (row.owner = 0 => row = NoRow) /\ effects \subseteq 1..asks
  BY <1>0 DEF AsksNumbered, Closed
<1>4. \A s \in Askers : ask'[s].id <= asks
  BY <1>2, <1>3
<1>5. ASSUME row' \in [owner : 0..MaxAsks, answer : 0..MaxAsks, old : BOOLEAN],
             row'.owner <= asks, row'.owner = 0 => row' = NoRow
      PROVE  AsksNumbered'
  BY <1>0, <1>1, <1>2, <1>3, <1>4, <1>5 DEF AsksNumbered
<1>6. NoRow \in [owner : 0..MaxAsks, answer : 0..MaxAsks, old : BOOLEAN] /\ NoRow.owner = 0 /\ NoRow.answer = 0
  BY AsksAssumption DEF NoRow
<1>7. ASSUME "outlived" \notin excused
      PROVE  /\ \A s \in Askers : ask[s].at \in {"handler", "persist"} => row.owner = ask[s].id
             /\ row.answer \in {0, row.owner}
             /\ \A y \in replays : y[1] = y[2]
  BY <1>0, <1>7 DEF OwnersStay
<1>8. ASSUME excused = {}
      PROVE  /\ effects \subseteq {row.owner}
             /\ \A s \in Askers : ask[s].at # "unguarded"
             /\ \A s \in Askers : ask[s].at \in {"insert", "handler", "drop", "poll"}
                                    => ask[s].id \notin effects
             /\ row.owner = 0 => effects = {}
  BY <1>0, <1>3, <1>8 DEF EffectsOwned
<1>9. Closed.at = "idle" /\ Closed.id = 0
  BY DEF Closed
<1>10. CASE Insert(r) /\ Claims
  <2> DEFINE x == [owner |-> ask[r].id, answer |-> 0, old |-> FALSE]
  <2>1. row = NoRow /\ row' = x /\ MoveTo(r, "handler") /\ UNCHANGED excused /\ ask[r].at = "insert"
    BY <1>10 DEF Insert, Claims
  <2>2. /\ x \in [owner : 0..MaxAsks, answer : 0..MaxAsks, old : BOOLEAN]
        /\ x.owner = ask[r].id /\ x.answer = 0
    BY <1>3, AsksAssumption
  <2>3. ask'[r].at = "handler" /\ ask'[r].id = ask[r].id
    BY <1>0, <2>1 DEF MoveTo, AsksNumbered
  <2> HIDE DEF x
  <2>4. AsksNumbered'
    BY <1>3, <1>5, <2>1, <2>2
  <2>5. OwnersStay'
    <3> SUFFICES ASSUME "outlived" \notin excused
                 PROVE  /\ \A s \in Askers : ask'[s].at \in {"handler", "persist"} => x.owner = ask'[s].id
                        /\ x.answer \in {0, x.owner}
                        /\ \A y \in replays : y[1] = y[2]
      BY <1>1, <2>1 DEF OwnersStay
    <3>1. \A s \in Askers : ask[s].at \in {"handler", "persist"} => ask[s].id = 0
      BY <1>6, <1>7, <2>1
    <3>2. \A s \in Askers : ask[s].at \notin {"handler", "persist"}
      BY <1>0, <3>1 DEF AsksNumbered
    <3> QED BY <1>2, <1>7, <2>2, <2>3, <3>2
  <2>6. EffectsOwned'
    <3> SUFFICES ASSUME excused = {}
                 PROVE  /\ effects \subseteq {x.owner}
                        /\ \A s \in Askers : ask'[s].at # "unguarded"
                        /\ \A s \in Askers : ask'[s].at \in {"insert", "handler", "drop", "poll"}
                                               => ask'[s].id \notin effects
      BY <1>1, <2>1 DEF EffectsOwned
    <3> QED BY <1>2, <1>6, <1>8, <2>1, <2>3
  <2> QED BY <2>4, <2>5, <2>6 DEF KeyInv
<1>11. CASE Insert(r) /\ ~Claims
  <2>1. ask[r].at = "insert" /\ MoveTo(r, "poll") /\ UNCHANGED <<row, excused>>
    BY <1>11 DEF Insert
  <2> QED BY <1>1, <2>1, MovingKeepsKeys DEF AskPlaces
<1>12. CASE Persist(r)
  <2>1. /\ row' = IF row = NoRow THEN row ELSE [row EXCEPT !.answer = ask[r].id]
        /\ ask' = [ask EXCEPT ![r] = Closed] /\ UNCHANGED excused /\ ask[r].at = "persist"
    BY <1>12 DEF Persist, Close
  <2>2. /\ row' \in [owner : 0..MaxAsks, answer : 0..MaxAsks, old : BOOLEAN]
        /\ row'.owner = row.owner /\ row'.answer \in {row.answer, ask[r].id}
    BY <1>3, <2>1
  <2>3. AsksNumbered'
    BY <1>3, <1>5, <2>1, <2>2
  <2>4. ask'[r] = Closed
    BY <1>0, <2>1 DEF AsksNumbered
  <2>5. OwnersStay'
    <3> SUFFICES ASSUME "outlived" \notin excused
                 PROVE  /\ \A s \in Askers : ask'[s].at \in {"handler", "persist"} => row'.owner = ask'[s].id
                        /\ row'.answer \in {0, row'.owner}
                        /\ \A y \in replays : y[1] = y[2]
      BY <1>1, <2>1 DEF OwnersStay
    <3> QED BY <1>2, <1>7, <1>9, <2>1, <2>2, <2>4
  <2>6. EffectsOwned'
    <3> SUFFICES ASSUME excused = {}
                 PROVE  /\ effects \subseteq {row'.owner}
                        /\ \A s \in Askers : ask'[s].at # "unguarded"
                        /\ \A s \in Askers : ask'[s].at \in {"insert", "handler", "drop", "poll"}
                                               => ask'[s].id \notin effects
      BY <1>1, <2>1 DEF EffectsOwned
    <3> QED BY <1>2, <1>8, <1>9, <2>2, <2>4
  <2> QED BY <2>3, <2>5, <2>6 DEF KeyInv
<1>13. CASE DeletePending(r)
  <2>1. /\ row' = NoRow /\ ask' = [ask EXCEPT ![r] = Closed] /\ ask[r].at = "drop"
        /\ excused' = IF row.owner \notin {0, ask[r].id} THEN excused \cup {"outlived"} ELSE excused
    BY <1>13 DEF DeletePending, Close
  <2>2. AsksNumbered'
    BY <1>3, <1>5, <1>6, <2>1
  <2>3. ask'[r] = Closed
    BY <1>0, <2>1 DEF AsksNumbered
  <2>4. OwnersStay'
    <3> SUFFICES ASSUME "outlived" \notin excused'
                 PROVE  /\ \A s \in Askers : ask'[s].at \in {"handler", "persist"} => NoRow.owner = ask'[s].id
                        /\ NoRow.answer \in {0, NoRow.owner}
                        /\ \A y \in replays : y[1] = y[2]
      BY <1>1, <2>1 DEF OwnersStay
    <3>1. "outlived" \notin excused /\ row.owner \in {0, ask[r].id}
      BY <2>1
    <3>2. ASSUME NEW s \in Askers, ask[s].at \in {"handler", "persist"} PROVE FALSE
      <4>1. ask[s].id \in {0, ask[r].id} /\ ask[s].id # 0
        BY <1>0, <1>7, <3>1, <3>2 DEF AsksNumbered
      <4>2. s = r
        BY <1>0, <4>1 DEF AsksNumbered
      <4> QED BY <2>1, <3>2, <4>2
    <3> QED BY <1>2, <1>6, <1>7, <1>9, <2>3, <3>1, <3>2
  <2>5. EffectsOwned'
    <3> SUFFICES ASSUME excused' = {}
                 PROVE  /\ effects \subseteq {NoRow.owner}
                        /\ \A s \in Askers : ask'[s].at # "unguarded"
                        /\ \A s \in Askers : ask'[s].at \in {"insert", "handler", "drop", "poll"}
                                               => ask'[s].id \notin effects
      BY <1>1, <2>1 DEF EffectsOwned
    <3>1. excused = {} /\ row.owner \in {0, ask[r].id}
      BY <2>1
    <3>2. effects = {}
      BY <1>8, <2>1, <3>1
    <3> QED BY <1>2, <1>8, <1>9, <2>3, <3>1, <3>2
  <2> QED BY <2>2, <2>4, <2>5 DEF KeyInv
<1> QED BY <1>10, <1>11, <1>12, <1>13

\* The invariant of the keys holds at the start and in every step.
LEMMA KeyInvInductive ==
  /\ IdempotencyInit => KeyInv
  /\ KeyInv /\ [IdempotencyNext]_idemVars => KeyInv'
<1>1. IdempotencyInit => KeyInv
  <2> SUFFICES ASSUME IdempotencyInit PROVE KeyInv
    OBVIOUS
  <2>1. /\ Closed \in [at : AskPlaces, id : 0..MaxAsks] /\ Closed.id = 0 /\ Closed.at = "idle"
        /\ NoRow \in [owner : 0..MaxAsks, answer : 0..MaxAsks, old : BOOLEAN]
        /\ NoRow.owner = 0 /\ NoRow.answer = 0
    BY AsksAssumption DEF Closed, NoRow, AskPlaces
  <2>2. AsksNumbered
    BY <2>1, AsksAssumption DEF IdempotencyInit, AsksNumbered
  <2>3. OwnersStay /\ EffectsOwned
    BY <2>1 DEF IdempotencyInit, OwnersStay, EffectsOwned
  <2> QED BY <2>2, <2>3 DEF KeyInv
<1>2. ASSUME KeyInv, [IdempotencyNext]_idemVars PROVE KeyInv'
  <2>1. CASE UNCHANGED idemVars
    BY <1>2, <2>1 DEF idemVars, KeyInv, AsksNumbered, OwnersStay, EffectsOwned
  <2>2. CASE RowAges
    <3> DEFINE x == [row EXCEPT !.old = TRUE]
    <3>1. /\ row' = x /\ row # NoRow /\ UNCHANGED <<ask, effects, replays, excused, asks>>
          /\ row \in [owner : 0..MaxAsks, answer : 0..MaxAsks, old : BOOLEAN]
      BY <1>2, <2>2 DEF RowAges, KeyInv, AsksNumbered
    <3>2. /\ x \in [owner : 0..MaxAsks, answer : 0..MaxAsks, old : BOOLEAN]
          /\ x.owner = row.owner /\ x.answer = row.answer
      BY <3>1
    <3> HIDE DEF x
    <3>3. AsksNumbered'
      BY <1>2, <3>1, <3>2 DEF KeyInv, AsksNumbered
    <3>4. OwnersStay' /\ EffectsOwned'
      BY <1>2, <3>1, <3>2 DEF KeyInv, OwnersStay, EffectsOwned
    <3> QED BY <3>3, <3>4 DEF KeyInv
  <2> QED BY <1>2, <2>1, <2>2, ComingInKeepsKeys, WaitingKeepsKeys, HandlerKeepsKeys, RowStepsKeepKeys
       DEF IdempotencyNext, AskWork
<1> QED BY <1>1, <1>2

\* "Two identical CONCURRENT requests are serialised" (middleware/idempotency.js):
\* however many requests carry a key, one of them changes the data in the life of
\* its row, and the others are told its answer; unless the claim failed, the
\* handler failed after its change, or a request outlived its row.
THEOREM KeysProtect == IdempotencySpec => []OneEffectPerKey
<1>1. KeyInv => OneEffectPerKey
  <2> SUFFICES ASSUME KeyInv PROVE OneEffectPerKey
    OBVIOUS
  <2>1. IdempotencyTypeOK
    BY AsksAssumption DEF KeyInv, AsksNumbered, IdempotencyTypeOK
  <2>2. ASSUME excused = {} PROVE Cardinality(effects) <= 1
    <3>1. effects \subseteq {row.owner}
      BY <2>2 DEF KeyInv, EffectsOwned
    <3>2. IsFiniteSet({row.owner}) /\ Cardinality({row.owner}) = 1
      BY FS_Singleton
    <3>3. Cardinality(effects) <= Cardinality({row.owner})
      BY <3>1, <3>2, FS_Subset
    <3> QED BY <3>2, <3>3
  <2>3. "outlived" \notin excused => \A x \in replays : x[1] = x[2]
    BY DEF KeyInv, OwnersStay
  <2> QED BY <2>1, <2>2, <2>3 DEF OneEffectPerKey
<1> QED BY <1>1, KeyInvInductive, PTL DEF IdempotencySpec


----------------------------------------
(* Key PINs.  First the types: a request names rows that exist.              *)

PinRows   == [value : Pins, active : BOOLEAN, deleted : BOOLEAN]
ResetRows == [pin : Nat, by : Admins, verified : BOOLEAN, used : BOOLEAN, old : BOOLEAN,
              done : Nat, early : BOOLEAN]

PinWrites   == [at : {"match", "write", "markUsed"}, row : Nat, value : Pins \cup {NoPin},
                to : {"on", "off", "keep"}, activates : BOOLEAN, reset : Nat]
ResetAsks   == [at : {"supersede", "insertReset"}, row : Nat, by : Admins]
ResetChecks == [at : {"markVerified"}, reset : Nat]
PinTasks    == {Free} \cup PinWrites \cup ResetAsks \cup ResetChecks

\* A new row gets a PIN, and is active exactly if it was counted; a reset writes a
\* PIN.  m: PINs in the table, n: resets.
TaskFits(t, m, n) ==
  /\ t \in PinWrites =>
       /\ t.row \in 0..m /\ t.reset \in 0..n
       /\ t.row = 0 => t.value \in Pins /\ (t.to = "on" <=> t.activates)
       /\ t.activates => t.to = "on"
       /\ t.at = "match" => t.value \in Pins /\ t.reset = 0
       /\ t.at = "markUsed" => t.reset # 0
  /\ t \in ResetAsks => t.row \in 1..m
  /\ t \in ResetChecks => t.reset \in 1..n

PinTypes ==
  /\ pin \in Seq(PinRows)
  /\ reset \in Seq(ResetRows) /\ \A k \in 1..Len(reset) : reset[k].pin \in 1..Len(pin)
  /\ task \in [Guards -> PinTasks]
  /\ \A r \in Guards : TaskFits(task[r], Len(pin), Len(reset))

\* Tables only grow, so a request that fits goes on to fit.
LEMMA FitsOn ==
  ASSUME NEW t, NEW m \in Nat, NEW n \in Nat, NEW m2 \in Nat, NEW n2 \in Nat, m <= m2, n <= n2,
         TaskFits(t, m, n)
  PROVE  TaskFits(t, m2, n2)
<1>1. t \in PinWrites => t.row \in 0..m2 /\ t.reset \in 0..n2
  BY DEF TaskFits
<1> QED BY <1>1 DEF TaskFits

\* One request moves on.
LEMMA OneTaskTyped ==
  ASSUME PinTypes, NEW r \in Guards, NEW x \in PinTasks, task' = [task EXCEPT ![r] = x],
         pin' \in Seq(PinRows), Len(pin) <= Len(pin'),
         reset' \in Seq(ResetRows), Len(reset) <= Len(reset'),
         \A k \in 1..Len(reset') : reset'[k].pin \in 1..Len(pin'),
         TaskFits(x, Len(pin'), Len(reset'))
  PROVE  PinTypes'
<1>1. task' \in [Guards -> PinTasks]
  BY DEF PinTypes
<1>2. ASSUME NEW s \in Guards PROVE TaskFits(task'[s], Len(pin'), Len(reset'))
  <2>1. CASE s = r
    BY <2>1 DEF PinTypes
  <2>2. CASE s # r
    <3>1. task'[s] = task[s] /\ TaskFits(task[s], Len(pin), Len(reset))
      BY <2>2 DEF PinTypes
    <3>2. Len(pin) \in Nat /\ Len(reset) \in Nat /\ Len(pin') \in Nat /\ Len(reset') \in Nat
      BY DEF PinTypes
    <3> QED BY <3>1, <3>2, FitsOn
  <2> QED BY <2>1, <2>2
<1> QED BY <1>1, <1>2 DEF PinTypes

\* The same tables.
LEMMA OnlyTaskTyped ==
  ASSUME PinTypes, NEW r \in Guards, NEW x \in PinTasks, task' = [task EXCEPT ![r] = x],
         UNCHANGED <<pin, reset>>, TaskFits(x, Len(pin), Len(reset))
  PROVE  PinTypes'
<1>1. /\ pin' \in Seq(PinRows) /\ Len(pin) <= Len(pin') /\ reset' \in Seq(ResetRows) /\ Len(reset) <= Len(reset')
      /\ \A k \in 1..Len(reset') : reset'[k].pin \in 1..Len(pin')
      /\ TaskFits(x, Len(pin'), Len(reset'))
  BY DEF PinTypes
<1> QED BY <1>1, OneTaskTyped

\* The kinds of task are told apart by the place.
LEMMA TaskKinds ==
  ASSUME NEW t \in PinTasks
  PROVE  /\ t.at \in {"match", "write", "markUsed"} <=> t \in PinWrites
         /\ t.at \in {"supersede", "insertReset"} <=> t \in ResetAsks
         /\ t.at = "markVerified" <=> t \in ResetChecks
         /\ t.at = "idle" <=> t = Free
<1>1. CASE t = Free
  BY <1>1 DEF Free, PinWrites, ResetAsks, ResetChecks
<1>2. CASE t \in PinWrites
  BY <1>2 DEF Free, PinWrites, ResetAsks, ResetChecks
<1>3. CASE t \in ResetAsks
  BY <1>3 DEF Free, PinWrites, ResetAsks, ResetChecks
<1>4. CASE t \in ResetChecks
  BY <1>4 DEF Free, PinWrites, ResetAsks, ResetChecks
<1> QED BY <1>1, <1>2, <1>3, <1>4 DEF PinTasks

\* A request that is done fits.
LEMMA FreeFits == Free \in PinTasks /\ \A m, n : TaskFits(Free, m, n)
<1>1. Free \in PinTasks /\ Free.at = "idle"
  BY DEF Free, PinTasks
<1>2. Free \notin PinWrites /\ Free \notin ResetAsks /\ Free \notin ResetChecks
  BY <1>1, TaskKinds
<1> QED BY <1>1, <1>2 DEF TaskFits

\* One that writes.
LEMMA WriteFits ==
  ASSUME NEW at \in {"match", "write", "markUsed"}, NEW m \in Nat, NEW n \in Nat, NEW i \in 0..m,
         NEW value \in Pins \cup {NoPin}, NEW to \in {"on", "off", "keep"}, NEW activates \in BOOLEAN,
         NEW k \in 0..n,
         i = 0 => value \in Pins /\ (to = "on" <=> activates),
         activates => to = "on", at = "match" => value \in Pins /\ k = 0,
         at = "markUsed" => k # 0
  PROVE  /\ Writes(at, i, value, to, activates, k) \in PinWrites
         /\ Writes(at, i, value, to, activates, k) \in PinTasks
         /\ TaskFits(Writes(at, i, value, to, activates, k), m, n)
<1> DEFINE t == Writes(at, i, value, to, activates, k)
<1>1. t \in PinWrites /\ t \in PinTasks
  BY DEF Writes, PinWrites, PinTasks
<1>2. t \notin ResetAsks /\ t \notin ResetChecks
  BY <1>1, TaskKinds DEF PinWrites
<1>3. t.row = i /\ t.reset = k /\ t.value = value /\ t.to = to /\ t.activates = activates /\ t.at = at
  BY DEF Writes
<1> HIDE DEF t
<1>4. TaskFits(t, m, n)
  BY <1>2, <1>3 DEF TaskFits
<1> QED BY <1>1, <1>4 DEF t

\* A call that starts.
LEMMA CallTyped ==
  ASSUME PinTypes, NEW r \in Guards, PinCall(r)
  PROVE  PinTypes'
<1>0. /\ pin \in Seq(PinRows) /\ Len(pin) \in Nat /\ DOMAIN pin = 1..Len(pin)
      /\ reset \in Seq(ResetRows) /\ Len(reset) \in Nat /\ DOMAIN reset = 1..Len(reset)
      /\ \A i \in 1..Len(pin) : pin[i] \in PinRows
      /\ \A k \in 1..Len(reset) : reset[k] \in ResetRows /\ reset[k].pin \in 1..Len(pin)
  BY DEF PinTypes
<1>1. ASSUME NEW value \in Pins, NEW active \in BOOLEAN, create(r, value, active) PROVE PinTypes'
  <2> DEFINE to == IF active THEN "on" ELSE "off"
             at == "match"
             i == 0
             x == Writes(at, i, value, to, active, 0)
  <2>1. x \in PinTasks /\ TaskFits(x, Len(pin), Len(reset))
    <3>1. /\ at \in {"match", "write", "markUsed"} /\ at # "markUsed" /\ to \in {"on", "off", "keep"}
          /\ i \in 0..Len(pin) /\ 0 \in 0..Len(reset)
      BY <1>0
    <3>2. (to = "on" <=> active) /\ (active => to = "on")
      OBVIOUS
    <3> HIDE DEF to, at, i
    <3> QED BY <1>0, <3>1, <3>2, WriteFits
  <2>2. task' = [task EXCEPT ![r] = x] /\ UNCHANGED <<pin, reset>>
    BY <1>1 DEF create, Task
  <2> HIDE DEF x, to, at, i
  <2> QED BY <2>1, <2>2, OnlyTaskTyped
<1>2. ASSUME NEW i \in 1..Len(pin), NEW value \in Pins \cup {NoPin}, NEW to \in {"on", "off", "keep"},
             update(r, i, value, to)
      PROVE  PinTypes'
  <2> DEFINE activates == to = "on" /\ ~pin[i].active
             at == IF value = NoPin THEN "write" ELSE "match"
             x == Writes(at, i, value, to, activates, 0)
  <2>1. /\ activates \in BOOLEAN /\ at \in {"match", "write", "markUsed"} /\ (activates => to = "on")
        /\ (at = "match" => value \in Pins) /\ at # "markUsed" /\ i # 0 /\ i \in 0..Len(pin) /\ 0 \in 0..Len(reset)
    BY <1>0
  <2>2. task' = [task EXCEPT ![r] = x] /\ UNCHANGED <<pin, reset>>
    BY <1>2 DEF update, Task
  <2> HIDE DEF activates, at
  <2>3. x \in PinTasks /\ TaskFits(x, Len(pin), Len(reset))
    BY <1>0, <2>1, WriteFits, ZenonT(60)
  <2> HIDE DEF x
  <2> QED BY <2>2, <2>3, OnlyTaskTyped
<1>3. ASSUME NEW i \in 1..Len(pin), NEW value \in Pins, changeInline(r, i, value) PROVE PinTypes'
  <2> DEFINE at == "write"
             to == "keep"
             own == i
             of == 0
             activates == FALSE
             x == Writes(at, own, value, to, activates, of)
  <2>1. x \in PinTasks /\ TaskFits(x, Len(pin), Len(reset))
    <3>1. /\ at \in {"match", "write", "markUsed"} /\ at # "markUsed" /\ at # "match"
          /\ to \in {"on", "off", "keep"} /\ own \in 0..Len(pin) /\ own # 0 /\ of \in 0..Len(reset)
          /\ activates \in BOOLEAN /\ ~activates
      BY <1>0
    <3> HIDE DEF at, to, own, of, activates
    <3> QED BY <1>0, <3>1, WriteFits
  <2>2. task' = [task EXCEPT ![r] = x] /\ UNCHANGED <<pin, reset>>
    BY <1>3 DEF changeInline, Task
  <2> HIDE DEF x
  <2> QED BY <2>1, <2>2, OnlyTaskTyped
<1>4. ASSUME NEW i \in 1..Len(pin), remove(r, i) PROVE PinTypes'
  <2>1. task' = [task EXCEPT ![r] = Free] /\ reset' = reset /\ pin' = [pin EXCEPT ![i].deleted = TRUE]
    BY <1>4 DEF remove, Task
  <2>2. pin' \in Seq(PinRows) /\ Len(pin') = Len(pin)
    <3> DEFINE y == [pin[i] EXCEPT !.deleted = TRUE]
    <3>1. y \in PinRows /\ pin' = [pin EXCEPT ![i] = y]
      BY <1>0, <2>1 DEF PinRows
    <3> HIDE DEF y
    <3> QED BY <1>0, <3>1
  <2>3. /\ reset' \in Seq(ResetRows) /\ Len(reset) <= Len(reset') /\ Len(pin) <= Len(pin')
        /\ \A k \in 1..Len(reset') : reset'[k].pin \in 1..Len(pin')
        /\ Free \in PinTasks /\ TaskFits(Free, Len(pin'), Len(reset'))
    BY <1>0, <2>1, <2>2, FreeFits
  <2> QED BY <2>1, <2>2, <2>3, OneTaskTyped
<1>5. ASSUME NEW i \in 1..Len(pin), NEW a \in Admins, requestPinReset(r, i, a) PROVE PinTypes'
  <2> DEFINE x == [at |-> "supersede", row |-> i, by |-> a]
  <2>1. x \in ResetAsks /\ x \in PinTasks /\ x.at = "supersede" /\ x.row \in 1..Len(pin)
    BY <1>0 DEF ResetAsks, PinTasks
  <2>2. task' = [task EXCEPT ![r] = x] /\ UNCHANGED <<pin, reset>>
    BY <1>5 DEF requestPinReset, Task
  <2> HIDE DEF x
  <2>3. TaskFits(x, Len(pin), Len(reset))
    BY <2>1, TaskKinds DEF TaskFits
  <2> QED BY <2>1, <2>2, <2>3, OnlyTaskTyped
<1>6. ASSUME NEW k \in 1..Len(reset), NEW byLink \in BOOLEAN, verifyReset(r, k, byLink) PROVE PinTypes'
  <2> DEFINE x == [at |-> "markVerified", reset |-> k]
  <2>1. x \in ResetChecks /\ x \in PinTasks /\ x.at = "markVerified" /\ x.reset \in 1..Len(reset)
    BY <1>0 DEF ResetChecks, PinTasks
  <2>2. task' = [task EXCEPT ![r] = x] /\ UNCHANGED <<pin, reset>>
    BY <1>6 DEF verifyReset, Task
  <2> HIDE DEF x
  <2>3. TaskFits(x, Len(pin), Len(reset))
    BY <2>1, TaskKinds DEF TaskFits
  <2> QED BY <2>1, <2>2, <2>3, OnlyTaskTyped
<1>7. ASSUME NEW k \in 1..Len(reset), NEW value \in Pins, completePinReset(r, k, value) PROVE PinTypes'
  <2> DEFINE at == "write"
             to == "keep"
             own == reset[k].pin
             of == k
             activates == FALSE
             x == Writes(at, own, value, to, activates, of)
  <2>1. x \in PinTasks /\ TaskFits(x, Len(pin), Len(reset))
    <3>1. /\ at \in {"match", "write", "markUsed"} /\ at # "markUsed" /\ at # "match"
          /\ to \in {"on", "off", "keep"} /\ own \in 0..Len(pin) /\ own # 0 /\ of \in 0..Len(reset)
          /\ activates \in BOOLEAN /\ ~activates
      BY <1>0
    <3> HIDE DEF at, to, own, of, activates
    <3> QED BY <1>0, <3>1, WriteFits
  <2>2. task' = [task EXCEPT ![r] = x] /\ UNCHANGED <<pin, reset>>
    BY <1>7 DEF completePinReset, Task
  <2> HIDE DEF x
  <2> QED BY <2>1, <2>2, OnlyTaskTyped
<1> QED BY <1>0, <1>1, <1>2, <1>3, <1>4, <1>5, <1>6, <1>7 DEF PinCall

\* A request that only changes its place.
LEMMA PlaceTyped ==
  ASSUME PinTypes, NEW r \in Guards, task[r] \in PinWrites, NEW at \in {"write", "markUsed"},
         at = "markUsed" => task[r].reset # 0
  PROVE  [task[r] EXCEPT !.at = at] \in PinTasks /\ TaskFits([task[r] EXCEPT !.at = at], Len(pin), Len(reset))
<1> DEFINE t == task[r]
           x == [t EXCEPT !.at = at]
<1>1. TaskFits(t, Len(pin), Len(reset)) /\ t \in PinWrites /\ (at = "markUsed" => t.reset # 0)
  BY DEF PinTypes
<1> HIDE DEF t
<1>2. /\ x \in PinWrites /\ x \in PinTasks /\ x.at = at
      /\ x.row = t.row /\ x.reset = t.reset /\ x.value = t.value /\ x.to = t.to /\ x.activates = t.activates
  BY <1>1 DEF PinWrites, PinTasks
<1>3. x \notin ResetAsks /\ x \notin ResetChecks
  BY <1>2, TaskKinds
<1> HIDE DEF x
<1>4. TaskFits(x, Len(pin), Len(reset))
  BY <1>1, <1>2, <1>3 DEF TaskFits
<1> QED BY <1>2, <1>4 DEF x, t

\* What a request writes is a row.
LEMMA WrittenTyped ==
  ASSUME NEW old \in PinRows, NEW t \in PinWrites
  PROVE  Written(old, t) \in PinRows
<1>1. (IF t.value = NoPin THEN old.value ELSE t.value) \in Pins
  BY DEF PinRows, PinWrites
<1>2. (IF t.to = "keep" THEN old.active ELSE t.to = "on") \in BOOLEAN
  BY DEF PinRows
<1> QED BY <1>1, <1>2 DEF Written, PinRows

\* What WritePin makes of the tables.
LEMMA WritePinTables ==
  ASSUME PinTypes, NEW r \in Guards, WritePin(r)
  PROVE  LET t == task[r] IN
         /\ t \in PinWrites /\ t.at = "write" /\ t.row \in 0..Len(pin) /\ t.reset \in 0..Len(reset)
         /\ pin' \in Seq(PinRows) /\ Len(pin) <= Len(pin')
         /\ t.row = 0 => pin' = Append(pin, [value |-> t.value, active |-> t.to = "on", deleted |-> FALSE])
         /\ t.row # 0 => pin' = IF pin[t.row].deleted THEN pin ELSE [pin EXCEPT ![t.row] = Written(pin[t.row], t)]
         /\ t.reset = 0 => reset' = reset
         /\ t.reset # 0 => reset' = [reset EXCEPT ![t.reset] =
              [reset[t.reset] EXCEPT !.done = reset[t.reset].done + 1,
                                     !.early = reset[t.reset].early \/ ~reset[t.reset].verified]]
         /\ reset' \in Seq(ResetRows) /\ Len(reset') = Len(reset)
         /\ \A k \in 1..Len(reset) : reset'[k].pin = reset[k].pin
<1> DEFINE t == task[r]
<1>0. /\ pin \in Seq(PinRows) /\ reset \in Seq(ResetRows) /\ t \in PinTasks /\ t.at = "write"
      /\ TaskFits(t, Len(pin), Len(reset))
  BY DEF PinTypes, WritePin
<1>1. t \in PinWrites
  BY <1>0, TaskKinds
<1>2. /\ t.row \in 0..Len(pin) /\ t.reset \in 0..Len(reset) /\ (t.row = 0 => t.value \in Pins)
  BY <1>0, <1>1 DEF TaskFits
<1>3. /\ t.row = 0 => pin' = Append(pin, [value |-> t.value, active |-> t.to = "on", deleted |-> FALSE])
      /\ t.row # 0 => pin' = IF pin[t.row].deleted THEN pin ELSE [pin EXCEPT ![t.row] = Written(pin[t.row], t)]
      /\ t.reset = 0 => reset' = reset
      /\ t.reset # 0 => reset' = [reset EXCEPT ![t.reset].done = @ + 1,
                                               ![t.reset].early = @ \/ ~reset[t.reset].verified]
  BY <1>0 DEF WritePin
<1> HIDE DEF t
<1>4. pin' \in Seq(PinRows) /\ Len(pin) <= Len(pin')
  <2>1. CASE t.row = 0
    <3> DEFINE x == [value |-> t.value, active |-> t.to = "on", deleted |-> FALSE]
    <3>1. x \in PinRows /\ pin' = Append(pin, x)
      BY <1>2, <1>3, <2>1 DEF PinRows
    <3> HIDE DEF x
    <3> QED BY <1>0, <3>1
  <2>2. CASE t.row # 0
    <3>1. t.row \in 1..Len(pin) /\ pin[t.row] \in PinRows
      BY <1>0, <1>2, <2>2
    <3> DEFINE x == Written(pin[t.row], t)
    <3>2. x \in PinRows
      BY <1>1, <3>1, WrittenTyped
    <3>3. pin' = pin \/ pin' = [pin EXCEPT ![t.row] = x]
      BY <1>3, <2>2
    <3> HIDE DEF x
    <3> QED BY <1>0, <3>1, <3>2, <3>3
  <2> QED BY <2>1, <2>2
<1>5. t.reset # 0 =>
        /\ reset' = [reset EXCEPT ![t.reset] =
             [reset[t.reset] EXCEPT !.done = reset[t.reset].done + 1,
                                    !.early = reset[t.reset].early \/ ~reset[t.reset].verified]]
        /\ reset' \in Seq(ResetRows) /\ Len(reset') = Len(reset)
        /\ \A k \in 1..Len(reset) : reset'[k].pin = reset[k].pin
  <2> SUFFICES ASSUME t.reset # 0
               PROVE  /\ reset' = [reset EXCEPT ![t.reset] =
                           [reset[t.reset] EXCEPT !.done = reset[t.reset].done + 1,
                                                  !.early = reset[t.reset].early \/ ~reset[t.reset].verified]]
                      /\ reset' \in Seq(ResetRows) /\ Len(reset') = Len(reset)
                      /\ \A k \in 1..Len(reset) : reset'[k].pin = reset[k].pin
    OBVIOUS
  <2> DEFINE old == reset[t.reset]
             late == old.early \/ ~old.verified
             n == old.done + 1
             x == [old EXCEPT !.done = n, !.early = late]
  <2>1. t.reset \in 1..Len(reset) /\ old \in ResetRows
    BY <1>0, <1>2
  <2>2. late \in BOOLEAN /\ n \in Nat
    BY <2>1 DEF ResetRows
  <2>3. reset' = [reset EXCEPT ![t.reset] = x]
    BY <1>0, <1>3, <2>1 DEF ResetRows
  <2> HIDE DEF late, old, n
  <2>4. x \in ResetRows /\ x.pin = old.pin
    BY <2>1, <2>2 DEF ResetRows
  <2> HIDE DEF x
  <2>5. reset' \in Seq(ResetRows) /\ Len(reset') = Len(reset) /\ \A k \in 1..Len(reset) : reset'[k].pin = reset[k].pin
    BY <1>0, <2>1, <2>3, <2>4 DEF old
  <2> QED BY <2>3, <2>5 DEF x, old, late, n
<1>6. t.reset = 0 => reset' \in Seq(ResetRows) /\ Len(reset') = Len(reset) /\ \A k \in 1..Len(reset) : reset'[k].pin = reset[k].pin
  BY <1>0, <1>3
<1> QED BY <1>0, <1>1, <1>2, <1>3, <1>4, <1>5, <1>6 DEF t

\* A request that works on.
LEMMA WorkTyped ==
  ASSUME PinTypes, NEW r \in Guards, PinWork(r)
  PROVE  PinTypes'
<1>0. /\ pin \in Seq(PinRows) /\ Len(pin) \in Nat /\ reset \in Seq(ResetRows) /\ Len(reset) \in Nat
      /\ DOMAIN reset = 1..Len(reset)
      /\ \A k \in 1..Len(reset) : reset[k] \in ResetRows /\ reset[k].pin \in 1..Len(pin)
      /\ task \in [Guards -> PinTasks] /\ task[r] \in PinTasks /\ TaskFits(task[r], Len(pin), Len(reset))
  BY DEF PinTypes
<1>1. ASSUME Finish(r), UNCHANGED pin, reset' \in Seq(ResetRows), Len(reset) <= Len(reset'),
             \A k \in 1..Len(reset') : reset'[k].pin \in 1..Len(pin')
      PROVE  PinTypes'
  <2>1. task' = [task EXCEPT ![r] = Free] /\ Free \in PinTasks /\ TaskFits(Free, Len(pin'), Len(reset'))
    BY <1>1, FreeFits DEF Finish
  <2>2. pin' \in Seq(PinRows) /\ Len(pin) <= Len(pin')
    BY <1>0, <1>1
  <2> QED BY <1>1, <2>1, <2>2, OneTaskTyped
<1>2. ASSUME Match(r) PROVE PinTypes'
  <2>1. task[r].at = "match" /\ UNCHANGED <<pin, reset>> /\ (Finish(r) \/ TaskTo(r, "write"))
    BY <1>2 DEF Match
  <2>2. CASE Finish(r)
    BY <1>0, <1>1, <2>1, <2>2
  <2>3. CASE TaskTo(r, "write")
    <3>1. task' = [task EXCEPT ![r] = [task[r] EXCEPT !.at = "write"]]
      BY <1>0, <2>3 DEF TaskTo
    <3>2. task[r] \in PinWrites
      BY <1>0, <2>1, TaskKinds
    <3> QED BY <2>1, <3>1, <3>2, PlaceTyped, OnlyTaskTyped
  <2> QED BY <2>1, <2>2, <2>3
<1>3. ASSUME WritePin(r) PROVE PinTypes'
  <2> DEFINE t == task[r]
             y == [t EXCEPT !.at = "markUsed"]
  <2>1. /\ t \in PinWrites /\ pin' \in Seq(PinRows) /\ Len(pin) <= Len(pin')
        /\ reset' \in Seq(ResetRows) /\ Len(reset') = Len(reset)
        /\ \A k \in 1..Len(reset) : reset'[k].pin = reset[k].pin
    BY <1>3, WritePinTables
  <2>2. \A k \in 1..Len(reset') : reset'[k].pin \in 1..Len(pin')
    BY <1>0, <2>1
  <2>3. IF t.reset = 0 THEN task' = [task EXCEPT ![r] = Free] ELSE task' = [task EXCEPT ![r] = y]
    BY <1>0, <1>3 DEF WritePin, Finish, TaskTo
  <2>4. CASE t.reset = 0
    <3>1. Free \in PinTasks /\ TaskFits(Free, Len(pin'), Len(reset'))
      BY FreeFits
    <3> QED BY <2>1, <2>2, <2>3, <2>4, <3>1, OneTaskTyped
  <2>5. CASE t.reset # 0
    <3>1. y \in PinTasks /\ TaskFits(y, Len(pin), Len(reset))
      BY <2>1, <2>5, PlaceTyped
    <3> HIDE DEF y
    <3>2. TaskFits(y, Len(pin'), Len(reset'))
      <4>1. Len(pin') \in Nat /\ Len(reset') \in Nat /\ Len(reset) <= Len(reset')
        BY <2>1
      <4> QED BY <1>0, <2>1, <3>1, <4>1, FitsOn
    <3>3. task' = [task EXCEPT ![r] = y]
      BY <2>3, <2>5
    <3>4. Len(reset) <= Len(reset')
      BY <1>0, <2>1
    <3> QED BY <2>1, <2>2, <3>1, <3>2, <3>3, <3>4, OneTaskTyped
  <2> QED BY <2>4, <2>5
<1>4. ASSUME invalidatePendingForPin(r) PROVE PinTypes'
  <2> DEFINE t == task[r]
             x == [t EXCEPT !.at = "insertReset"]
             fall(k) == [reset[k] EXCEPT !.used = reset[k].used \/ k \in Superseded(t.row)]
  <2>1. /\ t.at = "supersede" /\ task' = [task EXCEPT ![r] = x] /\ pin' = pin
        /\ reset' = [k \in 1..Len(reset) |-> fall(k)]
    BY <1>0, <1>4 DEF invalidatePendingForPin, TaskTo
  <2>2. t \in ResetAsks /\ t.row \in 1..Len(pin)
    BY <1>0, <2>1, TaskKinds DEF TaskFits
  <2>3. x \in ResetAsks /\ x \in PinTasks /\ x.row = t.row
    BY <2>2 DEF ResetAsks, PinTasks
  <2>4. \A k \in 1..Len(reset) : fall(k) \in ResetRows /\ fall(k).pin = reset[k].pin
    BY <1>0 DEF ResetRows
  <2> HIDE DEF fall
  <2>5. /\ reset' \in Seq(ResetRows) /\ Len(reset') = Len(reset)
        /\ \A k \in 1..Len(reset') : reset'[k].pin \in 1..Len(pin')
    BY <1>0, <2>1, <2>4
  <2>6. TaskFits(x, Len(pin'), Len(reset'))
    <3>1. x \notin PinWrites /\ x \notin ResetChecks
      BY <2>3, TaskKinds DEF ResetAsks
    <3> QED BY <2>1, <2>2, <2>3, <3>1 DEF TaskFits
  <2> HIDE DEF x
  <2>7. pin' \in Seq(PinRows) /\ Len(pin) <= Len(pin') /\ Len(reset) <= Len(reset')
    BY <1>0, <2>1, <2>5
  <2> QED BY <2>1, <2>3, <2>5, <2>6, <2>7, OneTaskTyped
<1>5. ASSUME createResetRequest(r) PROVE PinTypes'
  <2> DEFINE x == [pin |-> task[r].row, by |-> task[r].by, verified |-> FALSE,
                   used |-> FALSE, old |-> FALSE, done |-> 0, early |-> FALSE]
  <2>1. task[r].at = "insertReset" /\ Finish(r) /\ UNCHANGED pin /\ reset' = Append(reset, x)
    BY <1>5 DEF createResetRequest
  <2>2. task[r] \in ResetAsks /\ task[r].row \in 1..Len(pin)
    BY <1>0, <2>1, TaskKinds DEF TaskFits
  <2>3. x \in ResetRows /\ x.pin \in 1..Len(pin)
    BY <1>0, <2>2 DEF ResetRows, ResetAsks
  <2> HIDE DEF x
  <2>4. /\ reset' \in Seq(ResetRows) /\ Len(reset') = Len(reset) + 1
        /\ \A k \in 1..Len(reset) : reset'[k] = reset[k]
        /\ reset'[Len(reset) + 1] = x
    BY <1>0, <2>1, <2>3
  <2>5. \A k \in 1..Len(reset') : reset'[k].pin \in 1..Len(pin')
    <3>1. \A k \in 1..Len(reset') : k \in 1..Len(reset) \/ k = Len(reset) + 1
      BY <1>0, <2>4
    <3> QED BY <1>0, <2>1, <2>3, <2>4, <3>1
  <2>6. Len(reset) <= Len(reset')
    BY <1>0, <2>4
  <2> QED BY <1>1, <2>1, <2>4, <2>5, <2>6
<1>6. ASSUME NEW k \in 1..Len(reset), NEW x \in ResetRows, x.pin = reset[k].pin, Finish(r), UNCHANGED pin,
             reset' = [reset EXCEPT ![k] = x]
      PROVE  PinTypes'
  <2>1. /\ reset' \in Seq(ResetRows) /\ Len(reset) <= Len(reset')
        /\ \A l \in 1..Len(reset') : reset'[l].pin \in 1..Len(pin')
    BY <1>0, <1>6
  <2> QED BY <1>1, <1>6, <2>1
<1>7. ASSUME markVerified(r) PROVE PinTypes'
  <2> DEFINE k == task[r].reset
             v == reset[k].verified \/ ~reset[k].used
             x == [reset[k] EXCEPT !.verified = v]
  <2>1. k \in 1..Len(reset)
    BY <1>0, <1>7, TaskKinds DEF markVerified, TaskFits
  <2>2. reset' = [reset EXCEPT ![k] = x] /\ Finish(r) /\ UNCHANGED pin
    BY <1>0, <1>7, <2>1 DEF markVerified
  <2>3. v \in BOOLEAN
    BY <1>0, <2>1 DEF ResetRows
  <2> HIDE DEF k, v
  <2>4. x \in ResetRows /\ x.pin = reset[k].pin
    BY <1>0, <2>1, <2>3 DEF ResetRows
  <2> HIDE DEF x
  <2> QED BY <1>6, <2>1, <2>2, <2>4
<1>8. ASSUME markUsed(r) PROVE PinTypes'
  <2> DEFINE k == task[r].reset
             x == [reset[k] EXCEPT !.used = TRUE]
  <2>1. k \in 1..Len(reset)
    <3>1. task[r].at = "markUsed" /\ task[r] \in PinWrites
      BY <1>0, <1>8, TaskKinds DEF markUsed
    <3>2. k \in 0..Len(reset) /\ k # 0
      BY <1>0, <3>1 DEF TaskFits
    <3> QED BY <1>0, <3>2
  <2>2. reset' = [reset EXCEPT ![k] = x] /\ Finish(r) /\ UNCHANGED pin
    BY <1>0, <1>8, <2>1 DEF markUsed
  <2> HIDE DEF k
  <2>3. x \in ResetRows /\ x.pin = reset[k].pin
    BY <1>0, <2>1 DEF ResetRows
  <2> HIDE DEF x
  <2> QED BY <1>6, <2>1, <2>2, <2>3
<1>9. ASSUME TaskFails(r) PROVE PinTypes'
  BY <1>0, <1>1, <1>9 DEF TaskFails
<1> QED BY <1>2, <1>3, <1>4, <1>5, <1>7, <1>8, <1>9 DEF PinWork

\* Every step keeps the types.
LEMMA PinStepTyped == PinTypes /\ [KeyPinsNext]_pinVars => PinTypes'
<1> SUFFICES ASSUME PinTypes, [KeyPinsNext]_pinVars PROVE PinTypes'
  OBVIOUS
<1>1. ASSUME NEW k \in DOMAIN reset, ResetAges(k) PROVE PinTypes'
  <2> DEFINE x == [reset[k] EXCEPT !.old = TRUE]
  <2>0. reset \in Seq(ResetRows) /\ k \in 1..Len(reset) /\ reset[k] \in ResetRows
    BY <1>1 DEF PinTypes
  <2>1. reset' = [reset EXCEPT ![k] = x] /\ UNCHANGED <<pin, task>>
    BY <1>1, <2>0 DEF ResetAges
  <2>2. x \in ResetRows /\ x.pin = reset[k].pin
    BY <2>0 DEF ResetRows
  <2> HIDE DEF x
  <2>3. reset' \in Seq(ResetRows) /\ Len(reset') = Len(reset) /\ \A l \in 1..Len(reset) : reset'[l].pin = reset[l].pin
    BY <2>0, <2>1, <2>2
  <2> QED BY <2>1, <2>3 DEF PinTypes
<1>2. ASSUME UNCHANGED pinVars PROVE PinTypes'
  BY <1>2 DEF pinVars, PinTypes
<1> QED BY <1>1, <1>2, CallTyped, WorkTyped DEF KeyPinsNext

----------------------------------------
(* Which rows a write makes active, and with which PIN.                      *)

\* The row a request writes.
OwnRow(t) == IF t.row = 0 THEN Len(pin) + 1 ELSE t.row

\* A write touches one row; if that row is active afterwards, it has the PIN that
\* was asked for, or the one it had, and somebody answered for its being active.
LEMMA WriteActive ==
  ASSUME PinTypes, NEW r \in Guards, WritePin(r)
  PROVE  LET t == task[r] IN
         /\ \A j \in listActive' : j = OwnRow(t) \/ (j \in listActive /\ pin'[j] = pin[j])
         /\ t.value \in Pins /\ OwnRow(t) \in listActive' => pin'[OwnRow(t)].value = t.value
         /\ t.value = NoPin /\ OwnRow(t) \in listActive' =>
              /\ t.row # 0 /\ pin'[OwnRow(t)].value = pin[t.row].value
              /\ t.to = "on" \/ t.row \in listActive
         /\ OwnRow(t) \in listActive' => t.activates \/ OwnRow(t) \in listActive \/ crowded'
<1> DEFINE t == task[r]
           own == OwnRow(t)
<1>0. /\ pin \in Seq(PinRows) /\ t \in PinWrites /\ t.row \in 0..Len(pin) /\ pin' \in Seq(PinRows)
      /\ TaskFits(t, Len(pin), Len(reset))
      /\ DOMAIN pin = 1..Len(pin) /\ DOMAIN pin' = 1..Len(pin') /\ Len(pin) \in Nat
  <2>1. t \in PinWrites /\ t.row \in 0..Len(pin) /\ pin' \in Seq(PinRows)
    BY WritePinTables
  <2> QED BY <2>1 DEF PinTypes
<1>1. /\ t.row = 0 => pin' = Append(pin, [value |-> t.value, active |-> t.to = "on", deleted |-> FALSE])
      /\ t.row # 0 => pin' = IF pin[t.row].deleted THEN pin ELSE [pin EXCEPT ![t.row] = Written(pin[t.row], t)]
  BY WritePinTables
<1>2. crowded' = (crowded \/ (t.row # 0 /\ t.to = "on" /\ ~t.activates /\ ~pin[t.row].active))
  BY DEF WritePin
<1>3. /\ t.row = 0 => t.value \in Pins /\ (t.to = "on" <=> t.activates)
      /\ t.value \in Pins => t.value # NoPin
  BY <1>0, PinsAssumption DEF TaskFits
<1> HIDE DEF t
<1>4. CASE t.row = 0
  <2> DEFINE x == [value |-> t.value, active |-> t.to = "on", deleted |-> FALSE]
  <2>1. pin' = Append(pin, x) /\ own = Len(pin) + 1 /\ x \in PinRows
    BY <1>1, <1>3, <1>4 DEF OwnRow, PinRows
  <2>2. x.value = t.value /\ (x.active <=> t.to = "on")
    OBVIOUS
  <2> HIDE DEF x
  <2>3. /\ Len(pin') = Len(pin) + 1 /\ pin'[own] = x
        /\ \A j \in 1..Len(pin) : pin'[j] = pin[j]
    BY <1>0, <2>1
  <2>4. \A j \in 1..Len(pin') : j = own \/ j \in 1..Len(pin)
    BY <1>0, <2>1, <2>3
  <2>5. \A j \in listActive' : j = own \/ (j \in listActive /\ pin'[j] = pin[j])
    BY <1>0, <2>3, <2>4 DEF listActive, KeptPins
  <2>6. own \in listActive' => t.activates /\ t.value \in Pins /\ pin'[own].value = t.value
    BY <1>3, <1>4, <2>2, <2>3 DEF listActive, KeptPins
  <2> HIDE DEF own
  <2> QED BY <1>3, <1>4, <2>5, <2>6 DEF own, t
<1>5. CASE t.row # 0 /\ pin[t.row].deleted
  <2>1. pin' = pin /\ own = t.row
    BY <1>1, <1>5 DEF OwnRow
  <2>2. listActive' = listActive /\ own \notin listActive'
    BY <1>5, <2>1 DEF listActive, KeptPins
  <2> HIDE DEF own
  <2> QED BY <2>1, <2>2 DEF own, t
<1>6. CASE t.row # 0 /\ ~pin[t.row].deleted
  <2> DEFINE x == Written(pin[t.row], t)
  <2>1. pin' = [pin EXCEPT ![t.row] = x] /\ own = t.row /\ own \in 1..Len(pin)
    <3>1. pin' = [pin EXCEPT ![t.row] = x]
      BY <1>1, <1>6
    <3>2. own = t.row
      BY <1>6 DEF OwnRow
    <3>3. t.row \in 1..Len(pin)
      BY <1>0, <1>6
    <3> QED BY <3>1, <3>2, <3>3
  <2>2. /\ x.value = IF t.value = NoPin THEN pin[own].value ELSE t.value
        /\ x.active = IF t.to = "keep" THEN pin[own].active ELSE t.to = "on"
    BY <2>1 DEF Written
  <2> HIDE DEF x, own
  <2>3. /\ Len(pin') = Len(pin) /\ pin'[own] = x
        /\ \A j \in 1..Len(pin) : j # own => pin'[j] = pin[j]
    BY <1>0, <2>1
  <2>4. \A j \in listActive' : j = own \/ (j \in listActive /\ pin'[j] = pin[j])
    BY <1>0, <2>3 DEF listActive, KeptPins
  <2>5. ASSUME own \in listActive'
        PROVE  /\ t.value \in Pins => pin'[own].value = t.value
               /\ t.value = NoPin => pin'[own].value = pin[own].value
               /\ t.to = "on" \/ own \in listActive
               /\ t.activates \/ own \in listActive \/ crowded'
    <3>1. x.active
      BY <2>3, <2>5 DEF listActive, KeptPins
    <3>2. t.to = "on" \/ own \in listActive
      <4>1. CASE t.to = "keep"
        <5>1. pin[own].active
          BY <2>2, <3>1, <4>1
        <5> QED BY <1>0, <1>6, <2>1, <5>1 DEF listActive, KeptPins
      <4>2. CASE t.to # "keep"
        BY <2>2, <3>1, <4>2
      <4> QED BY <4>1, <4>2
    <3>3. t.activates \/ own \in listActive \/ crowded'
      <4> SUFFICES ASSUME ~t.activates, own \notin listActive PROVE crowded'
        OBVIOUS
      <4>1. t.to = "on" /\ ~pin[own].active
        BY <1>0, <1>6, <2>1, <3>2 DEF listActive, KeptPins
      <4> QED BY <1>2, <1>6, <2>1, <4>1
    <3> QED BY <1>3, <2>2, <2>3, <3>2, <3>3
  <2> QED BY <1>3, <1>6, <2>1, <2>4, <2>5 DEF own, t
<1> QED BY <1>4, <1>5, <1>6

----------------------------------------
(* The number of active PINs.  A request that was counted in is the only one *)
(* that may still make a row active, and there is room for it.               *)

Activating(t) == t.at \in Pending /\ t.activates

BoundInv ==
  ~crowded => /\ Cardinality(listActive) <= MAX_ACTIVE_PINS
              /\ \A r, s \in Guards : Activating(task[r]) /\ Activating(task[s]) => r = s
              /\ (\E r \in Guards : Activating(task[r])) => Cardinality(listActive) < MAX_ACTIVE_PINS

\* The active rows are finitely many.
LEMMA ActiveFinite ==
  ASSUME PinTypes
  PROVE  IsFiniteSet(listActive) /\ Cardinality(listActive) \in Nat /\ listActive \subseteq 1..Len(pin)
<1>1. Len(pin) \in Nat /\ listActive \subseteq 1..Len(pin)
  BY DEF PinTypes, listActive, KeptPins
<1>2. IsFiniteSet(1..Len(pin))
  BY <1>1, FS_Interval
<1> QED BY <1>1, <1>2, FS_Subset, FS_CardinalityType

\* A step after which no more rows are active and no more requests will add one.
LEMMA BoundKept ==
  ASSUME PinTypes, PinTypes', BoundInv, ~crowded' => ~crowded, listActive' \subseteq listActive,
         \A r \in Guards : Activating(task'[r]) => Activating(task[r])
  PROVE  BoundInv'
<1>1. Cardinality(listActive') <= Cardinality(listActive) /\ Cardinality(listActive') \in Nat
      /\ Cardinality(listActive) \in Nat
  <2>1. IsFiniteSet(listActive) /\ Cardinality(listActive) \in Nat /\ Cardinality(listActive') \in Nat
    BY ActiveFinite, FS_Subset, FS_CardinalityType
  <2> QED BY <2>1, FS_Subset
<1> QED BY <1>1, PinsAssumption DEF BoundInv

\* A request that is counted in, or does not count.
LEMMA BoundCounts ==
  ASSUME PinTypes, BoundInv, NEW r \in Guards, NEW activates \in BOOLEAN, NEW x,
         UnderLimit(activates), task' = [task EXCEPT ![r] = x], Activating(x) => activates,
         crowded' = Crowds(r, activates), pin' = pin
  PROVE  BoundInv'
<1>1. listActive' = listActive /\ Cardinality(listActive) \in Nat
  BY ActiveFinite DEF listActive, KeptPins
<1>2. task'[r] = x /\ \A s \in Guards \ {r} : task'[s] = task[s]
  BY DEF PinTypes
<1>3. ASSUME ~crowded'
      PROVE  /\ Cardinality(listActive) <= MAX_ACTIVE_PINS
             /\ \A s, v \in Guards : Activating(task'[s]) /\ Activating(task'[v]) => s = v
             /\ (\E s \in Guards : Activating(task'[s])) => Cardinality(listActive) < MAX_ACTIVE_PINS
  <2>1. /\ ~crowded
        /\ activates => \A s \in Guards \ {r} : ~Activating(task[s])
    BY <1>3 DEF Crowds, Activating
  <2>2. /\ Cardinality(listActive) <= MAX_ACTIVE_PINS
        /\ \A s, v \in Guards : Activating(task[s]) /\ Activating(task[v]) => s = v
        /\ (\E s \in Guards : Activating(task[s])) => Cardinality(listActive) < MAX_ACTIVE_PINS
    BY <2>1 DEF BoundInv
  <2>3. CASE activates
    <3>1. Cardinality(listActive) < MAX_ACTIVE_PINS
      BY <2>3 DEF UnderLimit, Limit
    <3> QED BY <1>2, <2>1, <2>2, <2>3, <3>1
  <2>4. CASE ~activates
    <3>1. \A s \in Guards : Activating(task'[s]) => s # r /\ Activating(task[s])
      BY <1>2, <2>4
    <3> QED BY <2>2, <3>1
  <2> QED BY <2>3, <2>4
<1> QED BY <1>1, <1>3 DEF BoundInv

\* A write: who was counted in had room, who was not adds nothing.
LEMMA BoundWrites ==
  ASSUME PinTypes, PinTypes', BoundInv, NEW r \in Guards, WritePin(r)
  PROVE  BoundInv'
<1> DEFINE t == task[r]
           own == OwnRow(t)
<1>1. /\ \A j \in listActive' : j = own \/ j \in listActive
      /\ own \in listActive' => t.activates \/ own \in listActive \/ crowded'
      /\ t.at = "write"
  BY WriteActive DEF WritePin
<1>2. /\ ~Activating(task'[r]) /\ \A s \in Guards \ {r} : task'[s] = task[s]
      /\ ~crowded' => ~crowded
  <2>1. task' = [task EXCEPT ![r] = Free] \/ task' = [task EXCEPT ![r].at = "markUsed"]
    BY DEF WritePin, Finish, TaskTo
  <2>2. t \in PinWrites /\ task \in [Guards -> PinTasks]
    BY WritePinTables DEF PinTypes
  <2>3. [t EXCEPT !.at = "markUsed"].at = "markUsed"
    BY <2>2 DEF PinWrites
  <2>4. task'[r].at \in {"idle", "markUsed"} /\ \A s \in Guards \ {r} : task'[s] = task[s]
    <3>1. CASE task' = [task EXCEPT ![r] = Free]
      BY <2>2, <3>1 DEF Free
    <3>2. CASE task' = [task EXCEPT ![r].at = "markUsed"]
      <4>1. task' = [task EXCEPT ![r] = [t EXCEPT !.at = "markUsed"]]
        BY <2>2, <3>2
      <4>2. task'[r] = [t EXCEPT !.at = "markUsed"] /\ \A s \in Guards \ {r} : task'[s] = task[s]
        BY <2>2, <4>1
      <4> QED BY <2>3, <4>2
    <3> QED BY <2>1, <3>1, <3>2
  <2>5. ~crowded' => ~crowded
    BY DEF WritePin
  <2> QED BY <2>4, <2>5 DEF Activating, Pending
<1> HIDE DEF own
<1>3. CASE t.activates
  <2>1. Activating(t)
    BY <1>1, <1>3 DEF Activating, Pending
  <2>2. Cardinality(listActive') <= Cardinality(listActive) + 1 /\ Cardinality(listActive') \in Nat
        /\ Cardinality(listActive) \in Nat
    <3> DEFINE S == listActive
               T == listActive'
    <3>1. IsFiniteSet(S) /\ Cardinality(S) \in Nat /\ T \subseteq S \cup {own}
      BY <1>1, ActiveFinite
    <3> HIDE DEF S, T
    <3>2. IsFiniteSet(S \cup {own}) /\ Cardinality(S \cup {own}) <= Cardinality(S) + 1
          /\ Cardinality(S \cup {own}) \in Nat
      <4>1. IsFiniteSet(S \cup {own})
        BY <3>1, FS_AddElement
      <4>2. Cardinality(S \cup {own}) = IF own \in S THEN Cardinality(S) ELSE Cardinality(S) + 1
        BY <3>1, FS_AddElement
      <4> QED BY <3>1, <4>1, <4>2
    <3>3. IsFiniteSet(T) /\ Cardinality(T) <= Cardinality(S \cup {own})
      BY <3>1, <3>2, FS_Subset
    <3>4. Cardinality(T) \in Nat
      BY <3>3, FS_CardinalityType
    <3>5. Cardinality(T) <= Cardinality(S) + 1
      BY <3>1, <3>2, <3>3, <3>4
    <3> QED BY <3>1, <3>4, <3>5 DEF S, T
  <2>3. ASSUME ~crowded'
        PROVE  /\ Cardinality(listActive') <= MAX_ACTIVE_PINS
               /\ \A s \in Guards : ~Activating(task'[s])
    <3>1. Cardinality(listActive) < MAX_ACTIVE_PINS /\ \A s \in Guards : Activating(task[s]) => s = r
      BY <1>2, <2>1, <2>3 DEF BoundInv
    <3>2. \A s \in Guards : ~Activating(task'[s])
      BY <1>2, <3>1
    <3> QED BY <2>2, <3>1, <3>2, PinsAssumption
  <2> QED BY <2>3 DEF BoundInv
<1>4. CASE ~t.activates
  <2>1. ~crowded' => listActive' \subseteq listActive
    BY <1>1, <1>4
  <2>2. CASE crowded'
    BY <2>2 DEF BoundInv
  <2>3. CASE ~crowded'
    BY <1>2, <2>1, <2>3, BoundKept
  <2> QED BY <2>2, <2>3
<1> QED BY <1>3, <1>4

\* A request that goes on to its next place keeps what it carries.
LEMMA MovedOn ==
  ASSUME PinTypes, NEW r \in Guards, NEW at, TaskTo(r, at), task[r] \in PinWrites \cup ResetAsks
  PROVE  /\ task'[r].at = at /\ task'[r].row = task[r].row
         /\ task[r] \in PinWrites => /\ task'[r].value = task[r].value /\ task'[r].to = task[r].to
                                     /\ task'[r].activates = task[r].activates
                                     /\ task'[r].reset = task[r].reset
         /\ \A s \in Guards \ {r} : task'[s] = task[s]
<1> DEFINE t == task[r]
           x == [t EXCEPT !.at = at]
<1>1. task' = [task EXCEPT ![r] = x] /\ task \in [Guards -> PinTasks]
  BY DEF TaskTo, PinTypes
<1>2. x.at = at /\ x.row = t.row
  BY DEF PinWrites, ResetAsks
<1>3. t \in PinWrites => x.value = t.value /\ x.to = t.to /\ x.activates = t.activates /\ x.reset = t.reset
  BY DEF PinWrites
<1> HIDE DEF x
<1>4. task'[r] = x /\ \A s \in Guards \ {r} : task'[s] = task[s]
  BY <1>1
<1> QED BY <1>2, <1>3, <1>4 DEF t

\* One that ends, or starts, leaves the others where they are.
LEMMA OneMoves ==
  ASSUME PinTypes, NEW r \in Guards, NEW x, task' = [task EXCEPT ![r] = x]
  PROVE  task'[r] = x /\ \A s \in Guards \ {r} : task'[s] = task[s]
BY DEF PinTypes

\* Every step keeps the number of active PINs in its bound.
LEMMA BoundStep ==
  ASSUME PinTypes, PinTypes', BoundInv, [KeyPinsNext]_pinVars
  PROVE  BoundInv'
<1>1. ASSUME NEW r \in Guards, NEW x, task' = [task EXCEPT ![r] = x], Activating(x) => Activating(task[r]),
             crowded' = crowded, listActive' \subseteq listActive
      PROVE  BoundInv'
  <2>1. \A s \in Guards : Activating(task'[s]) => Activating(task[s])
    BY <1>1, OneMoves
  <2> QED BY <1>1, <2>1, BoundKept
<1>2. pin' = pin => listActive' \subseteq listActive
  BY DEF listActive, KeptPins
<1>3. \A x : x.at \notin Pending => ~Activating(x)
  BY DEF Activating
<1>4. Free.at \notin Pending
  BY DEF Free, Pending
<1>5. ASSUME NEW r \in Guards, PinCall(r) PROVE BoundInv'
  <2>1. ASSUME NEW value \in Pins, NEW active \in BOOLEAN, create(r, value, active) PROVE BoundInv'
    <3> DEFINE x == Writes("match", 0, value, IF active THEN "on" ELSE "off", active, 0)
    <3>1. UnderLimit(active) /\ task' = [task EXCEPT ![r] = x] /\ crowded' = Crowds(r, active) /\ pin' = pin
      BY <2>1 DEF create, Task
    <3>2. Activating(x) => active
      BY DEF Writes, Activating
    <3> HIDE DEF x
    <3> QED BY <3>1, <3>2, BoundCounts
  <2>2. ASSUME NEW i \in DOMAIN pin, NEW value \in Pins \cup {NoPin}, NEW to, update(r, i, value, to)
        PROVE  BoundInv'
    <3> DEFINE activates == to = "on" /\ ~pin[i].active
               x == Writes(IF value = NoPin THEN "write" ELSE "match", i, value, to, activates, 0)
    <3>1. UnderLimit(activates) /\ task' = [task EXCEPT ![r] = x] /\ crowded' = Crowds(r, activates) /\ pin' = pin
      BY <2>2 DEF update, Task
    <3>2. Activating(x) => activates
      BY DEF Writes, Activating
    <3>3. activates \in BOOLEAN
      OBVIOUS
    <3> HIDE DEF x, activates
    <3> QED BY <3>1, <3>2, <3>3, BoundCounts
  <2>3. ASSUME NEW i \in DOMAIN pin, NEW value \in Pins, changeInline(r, i, value) PROVE BoundInv'
    <3> DEFINE x == Writes("write", i, value, "keep", FALSE, 0)
    <3>1. task' = [task EXCEPT ![r] = x] /\ pin' = pin /\ crowded' = crowded /\ ~Activating(x)
      BY <2>3 DEF changeInline, Task, Writes, Activating
    <3> HIDE DEF x
    <3> QED BY <1>1, <1>2, <3>1
  <2>4. ASSUME NEW i \in DOMAIN pin, remove(r, i) PROVE BoundInv'
    <3> DEFINE y == [pin[i] EXCEPT !.deleted = TRUE]
    <3>0. pin \in Seq(PinRows) /\ DOMAIN pin = 1..Len(pin) /\ pin[i] \in PinRows
      BY DEF PinTypes
    <3>1. /\ task' = [task EXCEPT ![r] = Free] /\ pin' = [pin EXCEPT ![i] = y] /\ crowded' = crowded /\ y.deleted
      BY <2>4, <3>0 DEF remove, Task, PinRows
    <3> HIDE DEF y
    <3>2. DOMAIN pin' = DOMAIN pin /\ pin'[i] = y /\ \A j \in DOMAIN pin \ {i} : pin'[j] = pin[j]
      BY <3>0, <3>1
    <3>3. listActive' \subseteq listActive
      BY <3>1, <3>2 DEF listActive, KeptPins
    <3> QED BY <1>1, <1>3, <1>4, <3>1, <3>3
  <2>5. ASSUME NEW i \in DOMAIN pin, NEW a \in Admins, requestPinReset(r, i, a) PROVE BoundInv'
    <3> DEFINE x == [at |-> "supersede", row |-> i, by |-> a]
    <3>1. task' = [task EXCEPT ![r] = x] /\ pin' = pin /\ crowded' = crowded /\ x.at \notin Pending
      BY <2>5 DEF requestPinReset, Task, Pending
    <3> HIDE DEF x
    <3> QED BY <1>1, <1>2, <1>3, <3>1
  <2>6. ASSUME NEW k \in DOMAIN reset, NEW byLink \in BOOLEAN, verifyReset(r, k, byLink) PROVE BoundInv'
    <3> DEFINE x == [at |-> "markVerified", reset |-> k]
    <3>1. task' = [task EXCEPT ![r] = x] /\ pin' = pin /\ crowded' = crowded /\ x.at \notin Pending
      BY <2>6 DEF verifyReset, Task, Pending
    <3> HIDE DEF x
    <3> QED BY <1>1, <1>2, <1>3, <3>1
  <2>7. ASSUME NEW k \in DOMAIN reset, NEW value \in Pins, completePinReset(r, k, value) PROVE BoundInv'
    <3> DEFINE x == Writes("write", reset[k].pin, value, "keep", FALSE, k)
    <3>1. task' = [task EXCEPT ![r] = x] /\ pin' = pin /\ crowded' = crowded /\ ~Activating(x)
      BY <2>7 DEF completePinReset, Task, Writes, Activating
    <3> HIDE DEF x
    <3> QED BY <1>1, <1>2, <3>1
  <2> QED BY <1>5, <2>1, <2>2, <2>3, <2>4, <2>5, <2>6, <2>7 DEF PinCall
<1>6. ASSUME NEW r \in Guards, PinWork(r) PROVE BoundInv'
  <2>1. ASSUME Finish(r), pin' = pin, crowded' = crowded PROVE BoundInv'
    BY <1>1, <1>2, <1>3, <1>4, <2>1 DEF Finish
  <2>2. ASSUME NEW at, TaskTo(r, at), pin' = pin, crowded' = crowded, task[r] \in PinWrites \cup ResetAsks,
               at \in Pending => task[r] \in PinWrites /\ task[r].at \in Pending
        PROVE  BoundInv'
    <3>1. \A s \in Guards : Activating(task'[s]) => Activating(task[s])
      BY <2>2, MovedOn DEF Activating
    <3> QED BY <1>2, <2>2, <3>1, BoundKept
  <2>3. task[r] \in PinTasks
    BY DEF PinTypes
  <2>4. CASE Match(r)
    <3>1. task[r] \in PinWrites /\ task[r].at \in Pending
      BY <2>3, <2>4, TaskKinds DEF Match, Pending
    <3>2. pin' = pin /\ crowded' = crowded /\ (Finish(r) \/ TaskTo(r, "write"))
      BY <2>4 DEF Match
    <3> QED BY <2>1, <2>2, <3>1, <3>2
  <2>5. CASE WritePin(r)
    BY <2>5, BoundWrites
  <2>6. CASE invalidatePendingForPin(r)
    <3>1. task[r] \in ResetAsks /\ "insertReset" \notin Pending
      BY <2>3, <2>6, TaskKinds DEF invalidatePendingForPin, Pending
    <3>2. pin' = pin /\ crowded' = crowded /\ TaskTo(r, "insertReset")
      BY <2>6 DEF invalidatePendingForPin
    <3> QED BY <2>2, <3>1, <3>2
  <2>7. CASE createResetRequest(r) \/ markVerified(r) \/ markUsed(r) \/ TaskFails(r)
    BY <2>1, <2>7 DEF createResetRequest, markVerified, markUsed, TaskFails
  <2> QED BY <1>6, <2>4, <2>5, <2>6, <2>7 DEF PinWork
<1>7. CASE \E k \in DOMAIN reset : ResetAges(k)
  <2>1. task' = task /\ pin' = pin /\ crowded' = crowded
    BY <1>7 DEF ResetAges
  <2> QED BY <1>2, <2>1, BoundKept
<1>8. CASE UNCHANGED pinVars
  <2>1. task' = task /\ pin' = pin /\ crowded' = crowded
    BY <1>8 DEF pinVars
  <2> QED BY <1>2, <2>1, BoundKept
<1> QED BY <1>5, <1>6, <1>7, <1>8 DEF KeyPinsNext

----------------------------------------
(* The values of active PINs.  A PIN that was compared, and that no other    *)
(* request was writing at the time, has one writer, and no active row but the*)
(* writer's own has it.                                                      *)

Writer(t, value) == t.at = "write" /\ t.value = value

DistinctInv ==
  /\ ActiveIsDistinct
  /\ \A r \in Guards, value \in Pins \ loose : Writer(task[r], value) =>
       /\ \A s \in Guards : Writer(task[s], value) => s = r
       /\ \A j \in listActive : pin[j].value = value => j = task[r].row

\* A step that makes no row active and gives no PIN a new writer that was compared.
LEMMA DistinctKept ==
  ASSUME DistinctInv, loose \subseteq loose',
         \A j \in listActive' : j \in listActive /\ pin'[j].value = pin[j].value,
         \A r \in Guards, value \in Pins \ loose' : Writer(task'[r], value) =>
           Writer(task[r], value) /\ task'[r].row = task[r].row
  PROVE  DistinctInv'
<1>1. ActiveIsDistinct'
  BY DEF DistinctInv, ActiveIsDistinct
<1>2. ASSUME NEW r \in Guards, NEW value \in Pins \ loose', Writer(task'[r], value)
      PROVE  /\ \A s \in Guards : Writer(task'[s], value) => s = r
             /\ \A j \in listActive' : pin'[j].value = value => j = task'[r].row
  BY <1>2 DEF DistinctInv
<1> QED BY <1>1, <1>2 DEF DistinctInv

\* A comparison that finds no duplicate: the first active row with the PIN, if
\* there is one, is the request's own, and there is no second.
LEMMA MatchDistinct ==
  ASSUME PinTypes, DistinctInv, NEW r \in Guards, Match(r), TaskTo(r, "write")
  PROVE  DistinctInv'
<1> DEFINE v == task[r].value
           other == \E q1 \in Guards \ {r} : task[q1].at = "write" /\ task[q1].value = v
<1>1. /\ task[r] \in PinWrites /\ v \in Pins /\ task[r].at = "match" /\ pin' = pin
  <2>1. task[r] \in PinTasks /\ TaskFits(task[r], Len(pin), Len(reset)) /\ task[r].at = "match"
    BY DEF PinTypes, Match
  <2>2. task[r] \in PinWrites
    BY <2>1, TaskKinds
  <2> QED BY <2>1, <2>2 DEF TaskFits, Match
<1>2. /\ task'[r].at = "write" /\ task'[r].value = v /\ task'[r].row = task[r].row
      /\ \A s \in Guards \ {r} : task'[s] = task[s]
  BY <1>1, MovedOn
<1>3. ~Duplicate(v, task[r].row) /\ loose' = IF other THEN loose \cup {v} ELSE loose
  <2>1. CASE Duplicate(v, task[r].row)
    <3>1. task' = [task EXCEPT ![r] = Free]
      BY <2>1 DEF Match, Finish
    <3> QED BY <1>2, <3>1 DEF PinTypes, Free
  <2>2. CASE ~Duplicate(v, task[r].row)
    BY <2>2 DEF Match
  <2> QED BY <2>1, <2>2
<1>4. listActive' = listActive
  BY <1>1 DEF listActive, KeptPins
<1>5. ActiveIsDistinct'
  BY <1>1, <1>3, <1>4 DEF DistinctInv, ActiveIsDistinct
<1>6. ASSUME v \notin loose'
      PROVE  /\ \A s \in Guards \ {r} : ~Writer(task[s], v)
             /\ \A j \in listActive : pin[j].value = v => j = task[r].row
  <2>1. ~other /\ v \notin loose
    BY <1>3, <1>6
  <2>2. ASSUME NEW j \in listActive, pin[j].value = v PROVE j = task[r].row
    <3>1. \A i \in listActive : pin[i].value = v => i = j
      BY <2>1, <2>2 DEF DistinctInv, ActiveIsDistinct
    <3>2. j \in 1..Len(pin) /\ Len(pin) \in Nat
      BY ActiveFinite DEF PinTypes
    <3>3. \A i \in listActive : pin[i].value = v => j <= i
      BY <3>1, <3>2
    <3>4. j \in verifyPlaintext(v)
      BY <2>2, <3>3 DEF verifyPlaintext
    <3> QED BY <1>3, <3>4 DEF Duplicate
  <2> QED BY <2>1, <2>2 DEF Writer
<1>7. ASSUME NEW a \in Guards, NEW value \in Pins \ loose', Writer(task'[a], value)
      PROVE  /\ \A s \in Guards : Writer(task'[s], value) => s = a
             /\ \A j \in listActive' : pin'[j].value = value => j = task'[a].row
  <2>1. CASE a = r
    <3>1. value = v
      BY <1>2, <1>7, <2>1 DEF Writer
    <3> QED BY <1>1, <1>2, <1>4, <1>6, <2>1, <3>1
  <2>2. CASE a # r
    <3>1. Writer(task[a], value) /\ task'[a] = task[a] /\ value \notin loose
      BY <1>2, <1>3, <1>7, <2>2
    <3>2. value # v
      BY <1>6, <2>2, <3>1
    <3>3. \A s \in Guards : Writer(task'[s], value) => s = a
      <4> SUFFICES ASSUME NEW s \in Guards, Writer(task'[s], value) PROVE s = a
        OBVIOUS
      <4>1. s # r
        BY <1>2, <3>2 DEF Writer
      <4> QED BY <1>2, <3>1, <4>1 DEF DistinctInv
    <3> QED BY <1>1, <1>4, <3>1, <3>3 DEF DistinctInv
  <2> QED BY <2>1, <2>2
<1> QED BY <1>5, <1>7 DEF DistinctInv

\* A write: its PIN was compared, or counts as loose.
LEMMA WriteDistinct ==
  ASSUME PinTypes, DistinctInv, NEW r \in Guards, WritePin(r)
  PROVE  DistinctInv'
<1> DEFINE t == task[r]
           own == OwnRow(t)
<1>1. /\ \A j \in listActive' : j = own \/ (j \in listActive /\ pin'[j] = pin[j])
      /\ t.value \in Pins /\ own \in listActive' => pin'[own].value = t.value
      /\ t.value = NoPin /\ own \in listActive' =>
           /\ t.row # 0 /\ pin'[own].value = pin[t.row].value
           /\ t.to = "on" \/ t.row \in listActive
  BY WriteActive
<1>2. /\ t \in PinWrites /\ t.at = "write" /\ t.value \in Pins \cup {NoPin}
      /\ t.row # 0 => own = t.row
      /\ listActive \subseteq 1..Len(pin)
  <2>1. t \in PinWrites /\ t.at = "write"
    BY WritePinTables
  <2>2. t.value \in Pins \cup {NoPin}
    BY <2>1 DEF PinWrites
  <2>3. t.row # 0 => own = t.row
    BY DEF OwnRow
  <2> QED BY <2>1, <2>2, <2>3, ActiveFinite
<1>3. /\ loose \subseteq loose'
      /\ t.row # 0 /\ t.value = NoPin /\ t.to = "on" => pin[t.row].value \in loose'
  BY DEF WritePin
<1>4. task'[r].at # "write" /\ \A s \in Guards \ {r} : task'[s] = task[s]
  <2>1. Finish(r) \/ TaskTo(r, "markUsed")
    BY DEF WritePin
  <2>2. CASE Finish(r)
    <3>1. task' = [task EXCEPT ![r] = Free]
      BY <2>2 DEF Finish
    <3>2. task'[r] = Free /\ \A s \in Guards \ {r} : task'[s] = task[s]
      BY <3>1, OneMoves, FreeFits
    <3> QED BY <3>2 DEF Free
  <2>3. CASE TaskTo(r, "markUsed")
    BY <1>2, <2>3, MovedOn
  <2> QED BY <2>1, <2>2, <2>3
<1> HIDE DEF own
<1>5. \A j \in listActive : j # 0
  BY <1>2 DEF PinTypes
<1>6. ASSUME NEW j \in listActive, j # own, own \in listActive', pin'[own].value = pin[j].value
      PROVE  pin[j].value \in loose'
  <2>1. CASE t.value \in Pins
    <3> SUFFICES ASSUME pin[j].value \notin loose' PROVE FALSE
      OBVIOUS
    <3>1. Writer(t, pin[j].value) /\ pin[j].value \in Pins \ loose
      BY <1>1, <1>2, <1>3, <1>6, <2>1 DEF Writer
    <3>2. j = t.row
      BY <3>1 DEF DistinctInv
    <3> QED BY <1>2, <1>5, <1>6, <3>2
  <2>2. CASE t.value = NoPin
    <3>1. t.row # 0 /\ own = t.row /\ pin[t.row].value = pin[j].value /\ (t.to = "on" \/ t.row \in listActive)
      BY <1>1, <1>2, <1>6, <2>2
    <3>2. CASE t.to = "on"
      BY <1>3, <2>2, <3>1, <3>2
    <3>3. CASE t.row \in listActive
      <4>1. pin[j].value \in loose
        BY <1>6, <3>1, <3>3 DEF DistinctInv, ActiveIsDistinct
      <4> QED BY <1>3, <4>1
    <3> QED BY <3>1, <3>2, <3>3
  <2> QED BY <1>2, <2>1, <2>2
<1>7. ActiveIsDistinct'
  <2> SUFFICES ASSUME NEW i \in listActive', NEW j \in listActive', i # j, pin'[i].value = pin'[j].value
               PROVE  pin'[i].value \in loose'
    BY DEF ActiveIsDistinct
  <2>1. CASE i = own
    BY <1>1, <1>6, <2>1
  <2>2. CASE j = own
    BY <1>1, <1>6, <2>2
  <2>3. CASE i # own /\ j # own
    BY <1>1, <1>3, <2>3 DEF DistinctInv, ActiveIsDistinct
  <2> QED BY <2>1, <2>2, <2>3
<1>8. ASSUME NEW a \in Guards, NEW value \in Pins \ loose', Writer(task'[a], value)
      PROVE  /\ \A s \in Guards : Writer(task'[s], value) => s = a
             /\ \A j \in listActive' : pin'[j].value = value => j = task'[a].row
  <2>1. a # r /\ task'[a] = task[a] /\ Writer(task[a], value) /\ value \in Pins \ loose
    BY <1>3, <1>4, <1>8 DEF Writer
  <2>2. /\ \A s \in Guards : Writer(task[s], value) => s = a
        /\ \A j \in listActive : pin[j].value = value => j = task[a].row
    BY <2>1 DEF DistinctInv
  <2>3. \A s \in Guards : Writer(task'[s], value) => s = a
    BY <1>4, <2>2 DEF Writer
  <2>4. ASSUME NEW j \in listActive', pin'[j].value = value PROVE j = task[a].row
    <3>1. CASE j # own
      BY <1>1, <2>2, <2>4, <3>1
    <3>2. CASE j = own /\ t.value \in Pins
      <4>1. Writer(t, value)
        BY <1>1, <1>2, <2>4, <3>2 DEF Writer
      <4> QED BY <2>1, <2>2, <4>1
    <3>3. CASE j = own /\ t.value = NoPin
      <4>1. /\ t.row # 0 /\ own = t.row /\ pin[t.row].value = value
            /\ t.to = "on" \/ t.row \in listActive
        BY <1>1, <1>2, <2>4, <3>3
      <4>2. t.to # "on"
        BY <1>3, <3>3, <4>1
      <4> QED BY <2>2, <3>3, <4>1, <4>2
    <3> QED BY <1>2, <3>1, <3>2, <3>3
  <2> QED BY <2>1, <2>3, <2>4
<1> QED BY <1>7, <1>8 DEF DistinctInv

\* Every step keeps the active PINs apart.
LEMMA DistinctStep ==
  ASSUME PinTypes, DistinctInv, [KeyPinsNext]_pinVars
  PROVE  DistinctInv'
<1>1. pin' = pin => \A j \in listActive' : j \in listActive /\ pin'[j].value = pin[j].value
  BY DEF listActive, KeptPins
<1>2. ASSUME NEW r \in Guards, NEW x, task' = [task EXCEPT ![r] = x], loose \subseteq loose',
             \A value \in Pins \ loose' : ~Writer(x, value),
             \A j \in listActive' : j \in listActive /\ pin'[j].value = pin[j].value
      PROVE  DistinctInv'
  <2>1. task'[r] = x /\ \A s \in Guards \ {r} : task'[s] = task[s]
    BY <1>2, OneMoves
  <2>2. \A s \in Guards, value \in Pins \ loose' : Writer(task'[s], value) =>
          Writer(task[s], value) /\ task'[s].row = task[s].row
    BY <1>2, <2>1
  <2> QED BY <1>2, <2>2, DistinctKept
<1>3. \A x : x.at # "write" => \A value : ~Writer(x, value)
  BY DEF Writer
<1>4. Free.at # "write"
  BY DEF Free
<1>5. ASSUME NEW r \in Guards, PinCall(r) PROVE DistinctInv'
  <2>1. ASSUME NEW value \in Pins, NEW active \in BOOLEAN, create(r, value, active) PROVE DistinctInv'
    <3> DEFINE x == Writes("match", 0, value, IF active THEN "on" ELSE "off", active, 0)
    <3>1. task' = [task EXCEPT ![r] = x] /\ pin' = pin /\ loose' = loose /\ x.at = "match"
      BY <2>1 DEF create, Task, Writes
    <3> HIDE DEF x
    <3> QED BY <1>1, <1>2, <1>3, <3>1
  <2>2. ASSUME NEW i \in DOMAIN pin, NEW value \in Pins \cup {NoPin}, NEW to, update(r, i, value, to)
        PROVE  DistinctInv'
    <3> DEFINE activates == to = "on" /\ ~pin[i].active
               x == Writes(IF value = NoPin THEN "write" ELSE "match", i, value, to, activates, 0)
    <3>1. task' = [task EXCEPT ![r] = x] /\ pin' = pin /\ loose' = loose
      BY <2>2 DEF update, Task
    <3>2. x.value = value /\ x.at = IF value = NoPin THEN "write" ELSE "match"
      BY DEF Writes
    <3> HIDE DEF x, activates
    <3>3. \A v \in Pins : ~Writer(x, v)
      BY <3>2, PinsAssumption DEF Writer
    <3> QED BY <1>1, <1>2, <3>1, <3>3
  <2>3. ASSUME NEW i \in DOMAIN pin, NEW value \in Pins, changeInline(r, i, value) PROVE DistinctInv'
    <3> DEFINE x == Writes("write", i, value, "keep", FALSE, 0)
    <3>1. task' = [task EXCEPT ![r] = x] /\ pin' = pin /\ loose' = loose \cup {value} /\ x.value = value
      BY <2>3 DEF changeInline, Task, Writes
    <3> HIDE DEF x
    <3>2. \A v \in Pins \ loose' : ~Writer(x, v)
      BY <3>1 DEF Writer
    <3> QED BY <1>1, <1>2, <3>1, <3>2
  <2>4. ASSUME NEW i \in DOMAIN pin, remove(r, i) PROVE DistinctInv'
    <3> DEFINE y == [pin[i] EXCEPT !.deleted = TRUE]
    <3>0. pin \in Seq(PinRows) /\ DOMAIN pin = 1..Len(pin) /\ pin[i] \in PinRows
      BY DEF PinTypes
    <3>1. /\ task' = [task EXCEPT ![r] = Free] /\ pin' = [pin EXCEPT ![i] = y] /\ loose' = loose /\ y.deleted
      BY <2>4, <3>0 DEF remove, Task, PinRows
    <3> HIDE DEF y
    <3>2. DOMAIN pin' = DOMAIN pin /\ pin'[i] = y /\ \A j \in DOMAIN pin \ {i} : pin'[j] = pin[j]
      BY <3>0, <3>1
    <3>3. \A j \in listActive' : j \in listActive /\ pin'[j].value = pin[j].value
      BY <3>1, <3>2 DEF listActive, KeptPins
    <3> QED BY <1>2, <1>3, <1>4, <3>1, <3>3
  <2>5. ASSUME NEW i \in DOMAIN pin, NEW a \in Admins, requestPinReset(r, i, a) PROVE DistinctInv'
    <3> DEFINE x == [at |-> "supersede", row |-> i, by |-> a]
    <3>1. task' = [task EXCEPT ![r] = x] /\ pin' = pin /\ loose' = loose /\ x.at # "write"
      BY <2>5 DEF requestPinReset, Task
    <3> HIDE DEF x
    <3> QED BY <1>1, <1>2, <1>3, <3>1
  <2>6. ASSUME NEW k \in DOMAIN reset, NEW byLink \in BOOLEAN, verifyReset(r, k, byLink) PROVE DistinctInv'
    <3> DEFINE x == [at |-> "markVerified", reset |-> k]
    <3>1. task' = [task EXCEPT ![r] = x] /\ pin' = pin /\ loose' = loose /\ x.at # "write"
      BY <2>6 DEF verifyReset, Task
    <3> HIDE DEF x
    <3> QED BY <1>1, <1>2, <1>3, <3>1
  <2>7. ASSUME NEW k \in DOMAIN reset, NEW value \in Pins, completePinReset(r, k, value) PROVE DistinctInv'
    <3> DEFINE x == Writes("write", reset[k].pin, value, "keep", FALSE, k)
    <3>1. task' = [task EXCEPT ![r] = x] /\ pin' = pin /\ loose' = loose \cup {value} /\ x.value = value
      BY <2>7 DEF completePinReset, Task, Writes
    <3> HIDE DEF x
    <3>2. \A v \in Pins \ loose' : ~Writer(x, v)
      BY <3>1 DEF Writer
    <3> QED BY <1>1, <1>2, <3>1, <3>2
  <2> QED BY <1>5, <2>1, <2>2, <2>3, <2>4, <2>5, <2>6, <2>7 DEF PinCall
<1>6. ASSUME NEW r \in Guards, PinWork(r) PROVE DistinctInv'
  <2>1. ASSUME Finish(r), pin' = pin, loose' = loose PROVE DistinctInv'
    BY <1>1, <1>2, <1>3, <1>4, <2>1 DEF Finish
  <2>2. task[r] \in PinTasks
    BY DEF PinTypes
  <2>3. CASE Match(r)
    <3>1. (Finish(r) /\ pin' = pin /\ loose' = loose) \/ TaskTo(r, "write")
      BY <2>3 DEF Match
    <3> QED BY <2>1, <2>3, <3>1, MatchDistinct
  <2>4. CASE WritePin(r)
    BY <2>4, WriteDistinct
  <2>5. CASE invalidatePendingForPin(r)
    <3>1. task[r] \in ResetAsks /\ pin' = pin /\ loose' = loose /\ TaskTo(r, "insertReset")
      BY <2>2, <2>5, TaskKinds DEF invalidatePendingForPin
    <3>2. task'[r].at = "insertReset" /\ \A s \in Guards \ {r} : task'[s] = task[s]
      BY <3>1, MovedOn
    <3>3. \A s \in Guards, value \in Pins \ loose' : Writer(task'[s], value) =>
            Writer(task[s], value) /\ task'[s].row = task[s].row
      BY <1>3, <3>2
    <3> QED BY <1>1, <3>1, <3>3, DistinctKept
  <2>6. CASE createResetRequest(r) \/ markVerified(r) \/ markUsed(r) \/ TaskFails(r)
    BY <2>1, <2>6 DEF createResetRequest, markVerified, markUsed, TaskFails
  <2> QED BY <1>6, <2>3, <2>4, <2>5, <2>6 DEF PinWork
<1>7. CASE \E k \in DOMAIN reset : ResetAges(k)
  <2>1. task' = task /\ pin' = pin /\ loose' = loose
    BY <1>7 DEF ResetAges
  <2> QED BY <1>1, <2>1, DistinctKept
<1>8. CASE UNCHANGED pinVars
  <2>1. task' = task /\ pin' = pin /\ loose' = loose
    BY <1>8 DEF pinVars
  <2> QED BY <1>1, <2>1, DistinctKept
<1> QED BY <1>5, <1>6, <1>7, <1>8 DEF KeyPinsNext

----------------------------------------
(* Reset requests: what each step makes of their table.                      *)

\* A call leaves the resets alone, and its request is at no insertion; it completes
\* a reset only if that one may be completed, and then says who else was at it.
LEMMA CallOnResets ==
  ASSUME PinTypes, NEW r \in Guards, task[r] = Free, PinCall(r)
  PROVE  /\ reset' = reset /\ Len(pin') = Len(pin)
         /\ \A s \in Guards \ {r} : task'[s] = task[s]
         /\ task'[r].at # "insertReset"
         /\ \/ twice' = twice /\ task'[r].at \notin {"write", "markUsed"}
            \/ twice' = twice /\ task'[r].at = "write" /\ task'[r].reset = 0
            \/ \E k \in 1..Len(reset) :
                 /\ MayComplete(k)
                 /\ task'[r].at = "write" /\ task'[r].reset = k
                 /\ twice' = IF Completing(k) # {} THEN twice \cup {<<"reset", k>>} ELSE twice
<1>0. /\ pin \in Seq(PinRows) /\ DOMAIN pin = 1..Len(pin) /\ DOMAIN reset = 1..Len(reset)
      /\ \A i \in DOMAIN pin : pin[i] \in PinRows
  BY DEF PinTypes
<1>1. ASSUME NEW value \in Pins, NEW active \in BOOLEAN, create(r, value, active)
      PROVE  /\ reset' = reset /\ twice' = twice /\ Len(pin') = Len(pin)
             /\ task'[r].at = "match" /\ \A s \in Guards \ {r} : task'[s] = task[s]
  <2> DEFINE x == Writes("match", 0, value, IF active THEN "on" ELSE "off", active, 0)
  <2>1. task' = [task EXCEPT ![r] = x] /\ pin' = pin /\ reset' = reset /\ twice' = twice /\ x.at = "match"
    BY <1>1 DEF create, Task, Writes
  <2> HIDE DEF x
  <2> QED BY <2>1, OneMoves
<1>2. ASSUME NEW i \in DOMAIN pin, NEW value \in Pins \cup {NoPin}, NEW to, update(r, i, value, to)
      PROVE  /\ reset' = reset /\ twice' = twice /\ Len(pin') = Len(pin)
             /\ task'[r].at = "match" \/ (task'[r].at = "write" /\ task'[r].reset = 0)
             /\ \A s \in Guards \ {r} : task'[s] = task[s]
  <2> DEFINE activates == to = "on" /\ ~pin[i].active
             x == Writes(IF value = NoPin THEN "write" ELSE "match", i, value, to, activates, 0)
  <2>1. task' = [task EXCEPT ![r] = x] /\ pin' = pin /\ reset' = reset /\ twice' = twice
    BY <1>2 DEF update, Task
  <2>2. x.at \in {"match", "write"} /\ x.reset = 0
    BY DEF Writes
  <2> HIDE DEF x
  <2> QED BY <2>1, <2>2, OneMoves
<1>3. ASSUME NEW i \in DOMAIN pin, NEW value \in Pins, changeInline(r, i, value)
      PROVE  /\ reset' = reset /\ twice' = twice /\ Len(pin') = Len(pin)
             /\ task'[r].at = "write" /\ task'[r].reset = 0 /\ \A s \in Guards \ {r} : task'[s] = task[s]
  <2> DEFINE x == Writes("write", i, value, "keep", FALSE, 0)
  <2>1. /\ task' = [task EXCEPT ![r] = x] /\ pin' = pin /\ reset' = reset /\ twice' = twice
        /\ x.at = "write" /\ x.reset = 0
    BY <1>3 DEF changeInline, Task, Writes
  <2> HIDE DEF x
  <2> QED BY <2>1, OneMoves
<1>4. ASSUME NEW i \in DOMAIN pin, remove(r, i)
      PROVE  /\ reset' = reset /\ twice' = twice /\ Len(pin') = Len(pin)
             /\ task'[r].at = "idle" /\ \A s \in Guards \ {r} : task'[s] = task[s]
  <2> DEFINE y == [pin[i] EXCEPT !.deleted = TRUE]
  <2>1. /\ task' = [task EXCEPT ![r] = Free] /\ reset' = reset /\ twice' = twice
        /\ pin' = [pin EXCEPT ![i] = y] /\ y \in PinRows
    BY <1>0, <1>4 DEF remove, Task, PinRows
  <2> HIDE DEF y
  <2>2. Len(pin') = Len(pin)
    BY <1>0, <2>1
  <2>3. task'[r] = Free /\ \A s \in Guards \ {r} : task'[s] = task[s]
    BY <2>1, OneMoves
  <2> QED BY <2>1, <2>2, <2>3 DEF Free
<1>5. ASSUME NEW i \in DOMAIN pin, NEW a \in Admins, requestPinReset(r, i, a)
      PROVE  /\ reset' = reset /\ twice' = twice /\ Len(pin') = Len(pin)
             /\ task'[r].at = "supersede" /\ \A s \in Guards \ {r} : task'[s] = task[s]
  <2> DEFINE x == [at |-> "supersede", row |-> i, by |-> a]
  <2>1. /\ task' = [task EXCEPT ![r] = x] /\ pin' = pin /\ reset' = reset /\ twice' = twice
        /\ x.at = "supersede"
    BY <1>5 DEF requestPinReset, Task
  <2> HIDE DEF x
  <2> QED BY <2>1, OneMoves
<1>6. ASSUME NEW k \in DOMAIN reset, NEW byLink \in BOOLEAN, verifyReset(r, k, byLink)
      PROVE  /\ reset' = reset /\ twice' = twice /\ Len(pin') = Len(pin)
             /\ task'[r].at = "markVerified" /\ \A s \in Guards \ {r} : task'[s] = task[s]
  <2> DEFINE x == [at |-> "markVerified", reset |-> k]
  <2>1. /\ task' = [task EXCEPT ![r] = x] /\ pin' = pin /\ reset' = reset /\ twice' = twice
        /\ x.at = "markVerified"
    BY <1>6 DEF verifyReset, Task
  <2> HIDE DEF x
  <2> QED BY <2>1, OneMoves
<1>7. ASSUME NEW k \in DOMAIN reset, NEW value \in Pins, completePinReset(r, k, value)
      PROVE  /\ reset' = reset /\ Len(pin') = Len(pin) /\ k \in 1..Len(reset) /\ MayComplete(k)
             /\ task'[r].at = "write" /\ task'[r].reset = k /\ \A s \in Guards \ {r} : task'[s] = task[s]
             /\ twice' = IF Completing(k) # {} THEN twice \cup {<<"reset", k>>} ELSE twice
  <2> DEFINE x == Writes("write", reset[k].pin, value, "keep", FALSE, k)
  <2>1. /\ task' = [task EXCEPT ![r] = x] /\ pin' = pin /\ reset' = reset /\ MayComplete(k)
        /\ twice' = IF Completing(k) # {} THEN twice \cup {<<"reset", k>>} ELSE twice
    BY <1>7 DEF completePinReset, Task
  <2>2. x.at = "write" /\ x.reset = k
    BY DEF Writes
  <2> HIDE DEF x
  <2>3. task'[r] = x /\ \A s \in Guards \ {r} : task'[s] = task[s]
    BY <2>1, OneMoves
  <2> QED BY <1>0, <2>1, <2>2, <2>3
<1>8. CASE \E value \in Pins, active \in BOOLEAN : create(r, value, active)
  BY <1>1, <1>8
<1>9. CASE \E i \in DOMAIN pin, value \in Pins \cup {NoPin}, to \in {"on", "off", "keep"} : update(r, i, value, to)
  BY <1>2, <1>9
<1>10. CASE \E i \in DOMAIN pin, value \in Pins : changeInline(r, i, value)
  BY <1>3, <1>10
<1>11. CASE \E i \in DOMAIN pin : remove(r, i)
  BY <1>4, <1>11
<1>12. CASE \E i \in DOMAIN pin, a \in Admins : requestPinReset(r, i, a)
  BY <1>5, <1>12
<1>13. CASE \E k \in DOMAIN reset, byLink \in BOOLEAN : verifyReset(r, k, byLink)
  BY <1>6, <1>13
<1>14. CASE \E k \in DOMAIN reset, value \in Pins : completePinReset(r, k, value)
  <2>1. PICK k \in DOMAIN reset, value \in Pins : completePinReset(r, k, value)
    BY <1>14
  <2> QED BY <1>7, <2>1
<1> QED BY <1>8, <1>9, <1>10, <1>11, <1>12, <1>13, <1>14 DEF PinCall

\* The write of a PIN counts for its reset, if it has one.
LEMMA WriteOnResets ==
  ASSUME PinTypes, NEW r \in Guards, WritePin(r)
  PROVE  /\ task[r].at = "write" /\ task[r].reset \in 0..Len(reset)
         /\ Len(reset') = Len(reset) /\ twice' = twice
         /\ \A s \in Guards \ {r} : task'[s] = task[s]
         /\ task[r].reset = 0 => task'[r].at = "idle"
         /\ task[r].reset # 0 => task'[r].at = "markUsed" /\ task'[r].reset = task[r].reset
         /\ \A k \in 1..Len(reset) :
              /\ k # task[r].reset => reset'[k] = reset[k]
              /\ /\ reset'[k].pin = reset[k].pin /\ reset'[k].used = reset[k].used
                 /\ reset'[k].verified = reset[k].verified
              /\ k = task[r].reset => /\ reset'[k].done = reset[k].done + 1
                                      /\ reset'[k].early = (reset[k].early \/ ~reset[k].verified)
<1> DEFINE t == task[r]
           x == [reset[t.reset] EXCEPT !.done = reset[t.reset].done + 1,
                                       !.early = reset[t.reset].early \/ ~reset[t.reset].verified]
<1>1. /\ t \in PinWrites /\ t.at = "write" /\ t.reset \in 0..Len(reset)
      /\ t.reset = 0 => reset' = reset
      /\ t.reset # 0 => reset' = [reset EXCEPT ![t.reset] = x]
      /\ Len(reset') = Len(reset)
  BY WritePinTables
<1>2. reset \in Seq(ResetRows) /\ \A k \in 1..Len(reset) : reset[k] \in ResetRows
  BY DEF PinTypes
<1>3. t.reset # 0 =>
        /\ t.reset \in 1..Len(reset)
        /\ x.pin = reset[t.reset].pin /\ x.used = reset[t.reset].used /\ x.verified = reset[t.reset].verified
        /\ x.done = reset[t.reset].done + 1
        /\ x.early = (reset[t.reset].early \/ ~reset[t.reset].verified)
  BY <1>1, <1>2 DEF ResetRows
<1> HIDE DEF x
<1>4. \A k \in 1..Len(reset) :
        /\ k # t.reset => reset'[k] = reset[k]
        /\ k = t.reset => reset'[k] = x
  BY <1>1, <1>2
<1>5. /\ t.reset = 0 => task'[r].at = "idle"
      /\ t.reset # 0 => task'[r].at = "markUsed" /\ task'[r].reset = t.reset
      /\ \A s \in Guards \ {r} : task'[s] = task[s]
  <2>1. CASE t.reset = 0
    <3>1. task' = [task EXCEPT ![r] = Free]
      BY <2>1 DEF WritePin, Finish
    <3>2. task'[r] = Free /\ \A s \in Guards \ {r} : task'[s] = task[s]
      BY <3>1, OneMoves, FreeFits
    <3> QED BY <2>1, <3>2 DEF Free
  <2>2. CASE t.reset # 0
    <3>1. TaskTo(r, "markUsed")
      BY <2>2 DEF WritePin
    <3> QED BY <1>1, <2>2, <3>1, MovedOn
  <2> QED BY <2>1, <2>2
<1>6. twice' = twice
  BY DEF WritePin
<1>7. ASSUME NEW k \in 1..Len(reset)
      PROVE  /\ k # t.reset => reset'[k] = reset[k]
             /\ /\ reset'[k].pin = reset[k].pin /\ reset'[k].used = reset[k].used
                /\ reset'[k].verified = reset[k].verified
             /\ k = t.reset => /\ reset'[k].done = reset[k].done + 1
                               /\ reset'[k].early = (reset[k].early \/ ~reset[k].verified)
  <2>1. CASE k = t.reset
    <3>1. reset'[k] = x /\ t.reset # 0
      BY <1>2, <1>4, <2>1
    <3> QED BY <1>3, <2>1, <3>1
  <2>2. CASE k # t.reset
    BY <1>4, <2>2
  <2> QED BY <2>1, <2>2
<1> QED BY <1>1, <1>5, <1>6, <1>7

\* What was sent before is put out of use, and nothing else of a reset changes.
LEMMA SupersedeOnResets ==
  ASSUME PinTypes, NEW r \in Guards, invalidatePendingForPin(r)
  PROVE  /\ task[r].at = "supersede" /\ task'[r].at = "insertReset" /\ task'[r].row = task[r].row
         /\ \A s \in Guards \ {r} : task'[s] = task[s]
         /\ pin' = pin /\ Len(reset') = Len(reset)
         /\ \A k \in 1..Len(reset) :
              /\ reset'[k].pin = reset[k].pin /\ reset'[k].done = reset[k].done
              /\ reset'[k].early = reset[k].early /\ reset'[k].verified = reset[k].verified
              /\ reset'[k].used = (reset[k].used \/ k \in Superseded(task[r].row))
         /\ twice' = IF \E s \in Guards \ {r} : task[s].at = "insertReset" /\ task[s].row = task[r].row
                     THEN twice \cup {<<"pin", task[r].row>>} ELSE twice
<1> DEFINE fall(k) == [reset[k] EXCEPT !.used = reset[k].used \/ k \in Superseded(task[r].row)]
<1>0. /\ reset \in Seq(ResetRows) /\ DOMAIN reset = 1..Len(reset) /\ Len(reset) \in Nat
      /\ \A k \in 1..Len(reset) : reset[k] \in ResetRows
  BY DEF PinTypes
<1>1. /\ task[r].at = "supersede" /\ TaskTo(r, "insertReset") /\ pin' = pin
      /\ reset' = [k \in 1..Len(reset) |-> fall(k)]
      /\ twice' = IF \E s \in Guards \ {r} : task[s].at = "insertReset" /\ task[s].row = task[r].row
                  THEN twice \cup {<<"pin", task[r].row>>} ELSE twice
  BY <1>0 DEF invalidatePendingForPin
<1>2. task[r] \in ResetAsks
  <2>1. task[r] \in PinTasks
    BY DEF PinTypes
  <2> QED BY <1>1, <2>1, TaskKinds
<1>3. task'[r].at = "insertReset" /\ task'[r].row = task[r].row /\ \A s \in Guards \ {r} : task'[s] = task[s]
  BY <1>1, <1>2, MovedOn
<1>4. \A k \in 1..Len(reset) :
        /\ fall(k) \in ResetRows
        /\ fall(k).pin = reset[k].pin /\ fall(k).done = reset[k].done
        /\ fall(k).early = reset[k].early /\ fall(k).verified = reset[k].verified
        /\ fall(k).used = (reset[k].used \/ k \in Superseded(task[r].row))
  BY <1>0 DEF ResetRows
<1> HIDE DEF fall
<1>5. Len(reset') = Len(reset) /\ \A k \in 1..Len(reset) : reset'[k] = fall(k)
  <2>1. reset' \in Seq(ResetRows)
    BY <1>0, <1>1, <1>4
  <2> QED BY <1>0, <1>1, <2>1
<1> QED BY <1>1, <1>3, <1>4, <1>5

\* A new reset, neither verified nor used.
LEMMA InsertOnResets ==
  ASSUME PinTypes, NEW r \in Guards, createResetRequest(r)
  PROVE  /\ task[r].at = "insertReset" /\ task'[r] = Free /\ \A s \in Guards \ {r} : task'[s] = task[s]
         /\ pin' = pin /\ twice' = twice /\ Len(reset') = Len(reset) + 1
         /\ \A k \in 1..Len(reset) : reset'[k] = reset[k]
         /\ LET new == reset'[Len(reset) + 1]
            IN new.pin = task[r].row /\ new.done = 0 /\ ~new.early /\ ~new.verified /\ ~new.used
<1> DEFINE x == [pin |-> task[r].row, by |-> task[r].by, verified |-> FALSE,
                 used |-> FALSE, old |-> FALSE, done |-> 0, early |-> FALSE]
<1>1. /\ task[r].at = "insertReset" /\ task' = [task EXCEPT ![r] = Free] /\ pin' = pin /\ twice' = twice
      /\ reset' = Append(reset, x)
  BY DEF createResetRequest, Finish
<1>2. reset \in Seq(ResetRows) /\ task[r] \in ResetAsks /\ task[r].row \in 1..Len(pin) /\ Len(pin) \in Nat
  <2>1. task[r] \in PinTasks /\ TaskFits(task[r], Len(pin), Len(reset)) /\ reset \in Seq(ResetRows) /\ pin \in Seq(PinRows)
    BY DEF PinTypes
  <2>2. task[r] \in ResetAsks
    BY <1>1, <2>1, TaskKinds
  <2> QED BY <2>1, <2>2 DEF TaskFits
<1>3. /\ x \in ResetRows
      /\ x.pin = task[r].row /\ x.done = 0 /\ ~x.early /\ ~x.verified /\ ~x.used
  BY <1>2 DEF ResetRows, ResetAsks
<1> HIDE DEF x
<1>4. /\ Len(reset') = Len(reset) + 1 /\ reset'[Len(reset) + 1] = x
      /\ \A k \in 1..Len(reset) : reset'[k] = reset[k]
  BY <1>1, <1>2, <1>3
<1>5. task'[r] = Free /\ \A s \in Guards \ {r} : task'[s] = task[s]
  BY <1>1, OneMoves, FreeFits
<1> QED BY <1>1, <1>3, <1>4, <1>5

\* A mark on a reset.
LEMMA MarkOnResets ==
  ASSUME PinTypes, NEW r \in Guards, markVerified(r) \/ markUsed(r)
  PROVE  /\ task[r].at \in {"markVerified", "markUsed"}
         /\ task'[r] = Free /\ \A s \in Guards \ {r} : task'[s] = task[s]
         /\ pin' = pin /\ twice' = twice /\ Len(reset') = Len(reset)
         /\ \A k \in 1..Len(reset) :
              /\ reset'[k].pin = reset[k].pin /\ reset'[k].done = reset[k].done
              /\ reset'[k].early = reset[k].early
              /\ reset[k].verified => reset'[k].verified
              /\ reset[k].used => reset'[k].used
              /\ task[r].at = "markUsed" /\ task[r].reset = k => reset'[k].used
<1> DEFINE n == task[r].reset
           v == reset[n].verified \/ ~reset[n].used
           x == [reset[n] EXCEPT !.verified = v]
           y == [reset[n] EXCEPT !.used = TRUE]
<1>0. /\ reset \in Seq(ResetRows) /\ task[r] \in PinTasks /\ TaskFits(task[r], Len(pin), Len(reset))
      /\ \A k \in 1..Len(reset) : reset[k] \in ResetRows
  BY DEF PinTypes
<1>1. /\ task[r].at \in {"markVerified", "markUsed"} /\ n \in 1..Len(reset)
  <2>1. CASE markVerified(r)
    <3>1. task[r].at = "markVerified" /\ task[r] \in ResetChecks
      BY <1>0, <2>1, TaskKinds DEF markVerified
    <3> QED BY <1>0, <3>1 DEF TaskFits
  <2>2. CASE markUsed(r)
    <3>1. task[r].at = "markUsed" /\ task[r] \in PinWrites
      BY <1>0, <2>2, TaskKinds DEF markUsed
    <3>2. n \in 0..Len(reset) /\ n # 0
      BY <1>0, <3>1 DEF TaskFits
    <3> QED BY <1>0, <3>1, <3>2
  <2> QED BY <2>1, <2>2
<1>2. /\ task' = [task EXCEPT ![r] = Free] /\ pin' = pin /\ twice' = twice
      /\ task[r].at = "markVerified" => reset' = [reset EXCEPT ![n] = x]
      /\ task[r].at = "markUsed" => reset' = [reset EXCEPT ![n] = y]
  BY <1>0, <1>1 DEF markVerified, markUsed, Finish
<1>3. v \in BOOLEAN /\ (reset[n].verified => v)
  BY <1>0, <1>1 DEF ResetRows
<1> HIDE DEF v
<1>4. /\ x \in ResetRows /\ x.pin = reset[n].pin /\ x.done = reset[n].done /\ x.early = reset[n].early
      /\ (reset[n].verified => x.verified) /\ x.used = reset[n].used
      /\ y \in ResetRows /\ y.pin = reset[n].pin /\ y.done = reset[n].done /\ y.early = reset[n].early
      /\ y.verified = reset[n].verified /\ y.used
  BY <1>0, <1>1, <1>3 DEF ResetRows
<1> HIDE DEF x, y, n
<1>5. task'[r] = Free /\ \A s \in Guards \ {r} : task'[s] = task[s]
  BY <1>2, OneMoves, FreeFits
<1>6. /\ Len(reset') = Len(reset)
      /\ \A k \in 1..Len(reset) \ {n} : reset'[k] = reset[k]
      /\ task[r].at = "markVerified" => reset'[n] = x
      /\ task[r].at = "markUsed" => reset'[n] = y
  BY <1>0, <1>1, <1>2, <1>4
<1>7. ASSUME NEW k \in 1..Len(reset)
      PROVE  /\ reset'[k].pin = reset[k].pin /\ reset'[k].done = reset[k].done
             /\ reset'[k].early = reset[k].early
             /\ reset[k].verified => reset'[k].verified
             /\ reset[k].used => reset'[k].used
             /\ task[r].at = "markUsed" /\ n = k => reset'[k].used
  BY <1>1, <1>4, <1>6
<1> QED BY <1>1, <1>2, <1>5, <1>6, <1>7 DEF n

\* A request that stops.
LEMMA FailOnResets ==
  ASSUME PinTypes, NEW r \in Guards, TaskFails(r)
  PROVE  /\ reset' = reset /\ pin' = pin /\ task'[r] = Free /\ \A s \in Guards \ {r} : task'[s] = task[s]
         /\ twice \subseteq twice'
         /\ task[r].at = "markUsed" => <<"reset", task[r].reset>> \in twice'
<1>1. task' = [task EXCEPT ![r] = Free] /\ reset' = reset /\ pin' = pin
  BY DEF TaskFails, Finish
<1>2. task'[r] = Free /\ \A s \in Guards \ {r} : task'[s] = task[s]
  BY <1>1, OneMoves, FreeFits
<1> QED BY <1>1, <1>2 DEF TaskFails

\* A reset that grows old.
LEMMA AgeOnResets ==
  ASSUME PinTypes, NEW n \in DOMAIN reset, ResetAges(n)
  PROVE  /\ pin' = pin /\ twice' = twice /\ task' = task /\ Len(reset') = Len(reset)
         /\ \A k \in 1..Len(reset) :
              /\ reset'[k].pin = reset[k].pin /\ reset'[k].done = reset[k].done
              /\ reset'[k].early = reset[k].early /\ reset'[k].verified = reset[k].verified
              /\ reset'[k].used = reset[k].used
<1> DEFINE x == [reset[n] EXCEPT !.old = TRUE]
<1>1. reset \in Seq(ResetRows) /\ n \in 1..Len(reset) /\ reset[n] \in ResetRows
  BY DEF PinTypes
<1>2. reset' = [reset EXCEPT ![n] = x] /\ pin' = pin /\ twice' = twice /\ task' = task
  BY <1>1 DEF ResetAges
<1>3. /\ x \in ResetRows /\ x.pin = reset[n].pin /\ x.done = reset[n].done /\ x.early = reset[n].early
      /\ x.verified = reset[n].verified /\ x.used = reset[n].used
  BY <1>1 DEF ResetRows
<1> HIDE DEF x
<1>4. Len(reset') = Len(reset) /\ reset'[n] = x /\ \A k \in 1..Len(reset) \ {n} : reset'[k] = reset[k]
  BY <1>1, <1>2, <1>3
<1>5. ASSUME NEW k \in 1..Len(reset)
      PROVE  /\ reset'[k].pin = reset[k].pin /\ reset'[k].done = reset[k].done
             /\ reset'[k].early = reset[k].early /\ reset'[k].verified = reset[k].verified
             /\ reset'[k].used = reset[k].used
  BY <1>3, <1>4
<1> QED BY <1>2, <1>4, <1>5

----------------------------------------
(* A reset is used once.  Between the write of the PIN and the mark on the   *)
(* reset one request answers for it; a second one, or its end, shows.        *)

Completer(t, k) == t.at \in {"write", "markUsed"} /\ t.reset = k

SingleOf(k) ==
  /\ ~reset[k].early
  /\ \A r \in Guards : Completer(task[r], k) => reset[k].verified
  /\ <<"reset", k>> \notin twice =>
       /\ \A r, s \in Guards : Completer(task[r], k) /\ Completer(task[s], k) => r = s
       /\ reset[k].done <= 1
       /\ \A r \in Guards : Completer(task[r], k) /\ task[r].at = "write" => reset[k].done = 0
       /\ reset[k].done = 1 /\ ~reset[k].used =>
            \E r \in Guards : Completer(task[r], k) /\ task[r].at = "markUsed"

SingleInv == \A k \in 1..Len(reset) : SingleOf(k)

\* A step that does not touch the count of a reset and brings nobody to it.
LEMMA SingleKept ==
  ASSUME NEW k, SingleOf(k), reset'[k].early = reset[k].early, reset'[k].done = reset[k].done,
         reset[k].verified => reset'[k].verified, reset[k].used => reset'[k].used, twice \subseteq twice',
         \A r \in Guards : Completer(task'[r], k) => Completer(task[r], k) /\ task'[r].at = task[r].at,
         \A r \in Guards : Completer(task[r], k) /\ task[r].at = "markUsed" =>
           task'[r] = task[r] \/ reset'[k].used \/ <<"reset", k>> \in twice'
  PROVE  SingleOf(k)'
<1>1. ~reset'[k].early /\ \A r \in Guards : Completer(task'[r], k) => reset'[k].verified
  BY DEF SingleOf
<1>2. ASSUME <<"reset", k>> \notin twice'
      PROVE  /\ \A r, s \in Guards : Completer(task'[r], k) /\ Completer(task'[s], k) => r = s
             /\ reset'[k].done <= 1
             /\ \A r \in Guards : Completer(task'[r], k) /\ task'[r].at = "write" => reset'[k].done = 0
             /\ reset'[k].done = 1 /\ ~reset'[k].used =>
                  \E r \in Guards : Completer(task'[r], k) /\ task'[r].at = "markUsed"
  BY <1>2 DEF SingleOf
<1> QED BY <1>1, <1>2 DEF SingleOf

\* Every step keeps it.
LEMMA SingleStep ==
  ASSUME PinTypes, SingleInv, [KeyPinsNext]_pinVars
  PROVE  SingleInv'
<1>0. /\ Len(reset) \in Nat /\ \A k \in 1..Len(reset) : reset[k].done \in Nat /\ SingleOf(k)
      /\ \A s \in Guards : Completer(task[s], Len(reset) + 1) => FALSE
  <2>1. reset \in Seq(ResetRows)
    BY DEF PinTypes
  <2>2. \A k \in 1..Len(reset) : reset[k].done \in Nat
    <3>1. \A k \in 1..Len(reset) : reset[k] \in ResetRows
      BY <2>1
    <3> QED BY <3>1 DEF ResetRows
  <2>3. ASSUME NEW s \in Guards, Completer(task[s], Len(reset) + 1) PROVE FALSE
    <3>1. task[s] \in PinTasks /\ TaskFits(task[s], Len(pin), Len(reset))
      BY DEF PinTypes
    <3>2. task[s] \in PinWrites
      BY <2>3, <3>1, TaskKinds DEF Completer
    <3>3. task[s].reset \in 0..Len(reset)
      BY <3>1, <3>2 DEF TaskFits
    <3> QED BY <2>1, <2>3, <3>3 DEF Completer
  <2> QED BY <2>1, <2>2, <2>3 DEF SingleInv
<1>1. \A x, k : x.at \notin {"write", "markUsed"} => ~Completer(x, k)
  BY DEF Completer
<1>2. \A k : ~Completer(Free, k)
  BY DEF Free, Completer
<1>3. ASSUME NEW r \in Guards, task[r] = Free, PinCall(r) PROVE SingleInv'
  <2>1. reset' = reset /\ \A s \in Guards \ {r} : task'[s] = task[s]
    BY <1>3, CallOnResets
  <2>2. ASSUME NEW k \in 1..Len(reset), ~Completer(task'[r], k), twice \subseteq twice' PROVE SingleOf(k)'
    <3>1. \A s \in Guards : Completer(task'[s], k) => Completer(task[s], k) /\ task'[s].at = task[s].at
      BY <2>1, <2>2
    <3>2. \A s \in Guards : Completer(task[s], k) => task'[s] = task[s]
      BY <1>2, <1>3, <2>1
    <3> QED BY <1>0, <2>1, <2>2, <3>1, <3>2, SingleKept
  <2>3. CASE twice' = twice /\ (task'[r].at \notin {"write", "markUsed"}
                                \/ (task'[r].at = "write" /\ task'[r].reset = 0))
    <3>1. \A k \in 1..Len(reset) : ~Completer(task'[r], k)
      BY <1>0, <2>3 DEF Completer
    <3> QED BY <2>1, <2>2, <2>3, <3>1 DEF SingleInv
  <2>4. ASSUME NEW k \in 1..Len(reset), MayComplete(k), task'[r].at = "write", task'[r].reset = k,
               twice' = IF Completing(k) # {} THEN twice \cup {<<"reset", k>>} ELSE twice
        PROVE  SingleInv'
    <3>1. \A l \in 1..Len(reset) : l # k => SingleOf(l)'
      <4>1. \A l : l # k => ~Completer(task'[r], l)
        BY <2>4 DEF Completer
      <4>2. twice \subseteq twice'
        BY <2>4
      <4> QED BY <2>2, <4>1, <4>2
    <3>2. ~reset[k].used /\ reset[k].verified /\ SingleOf(k)
      BY <1>0, <2>4 DEF MayComplete
    <3>3. ~reset'[k].early /\ \A s \in Guards : Completer(task'[s], k) => reset'[k].verified
      BY <2>1, <3>2 DEF SingleOf
    <3>4. ASSUME <<"reset", k>> \notin twice'
          PROVE  /\ \A s, s2 \in Guards : Completer(task'[s], k) /\ Completer(task'[s2], k) => s = s2
                 /\ reset'[k].done = 0
      <4>1. Completing(k) = {} /\ <<"reset", k>> \notin twice
        BY <2>4, <3>4
      <4>2. \A s \in Guards : ~Completer(task[s], k)
        BY <4>1 DEF Completing, Completer
      <4>3. reset[k].done <= 1 /\ reset[k].done # 1
        BY <3>2, <4>1, <4>2 DEF SingleOf
      <4>4. \A s \in Guards : Completer(task'[s], k) => s = r
        BY <2>1, <4>2
      <4> QED BY <1>0, <2>1, <4>3, <4>4
    <3>5. SingleOf(k)'
      BY <3>3, <3>4 DEF SingleOf
    <3> QED BY <2>1, <3>1, <3>5 DEF SingleInv
  <2> QED BY <1>3, <2>3, <2>4, CallOnResets
<1>4. ASSUME NEW r \in Guards, WritePin(r) PROVE SingleInv'
  <2>1. /\ task[r].at = "write" /\ task[r].reset \in 0..Len(reset)
        /\ Len(reset') = Len(reset) /\ twice' = twice
        /\ \A s \in Guards \ {r} : task'[s] = task[s]
        /\ task[r].reset = 0 => task'[r].at = "idle"
        /\ task[r].reset # 0 => task'[r].at = "markUsed" /\ task'[r].reset = task[r].reset
    BY <1>4, WriteOnResets
  <2>2. ASSUME NEW k \in 1..Len(reset), k # task[r].reset PROVE SingleOf(k)'
    <3>1. reset'[k] = reset[k]
      BY <1>4, <2>2, WriteOnResets
    <3>2. ~Completer(task'[r], k) /\ ~Completer(task[r], k)
      BY <2>1, <2>2 DEF Completer
    <3>3. /\ \A s \in Guards : Completer(task'[s], k) => Completer(task[s], k) /\ task'[s].at = task[s].at
          /\ \A s \in Guards : Completer(task[s], k) => task'[s] = task[s]
      BY <2>1, <3>2
    <3> QED BY <1>0, <2>1, <3>1, <3>3, SingleKept
  <2>3. ASSUME NEW k \in 1..Len(reset), k = task[r].reset PROVE SingleOf(k)'
    <3>1. /\ reset'[k].done = reset[k].done + 1 /\ reset'[k].early = (reset[k].early \/ ~reset[k].verified)
          /\ reset'[k].verified = reset[k].verified
      BY <1>4, <2>3, WriteOnResets
    <3>2. task'[r].at = "markUsed" /\ Completer(task'[r], k) /\ Completer(task[r], k)
      BY <1>0, <2>1, <2>3 DEF Completer
    <3>3. SingleOf(k)
      BY <1>0
    <3>4. reset[k].verified /\ ~reset[k].early
      BY <3>2, <3>3 DEF SingleOf
    <3>5. ~reset'[k].early /\ reset'[k].verified
      BY <3>1, <3>4
    <3>6. ASSUME <<"reset", k>> \notin twice'
          PROVE  /\ \A s, s2 \in Guards : Completer(task'[s], k) /\ Completer(task'[s2], k) => s = s2
                 /\ reset'[k].done = 1
                 /\ \A s \in Guards : Completer(task'[s], k) => s = r
      <4>1. /\ \A s \in Guards : Completer(task[s], k) => s = r
            /\ reset[k].done = 0
        BY <2>1, <3>2, <3>3, <3>6 DEF SingleOf
      <4>2. \A s \in Guards : Completer(task'[s], k) => s = r
        BY <2>1, <4>1
      <4> QED BY <3>1, <4>1, <4>2
    <3> QED BY <3>2, <3>5, <3>6 DEF SingleOf
  <2> QED BY <2>1, <2>2, <2>3 DEF SingleInv
<1>5. ASSUME NEW r \in Guards, invalidatePendingForPin(r) PROVE SingleInv'
  <2>1. /\ task[r].at = "supersede" /\ task'[r].at = "insertReset" /\ Len(reset') = Len(reset)
        /\ \A s \in Guards \ {r} : task'[s] = task[s]
        /\ twice \subseteq twice'
    BY <1>5, SupersedeOnResets
  <2>2. ASSUME NEW k \in 1..Len(reset) PROVE SingleOf(k)'
    <3>1. /\ reset'[k].done = reset[k].done /\ reset'[k].early = reset[k].early
          /\ reset'[k].verified = reset[k].verified /\ (reset[k].used => reset'[k].used)
      BY <1>5, SupersedeOnResets
    <3>2. ~Completer(task'[r], k) /\ ~Completer(task[r], k)
      BY <1>1, <2>1
    <3>3. /\ \A s \in Guards : Completer(task'[s], k) => Completer(task[s], k) /\ task'[s].at = task[s].at
          /\ \A s \in Guards : Completer(task[s], k) => task'[s] = task[s]
      BY <2>1, <3>2
    <3> QED BY <1>0, <2>1, <3>1, <3>3, SingleKept
  <2> QED BY <2>1, <2>2 DEF SingleInv
<1>6. ASSUME NEW r \in Guards, createResetRequest(r) PROVE SingleInv'
  <2>0. PICK n \in Nat : n = Len(reset) + 1
    BY <1>0
  <2>1. /\ task[r].at = "insertReset" /\ task'[r] = Free /\ \A s \in Guards \ {r} : task'[s] = task[s]
        /\ twice' = twice /\ Len(reset') = n
        /\ reset'[n].done = 0 /\ ~reset'[n].early
    BY <1>6, <2>0, InsertOnResets
  <2>2. ASSUME NEW k \in 1..Len(reset) PROVE SingleOf(k)'
    <3>1. reset'[k] = reset[k]
      BY <1>6, InsertOnResets
    <3>2. ~Completer(task'[r], k) /\ ~Completer(task[r], k)
      BY <1>1, <1>2, <2>1
    <3>3. /\ \A s \in Guards : Completer(task'[s], k) => Completer(task[s], k) /\ task'[s].at = task[s].at
          /\ \A s \in Guards : Completer(task[s], k) => task'[s] = task[s]
      BY <2>1, <3>2
    <3> QED BY <1>0, <2>1, <3>1, <3>3, SingleKept
  <2>3. SingleOf(n)'
    <3>1. \A s \in Guards : ~Completer(task'[s], n)
      BY <1>0, <1>2, <2>0, <2>1
    <3> QED BY <2>1, <3>1 DEF SingleOf
  <2>4. \A k \in 1..n : k \in 1..Len(reset) \/ k = n
    BY <1>0, <2>0
  <2> QED BY <2>1, <2>2, <2>3, <2>4 DEF SingleInv
<1>7. ASSUME NEW r \in Guards, markVerified(r) \/ markUsed(r) PROVE SingleInv'
  <2>1. /\ task[r].at \in {"markVerified", "markUsed"}
        /\ task'[r] = Free /\ \A s \in Guards \ {r} : task'[s] = task[s]
        /\ twice' = twice /\ Len(reset') = Len(reset)
    BY <1>7, MarkOnResets
  <2>2. ASSUME NEW k \in 1..Len(reset) PROVE SingleOf(k)'
    <3>1. /\ reset'[k].done = reset[k].done /\ reset'[k].early = reset[k].early
          /\ (reset[k].verified => reset'[k].verified) /\ (reset[k].used => reset'[k].used)
          /\ task[r].at = "markUsed" /\ task[r].reset = k => reset'[k].used
      BY <1>7, MarkOnResets
    <3>2. \A s \in Guards : Completer(task'[s], k) => Completer(task[s], k) /\ task'[s].at = task[s].at
      BY <1>2, <2>1
    <3>3. \A s \in Guards : Completer(task[s], k) /\ task[s].at = "markUsed" => task'[s] = task[s] \/ reset'[k].used
      BY <2>1, <3>1 DEF Completer
    <3> QED BY <1>0, <2>1, <3>1, <3>2, <3>3, SingleKept
  <2> QED BY <2>1, <2>2 DEF SingleInv
<1>8. ASSUME NEW r \in Guards, TaskFails(r) PROVE SingleInv'
  <2>1. /\ reset' = reset /\ task'[r] = Free /\ \A s \in Guards \ {r} : task'[s] = task[s]
        /\ twice \subseteq twice'
        /\ task[r].at = "markUsed" => <<"reset", task[r].reset>> \in twice'
    BY <1>8, FailOnResets
  <2>2. ASSUME NEW k \in 1..Len(reset) PROVE SingleOf(k)'
    <3>1. \A s \in Guards : Completer(task'[s], k) => Completer(task[s], k) /\ task'[s].at = task[s].at
      BY <1>2, <2>1
    <3>2. \A s \in Guards : Completer(task[s], k) /\ task[s].at = "markUsed" =>
            task'[s] = task[s] \/ <<"reset", k>> \in twice'
      BY <2>1 DEF Completer
    <3> QED BY <1>0, <2>1, <3>1, <3>2, SingleKept
  <2> QED BY <2>1, <2>2 DEF SingleInv
<1>9. ASSUME NEW r \in Guards, Match(r) PROVE SingleInv'
  <2>1. task[r] \in PinWrites /\ task[r].at = "match" /\ reset' = reset /\ twice' = twice
        /\ (Finish(r) \/ TaskTo(r, "write")) /\ task[r].reset = 0
    <3>1. task[r] \in PinTasks /\ TaskFits(task[r], Len(pin), Len(reset))
      BY DEF PinTypes
    <3>2. task[r] \in PinWrites /\ task[r].at = "match" /\ reset' = reset /\ twice' = twice
          /\ (Finish(r) \/ TaskTo(r, "write"))
      BY <1>9, <3>1, TaskKinds DEF Match
    <3> QED BY <3>1, <3>2 DEF TaskFits
  <2>2. CASE Finish(r)
    <3>1. task'[r] = Free /\ \A s \in Guards \ {r} : task'[s] = task[s]
      BY <2>2, OneMoves, FreeFits DEF Finish
    <3>2. ASSUME NEW k \in 1..Len(reset) PROVE SingleOf(k)'
      <4>1. /\ \A s \in Guards : Completer(task'[s], k) => Completer(task[s], k) /\ task'[s].at = task[s].at
            /\ \A s \in Guards : Completer(task[s], k) => task'[s] = task[s]
        BY <1>1, <1>2, <2>1, <3>1
      <4> QED BY <1>0, <2>1, <4>1, SingleKept
    <3> QED BY <2>1, <3>2 DEF SingleInv
  <2>3. CASE TaskTo(r, "write")
    <3>1. task'[r].reset = task[r].reset /\ \A s \in Guards \ {r} : task'[s] = task[s]
      BY <2>1, <2>3, MovedOn
    <3>2. ASSUME NEW k \in 1..Len(reset) PROVE SingleOf(k)'
      <4>0. ~Completer(task'[r], k) /\ ~Completer(task[r], k)
        BY <2>1, <3>1 DEF Completer
      <4>1. /\ \A s \in Guards : Completer(task'[s], k) => Completer(task[s], k) /\ task'[s].at = task[s].at
            /\ \A s \in Guards : Completer(task[s], k) => task'[s] = task[s]
        BY <3>1, <4>0
      <4> QED BY <1>0, <2>1, <4>1, SingleKept
    <3> QED BY <2>1, <3>2 DEF SingleInv
  <2> QED BY <2>1, <2>2, <2>3
<1>10. ASSUME NEW n \in DOMAIN reset, ResetAges(n) PROVE SingleInv'
  <2>1. twice' = twice /\ task' = task /\ Len(reset') = Len(reset)
    BY <1>10, AgeOnResets
  <2>2. ASSUME NEW k \in 1..Len(reset) PROVE SingleOf(k)'
    <3>1. /\ reset'[k].done = reset[k].done /\ reset'[k].early = reset[k].early
          /\ reset'[k].verified = reset[k].verified /\ reset'[k].used = reset[k].used
      BY <1>10, AgeOnResets
    <3> QED BY <1>0, <2>1, <3>1, SingleKept
  <2> QED BY <2>1, <2>2 DEF SingleInv
<1>11. CASE UNCHANGED pinVars
  BY <1>11 DEF pinVars, SingleInv, SingleOf
<1> QED BY <1>3, <1>4, <1>5, <1>6, <1>7, <1>8, <1>9, <1>10, <1>11 DEF KeyPinsNext, PinWork

----------------------------------------
(* One code of a PIN waits to be verified: Superseded(i) is what waits.      *)

Inserter(t, i) == t.at = "insertReset" /\ t.row = i

PendOf(i) ==
  <<"pin", i>> \notin twice =>
    /\ \A k, l \in Superseded(i) : k = l
    /\ \A r, s \in Guards : Inserter(task[r], i) /\ Inserter(task[s], i) => r = s
    /\ (\E r \in Guards : Inserter(task[r], i)) => Superseded(i) = {}

PendInv == \A i \in Nat : PendOf(i)

\* A step that brings nobody to an insertion and no reset to those that wait.
LEMMA PendKept ==
  ASSUME NEW i, PendOf(i), twice \subseteq twice', Superseded(i)' \subseteq Superseded(i),
         \A r \in Guards : Inserter(task'[r], i) => Inserter(task[r], i)
  PROVE  PendOf(i)'
<1>1. ASSUME <<"pin", i>> \notin twice'
      PROVE  /\ \A k, l \in Superseded(i)' : k = l
             /\ \A r, s \in Guards : Inserter(task'[r], i) /\ Inserter(task'[s], i) => r = s
             /\ (\E r \in Guards : Inserter(task'[r], i)) => Superseded(i)' = {}
  BY <1>1 DEF PendOf
<1> QED BY <1>1 DEF PendOf

\* Resets that keep their PIN, and only become verified or used, leave those that wait.
LEMMA WaitingOn ==
  ASSUME PinTypes, PinTypes', Len(reset') = Len(reset), NEW i,
         \A k \in 1..Len(reset) : /\ reset'[k].pin = reset[k].pin
                                  /\ reset[k].verified => reset'[k].verified
                                  /\ reset[k].used => reset'[k].used
  PROVE  Superseded(i)' \subseteq Superseded(i)
<1>1. DOMAIN reset = 1..Len(reset) /\ DOMAIN reset' = 1..Len(reset)
  BY DEF PinTypes
<1> QED BY <1>1 DEF Superseded

\* Every step keeps it.
LEMMA PendStep ==
  ASSUME PinTypes, PinTypes', PendInv, [KeyPinsNext]_pinVars
  PROVE  PendInv'
<1>0. /\ DOMAIN reset = 1..Len(reset) /\ DOMAIN reset' = 1..Len(reset') /\ Len(reset) \in Nat
  BY DEF PinTypes
<1>1. \A i : ~Inserter(Free, i)
  BY DEF Free, Inserter
<1>2. reset' = reset => \A i \in Nat : Superseded(i)' = Superseded(i)
  BY DEF Superseded
<1>3. ASSUME NEW r \in Guards, twice \subseteq twice', \A s \in Guards \ {r} : task'[s] = task[s],
             task'[r].at # "insertReset", \A i \in Nat : Superseded(i)' \subseteq Superseded(i)
      PROVE  PendInv'
  <2>1. ASSUME NEW i \in Nat PROVE PendOf(i)'
    <3>1. \A s \in Guards : Inserter(task'[s], i) => Inserter(task[s], i)
      BY <1>3 DEF Inserter
    <3> QED BY <1>3, <3>1, PendKept DEF PendInv
  <2> QED BY <2>1 DEF PendInv
<1>4. Free.at # "insertReset"
  BY DEF Free
<1>5. ASSUME NEW r \in Guards, task[r] = Free, PinCall(r) PROVE PendInv'
  <2>1. /\ reset' = reset /\ \A s \in Guards \ {r} : task'[s] = task[s]
        /\ task'[r].at # "insertReset" /\ twice \subseteq twice'
    BY <1>5, CallOnResets
  <2> QED BY <1>2, <1>3, <2>1
<1>6. ASSUME NEW r \in Guards, WritePin(r) PROVE PendInv'
  <2>1. /\ Len(reset') = Len(reset) /\ twice' = twice /\ \A s \in Guards \ {r} : task'[s] = task[s]
        /\ task'[r].at # "insertReset"
        /\ \A k \in 1..Len(reset) : reset'[k].pin = reset[k].pin /\ reset'[k].used = reset[k].used
                                    /\ reset'[k].verified = reset[k].verified
    <3>1. task[r].reset \in 0..Len(reset)
      BY <1>6, WriteOnResets
    <3> QED BY <1>6, WriteOnResets
  <2>2. \A i \in Nat : Superseded(i)' \subseteq Superseded(i)
    BY <2>1, WaitingOn
  <2> QED BY <1>3, <2>1, <2>2
<1>7. ASSUME NEW r \in Guards, invalidatePendingForPin(r) PROVE PendInv'
  <2>1. /\ Len(reset') = Len(reset) /\ \A s \in Guards \ {r} : task'[s] = task[s]
        /\ task'[r].at = "insertReset" /\ task'[r].row = task[r].row
        /\ \A k \in 1..Len(reset) : reset'[k].pin = reset[k].pin /\ (reset[k].used => reset'[k].used)
                                    /\ reset'[k].verified = reset[k].verified
                                    /\ (k \in Superseded(task[r].row) => reset'[k].used)
        /\ twice' = IF \E s \in Guards \ {r} : task[s].at = "insertReset" /\ task[s].row = task[r].row
                    THEN twice \cup {<<"pin", task[r].row>>} ELSE twice
    BY <1>7, SupersedeOnResets
  <2>2. \A i \in Nat : Superseded(i)' \subseteq Superseded(i)
    BY <2>1, WaitingOn
  <2>3. ASSUME NEW i \in Nat, i # task[r].row PROVE PendOf(i)'
    <3>1. \A s \in Guards : Inserter(task'[s], i) => Inserter(task[s], i)
      BY <2>1, <2>3 DEF Inserter
    <3>2. twice \subseteq twice'
      BY <2>1
    <3> QED BY <2>2, <3>1, <3>2, PendKept DEF PendInv
  <2>4. ASSUME NEW i \in Nat, i = task[r].row PROVE PendOf(i)'
    <3>1. Superseded(i)' = {}
      <4>1. ASSUME NEW k \in Superseded(i)' PROVE FALSE
        <5>1. k \in Superseded(i) /\ k \in 1..Len(reset) /\ ~reset'[k].used
          BY <1>0, <2>1, <2>2, <4>1 DEF Superseded
        <5> QED BY <2>1, <2>4, <5>1
      <4> QED BY <4>1
    <3>2. ASSUME <<"pin", i>> \notin twice'
          PROVE  \A s, s2 \in Guards : Inserter(task'[s], i) /\ Inserter(task'[s2], i) => s = s2
      <4>1. \A s \in Guards \ {r} : ~Inserter(task[s], i)
        BY <2>1, <2>4, <3>2 DEF Inserter
      <4>2. \A s \in Guards : Inserter(task'[s], i) => s = r
        BY <2>1, <4>1
      <4> QED BY <4>2
    <3> QED BY <3>1, <3>2 DEF PendOf
  <2> QED BY <2>3, <2>4 DEF PendInv
<1>8. ASSUME NEW r \in Guards, createResetRequest(r) PROVE PendInv'
  <2>0. PICK n \in Nat : n = Len(reset) + 1
    BY <1>0
  <2>1. /\ task[r].at = "insertReset" /\ task'[r] = Free /\ \A s \in Guards \ {r} : task'[s] = task[s]
        /\ twice' = twice /\ Len(reset') = n /\ reset'[n].pin = task[r].row
        /\ \A k \in 1..Len(reset) : reset'[k] = reset[k]
    BY <1>8, <2>0, InsertOnResets
  <2>2. \A k \in 1..n : k \in 1..Len(reset) \/ k = n
    BY <1>0, <2>0
  <2>3. ASSUME NEW i \in Nat PROVE Superseded(i)' \subseteq Superseded(i) \cup (IF task[r].row = i THEN {n} ELSE {})
    BY <1>0, <2>1, <2>2 DEF Superseded
  <2>4. \A s \in Guards, i \in Nat : Inserter(task'[s], i) => Inserter(task[s], i) /\ s # r
    BY <1>1, <2>1
  <2>5. ASSUME NEW i \in Nat, task[r].row # i PROVE PendOf(i)'
    BY <2>1, <2>3, <2>4, <2>5, PendKept DEF PendInv
  <2>6. ASSUME NEW i \in Nat, task[r].row = i PROVE PendOf(i)'
    <3>1. Inserter(task[r], i) /\ PendOf(i)
      BY <2>1, <2>6 DEF Inserter, PendInv
    <3>2. ASSUME <<"pin", i>> \notin twice'
          PROVE  /\ \A k, l \in Superseded(i)' : k = l
                 /\ \A s \in Guards : ~Inserter(task'[s], i)
      <4>1. Superseded(i) = {} /\ \A s \in Guards : Inserter(task[s], i) => s = r
        BY <2>1, <3>1, <3>2 DEF PendOf
      <4> QED BY <2>3, <2>4, <4>1
    <3> QED BY <3>2 DEF PendOf
  <2> QED BY <2>5, <2>6 DEF PendInv
<1>9. ASSUME NEW r \in Guards, markVerified(r) \/ markUsed(r) PROVE PendInv'
  <2>1. /\ Len(reset') = Len(reset) /\ twice' = twice /\ \A s \in Guards \ {r} : task'[s] = task[s]
        /\ task'[r] = Free
        /\ \A k \in 1..Len(reset) : /\ reset'[k].pin = reset[k].pin
                                    /\ reset[k].verified => reset'[k].verified
                                    /\ reset[k].used => reset'[k].used
    BY <1>9, MarkOnResets
  <2>2. \A i \in Nat : Superseded(i)' \subseteq Superseded(i)
    BY <2>1, WaitingOn
  <2> QED BY <1>3, <1>4, <2>1, <2>2
<1>10. ASSUME NEW r \in Guards, TaskFails(r) PROVE PendInv'
  BY <1>2, <1>3, <1>4, <1>10, FailOnResets
<1>11. ASSUME NEW r \in Guards, Match(r) PROVE PendInv'
  <2>1. task[r] \in PinWrites /\ reset' = reset /\ twice' = twice /\ (Finish(r) \/ TaskTo(r, "write"))
    <3>1. task[r] \in PinTasks
      BY DEF PinTypes
    <3> QED BY <1>11, <3>1, TaskKinds DEF Match
  <2>2. CASE Finish(r)
    <3>1. task'[r] = Free /\ \A s \in Guards \ {r} : task'[s] = task[s]
      BY <2>2, OneMoves, FreeFits DEF Finish
    <3> QED BY <1>2, <1>3, <1>4, <2>1, <3>1
  <2>3. CASE TaskTo(r, "write")
    <3>1. task'[r].at = "write" /\ \A s \in Guards \ {r} : task'[s] = task[s]
      BY <2>1, <2>3, MovedOn
    <3> QED BY <1>2, <1>3, <2>1, <3>1
  <2> QED BY <2>1, <2>2, <2>3
<1>12. ASSUME NEW n \in DOMAIN reset, ResetAges(n) PROVE PendInv'
  <2>1. /\ Len(reset') = Len(reset) /\ twice' = twice /\ task' = task
        /\ \A k \in 1..Len(reset) : /\ reset'[k].pin = reset[k].pin
                                    /\ reset'[k].verified = reset[k].verified
                                    /\ reset'[k].used = reset[k].used
    BY <1>12, AgeOnResets
  <2>2. \A i \in Nat : Superseded(i)' \subseteq Superseded(i)
    BY <2>1, WaitingOn
  <2>3. ASSUME NEW i \in Nat PROVE PendOf(i)'
    BY <2>1, <2>2, PendKept DEF PendInv
  <2> QED BY <2>3 DEF PendInv
<1>13. CASE UNCHANGED pinVars
  BY <1>13 DEF pinVars, PendInv, PendOf, Superseded
<1> QED BY <1>5, <1>6, <1>7, <1>8, <1>9, <1>10, <1>11, <1>12, <1>13 DEF KeyPinsNext, PinWork

----------------------------------------
\* What the PINs and their resets keep, together.
PinInv == PinTypes /\ BoundInv /\ DistinctInv /\ SingleInv /\ PendInv

\* It holds at the start.
LEMMA PinInvAtFirst == KeyPinsInit => PinInv
<1> SUFFICES ASSUME KeyPinsInit PROVE PinInv
  OBVIOUS
<1>1. /\ pin \in FirstPins /\ reset = <<>> /\ task = [r \in Guards |-> Free] /\ twice = {} /\ loose = {}
      /\ \A r \in Guards : task[r] = Free
  BY DEF KeyPinsInit
<1>2. /\ pin \in Seq(PinRows) /\ listActive = ActiveOf(pin)
      /\ Cardinality(ActiveOf(pin)) <= MAX_ACTIVE_PINS
      /\ \A i, j \in ActiveOf(pin) : pin[i].value = pin[j].value => i = j
  BY <1>1, FirstPinsAssumption DEF PinRows, listActive, KeptPins, ActiveOf
<1>3. reset \in Seq(ResetRows) /\ Len(reset) = 0 /\ DOMAIN reset = {}
  BY <1>1
<1>4. Free.at = "idle" /\ Free \in PinTasks
  BY FreeFits DEF Free
<1>5. PinTypes
  BY <1>1, <1>2, <1>3, FreeFits DEF PinTypes
<1>6. BoundInv
  BY <1>1, <1>2, <1>4 DEF BoundInv, Activating, Pending
<1>7. DistinctInv
  BY <1>1, <1>2, <1>4 DEF DistinctInv, ActiveIsDistinct, Writer
<1>8. SingleInv
  BY <1>3 DEF SingleInv
<1>9. PendInv
  BY <1>1, <1>3, <1>4 DEF PendInv, PendOf, Superseded, Inserter
<1> QED BY <1>5, <1>6, <1>7, <1>8, <1>9 DEF PinInv

\* At most MAX_ACTIVE_PINS PINs open the doors and no two of them are the same, a
\* reset changes its PIN once and only after it was verified, and one code of a PIN
\* waits at a time, however many requests run; except where the histories say that
\* a count or a comparison was overtaken (key_pins.js, key_pin_reset.js).
THEOREM PinsAreSound == KeyPinsSpec => []PinsSound
<1>1. PinInv /\ [KeyPinsNext]_pinVars => PinInv'
  <2> SUFFICES ASSUME PinInv, [KeyPinsNext]_pinVars PROVE PinInv'
    OBVIOUS
  <2>1. PinTypes'
    BY PinStepTyped DEF PinInv
  <2> QED BY <2>1, BoundStep, DistinctStep, SingleStep, PendStep DEF PinInv
<1>2. PinInv => PinsSound
  <2> SUFFICES ASSUME PinInv PROVE PinsSound
    OBVIOUS
  <2>0. /\ DOMAIN reset = 1..Len(reset) /\ DOMAIN pin = 1..Len(pin)
        /\ \A k \in 1..Len(reset) : reset[k] \in ResetRows /\ reset[k].pin \in 1..Len(pin)
    BY DEF PinInv, PinTypes
  <2>1. KeyPinsTypeOK
    <3>1. pin \in Seq([value : Pins, active : BOOLEAN, deleted : BOOLEAN])
      BY DEF PinInv, PinTypes, PinRows
    <3>2. \A k \in DOMAIN reset : reset[k].pin \in DOMAIN pin /\ reset[k].by \in Admins
      BY <2>0 DEF ResetRows
    <3> QED BY <3>1, <3>2 DEF KeyPinsTypeOK
  <2>2. ActiveIsBounded
    BY DEF PinInv, BoundInv, ActiveIsBounded
  <2>3. ActiveIsDistinct
    BY DEF PinInv, DistinctInv
  <2>4. ResetsAreSingleUse
    BY <2>0 DEF PinInv, SingleInv, SingleOf, ResetsAreSingleUse
  <2>5. OnePending
    <3> SUFFICES ASSUME NEW i \in DOMAIN pin, <<"pin", i>> \notin twice
                 PROVE  Cardinality(Superseded(i)) <= 1
      BY DEF OnePending, Superseded
    <3>1. \A k, l \in Superseded(i) : k = l
      BY <2>0 DEF PinInv, PinTypes, PendInv, PendOf
    <3>2. CASE Superseded(i) = {}
      BY <3>2, FS_EmptySet
    <3>3. CASE Superseded(i) # {}
      <4>1. PICK k : Superseded(i) = {k}
        BY <3>1, <3>3
      <4>2. Cardinality({k}) = 1
        BY FS_Singleton
      <4> QED BY <4>1, <4>2
    <3> QED BY <3>2, <3>3
  <2> QED BY <2>1, <2>2, <2>3, <2>4, <2>5 DEF PinsSound
<1> QED BY <1>1, <1>2, PinInvAtFirst, PTL DEF KeyPinsSpec

----------------------------------------
(* The calendar link.  The nonces: each is asked about by one tab at most.   *)

LinkRows == [grant : Nat, access : Nat, until : Int]
Pushes   == [at : {"refresh", "cache", "call"}, grant : Nat, token : Nat, until : Int]

LinkTypes ==
  /\ link \subseteq LinkRows /\ pusher \in [Pushers -> {NoPush} \cup Pushes]
  /\ nonces \subseteq [id : Nat, until : Int]
  /\ connects \in Nat /\ issued \in Nat /\ hour \in Nat
  /\ DOMAIN tab = Tabs
  /\ \A t \in Tabs : tab[t].at = "save" => tab[t].grant \in Nat /\ tab[t].until \in Int

Asking(t) == tab[t].at \in {"exchange", "save"}

NonceInv ==
  /\ \A n \in nonces : n.id \in 1..connects /\ \A m \in nonces : m.id = n.id => m = n
  /\ \A t \in Tabs : Asking(t) =>
       /\ tab[t].nonce \in 1..connects
       /\ \A n \in nonces : n.id # tab[t].nonce
       /\ \A s \in Tabs : Asking(s) /\ tab[s].nonce = tab[t].nonce => s = t

\* Until links cross: who works with a grant works with the linked one, and a tab
\* that disconnects has revoked it by the time it deletes.
GrantInv ==
  ~crossed =>
    /\ \A r, s \in link : r = s
    /\ \A r \in link : r.access = r.grant
    /\ \A u \in Pushers : pusher[u].at # "idle" =>
         pusher[u].token = pusher[u].grant /\ \A r \in link : r.grant = pusher[u].grant
    /\ \A t \in Tabs : tab[t].at = "revoke" => \A r \in link : r.grant = tab[t].grant
    /\ \A t \in Tabs : tab[t].at = "delete" => lost \/ \A r \in link : r.grant \in revoked
    /\ \A g \in (1..issued) \ revoked :
         \/ lost
         \/ \E r \in link : r.grant = g
         \/ \E t \in Tabs : tab[t].at = "save" /\ tab[t].grant = g

LinkInv == LinkTypes /\ NonceInv /\ GrantInv

\* One tab goes on.
LEMMA OneTab ==
  ASSUME LinkTypes, NEW t \in Tabs, NEW x, ToTab(t, x)
  PROVE  tab'[t] = x /\ DOMAIN tab' = Tabs /\ \A s \in Tabs \ {t} : tab'[s] = tab[s]
BY DEF LinkTypes, ToTab

\* One pusher goes on.
LEMMA OnePush ==
  ASSUME LinkTypes, NEW u \in Pushers, NEW x \in {NoPush} \cup Pushes, ToPush(u, x)
  PROVE  /\ pusher' \in [Pushers -> {NoPush} \cup Pushes]
         /\ pusher'[u] = x /\ \A v \in Pushers \ {u} : pusher'[v] = pusher[v]
BY DEF LinkTypes, ToPush

\* A pusher is idle or holds a token.
LEMMA PushKinds ==
  ASSUME NEW x \in {NoPush} \cup Pushes
  PROVE  (x.at # "idle" <=> x \in Pushes) /\ (x = NoPush <=> x.at = "idle")
BY DEF NoPush, Pushes

\* No nonce is added and no tab begins to ask.
LEMMA NonceKept ==
  ASSUME LinkTypes, NonceInv, nonces' \subseteq nonces, connects' = connects,
         \A t \in Tabs : Asking(t)' => Asking(t) /\ tab'[t].nonce = tab[t].nonce
  PROVE  NonceInv'
BY DEF NonceInv

\* A step that leaves the row and its users alone, and loses sight of no grant.
LEMMA GrantKept ==
  ASSUME GrantInv, UNCHANGED <<link, pusher, crossed, issued>>, lost => lost', revoked \subseteq revoked',
         \A t \in Tabs : /\ tab'[t].at = "revoke" => tab[t].at = "revoke" /\ tab'[t].grant = tab[t].grant
                         /\ tab'[t].at = "delete" => tab[t].at = "delete"
                         /\ tab[t].at = "save" => tab'[t] = tab[t]
  PROVE  GrantInv'
<1> SUFFICES ASSUME ~crossed' PROVE
    /\ \A r, s \in link' : r = s
    /\ \A r \in link' : r.access = r.grant
    /\ \A u \in Pushers : pusher'[u].at # "idle" =>
         pusher'[u].token = pusher'[u].grant /\ \A r \in link' : r.grant = pusher'[u].grant
    /\ \A t \in Tabs : tab'[t].at = "revoke" => \A r \in link' : r.grant = tab'[t].grant
    /\ \A t \in Tabs : tab'[t].at = "delete" => lost' \/ \A r \in link' : r.grant \in revoked'
    /\ \A g \in (1..issued') \ revoked' :
         \/ lost'
         \/ \E r \in link' : r.grant = g
         \/ \E t \in Tabs : tab'[t].at = "save" /\ tab'[t].grant = g
  BY DEF GrantInv
<1>1. /\ \A r, s \in link : r = s
      /\ \A r \in link : r.access = r.grant
      /\ \A u \in Pushers : pusher[u].at # "idle" =>
           pusher[u].token = pusher[u].grant /\ \A r \in link : r.grant = pusher[u].grant
      /\ \A t \in Tabs : tab[t].at = "revoke" => \A r \in link : r.grant = tab[t].grant
      /\ \A t \in Tabs : tab[t].at = "delete" => lost \/ \A r \in link : r.grant \in revoked
      /\ \A g \in (1..issued) \ revoked :
           \/ lost
           \/ \E r \in link : r.grant = g
           \/ \E t \in Tabs : tab[t].at = "save" /\ tab[t].grant = g
  BY DEF GrantInv
<1>2. \A t \in Tabs : tab'[t].at = "revoke" => \A r \in link' : r.grant = tab'[t].grant
  BY <1>1
<1>3. \A t \in Tabs : tab'[t].at = "delete" => lost' \/ \A r \in link' : r.grant \in revoked'
  BY <1>1
<1>4. ASSUME NEW g \in (1..issued') \ revoked'
      PROVE  \/ lost'
             \/ \E r \in link' : r.grant = g
             \/ \E t \in Tabs : tab'[t].at = "save" /\ tab'[t].grant = g
  BY <1>1
<1> QED BY <1>1, <1>2, <1>3, <1>4

\* A nonce is handed out, or reaped, or time passes.
LEMMA NoncesKeepLink ==
  ASSUME LinkInv, buildConnectUrl \/ Reap \/ NextHour
  PROVE  LinkInv'
<1>1. /\ UNCHANGED <<link, pusher, crossed, issued, lost, revoked, tab>>
      /\ LinkTypes /\ NonceInv /\ GrantInv
  BY DEF LinkInv, buildConnectUrl, Reap, NextHour
<1>2. GrantInv'
  BY <1>1, GrantKept
<1>3. CASE buildConnectUrl
  <2> DEFINE new == [id |-> connects + 1, until |-> hour + StateTtl]
  <2>1. nonces' = nonces \cup {new} /\ connects' = connects + 1 /\ hour' = hour
    BY <1>3 DEF buildConnectUrl
  <2>2. new \in [id : Nat, until : Int] /\ new.id = connects + 1
    BY <1>1, LinkAssumption DEF LinkTypes
  <2> HIDE DEF new
  <2>3. LinkTypes'
    BY <1>1, <2>1, <2>2 DEF LinkTypes
  <2>4. /\ \A n \in nonces : n.id \in 1..connects /\ n.id # new.id
        /\ \A t \in Tabs : Asking(t) => tab[t].nonce \in 1..connects /\ tab[t].nonce # new.id
    BY <1>1, <2>2 DEF NonceInv, LinkTypes
  <2>5. ASSUME NEW n \in nonces' PROVE n.id \in 1..connects' /\ \A m \in nonces' : m.id = n.id => m = n
    BY <1>1, <2>1, <2>2, <2>4 DEF NonceInv, LinkTypes
  <2>6. ASSUME NEW t \in Tabs, Asking(t)'
        PROVE  /\ tab'[t].nonce \in 1..connects'
               /\ \A n \in nonces' : n.id # tab'[t].nonce
               /\ \A s \in Tabs : Asking(s)' /\ tab'[s].nonce = tab'[t].nonce => s = t
    <3>1. Asking(t)
      BY <1>1, <2>6 DEF Asking
    <3>2. tab[t].nonce \in 1..connects /\ tab[t].nonce # new.id /\ \A n \in nonces : n.id # tab[t].nonce
      BY <1>1, <2>4, <3>1 DEF NonceInv
    <3>3. tab[t].nonce \in 1..connects'
      BY <1>1, <2>1, <3>2 DEF LinkTypes
    <3>4. \A s \in Tabs : Asking(s) /\ tab[s].nonce = tab[t].nonce => s = t
      BY <1>1, <3>1 DEF NonceInv
    <3> QED BY <1>1, <2>1, <3>2, <3>3, <3>4 DEF Asking
  <2>7. NonceInv'
    BY <2>5, <2>6 DEF NonceInv
  <2> QED BY <1>2, <2>3, <2>7 DEF LinkInv
<1>4. CASE Reap \/ NextHour
  <2>1. nonces' \subseteq nonces /\ connects' = connects /\ hour' \in Nat
    BY <1>1, <1>4 DEF Reap, NextHour, LinkTypes
  <2>2. NonceInv'
    BY <1>1, <2>1, NonceKept DEF Asking
  <2>3. LinkTypes'
    BY <1>1, <2>1 DEF LinkTypes
  <2> QED BY <1>2, <2>2, <2>3 DEF LinkInv
<1> QED BY <1>3, <1>4

\* The way to a link: the callback, the exchange, the row.
LEMMA ConnectingKeepsLink ==
  ASSUME LinkInv, NEW t \in Tabs, StartCallback(t) \/ Exchange(t) \/ SaveLink(t)
  PROVE  LinkInv'
<1>0. LinkTypes /\ NonceInv /\ GrantInv
  BY DEF LinkInv
<1>1. IdleTab.at = "idle"
  BY DEF IdleTab
<1>2. CASE StartCallback(t)
  <2>1. PICK n \in nonces, answer \in {"error", "no code", "code"} :
          /\ tab[t] = IdleTab
          /\ nonces' = Pop(n)
          /\ ToTab(t, IF answer = "code" /\ n.until >= hour
                      THEN [at |-> "exchange", nonce |-> n.id] ELSE IdleTab)
          /\ UNCHANGED <<link, connects, issued, revoked, pusher, hour, pushes, crossed, lost>>
    BY <1>2 DEF StartCallback
  <2> DEFINE x == IF answer = "code" /\ n.until >= hour
                  THEN [at |-> "exchange", nonce |-> n.id] ELSE IdleTab
  <2>2. (x.at = "exchange" /\ x.nonce = n.id) \/ x.at = "idle"
    BY <1>1
  <2>3. ToTab(t, x)
    BY <2>1
  <2> HIDE DEF x
  <2>4. tab'[t] = x /\ DOMAIN tab' = Tabs /\ \A s \in Tabs \ {t} : tab'[s] = tab[s]
    BY <1>0, <2>3, OneTab
  <2>5. nonces' = nonces \ {n} /\ tab[t].at = "idle"
    BY <1>1, <2>1 DEF Pop
  <2>6. LinkTypes'
    <3>1. \A s \in Tabs : tab'[s].at = "save" => tab'[s].grant \in Nat /\ tab'[s].until \in Int
      BY <1>0, <2>2, <2>4 DEF LinkTypes
    <3> QED BY <1>0, <2>1, <2>4, <2>5, <3>1 DEF LinkTypes
  <2>7. GrantInv'
    <3>1. \A s \in Tabs : /\ tab'[s].at = "revoke" => tab[s].at = "revoke" /\ tab'[s].grant = tab[s].grant
                          /\ tab'[s].at = "delete" => tab[s].at = "delete"
                          /\ tab[s].at = "save" => tab'[s] = tab[s]
      BY <2>2, <2>4, <2>5
    <3> QED BY <1>0, <2>1, <3>1, GrantKept
  <2>8. NonceInv'
    <3>1. \A s \in Tabs \ {t} : Asking(s)' => Asking(s) /\ tab'[s].nonce = tab[s].nonce
      BY <2>4 DEF Asking
    <3>2. Asking(t)' => tab'[t].nonce = n.id
      BY <2>2, <2>4 DEF Asking
    <3>3. /\ n.id \in 1..connects /\ \A m \in nonces \ {n} : m.id # n.id
          /\ \A s \in Tabs : Asking(s) => tab[s].nonce # n.id
      BY <1>0 DEF NonceInv
    <3>4. \A m \in nonces' : m.id \in 1..connects' /\ \A m2 \in nonces' : m2.id = m.id => m2 = m
      BY <1>0, <2>1, <2>5 DEF NonceInv
    <3>5. ASSUME NEW s \in Tabs, Asking(s)'
          PROVE  /\ tab'[s].nonce \in 1..connects'
                 /\ \A m \in nonces' : m.id # tab'[s].nonce
                 /\ \A v \in Tabs : Asking(v)' /\ tab'[v].nonce = tab'[s].nonce => v = s
      <4>1. CASE s = t
        BY <2>1, <2>5, <3>1, <3>2, <3>3, <3>5, <4>1
      <4>2. CASE s # t
        <5>1. Asking(s) /\ tab'[s].nonce = tab[s].nonce
          BY <3>1, <3>5, <4>2
        <5>2. /\ tab[s].nonce \in 1..connects /\ \A m \in nonces : m.id # tab[s].nonce
              /\ \A v \in Tabs : Asking(v) /\ tab[v].nonce = tab[s].nonce => v = s
          BY <1>0, <5>1 DEF NonceInv
        <5>3. \A v \in Tabs : Asking(v)' /\ tab'[v].nonce = tab'[s].nonce => v = s
          BY <3>1, <3>2, <3>3, <5>1, <5>2
        <5> QED BY <2>1, <2>5, <5>1, <5>2, <5>3
      <4> QED BY <4>1, <4>2
    <3> QED BY <3>4, <3>5 DEF NonceInv
  <2> QED BY <2>6, <2>7, <2>8 DEF LinkInv
<1>3. CASE Exchange(t)
  <2>1. tab[t].at = "exchange" /\ UNCHANGED <<link, nonces, connects, revoked, pusher, hour, crossed, lost>>
    BY <1>3 DEF Exchange
  <2>2. CASE ToTab(t, IdleTab) /\ issued' = issued
    <3>1. tab'[t] = IdleTab /\ DOMAIN tab' = Tabs /\ \A s \in Tabs \ {t} : tab'[s] = tab[s]
      BY <1>0, <2>2, OneTab
    <3>2. NonceInv'
      <4>1. \A s \in Tabs : Asking(s)' => Asking(s) /\ tab'[s].nonce = tab[s].nonce
        BY <1>1, <3>1 DEF Asking
      <4> QED BY <1>0, <2>1, <4>1, NonceKept
    <3>3. GrantInv'
      BY <1>0, <1>1, <2>1, <2>2, <3>1, GrantKept
    <3>4. LinkTypes'
      BY <1>0, <1>1, <2>1, <2>2, <3>1 DEF LinkTypes
    <3> QED BY <3>2, <3>3, <3>4 DEF LinkInv
  <2>3. CASE /\ issued' = issued + 1
             /\ ToTab(t, [at |-> "save", nonce |-> tab[t].nonce, grant |-> issued + 1,
                          until |-> hour + AccessLife])
    <3> DEFINE x == [at |-> "save", nonce |-> tab[t].nonce, grant |-> issued + 1, until |-> hour + AccessLife]
    <3>1. tab'[t] = x /\ DOMAIN tab' = Tabs /\ \A s \in Tabs \ {t} : tab'[s] = tab[s]
      <4>1. ToTab(t, x)
        BY <2>3
      <4> HIDE DEF x
      <4> QED BY <1>0, <4>1, OneTab
    <3>2. /\ x.at = "save" /\ x.nonce = tab[t].nonce /\ x.grant = issued + 1 /\ x.grant \in Nat
          /\ x.until \in Int /\ issued \in Nat
      BY <1>0, LinkAssumption DEF LinkTypes
    <3> HIDE DEF x
    <3>3. NonceInv'
      <4>1. \A s \in Tabs : Asking(s)' => Asking(s) /\ tab'[s].nonce = tab[s].nonce
        BY <2>1, <3>1, <3>2 DEF Asking
      <4> QED BY <1>0, <2>1, <4>1, NonceKept
    <3>4. LinkTypes'
      <4>1. \A s \in Tabs : tab'[s].at = "save" => tab'[s].grant \in Nat /\ tab'[s].until \in Int
        BY <1>0, <3>1, <3>2 DEF LinkTypes
      <4> QED BY <1>0, <2>1, <2>3, <3>1, <4>1 DEF LinkTypes
    <3>5. GrantInv'
      <4> SUFFICES ASSUME ~crossed PROVE
            /\ \A s \in Tabs : tab'[s].at = "revoke" => \A r \in link : r.grant = tab'[s].grant
            /\ \A s \in Tabs : tab'[s].at = "delete" => lost \/ \A r \in link : r.grant \in revoked
            /\ \A g \in (1..issued') \ revoked :
                 \/ lost
                 \/ \E r \in link : r.grant = g
                 \/ \E s \in Tabs : tab'[s].at = "save" /\ tab'[s].grant = g
        BY <1>0, <2>1 DEF GrantInv
      <4>1. /\ \A s \in Tabs : tab[s].at = "revoke" => \A r \in link : r.grant = tab[s].grant
            /\ \A s \in Tabs : tab[s].at = "delete" => lost \/ \A r \in link : r.grant \in revoked
            /\ \A g \in (1..issued) \ revoked :
                 \/ lost
                 \/ \E r \in link : r.grant = g
                 \/ \E s \in Tabs : tab[s].at = "save" /\ tab[s].grant = g
        BY <1>0 DEF GrantInv
      <4>2. ASSUME NEW g \in (1..issued') \ revoked
            PROVE  lost \/ (\E r \in link : r.grant = g)
                   \/ \E s \in Tabs : tab'[s].at = "save" /\ tab'[s].grant = g
        <5>1. CASE g = issued + 1
          BY <3>1, <3>2, <5>1
        <5>2. CASE g # issued + 1
          <6>1. g \in (1..issued) \ revoked
            BY <2>3, <3>2, <5>2
          <6> QED BY <2>1, <3>1, <4>1, <6>1
        <5> QED BY <5>1, <5>2
      <4> QED BY <3>1, <3>2, <4>1, <4>2
    <3> QED BY <3>3, <3>4, <3>5 DEF LinkInv
  <2> QED BY <1>3, <2>2, <2>3 DEF Exchange
<1>4. CASE SaveLink(t)
  <2>1. /\ tab[t].at = "save" /\ ToTab(t, IdleTab) /\ tab[t].grant \in Nat /\ tab[t].until \in Int
        /\ UNCHANGED <<nonces, connects, issued, revoked, pusher, hour>>
    BY <1>0, <1>4 DEF SaveLink, LinkTypes
  <2>2. tab'[t] = IdleTab /\ DOMAIN tab' = Tabs /\ \A s \in Tabs \ {t} : tab'[s] = tab[s]
    BY <1>0, <2>1, OneTab
  <2>3. NonceInv'
    <3>1. \A s \in Tabs : Asking(s)' => Asking(s) /\ tab'[s].nonce = tab[s].nonce
      BY <1>1, <2>2 DEF Asking
    <3> QED BY <1>0, <2>1, <3>1, NonceKept
  <2>4. \A s \in Tabs : tab'[s].at = "save" => tab'[s].grant \in Nat /\ tab'[s].until \in Int
    BY <1>0, <1>1, <2>2 DEF LinkTypes
  <2> DEFINE new == [grant |-> tab[t].grant, access |-> tab[t].grant, until |-> tab[t].until]
  <2>5. CASE link' = link \cup {new} /\ crossed' = (crossed \/ Busy) /\ lost' = lost
    <3>1. new \in LinkRows /\ new.grant = tab[t].grant /\ new.access = tab[t].grant
      BY <2>1 DEF LinkRows
    <3>2. new \in link'
      BY <2>5
    <3>3. LinkTypes'
      BY <1>0, <2>1, <2>2, <2>4, <2>5, <3>1 DEF LinkTypes
    <3> HIDE DEF new
    <3>4. ASSUME ~crossed'
          PROVE  /\ link' = {new} /\ \A u \in Pushers : pusher[u].at = "idle"
                 /\ \A s \in Tabs : tab'[s].at \notin {"revoke", "delete"}
                 /\ \A g \in (1..issued) \ revoked :
                      \/ lost
                      \/ \E r \in link' : r.grant = g
                      \/ \E s \in Tabs : tab'[s].at = "save" /\ tab'[s].grant = g
      <4>1. ~crossed /\ ~Busy
        BY <2>5, <3>4
      <4>2. /\ link = {} /\ \A u \in Pushers : pusher[u].at = "idle"
            /\ \A s \in Tabs : tab[s].at \notin {"revoke", "delete"}
        BY <4>1 DEF Busy
      <4>3. \A g \in (1..issued) \ revoked :
              \/ lost
              \/ \E r \in link : r.grant = g
              \/ \E s \in Tabs : tab[s].at = "save" /\ tab[s].grant = g
        BY <1>0, <4>1 DEF GrantInv
      <4>4. ASSUME NEW g \in (1..issued) \ revoked, ~lost
            PROVE  (\E r \in link' : r.grant = g) \/ \E s \in Tabs : tab'[s].at = "save" /\ tab'[s].grant = g
        <5>1. PICK s \in Tabs : tab[s].at = "save" /\ tab[s].grant = g
          BY <4>2, <4>3, <4>4
        <5>2. CASE s = t
          BY <3>1, <3>2, <5>1, <5>2
        <5>3. CASE s # t
          BY <2>2, <5>1, <5>3
        <5> QED BY <5>2, <5>3
      <4>5. \A s \in Tabs : tab'[s].at \notin {"revoke", "delete"}
        BY <1>1, <2>2, <4>2
      <4> QED BY <2>5, <4>2, <4>4, <4>5
    <3>5. GrantInv'
      <4> SUFFICES ASSUME ~crossed' PROVE
            /\ \A r, s \in link' : r = s
            /\ \A r \in link' : r.access = r.grant
            /\ \A u \in Pushers : pusher'[u].at # "idle" =>
                 pusher'[u].token = pusher'[u].grant /\ \A r \in link' : r.grant = pusher'[u].grant
            /\ \A s \in Tabs : tab'[s].at = "revoke" => \A r \in link' : r.grant = tab'[s].grant
            /\ \A s \in Tabs : tab'[s].at = "delete" => lost' \/ \A r \in link' : r.grant \in revoked'
            /\ \A g \in (1..issued') \ revoked' :
                 \/ lost'
                 \/ \E r \in link' : r.grant = g
                 \/ \E s \in Tabs : tab'[s].at = "save" /\ tab'[s].grant = g
        BY DEF GrantInv
      <4> QED BY <2>1, <2>5, <3>1, <3>4
    <3> QED BY <2>3, <3>3, <3>5 DEF LinkInv
  <2>6. CASE lost' = TRUE /\ link' = link /\ crossed' = crossed
    <3>1. GrantInv'
      <4> SUFFICES ASSUME ~crossed PROVE
            /\ \A s \in Tabs : tab'[s].at = "revoke" => \A r \in link : r.grant = tab'[s].grant
        BY <1>0, <2>1, <2>6 DEF GrantInv
      <4> QED BY <1>0, <1>1, <2>2 DEF GrantInv
    <3>2. LinkTypes'
      BY <1>0, <2>1, <2>2, <2>4, <2>6 DEF LinkTypes
    <3> QED BY <2>3, <3>1, <3>2 DEF LinkInv
  <2> QED BY <1>4, <2>5, <2>6 DEF SaveLink
<1> QED BY <1>2, <1>3, <1>4

\* What the link promises until links cross, in the words of GrantInv.
LEMMA Uncrossed ==
  ASSUME GrantInv, ~crossed
  PROVE  /\ \A r, s \in link : r = s
         /\ \A r \in link : r.access = r.grant
         /\ \A u \in Pushers : pusher[u].at # "idle" =>
              pusher[u].token = pusher[u].grant /\ \A r \in link : r.grant = pusher[u].grant
         /\ \A t \in Tabs : tab[t].at = "revoke" => \A r \in link : r.grant = tab[t].grant
         /\ \A t \in Tabs : tab[t].at = "delete" => lost \/ \A r \in link : r.grant \in revoked
         /\ \A g \in (1..issued) \ revoked :
              \/ lost
              \/ \E r \in link : r.grant = g
              \/ \E t \in Tabs : tab[t].at = "save" /\ tab[t].grant = g
BY DEF GrantInv

\* The way back: one row is read, its grant revoked, every row deleted.
LEMMA DisconnectingKeepsLink ==
  ASSUME LinkInv, NEW t \in Tabs, StartDisconnect(t) \/ Revoke(t) \/ DeleteLink(t)
  PROVE  LinkInv'
<1>0. LinkTypes /\ NonceInv /\ GrantInv
  BY DEF LinkInv
<1>1. IdleTab.at = "idle"
  BY DEF IdleTab
<1>2. ASSUME NEW x, ToTab(t, x), x.at \notin {"exchange", "save"},
             UNCHANGED <<nonces, connects, issued, pusher, hour>>, link' \subseteq link
      PROVE  /\ LinkTypes' /\ NonceInv'
             /\ tab'[t] = x /\ \A s \in Tabs \ {t} : tab'[s] = tab[s]
  <2>1. tab'[t] = x /\ DOMAIN tab' = Tabs /\ \A s \in Tabs \ {t} : tab'[s] = tab[s]
    BY <1>0, <1>2, OneTab
  <2>2. NonceInv'
    <3>1. \A s \in Tabs : Asking(s)' => Asking(s) /\ tab'[s].nonce = tab[s].nonce
      BY <1>2, <2>1 DEF Asking
    <3> QED BY <1>0, <1>2, <3>1, NonceKept
  <2>3. \A s \in Tabs : tab'[s].at = "save" => tab'[s].grant \in Nat /\ tab'[s].until \in Int
    BY <1>0, <1>2, <2>1 DEF LinkTypes
  <2>4. LinkTypes'
    BY <1>0, <1>2, <2>1, <2>3 DEF LinkTypes
  <2> QED BY <2>1, <2>2, <2>4
<1>3. CASE StartDisconnect(t)
  <2>1. PICK kept \in link :
          /\ tab[t] = IdleTab
          /\ ToTab(t, [at |-> "revoke", grant |-> kept.grant])
          /\ UNCHANGED <<link, nonces, connects, issued, revoked, pusher, hour, pushes, crossed, lost>>
    BY <1>3 DEF StartDisconnect
  <2> DEFINE x == [at |-> "revoke", grant |-> kept.grant]
  <2>2. ToTab(t, x) /\ x.at = "revoke" /\ x.grant = kept.grant
    BY <2>1
  <2> HIDE DEF x
  <2>3. LinkTypes' /\ NonceInv' /\ tab'[t] = x /\ \A s \in Tabs \ {t} : tab'[s] = tab[s]
    BY <1>2, <2>1, <2>2
  <2>4. ASSUME ~crossed
        PROVE  /\ \A s \in Tabs : tab'[s].at = "revoke" => \A r \in link : r.grant = tab'[s].grant
               /\ \A s \in Tabs : tab'[s].at = "delete" => lost \/ \A r \in link : r.grant \in revoked
               /\ \A g \in (1..issued) \ revoked :
                    \/ lost
                    \/ \E r \in link : r.grant = g
                    \/ \E s \in Tabs : tab'[s].at = "save" /\ tab'[s].grant = g
    <3>1. /\ \A r, s \in link : r = s
          /\ \A s \in Tabs : tab[s].at = "revoke" => \A r \in link : r.grant = tab[s].grant
          /\ \A s \in Tabs : tab[s].at = "delete" => lost \/ \A r \in link : r.grant \in revoked
      BY <1>0, <2>4, Uncrossed
    <3>2. \A g \in (1..issued) \ revoked :
              \/ lost
              \/ \E r \in link : r.grant = g
              \/ \E s \in Tabs : tab[s].at = "save" /\ tab[s].grant = g
      BY <1>0, <2>4, Uncrossed
    <3>3. \A s \in Tabs : tab[s].at = "save" => tab'[s] = tab[s]
      BY <1>1, <2>1, <2>3
    <3> QED BY <2>2, <2>3, <3>1, <3>2, <3>3
  <2>5. GrantInv'
    BY <1>0, <2>1, <2>4 DEF GrantInv
  <2> QED BY <2>3, <2>5 DEF LinkInv
<1>4. CASE Revoke(t)
  <2> DEFINE x == [at |-> "delete"]
  <2>1. /\ tab[t].at = "revoke" /\ ToTab(t, x) /\ x.at = "delete"
        /\ \/ revoked' = revoked \cup {tab[t].grant} /\ lost' = lost
           \/ lost' = TRUE /\ revoked' = revoked
        /\ UNCHANGED <<link, nonces, connects, issued, pusher, hour, pushes, crossed>>
    BY <1>4 DEF Revoke
  <2> HIDE DEF x
  <2>2. LinkTypes' /\ NonceInv' /\ tab'[t] = x /\ \A s \in Tabs \ {t} : tab'[s] = tab[s]
    BY <1>2, <2>1
  <2>3. revoked \subseteq revoked' /\ (lost => lost')
    BY <2>1
  <2>4. ASSUME ~crossed
        PROVE  /\ \A s \in Tabs : tab'[s].at = "revoke" => \A r \in link : r.grant = tab'[s].grant
               /\ \A s \in Tabs : tab'[s].at = "delete" => lost' \/ \A r \in link : r.grant \in revoked'
               /\ \A g \in (1..issued) \ revoked' :
                    \/ lost'
                    \/ \E r \in link : r.grant = g
                    \/ \E s \in Tabs : tab'[s].at = "save" /\ tab'[s].grant = g
    <3>1. /\ \A s \in Tabs : tab[s].at = "revoke" => \A r \in link : r.grant = tab[s].grant
          /\ \A s \in Tabs : tab[s].at = "delete" => lost \/ \A r \in link : r.grant \in revoked
      BY <1>0, <2>4, Uncrossed
    <3>2. \A g \in (1..issued) \ revoked :
              \/ lost
              \/ \E r \in link : r.grant = g
              \/ \E s \in Tabs : tab[s].at = "save" /\ tab[s].grant = g
      BY <1>0, <2>4, Uncrossed
    <3>3. lost' \/ \A r \in link : r.grant \in revoked'
      BY <2>1, <3>1
    <3>4. \A s \in Tabs : tab'[s].at = "revoke" => \A r \in link : r.grant = tab'[s].grant
      BY <2>1, <2>2, <3>1
    <3>5. \A s \in Tabs : tab'[s].at = "delete" => lost' \/ \A r \in link : r.grant \in revoked'
      BY <3>3
    <3>6. ASSUME NEW g \in (1..issued) \ revoked'
          PROVE  \/ lost'
                 \/ \E r \in link : r.grant = g
                 \/ \E s \in Tabs : tab'[s].at = "save" /\ tab'[s].grant = g
      <4>1. g \in (1..issued) \ revoked
        BY <2>3
      <4>2. \A s \in Tabs : tab[s].at = "save" => tab'[s] = tab[s]
        BY <2>1, <2>2
      <4> QED BY <2>3, <3>2, <4>1, <4>2
    <3> QED BY <3>4, <3>5, <3>6
  <2>5. ASSUME ~crossed
        PROVE  /\ \A r, s \in link : r = s
               /\ \A r \in link : r.access = r.grant
               /\ \A u \in Pushers : pusher[u].at # "idle" =>
                    pusher[u].token = pusher[u].grant /\ \A r \in link : r.grant = pusher[u].grant
    BY <1>0, <2>5, Uncrossed
  <2>6. GrantInv'
    BY <2>1, <2>4, <2>5 DEF GrantInv
  <2> QED BY <2>2, <2>6 DEF LinkInv
<1>5. CASE DeleteLink(t)
  <2>1. /\ tab[t].at = "delete" /\ ToTab(t, IdleTab) /\ link' = {}
        /\ UNCHANGED <<nonces, connects, issued, revoked, pusher, hour, pushes, crossed, lost>>
    BY <1>5 DEF DeleteLink
  <2>2. LinkTypes' /\ NonceInv' /\ tab'[t] = IdleTab /\ \A s \in Tabs \ {t} : tab'[s] = tab[s]
    BY <1>1, <1>2, <2>1
  <2>3. ASSUME ~crossed
        PROVE  /\ \A u \in Pushers : pusher[u].at # "idle" => pusher[u].token = pusher[u].grant
               /\ \A g \in (1..issued) \ revoked :
                    lost \/ \E s \in Tabs : tab'[s].at = "save" /\ tab'[s].grant = g
    <3>1. lost \/ \A r \in link : r.grant \in revoked
      BY <1>0, <2>1, <2>3, Uncrossed
    <3>2. \A g \in (1..issued) \ revoked :
              \/ lost
              \/ \E r \in link : r.grant = g
              \/ \E s \in Tabs : tab[s].at = "save" /\ tab[s].grant = g
      BY <1>0, <2>3, Uncrossed
    <3>3. \A s \in Tabs : tab[s].at = "save" => tab'[s] = tab[s]
      BY <2>1, <2>2
    <3>4. \A u \in Pushers : pusher[u].at # "idle" => pusher[u].token = pusher[u].grant
      BY <1>0, <2>3, Uncrossed
    <3> QED BY <3>1, <3>2, <3>3, <3>4
  <2>4. GrantInv'
    BY <2>1, <2>3 DEF GrantInv
  <2> QED BY <2>2, <2>4 DEF LinkInv
<1> QED BY <1>3, <1>4, <1>5

\* The client: the row is read, its token renewed and cached, the call made.
LEMMA PushingKeepsLink ==
  ASSUME LinkInv, NEW u \in Pushers, StartPush(u) \/ Refresh(u) \/ CacheToken(u) \/ Call(u)
  PROVE  LinkInv'
<1>0. LinkTypes /\ NonceInv /\ GrantInv
  BY DEF LinkInv
<1>1. UNCHANGED <<nonces, connects, issued, revoked, tab, hour, crossed, lost>>
  BY DEF StartPush, Refresh, CacheToken, Call
<1>2. NonceInv'
  BY <1>0, <1>1 DEF NonceInv, Asking
<1>3. ASSUME NEW x \in {NoPush} \cup Pushes, ToPush(u, x), link' = link,
             ~crossed => (x.at # "idle" => x.token = x.grant /\ \A r \in link : r.grant = x.grant)
      PROVE  LinkInv'
  <2>1. /\ pusher' \in [Pushers -> {NoPush} \cup Pushes]
        /\ pusher'[u] = x /\ \A v \in Pushers \ {u} : pusher'[v] = pusher[v]
    BY <1>0, <1>3, OnePush
  <2>2. LinkTypes'
    BY <1>0, <1>1, <1>3, <2>1 DEF LinkTypes
  <2>3. ASSUME ~crossed
        PROVE  \A v \in Pushers : pusher'[v].at # "idle" =>
                 pusher'[v].token = pusher'[v].grant /\ \A r \in link : r.grant = pusher'[v].grant
    <3>1. \A v \in Pushers : pusher[v].at # "idle" =>
            pusher[v].token = pusher[v].grant /\ \A r \in link : r.grant = pusher[v].grant
      BY <1>0, <2>3, Uncrossed
    <3> QED BY <1>3, <2>1, <2>3, <3>1
  <2>4. GrantInv'
    BY <1>0, <1>1, <1>3, <2>3 DEF GrantInv
  <2> QED BY <1>2, <2>2, <2>4 DEF LinkInv
<1>4. NoPush.at = "idle"
  BY DEF NoPush
<1>5. pusher[u] \in {NoPush} \cup Pushes
  BY <1>0 DEF LinkTypes
<1>6. CASE StartPush(u)
  <2>1. PICK kept \in link :
          /\ ToPush(u, [at |-> IF cachedStillFresh(kept) THEN "call" ELSE "refresh", grant |-> kept.grant,
                        token |-> kept.access, until |-> kept.until])
          /\ link' = link
    BY <1>6 DEF StartPush
  <2> DEFINE x == [at |-> IF cachedStillFresh(kept) THEN "call" ELSE "refresh", grant |-> kept.grant,
                   token |-> kept.access, until |-> kept.until]
  <2>2. ToPush(u, x)
    BY <2>1
  <2>3. x \in Pushes /\ x.grant = kept.grant /\ x.token = kept.access
    BY <1>0 DEF LinkTypes, LinkRows, Pushes
  <2> HIDE DEF x
  <2>4. ~crossed => x.token = x.grant /\ \A r \in link : r.grant = x.grant
    BY <1>0, <2>3, Uncrossed
  <2> QED BY <1>3, <2>1, <2>2, <2>3, <2>4
<1>7. CASE Refresh(u)
  <2>1. pusher[u].at = "refresh" /\ pusher[u] \in Pushes /\ link' = link
    BY <1>5, <1>7, PushKinds DEF Refresh
  <2>2. CASE ToPush(u, NoPush)
    BY <1>3, <1>4, <2>1, <2>2
  <2> DEFINE old == pusher[u]
             x == [old EXCEPT !.at = "cache", !.token = old.grant, !.until = hour + AccessLife]
  <2>3. CASE ToPush(u, x)
    <3>1. hour + AccessLife \in Int
      BY <1>0, LinkAssumption DEF LinkTypes
    <3>2. x \in Pushes /\ x.grant = old.grant /\ x.token = old.grant
      BY <2>1, <3>1 DEF Pushes
    <3>3. ~crossed => \A r \in link : r.grant = old.grant
      BY <1>0, <2>1, Uncrossed
    <3> HIDE DEF x, old
    <3> QED BY <1>3, <2>1, <2>3, <3>2, <3>3
  <2> QED BY <1>7, <2>2, <2>3 DEF Refresh
<1>8. CASE CacheToken(u)
  <2> DEFINE old == pusher[u]
             x == [old EXCEPT !.at = "call"]
             cached(r) == [r EXCEPT !.access = old.token, !.until = old.until]
  <2>1. /\ old.at = "cache" /\ old \in Pushes /\ ToPush(u, x)
        /\ link' = {cached(r) : r \in link}
    BY <1>5, <1>8, PushKinds DEF CacheToken
  <2>2. x \in Pushes /\ x.grant = old.grant /\ x.token = old.token
    BY <2>1 DEF Pushes
  <2>3. \A r \in link : cached(r) \in LinkRows /\ cached(r).grant = r.grant /\ cached(r).access = old.token
    BY <1>0, <2>1 DEF LinkTypes, LinkRows, Pushes
  <2> HIDE DEF x, cached
  <2>4. /\ pusher' \in [Pushers -> {NoPush} \cup Pushes]
        /\ pusher'[u] = x /\ \A v \in Pushers \ {u} : pusher'[v] = pusher[v]
    BY <1>0, <2>1, <2>2, OnePush
  <2>5. LinkTypes'
    BY <1>0, <1>1, <2>1, <2>3, <2>4 DEF LinkTypes
  <2>6. ASSUME ~crossed
        PROVE  /\ \A r, s \in link' : r = s
               /\ \A r \in link' : r.access = r.grant
               /\ \A v \in Pushers : pusher'[v].at # "idle" =>
                    pusher'[v].token = pusher'[v].grant /\ \A r \in link' : r.grant = pusher'[v].grant
               /\ \A t \in Tabs : tab[t].at = "revoke" => \A r \in link' : r.grant = tab[t].grant
               /\ \A t \in Tabs : tab[t].at = "delete" => lost \/ \A r \in link' : r.grant \in revoked
    <3>1. /\ \A r, s \in link : r = s
          /\ \A v \in Pushers : pusher[v].at # "idle" =>
               pusher[v].token = pusher[v].grant /\ \A r \in link : r.grant = pusher[v].grant
          /\ \A t \in Tabs : tab[t].at = "revoke" => \A r \in link : r.grant = tab[t].grant
          /\ \A t \in Tabs : tab[t].at = "delete" => lost \/ \A r \in link : r.grant \in revoked
      BY <1>0, <2>6, Uncrossed
    <3>2. old.token = old.grant /\ \A r \in link : r.grant = old.grant
      BY <2>1, <3>1
    <3> HIDE DEF old
    <3>3. \A s \in link' : \E r \in link : s = cached(r) /\ s.grant = r.grant /\ s.access = old.token
      BY <2>1, <2>3
    <3>4. \A r, s \in link' : r = s
      BY <3>1, <3>3
    <3>5. \A r \in link' : r.access = r.grant
      BY <3>2, <3>3
    <3>6. \A v \in Pushers : pusher'[v].at # "idle" =>
            pusher'[v].token = pusher'[v].grant /\ \A r \in link' : r.grant = pusher'[v].grant
      BY <2>2, <2>4, <3>1, <3>2, <3>3
    <3>7. /\ \A t \in Tabs : tab[t].at = "revoke" => \A r \in link' : r.grant = tab[t].grant
          /\ \A t \in Tabs : tab[t].at = "delete" => lost \/ \A r \in link' : r.grant \in revoked
      BY <3>1, <3>3
    <3> QED BY <3>4, <3>5, <3>6, <3>7
  <2>7. ASSUME ~crossed
        PROVE  \A g \in (1..issued) \ revoked :
                 \/ lost
                 \/ \E r \in link' : r.grant = g
                 \/ \E t \in Tabs : tab[t].at = "save" /\ tab[t].grant = g
    <3>1. \A g \in (1..issued) \ revoked :
            \/ lost
            \/ \E r \in link : r.grant = g
            \/ \E t \in Tabs : tab[t].at = "save" /\ tab[t].grant = g
      BY <1>0, <2>7, Uncrossed
    <3>2. \A r \in link : \E s \in link' : s.grant = r.grant
      BY <2>1, <2>3
    <3> QED BY <3>1, <3>2
  <2>8. GrantInv'
    BY <1>1, <2>6, <2>7 DEF GrantInv
  <2> QED BY <1>2, <2>5, <2>8 DEF LinkInv
<1>9. CASE Call(u)
  <2>1. ToPush(u, NoPush) /\ link' = link
    BY <1>9 DEF Call
  <2> QED BY <1>3, <1>4, <2>1
<1> QED BY <1>6, <1>7, <1>8, <1>9

\* In the first state nothing is linked.
LEMMA LinkStarts == ASSUME LinkInit PROVE LinkInv
<1>1. IdleTab.at = "idle" /\ NoPush.at = "idle"
  BY DEF IdleTab, NoPush
<1>2. LinkTypes
  BY <1>1 DEF LinkInit, LinkTypes
<1>3. NonceInv
  BY <1>1 DEF LinkInit, NonceInv, Asking
<1>4. GrantInv
  BY <1>1 DEF LinkInit, GrantInv
<1> QED BY <1>2, <1>3, <1>4 DEF LinkInv

\* Every step keeps the link's invariant, and so does standing still.
LEMMA LinkSteps == ASSUME LinkInv, LinkNext \/ UNCHANGED linkVars PROVE LinkInv'
<1>1. CASE UNCHANGED linkVars
  BY <1>1 DEF linkVars, LinkInv, LinkTypes, NonceInv, Asking, GrantInv
<1> QED BY <1>1, NoncesKeepLink, ConnectingKeepsLink, DisconnectingKeepsLink, PushingKeepsLink DEF LinkNext

\* What the invariant says of nonces and grants.
LEMMA LinkHolds == ASSUME LinkInv PROVE LinkSound
<1>1. ASSUME NEW s \in Tabs, NEW t \in Tabs, s # t, tab[s].at = "exchange", tab[t].at \in {"exchange", "save"}
      PROVE  tab[s].nonce # tab[t].nonce
  BY <1>1 DEF LinkInv, NonceInv, Asking
<1>2. ASSUME NEW t \in Tabs, NEW n \in nonces, tab[t].at \in {"exchange", "save"}
      PROVE  tab[t].nonce # n.id
  BY <1>2 DEF LinkInv, NonceInv, Asking
<1>3. ASSUME ~crossed
      PROVE  /\ Cardinality(link) <= 1
             /\ \A r \in link : r.access = r.grant
             /\ \A u \in Pushers : pusher[u].at = "call" => pusher[u].token = pusher[u].grant
             /\ \A g \in (1..issued) \ revoked :
                  \/ lost
                  \/ \E r \in link : r.grant = g
                  \/ \E t \in Tabs : tab[t].at = "save" /\ tab[t].grant = g
  <2>1. /\ \A r, s \in link : r = s
        /\ \A r \in link : r.access = r.grant
        /\ \A u \in Pushers : pusher[u].at # "idle" => pusher[u].token = pusher[u].grant
    BY <1>3, Uncrossed DEF LinkInv
  <2>2. Cardinality(link) <= 1
    <3>1. CASE link = {}
      BY <3>1, FS_EmptySet
    <3>2. CASE link # {}
      <4>1. PICK r : link = {r}
        BY <2>1, <3>2, SMTT(30)
      <4>2. Cardinality({r}) = 1
        BY FS_Singleton
      <4> QED BY <4>1, <4>2
    <3> QED BY <3>1, <3>2
  <2>3. \A g \in (1..issued) \ revoked :
          \/ lost
          \/ \E r \in link : r.grant = g
          \/ \E t \in Tabs : tab[t].at = "save" /\ tab[t].grant = g
    BY <1>3, Uncrossed DEF LinkInv
  <2> QED BY <2>1, <2>2, <2>3
<1> QED BY <1>1, <1>2, <1>3 DEF LinkSound

\* A nonce opens one exchange; and until links cross, a call is made with the
\* linked grant and no grant is left alive but unused (googleCalendarOAuth.js).
THEOREM LinksAreSound == LinkSpec => []LinkSound
<1>1. LinkInit => LinkInv
  BY LinkStarts
<1>2. LinkInv /\ [LinkNext]_linkVars => LinkInv'
  BY LinkSteps
<1> QED BY <1>1, <1>2, LinkHolds, PTL DEF LinkSpec

----------------------------------------
(* Sessions.  First the types: requests name tokens that exist.              *)

States    == {"active", "off", "deleted"}
Lives     == [state : States, life : Nat, grants : Nat]
TokenRows == [of : Subjects, revoked : BOOLEAN, next : Nat, expired : BOOLEAN, line : Nat]

AtRow     == {"revokeAll", "load", "create", "drop"}
RotPlaces == {"load", "create", "retire"}

\* n: tokens.
KnockFits(k, n) ==
  /\ k.at \in {"issue", "restore", "grants", "setState"} => k.of \in Subjects
  /\ k.at = "setState" => k.state \in States
  /\ k.at = "grants" => k.life \in Nat
  /\ k.at \in AtRow => k \in [at : AtRow, row : 1..n]
  /\ k.at = "retire" => k.row \in 1..n /\ k.new \in 1..n

SessTypes ==
  /\ account \in [Subjects -> Lives]
  /\ token \in Seq(TokenRows) /\ Len(token) <= MaxTokens
  /\ DOMAIN knock = Visitors /\ \A r \in Visitors : KnockFits(knock[r], Len(token))

\* One request goes on.
LEMMA OneKnock ==
  ASSUME SessTypes, NEW r \in Visitors, NEW x, knock' = [knock EXCEPT ![r] = x]
  PROVE  knock'[r] = x /\ DOMAIN knock' = Visitors /\ \A s \in Visitors \ {r} : knock'[s] = knock[s]
BY DEF SessTypes

\* An idle request names nothing.
LEMMA GoneFits == Gone.at = "idle" /\ \A n : KnockFits(Gone, n)
<1>1. Gone.at = "idle"
  BY DEF Gone
<1> QED BY <1>1 DEF KnockFits, AtRow

\* What fits a table fits a longer one.
LEMMA KnockFitsOn ==
  ASSUME NEW k, NEW n \in Nat, NEW m \in Nat, n <= m, KnockFits(k, n)
  PROVE  KnockFits(k, m)
<1>1. k.at \in AtRow => k \in [at : AtRow, row : 1..m]
  <2>1. 1..n \subseteq 1..m
    OBVIOUS
  <2> QED BY <2>1 DEF KnockFits
<1>2. k.at = "retire" => k.row \in 1..m /\ k.new \in 1..m
  BY DEF KnockFits
<1> QED BY <1>1, <1>2 DEF KnockFits

\* The types after a step of one request.
LEMMA KnockTyped ==
  ASSUME SessTypes, NEW r \in Visitors, NEW x, knock' = [knock EXCEPT ![r] = x],
         account' \in [Subjects -> Lives],
         token' \in Seq(TokenRows), Len(token) <= Len(token'), Len(token') <= MaxTokens,
         KnockFits(x, Len(token'))
  PROVE  SessTypes'
<1>1. knock'[r] = x /\ DOMAIN knock' = Visitors /\ \A s \in Visitors \ {r} : knock'[s] = knock[s]
  BY OneKnock
<1>2. ASSUME NEW s \in Visitors \ {r} PROVE KnockFits(knock'[s], Len(token'))
  <2>1. KnockFits(knock[s], Len(token)) /\ Len(token) \in Nat /\ Len(token') \in Nat
    BY DEF SessTypes
  <2>2. KnockFits(knock[s], Len(token'))
    BY <2>1, KnockFitsOn
  <2> QED BY <1>1, <2>2
<1> QED BY <1>1, <1>2 DEF SessTypes

\* A new token.
LEMMA TokenAdded ==
  ASSUME SessTypes, NEW s \in Subjects, NEW line \in 1..(Len(token) + 1),
         Len(token) < MaxTokens, token' = Append(token, Fresh(s, line))
  PROVE  /\ token' \in Seq(TokenRows) /\ Len(token') = Len(token) + 1 /\ Len(token') <= MaxTokens
         /\ \A i \in 1..Len(token) : token'[i] = token[i]
         /\ LET new == token'[Len(token) + 1]
            IN new.of = s /\ new.line = line /\ ~new.revoked /\ new.next = 0
<1> DEFINE x == Fresh(s, line)
<1>1. token \in Seq(TokenRows) /\ Len(token) \in Nat /\ line \in Nat /\ MaxTokens \in Nat
  BY SessionsAssumption DEF SessTypes
<1>2. x \in TokenRows /\ x.of = s /\ x.line = line /\ ~x.revoked /\ x.next = 0
  BY <1>1 DEF Fresh, TokenRows
<1>3. token' = Append(token, x)
  OBVIOUS
<1> HIDE DEF x
<1>4. /\ token' \in Seq(TokenRows) /\ Len(token') = Len(token) + 1 /\ token'[Len(token) + 1] = x
      /\ \A i \in 1..Len(token) : token'[i] = token[i]
  BY <1>1, <1>2, <1>3
<1> QED BY <1>1, <1>2, <1>4

\* A token that is revoked, if it was not: UPDATE ... WHERE revoked_at IS NULL.
LEMMA TokenRevoked ==
  ASSUME SessTypes, NEW n \in 1..Len(token), NEW new \in Nat, token' = Revoked(n, new)
  PROVE  /\ token' \in Seq(TokenRows) /\ Len(token') = Len(token)
         /\ \A i \in 1..Len(token) :
              /\ token'[i].of = token[i].of /\ token'[i].line = token[i].line
              /\ token[i].revoked => token'[i].revoked
              /\ token'[i].next = token[i].next \/ (i = n /\ ~token[i].revoked /\ token'[i].next = new)
         /\ token'[n].revoked
<1> DEFINE x == [token[n] EXCEPT !.revoked = TRUE, !.next = new]
<1>1. token \in Seq(TokenRows) /\ \A i \in 1..Len(token) : token[i] \in TokenRows
  BY DEF SessTypes
<1>2. CASE token[n].revoked
  <2>1. token' = token
    BY <1>2 DEF Revoked
  <2> QED BY <1>1, <1>2, <2>1
<1>3. CASE ~token[n].revoked
  <2>1. token' = [token EXCEPT ![n] = x]
    BY <1>1, <1>3 DEF Revoked, TokenRows
  <2>2. x \in TokenRows /\ x.of = token[n].of /\ x.line = token[n].line /\ x.revoked /\ x.next = new
    BY <1>1 DEF TokenRows
  <2> HIDE DEF x
  <2>3. /\ token' \in Seq(TokenRows) /\ Len(token') = Len(token) /\ token'[n] = x
        /\ \A i \in 1..Len(token) \ {n} : token'[i] = token[i]
    BY <1>1, <2>1, <2>2
  <2> QED BY <1>3, <2>2, <2>3
<1> QED BY <1>2, <1>3

\* All tokens of an account are revoked.
LEMMA AllRevoked ==
  ASSUME SessTypes, NEW r \in Visitors, revokeAllForSubject(r)
  PROVE  /\ token' \in Seq(TokenRows) /\ Len(token') = Len(token)
         /\ \A i \in 1..Len(token) :
              /\ token'[i].of = token[i].of /\ token'[i].line = token[i].line
              /\ token'[i].next = token[i].next
              /\ token'[i].revoked = (token[i].revoked \/ i \in OfSubject(knock[r].row))
<1> DEFINE mine == OfSubject(knock[r].row)
           x(j) == [token[j] EXCEPT !.revoked = token[j].revoked \/ j \in mine]
<1>1. token \in Seq(TokenRows) /\ Len(token) \in Nat /\ DOMAIN token = 1..Len(token)
      /\ \A i \in 1..Len(token) : token[i] \in TokenRows
  BY DEF SessTypes
<1>2. token' = [j \in 1..Len(token) |-> x(j)]
  BY <1>1 DEF revokeAllForSubject
<1> HIDE DEF mine
<1>3. \A j \in 1..Len(token) :
        /\ x(j) \in TokenRows
        /\ x(j).of = token[j].of /\ x(j).line = token[j].line /\ x(j).next = token[j].next
        /\ x(j).revoked = (token[j].revoked \/ j \in mine)
  BY <1>1 DEF TokenRows
<1> HIDE DEF x
<1>4. token' \in Seq(TokenRows) /\ Len(token') = Len(token) /\ \A j \in 1..Len(token) : token'[j] = x(j)
  <2>1. token' \in Seq(TokenRows)
    BY <1>1, <1>2, <1>3
  <2> QED BY <1>1, <1>2, <2>1
<1> QED BY <1>3, <1>4 DEF mine

\* A token that expires.
LEMMA TokenExpires ==
  ASSUME SessTypes, NEW n \in DOMAIN token, ExpireToken(n)
  PROVE  /\ token' \in Seq(TokenRows) /\ Len(token') = Len(token)
         /\ \A i \in 1..Len(token) :
              /\ token'[i].of = token[i].of /\ token'[i].line = token[i].line
              /\ token'[i].next = token[i].next /\ token'[i].revoked = token[i].revoked
         /\ UNCHANGED <<account, knock, forked, ended, mixed>>
<1> DEFINE x == [token[n] EXCEPT !.expired = TRUE]
<1>1. token \in Seq(TokenRows) /\ n \in 1..Len(token) /\ token[n] \in TokenRows
  BY DEF SessTypes
<1>2. token' = [token EXCEPT ![n] = x] /\ UNCHANGED <<account, knock, forked, ended, mixed>>
  BY <1>1 DEF ExpireToken
<1>3. x \in TokenRows /\ x.of = token[n].of /\ x.line = token[n].line /\ x.next = token[n].next
      /\ x.revoked = token[n].revoked
  BY <1>1 DEF TokenRows
<1> HIDE DEF x
<1>4. /\ token' \in Seq(TokenRows) /\ Len(token') = Len(token) /\ token'[n] = x
      /\ \A i \in 1..Len(token) \ {n} : token'[i] = token[i]
  BY <1>1, <1>2, <1>3
<1> QED BY <1>2, <1>3, <1>4

----------------------------------------
(* What each step does.                                                      *)

\* A call reads: it changes no token and no life, and its request starts somewhere.
LEMMA CallEffect ==
  ASSUME SessTypes, NEW r \in Visitors, knock[r] = Gone, SessionCall(r)
  PROVE  /\ SessTypes' /\ UNCHANGED <<token, ended, mixed>>
         /\ \A s \in Visitors \ {r} : knock'[s] = knock[s]
         /\ \A s \in Subjects : account'[s].life = account[s].life /\ account'[s].grants = account[s].grants
         /\ knock'[r].at = "grants" => knock'[r].life = account[knock'[r].of].life
         /\ \/ knock'[r].at \notin RotPlaces /\ forked' = forked
            \/ \E i \in 1..Len(token) :
                 /\ knock'[r].at = "load" /\ knock'[r].row = i /\ ~token[i].revoked
                 /\ forked' = IF Rotating(token[i].line) # {} THEN forked \cup {token[i].line} ELSE forked
<1>0. /\ token \in Seq(TokenRows) /\ DOMAIN token = 1..Len(token) /\ Len(token) <= MaxTokens
      /\ account \in [Subjects -> Lives]
      /\ \A s \in Subjects : account[s] \in Lives
  BY DEF SessTypes
<1>1. ASSUME NEW x, Knock(r, x), token' = token, account' = account, KnockFits(x, Len(token))
      PROVE  SessTypes' /\ knock'[r] = x /\ \A s \in Visitors \ {r} : knock'[s] = knock[s]
  <2>1. knock' = [knock EXCEPT ![r] = x]
    BY <1>1 DEF Knock
  <2>2. knock'[r] = x /\ \A s \in Visitors \ {r} : knock'[s] = knock[s]
    BY <2>1, OneKnock
  <2>3. /\ account' \in [Subjects -> Lives] /\ token' \in Seq(TokenRows) /\ Len(token) <= Len(token')
        /\ Len(token') <= MaxTokens /\ KnockFits(x, Len(token'))
    BY <1>0, <1>1
  <2> QED BY <2>1, <2>2, <2>3, KnockTyped
<1>2. ASSUME NEW s \in Subjects, login(r, s)
      PROVE  /\ SessTypes' /\ UNCHANGED <<account, token, ended, mixed, forked>>
             /\ \A v \in Visitors \ {r} : knock'[v] = knock[v]
             /\ knock'[r].at = "issue"
  <2> DEFINE x == [at |-> "issue", of |-> s]
  <2>1. Knock(r, x) /\ UNCHANGED <<account, token, forked, ended, mixed>> /\ x.at = "issue" /\ x.of = s
    BY <1>2 DEF login
  <2> HIDE DEF x
  <2>2. KnockFits(x, Len(token))
    BY <2>1 DEF KnockFits, AtRow
  <2> QED BY <1>1, <2>1, <2>2
<1>3. ASSUME NEW s \in Subjects, createSubAdmin(r, s)
      PROVE  /\ SessTypes' /\ UNCHANGED <<account, token, ended, mixed, forked>>
             /\ \A v \in Visitors \ {r} : knock'[v] = knock[v]
             /\ knock'[r].at = "restore"
  <2> DEFINE x == [at |-> "restore", of |-> s]
  <2>1. Knock(r, x) /\ UNCHANGED <<account, token, forked, ended, mixed>> /\ x.at = "restore" /\ x.of = s
    BY <1>3 DEF createSubAdmin
  <2> HIDE DEF x
  <2>2. KnockFits(x, Len(token))
    BY <2>1 DEF KnockFits, AtRow
  <2> QED BY <1>1, <2>1, <2>2
<1>4. ASSUME NEW s \in Subjects, updateModules(r, s)
      PROVE  /\ SessTypes' /\ UNCHANGED <<account, token, ended, mixed, forked>>
             /\ \A v \in Visitors \ {r} : knock'[v] = knock[v]
             /\ knock'[r].at = "grants" /\ knock'[r].of = s /\ knock'[r].life = account[s].life
  <2> DEFINE x == [at |-> "grants", of |-> s, life |-> account[s].life]
  <2>1. /\ Knock(r, x) /\ UNCHANGED <<account, token, forked, ended, mixed>>
        /\ x.at = "grants" /\ x.of = s /\ x.life = account[s].life
    BY <1>4 DEF updateModules
  <2> HIDE DEF x
  <2>2. account[s].life \in Nat
    BY <1>0 DEF Lives
  <2>3. KnockFits(x, Len(token))
    BY <2>1, <2>2 DEF KnockFits, AtRow
  <2> QED BY <1>1, <2>1, <2>3
<1>5. ASSUME NEW s \in Subjects, NEW new \in States, Knock(r, [at |-> "setState", of |-> s, state |-> new]),
             UNCHANGED <<account, token, forked, ended, mixed>>
      PROVE  /\ SessTypes' /\ UNCHANGED <<account, token, ended, mixed, forked>>
             /\ \A v \in Visitors \ {r} : knock'[v] = knock[v]
             /\ knock'[r].at = "setState"
  <2> DEFINE x == [at |-> "setState", of |-> s, state |-> new]
  <2>1. Knock(r, x) /\ x.at = "setState" /\ x.of = s /\ x.state = new
    BY <1>5
  <2> HIDE DEF x
  <2>2. KnockFits(x, Len(token))
    BY <2>1 DEF KnockFits, AtRow
  <2> QED BY <1>1, <1>5, <2>1, <2>2
<1>6. ASSUME NEW s \in Subjects, removeSubAdmin(r, s) \/ \E on \in BOOLEAN : setSubAdminActive(r, s, on)
      PROVE  \E new \in States : /\ Knock(r, [at |-> "setState", of |-> s, state |-> new])
                                 /\ UNCHANGED <<account, token, forked, ended, mixed>>
  BY <1>6 DEF removeSubAdmin, setSubAdminActive, States
<1>7. ASSUME NEW i \in 1..Len(token), revoke(r, i)
      PROVE  /\ SessTypes' /\ UNCHANGED <<account, token, ended, mixed, forked>>
             /\ \A v \in Visitors \ {r} : knock'[v] = knock[v]
             /\ knock'[r].at = "drop"
  <2> DEFINE x == [at |-> "drop", row |-> i]
  <2>1. /\ Knock(r, x) /\ UNCHANGED <<account, token, forked, ended, mixed>>
        /\ x.at = "drop" /\ x \in [at : AtRow, row : 1..Len(token)]
    BY <1>7 DEF revoke, AtRow
  <2> HIDE DEF x
  <2>2. KnockFits(x, Len(token))
    BY <2>1 DEF KnockFits
  <2> QED BY <1>1, <2>1, <2>2
<1>8. ASSUME NEW i \in 1..Len(token), rotateAndReissue(r, i)
      PROVE  /\ SessTypes' /\ UNCHANGED <<account, token, ended, mixed>>
             /\ \A v \in Visitors \ {r} : knock'[v] = knock[v]
             /\ \/ knock'[r].at \in {"idle", "revokeAll"} /\ forked' = forked
                \/ /\ knock'[r].at = "load" /\ knock'[r].row = i /\ ~token[i].revoked
                   /\ forked' = IF Rotating(token[i].line) # {} THEN forked \cup {token[i].line} ELSE forked
  <2> DEFINE x == [at |-> "revokeAll", row |-> i]
             y == [at |-> "load", row |-> i]
  <2>1. /\ Knock(r, IF Reused(i) THEN x ELSE IF token[i].expired THEN Gone ELSE y)
        /\ forked' = IF ~Reused(i) /\ ~token[i].expired /\ Rotating(token[i].line) # {}
                     THEN forked \cup {token[i].line} ELSE forked
        /\ UNCHANGED <<account, token, ended, mixed>>
    BY <1>8 DEF rotateAndReissue
  <2>2. /\ x.at = "revokeAll" /\ x \in [at : AtRow, row : 1..Len(token)]
        /\ y.at = "load" /\ y.row = i /\ y \in [at : AtRow, row : 1..Len(token)]
    BY DEF AtRow
  <2> HIDE DEF x, y
  <2>3. KnockFits(x, Len(token)) /\ KnockFits(y, Len(token))
    BY <2>2 DEF KnockFits
  <2>4. CASE Reused(i)
    <3>1. Knock(r, x) /\ forked' = forked
      BY <2>1, <2>4
    <3> QED BY <1>1, <2>1, <2>2, <2>3, <3>1
  <2>5. CASE ~Reused(i) /\ token[i].expired
    <3>1. Knock(r, Gone) /\ forked' = forked
      BY <2>1, <2>5
    <3> QED BY <1>1, <2>1, <3>1, GoneFits
  <2>6. CASE ~Reused(i) /\ ~token[i].expired
    <3>1. /\ Knock(r, y) /\ ~token[i].revoked
          /\ forked' = IF Rotating(token[i].line) # {} THEN forked \cup {token[i].line} ELSE forked
      BY <2>1, <2>6 DEF Reused
    <3> QED BY <1>1, <2>1, <2>2, <2>3, <3>1
  <2> QED BY <2>4, <2>5, <2>6
<1>9. \A at : at \in {"issue", "restore", "grants", "setState", "drop", "idle", "revokeAll"} => at \notin RotPlaces
  BY DEF RotPlaces
<1>10. CASE \E s \in Subjects : login(r, s) \/ createSubAdmin(r, s)
  BY <1>2, <1>3, <1>9, <1>10
<1>11. CASE \E s \in Subjects : updateModules(r, s)
  BY <1>4, <1>9, <1>11
<1>12. CASE \E s \in Subjects : removeSubAdmin(r, s) \/ \E on \in BOOLEAN : setSubAdminActive(r, s, on)
  BY <1>5, <1>6, <1>9, <1>12
<1>13. CASE \E i \in DOMAIN token : revoke(r, i)
  BY <1>0, <1>7, <1>9, <1>13
<1>14. CASE \E i \in DOMAIN token : rotateAndReissue(r, i)
  BY <1>0, <1>8, <1>9, <1>14
<1> QED BY <1>10, <1>11, <1>12, <1>13, <1>14 DEF SessionCall

\* A request whose place and row are the same kind of thing before and after.
LEMMA AtRowFits ==
  ASSUME SessTypes, NEW r \in Visitors, knock[r].at \in AtRow
  PROVE  knock[r] \in [at : AtRow, row : 1..Len(token)] /\ knock[r].row \in 1..Len(token)
BY DEF SessTypes, KnockFits

\* The first token of a line, or the next one.
LEMMA IssueEffect ==
  ASSUME SessTypes, NEW r \in Visitors, issue(r)
  PROVE  /\ SessTypes' /\ UNCHANGED <<account, forked, ended, mixed>>
         /\ knock[r].at = "issue" /\ knock'[r] = Gone /\ \A s \in Visitors \ {r} : knock'[s] = knock[s]
         /\ Len(token') = Len(token) + 1 /\ \A i \in 1..Len(token) : token'[i] = token[i]
         /\ LET new == token'[Len(token) + 1]
            IN new.line = Len(token) + 1 /\ ~new.revoked /\ new.next = 0
<1> DEFINE s == knock[r].of
           l == Len(token) + 1
<1>1. /\ token \in Seq(TokenRows) /\ Len(token) \in Nat /\ account \in [Subjects -> Lives]
      /\ knock[r].at = "issue" /\ s \in Subjects
  BY DEF SessTypes, KnockFits, issue
<1>2. /\ Len(token) < MaxTokens /\ token' = Append(token, Fresh(s, l)) /\ knock' = [knock EXCEPT ![r] = Gone]
      /\ UNCHANGED <<account, forked, ended, mixed>>
  BY DEF issue, Leave, Step
<1>3. l \in 1..(Len(token) + 1)
  BY <1>1
<1> HIDE DEF s, l
<1>4. /\ token' \in Seq(TokenRows) /\ Len(token') = Len(token) + 1 /\ Len(token') <= MaxTokens
      /\ \A i \in 1..Len(token) : token'[i] = token[i]
      /\ token'[Len(token) + 1].line = l /\ ~token'[Len(token) + 1].revoked /\ token'[Len(token) + 1].next = 0
  BY <1>1, <1>2, <1>3, TokenAdded
<1>5. Len(token) <= Len(token') /\ account' \in [Subjects -> Lives]
  BY <1>1, <1>2, <1>4
<1>6. SessTypes'
  BY <1>2, <1>4, <1>5, KnockTyped, GoneFits
<1>7. knock'[r] = Gone /\ \A v \in Visitors \ {r} : knock'[v] = knock[v]
  BY <1>2, OneKnock
<1> QED BY <1>1, <1>2, <1>4, <1>6, <1>7 DEF l

\* Its successor.
LEMMA CreateEffect ==
  ASSUME SessTypes, NEW r \in Visitors, CreateToken(r),
         token[knock[r].row].line \in 1..Len(token)
  PROVE  /\ SessTypes' /\ UNCHANGED <<account, forked, ended, mixed>>
         /\ knock[r].at = "create" /\ knock[r].row \in 1..Len(token)
         /\ knock'[r].at = "retire" /\ knock'[r].row = knock[r].row /\ knock'[r].new = Len(token) + 1
         /\ \A s \in Visitors \ {r} : knock'[s] = knock[s]
         /\ Len(token') = Len(token) + 1 /\ \A i \in 1..Len(token) : token'[i] = token[i]
         /\ LET new == token'[Len(token) + 1]
            IN /\ new.line = token[knock[r].row].line /\ new.of = token[knock[r].row].of
               /\ ~new.revoked /\ new.next = 0
<1> DEFINE n == knock[r].row
           s == token[n].of
           l == token[n].line
           x == [at |-> "retire", row |-> n, new |-> Len(token) + 1]
<1>1. knock[r].at = "create" /\ "create" \in AtRow
  BY DEF CreateToken, AtRow
<1>2. /\ token \in Seq(TokenRows) /\ Len(token) \in Nat /\ account \in [Subjects -> Lives]
      /\ n \in 1..Len(token) /\ token[n] \in TokenRows
  BY <1>1, AtRowFits DEF SessTypes
<1>3. s \in Subjects /\ l \in 1..(Len(token) + 1)
  BY <1>2 DEF TokenRows
<1>4. /\ Len(token) < MaxTokens /\ token' = Append(token, Fresh(s, l)) /\ knock' = [knock EXCEPT ![r] = x]
      /\ UNCHANGED <<account, forked, ended, mixed>>
  BY DEF CreateToken, Step
<1>5. x.at = "retire" /\ x.row = n /\ x.new = Len(token) + 1
  OBVIOUS
<1> HIDE DEF x, l, s
<1>6. /\ token' \in Seq(TokenRows) /\ Len(token') = Len(token) + 1 /\ Len(token') <= MaxTokens
      /\ \A i \in 1..Len(token) : token'[i] = token[i]
      /\ token'[Len(token) + 1].line = l /\ token'[Len(token) + 1].of = s
      /\ ~token'[Len(token) + 1].revoked /\ token'[Len(token) + 1].next = 0
  BY <1>3, <1>4, TokenAdded
<1>7. KnockFits(x, Len(token'))
  <2>1. x.row \in 1..Len(token') /\ x.new \in 1..Len(token')
    BY <1>2, <1>5, <1>6
  <2> QED BY <1>5, <2>1 DEF KnockFits, AtRow
<1>8. Len(token) <= Len(token') /\ account' \in [Subjects -> Lives]
  BY <1>2, <1>4, <1>6
<1>9. SessTypes'
  BY <1>4, <1>6, <1>7, <1>8, KnockTyped
<1>10. knock'[r] = x /\ \A v \in Visitors \ {r} : knock'[v] = knock[v]
  BY <1>4, OneKnock
<1> QED BY <1>1, <1>2, <1>4, <1>5, <1>6, <1>9, <1>10 DEF l, s

\* The old one is retired, or one is dropped: it is revoked if it was not.
LEMMA RevokeEffect ==
  ASSUME SessTypes, NEW r \in Visitors, Retire(r) \/ Drop(r)
  PROVE  LET n == knock[r].row
             new == IF Retire(r) THEN knock[r].new ELSE 0
         IN /\ SessTypes' /\ UNCHANGED <<account, forked, mixed>>
            /\ knock'[r] = Gone /\ \A s \in Visitors \ {r} : knock'[s] = knock[s]
            /\ n \in 1..Len(token) /\ Len(token') = Len(token)
            /\ \A i \in 1..Len(token) :
                 /\ token'[i].of = token[i].of /\ token'[i].line = token[i].line
                 /\ token[i].revoked => token'[i].revoked
                 /\ token'[i].next = token[i].next \/ (i = n /\ ~token[i].revoked /\ token'[i].next = new)
            /\ token'[n].revoked
<1> DEFINE n == knock[r].row
           new == IF Retire(r) THEN knock[r].new ELSE 0
<1>1. /\ token \in Seq(TokenRows) /\ Len(token) \in Nat /\ account \in [Subjects -> Lives]
      /\ Len(token) <= MaxTokens /\ KnockFits(knock[r], Len(token))
  BY DEF SessTypes
<1>2. n \in 1..Len(token) /\ new \in Nat
  <2>1. CASE Retire(r)
    BY <1>1, <2>1 DEF Retire, KnockFits
  <2>2. CASE ~Retire(r)
    <3>1. knock[r].at = "drop" /\ "drop" \in AtRow
      BY <2>2 DEF Drop, AtRow
    <3> QED BY <2>2, <3>1, AtRowFits
  <2> QED BY <2>1, <2>2
<1>3. token' = Revoked(n, new) /\ knock' = [knock EXCEPT ![r] = Gone] /\ UNCHANGED <<account, forked, mixed>>
  <2>1. CASE Retire(r)
    BY <2>1 DEF Retire, Leave, Step
  <2>2. CASE ~Retire(r)
    BY <2>2 DEF Drop, Leave, Step
  <2> QED BY <2>1, <2>2
<1> HIDE DEF n, new
<1>4. /\ token' \in Seq(TokenRows) /\ Len(token') = Len(token)
      /\ \A i \in 1..Len(token) :
           /\ token'[i].of = token[i].of /\ token'[i].line = token[i].line
           /\ token[i].revoked => token'[i].revoked
           /\ token'[i].next = token[i].next \/ (i = n /\ ~token[i].revoked /\ token'[i].next = new)
      /\ token'[n].revoked
  BY <1>2, <1>3, TokenRevoked
<1>5. Len(token) <= Len(token') /\ Len(token') <= MaxTokens /\ account' \in [Subjects -> Lives]
  BY <1>1, <1>3, <1>4
<1>6. SessTypes'
  BY <1>3, <1>4, <1>5, KnockTyped, GoneFits
<1>7. knock'[r] = Gone /\ \A v \in Visitors \ {r} : knock'[v] = knock[v]
  BY <1>3, OneKnock
<1> QED BY <1>2, <1>3, <1>4, <1>6, <1>7 DEF n, new

\* A used token came back: all of the account's are revoked.
LEMMA RevokeAllEffect ==
  ASSUME SessTypes, NEW r \in Visitors, revokeAllForSubject(r)
  PROVE  /\ SessTypes' /\ UNCHANGED <<account, forked, mixed>>
         /\ knock[r].at = "revokeAll" /\ knock[r].row \in 1..Len(token)
         /\ knock'[r] = Gone /\ \A s \in Visitors \ {r} : knock'[s] = knock[s]
         /\ Len(token') = Len(token)
         /\ \A i \in 1..Len(token) :
              /\ token'[i].of = token[i].of /\ token'[i].line = token[i].line /\ token'[i].next = token[i].next
              /\ token'[i].revoked = (token[i].revoked \/ token[i].of = token[knock[r].row].of)
         /\ ended' = ended \cup {l \in Lines : token[l].of = token[knock[r].row].of /\ Rotating(l) = {}}
<1> DEFINE mine == OfSubject(knock[r].row)
<1>1. /\ token \in Seq(TokenRows) /\ Len(token) \in Nat /\ account \in [Subjects -> Lives]
      /\ Len(token) <= MaxTokens /\ DOMAIN token = 1..Len(token)
  BY DEF SessTypes
<1>2. /\ knock[r].at = "revokeAll"
      /\ ended' = ended \cup {l \in Lines : token[l].of = token[knock[r].row].of /\ Rotating(l) = {}}
      /\ knock' = [knock EXCEPT ![r] = Gone] /\ UNCHANGED <<account, forked, mixed>>
  BY DEF revokeAllForSubject, Leave, Step
<1>3. knock[r].row \in 1..Len(token)
  <2>1. knock[r].at \in AtRow
    BY <1>2 DEF AtRow
  <2> QED BY <2>1, AtRowFits
<1>4. \A i \in 1..Len(token) : i \in mine <=> token[i].of = token[knock[r].row].of
  BY <1>1 DEF OfSubject
<1>5. /\ token' \in Seq(TokenRows) /\ Len(token') = Len(token)
      /\ \A i \in 1..Len(token) :
           /\ token'[i].of = token[i].of /\ token'[i].line = token[i].line /\ token'[i].next = token[i].next
           /\ token'[i].revoked = (token[i].revoked \/ i \in mine)
  BY AllRevoked
<1>6. Len(token) <= Len(token') /\ Len(token') <= MaxTokens /\ account' \in [Subjects -> Lives]
  BY <1>1, <1>2, <1>5
<1>7. SessTypes'
  BY <1>2, <1>5, <1>6, KnockTyped, GoneFits
<1>8. knock'[r] = Gone /\ \A v \in Visitors \ {r} : knock'[v] = knock[v]
  BY <1>2, OneKnock
<1>9. ASSUME NEW i \in 1..Len(token)
      PROVE  /\ token'[i].of = token[i].of /\ token'[i].line = token[i].line /\ token'[i].next = token[i].next
             /\ token'[i].revoked = (token[i].revoked \/ token[i].of = token[knock[r].row].of)
  <2>1. token'[i].revoked = (token[i].revoked \/ i \in mine)
    BY <1>5
  <2>2. (i \in mine) = (token[i].of = token[knock[r].row].of)
    BY <1>4
  <2>3. token'[i].revoked = (token[i].revoked \/ token[i].of = token[knock[r].row].of)
    BY <2>1, <2>2
  <2> QED BY <1>5, <2>3
<1> QED BY <1>2, <1>3, <1>5, <1>7, <1>8, <1>9

\* The account is looked at.
LEMMA LoadEffect ==
  ASSUME SessTypes, NEW r \in Visitors, loadSubject(r)
  PROVE  /\ SessTypes' /\ UNCHANGED <<account, token, forked, ended, mixed>>
         /\ knock[r].at = "load" /\ knock[r].row \in 1..Len(token)
         /\ knock'[r].at \in {"create", "drop"} /\ knock'[r].row = knock[r].row
         /\ \A s \in Visitors \ {r} : knock'[s] = knock[s]
<1> DEFINE at == IF account[token[knock[r].row].of].state = "active" THEN "create" ELSE "drop"
           old == knock[r]
           x == [old EXCEPT !.at = at]
<1>1. /\ token \in Seq(TokenRows) /\ Len(token) \in Nat /\ account \in [Subjects -> Lives]
      /\ Len(token) <= MaxTokens
  BY DEF SessTypes
<1>2. /\ old.at = "load" /\ knock' = [knock EXCEPT ![r] = x] /\ UNCHANGED <<account, token, forked, ended, mixed>>
  BY DEF loadSubject, StepTo, Step
<1>3. old \in [at : AtRow, row : 1..Len(token)] /\ old.row \in 1..Len(token)
  <2>1. old.at \in AtRow
    BY <1>2 DEF AtRow
  <2> QED BY <2>1, AtRowFits
<1>4. at \in {"create", "drop"} /\ at \in AtRow /\ at # "retire" /\ at \notin {"issue", "restore", "grants"}
  BY DEF AtRow
<1> HIDE DEF at, old
<1>5. x.at = at /\ x.row = old.row /\ x \in [at : AtRow, row : 1..Len(token)]
  BY <1>3, <1>4
<1> HIDE DEF x
<1>6. KnockFits(x, Len(token'))
  BY <1>2, <1>4, <1>5 DEF KnockFits
<1>7. token' \in Seq(TokenRows) /\ Len(token) <= Len(token') /\ Len(token') <= MaxTokens /\ account' \in [Subjects -> Lives]
  BY <1>1, <1>2
<1>8. SessTypes'
  BY <1>2, <1>6, <1>7, KnockTyped
<1>9. knock'[r] = x /\ \A v \in Visitors \ {r} : knock'[v] = knock[v]
  BY <1>2, OneKnock
<1> QED BY <1>2, <1>3, <1>4, <1>5, <1>8, <1>9 DEF old

\* An account comes back to life.
LEMMA RestoreEffect ==
  ASSUME SessTypes, NEW r \in Visitors, restoreSoftDeleted(r)
  PROVE  LET s == knock[r].of
         IN /\ SessTypes' /\ UNCHANGED <<token, forked, ended>>
            /\ knock[r].at = "restore" /\ s \in Subjects
            /\ knock'[r].at = "grants" /\ knock'[r].of = s /\ knock'[r].life = account[s].life + 1
            /\ \A v \in Visitors \ {r} : knock'[v] = knock[v]
            /\ account'[s].life = account[s].life + 1
            /\ \A v \in Subjects \ {s} : account'[v] = account[v]
            /\ mixed' = IF \E v \in Visitors \ {r} : knock[v].at \in {"restore", "grants"} /\ knock[v].of = s
                        THEN mixed \cup {s} ELSE mixed
<1> DEFINE s == knock[r].of
           y == [account[s] EXCEPT !.state = "active", !.life = account[s].life + 1]
           x == [at |-> "grants", of |-> s, life |-> account[s].life + 1]
<1>1. /\ token \in Seq(TokenRows) /\ Len(token) \in Nat /\ account \in [Subjects -> Lives]
      /\ Len(token) <= MaxTokens /\ KnockFits(knock[r], Len(token))
  BY DEF SessTypes
<1>2. knock[r].at = "restore" /\ s \in Subjects /\ account[s] \in Lives
  BY <1>1 DEF restoreSoftDeleted, KnockFits
<1>3. /\ account' = [account EXCEPT ![s] = y] /\ knock' = [knock EXCEPT ![r] = x]
      /\ UNCHANGED <<token, forked, ended>>
      /\ mixed' = IF \E v \in Visitors \ {r} : knock[v].at \in {"restore", "grants"} /\ knock[v].of = s
                  THEN mixed \cup {s} ELSE mixed
  BY <1>1, <1>2 DEF restoreSoftDeleted, Step, Lives
<1>4. account[s].life \in Nat
  BY <1>2 DEF Lives
<1>5. /\ y \in Lives /\ y.life = account[s].life + 1
      /\ x.at = "grants" /\ x.of = s /\ x.life = account[s].life + 1 /\ x.life \in Nat
  <2>1. account[s].life + 1 \in Nat
    BY <1>4
  <2>2. y \in Lives /\ y.life = account[s].life + 1
    BY <1>2, <2>1 DEF Lives, States
  <2>3. x.at = "grants" /\ x.of = s /\ x.life = account[s].life + 1 /\ x.life \in Nat
    BY <2>1
  <2> QED BY <2>2, <2>3
<1> HIDE DEF x, y, s
<1>6. /\ account' \in [Subjects -> Lives] /\ account'[s] = y
      /\ \A v \in Subjects \ {s} : account'[v] = account[v]
  BY <1>1, <1>2, <1>3, <1>5
<1>7. KnockFits(x, Len(token'))
  BY <1>2, <1>5 DEF KnockFits, AtRow
<1>8. token' \in Seq(TokenRows) /\ Len(token) <= Len(token') /\ Len(token') <= MaxTokens
  BY <1>1, <1>3
<1>9. SessTypes'
  BY <1>3, <1>6, <1>7, <1>8, KnockTyped
<1>10. knock'[r] = x /\ \A v \in Visitors \ {r} : knock'[v] = knock[v]
  BY <1>3, OneKnock
<1> QED BY <1>2, <1>3, <1>5, <1>6, <1>9, <1>10 DEF s

\* The modules are replaced.
LEMMA ReplaceEffect ==
  ASSUME SessTypes, NEW r \in Visitors, replaceForSubAdmin(r)
  PROVE  LET s == knock[r].of
         IN /\ SessTypes' /\ UNCHANGED <<token, forked, ended, mixed>>
            /\ knock[r].at = "grants" /\ s \in Subjects
            /\ knock'[r] = Gone /\ \A v \in Visitors \ {r} : knock'[v] = knock[v]
            /\ account'[s].life = account[s].life /\ account'[s].grants = knock[r].life
            /\ \A v \in Subjects \ {s} : account'[v] = account[v]
<1> DEFINE s == knock[r].of
           y == [account[s] EXCEPT !.grants = knock[r].life]
<1>1. /\ token \in Seq(TokenRows) /\ Len(token) \in Nat /\ account \in [Subjects -> Lives]
      /\ Len(token) <= MaxTokens /\ KnockFits(knock[r], Len(token))
  BY DEF SessTypes
<1>2. knock[r].at = "grants" /\ s \in Subjects /\ account[s] \in Lives /\ knock[r].life \in Nat
  BY <1>1 DEF replaceForSubAdmin, KnockFits
<1>3. /\ account' = [account EXCEPT ![s] = y] /\ knock' = [knock EXCEPT ![r] = Gone]
      /\ UNCHANGED <<token, forked, ended, mixed>>
  BY <1>1, <1>2 DEF replaceForSubAdmin, Chosen, Leave, Step, Lives
<1>4. y \in Lives /\ y.life = account[s].life /\ y.grants = knock[r].life
  BY <1>2 DEF Lives
<1> HIDE DEF y, s
<1>5. /\ account' \in [Subjects -> Lives] /\ account'[s] = y
      /\ \A v \in Subjects \ {s} : account'[v] = account[v]
  BY <1>1, <1>2, <1>3, <1>4
<1>6. token' \in Seq(TokenRows) /\ Len(token) <= Len(token') /\ Len(token') <= MaxTokens
  BY <1>1, <1>3
<1>7. SessTypes'
  BY <1>3, <1>5, <1>6, KnockTyped, GoneFits
<1>8. knock'[r] = Gone /\ \A v \in Visitors \ {r} : knock'[v] = knock[v]
  BY <1>3, OneKnock
<1> QED BY <1>2, <1>3, <1>4, <1>5, <1>7, <1>8 DEF s

\* An account is switched on or off, or deleted.
LEMMA StateEffect ==
  ASSUME SessTypes, NEW r \in Visitors, WriteState(r)
  PROVE  /\ SessTypes' /\ UNCHANGED <<token, forked, ended, mixed>> /\ knock[r].at = "setState"
         /\ knock'[r] = Gone /\ \A v \in Visitors \ {r} : knock'[v] = knock[v]
         /\ \A v \in Subjects : account'[v].life = account[v].life /\ account'[v].grants = account[v].grants
<1> DEFINE s == knock[r].of
           y == [account[s] EXCEPT !.state = knock[r].state]
<1>1. /\ token \in Seq(TokenRows) /\ Len(token) \in Nat /\ account \in [Subjects -> Lives]
      /\ Len(token) <= MaxTokens /\ KnockFits(knock[r], Len(token))
  BY DEF SessTypes
<1>2. knock[r].at = "setState" /\ s \in Subjects /\ account[s] \in Lives /\ knock[r].state \in States
  BY <1>1 DEF WriteState, KnockFits
<1>3. /\ account' = account \/ account' = [account EXCEPT ![s] = y]
      /\ knock' = [knock EXCEPT ![r] = Gone] /\ UNCHANGED <<token, forked, ended, mixed>>
  BY <1>1, <1>2 DEF WriteState, Leave, Step, Lives
<1>4. y \in Lives /\ y.life = account[s].life /\ y.grants = account[s].grants
  BY <1>2 DEF Lives
<1> HIDE DEF y, s
<1>5. /\ account' \in [Subjects -> Lives]
      /\ \A v \in Subjects : account'[v].life = account[v].life /\ account'[v].grants = account[v].grants
  BY <1>1, <1>2, <1>3, <1>4
<1>6. token' \in Seq(TokenRows) /\ Len(token) <= Len(token') /\ Len(token') <= MaxTokens
  BY <1>1, <1>3
<1>7. SessTypes'
  BY <1>3, <1>5, <1>6, KnockTyped, GoneFits
<1>8. knock'[r] = Gone /\ \A v \in Visitors \ {r} : knock'[v] = knock[v]
  BY <1>3, OneKnock
<1> QED BY <1>2, <1>3, <1>5, <1>7, <1>8

\* A request that stops.
LEMMA FailEffect ==
  ASSUME SessTypes, NEW r \in Visitors, KnockFails(r)
  PROVE  /\ SessTypes' /\ UNCHANGED <<account, token, ended>>
         /\ knock'[r] = Gone /\ \A v \in Visitors \ {r} : knock'[v] = knock[v]
         /\ forked' = IF knock[r].at = "retire" THEN forked \cup {token[knock[r].row].line} ELSE forked
         /\ mixed' = IF knock[r].at = "grants" THEN mixed \cup {knock[r].of} ELSE mixed
<1>1. /\ token \in Seq(TokenRows) /\ Len(token) \in Nat /\ account \in [Subjects -> Lives]
      /\ Len(token) <= MaxTokens
  BY DEF SessTypes
<1>2. /\ knock' = [knock EXCEPT ![r] = Gone] /\ UNCHANGED <<account, token, ended>>
      /\ forked' = IF knock[r].at = "retire" THEN forked \cup {token[knock[r].row].line} ELSE forked
      /\ mixed' = IF knock[r].at = "grants" THEN mixed \cup {knock[r].of} ELSE mixed
  BY DEF KnockFails, Leave, Step
<1>3. account' \in [Subjects -> Lives] /\ token' \in Seq(TokenRows) /\ Len(token) <= Len(token') /\ Len(token') <= MaxTokens
  BY <1>1, <1>2
<1>4. SessTypes'
  BY <1>2, <1>3, KnockTyped, GoneFits
<1>5. knock'[r] = Gone /\ \A v \in Visitors \ {r} : knock'[v] = knock[v]
  BY <1>2, OneKnock
<1> QED BY <1>2, <1>4, <1>5

----------------------------------------
(* The tokens.  Until two rotations of a line meet, or one is cut short,     *)
(* one request at most is at work on the line, and what is good of it is     *)
(* what that request read and, once written, the successor.                  *)

Retiring(r) == knock[r].at = "retire"

RotatorsFit(l) ==
  l \notin forked =>
    /\ \A r, s \in Rotating(l) : r = s
    /\ Rotating(l) = {} => \A i, j \in LiveIn(l) : i = j
    /\ \A r \in Rotating(l), i \in LiveIn(l) : i = knock[r].row \/ (Retiring(r) /\ i = knock[r].new)

RotationInv == \A l \in 1..Len(token) : RotatorsFit(l)

\* A line is named by its first token, whose account all the others have.
LinesInv ==
  \A i \in 1..Len(token) :
    /\ token[i].line \in 1..i
    /\ token[token[i].line].line = token[i].line /\ token[token[i].line].of = token[i].of

EndInv == ended \subseteq 1..Len(token) /\ \A l \in ended \ forked : LiveIn(l) = {} /\ Rotating(l) = {}

\* A successor written is a later token of the line, and no other's; so is one
\* that a request is about to write.
NextInv ==
  /\ \A i \in 1..Len(token) : token[i].next # 0 =>
       /\ token[i].revoked /\ token[i].next > i /\ token[i].next <= Len(token)
       /\ token[token[i].next].line = token[i].line
       /\ \A j \in 1..Len(token) : token[j].next = token[i].next => j = i
  /\ \A r \in Visitors : Retiring(r) =>
       /\ knock[r].row < knock[r].new
       /\ token[knock[r].new].line = token[knock[r].row].line
       /\ \A j \in 1..Len(token) : token[j].next # knock[r].new
       /\ \A s \in Visitors : Retiring(s) /\ knock[s].new = knock[r].new => s = r

TokenInv == LinesInv /\ RotationInv /\ EndInv /\ NextInv

\* Tokens change: they keep their line and account, and none becomes good again.
TokensStand ==
  /\ Len(token) <= Len(token')
  /\ \A i \in 1..Len(token) : /\ token'[i].line = token[i].line /\ token'[i].of = token[i].of
                              /\ token[i].revoked => token'[i].revoked

\* A request goes on without taking up a token, or giving one up for its successor.
QuietMove(s) ==
  /\ Retiring(s) => token[knock[s].row].line \in forked'
  /\ knock'[s].at \in RotPlaces =>
       /\ knock[s].at \in RotPlaces /\ knock'[s].row = knock[s].row
       /\ ~Retiring(s) /\ knock'[s].at # "retire"

\* What it is to be at work on a line, and to be good.
LEMMA Members ==
  ASSUME SessTypes, NEW l
  PROVE  /\ \A s : s \in Rotating(l) <=> /\ s \in Visitors /\ knock[s].at \in RotPlaces
                                         /\ token[knock[s].row].line = l
         /\ \A i : i \in LiveIn(l) <=> i \in 1..Len(token) /\ token[i].line = l /\ ~token[i].revoked
<1>1. DOMAIN token = 1..Len(token)
  BY DEF SessTypes
<1> QED BY <1>1 DEF Rotating, LiveIn, RotPlaces

\* A request at work on a line names a token.
LEMMA WorkNames ==
  ASSUME SessTypes, NEW s \in Visitors, knock[s].at \in RotPlaces
  PROVE  /\ knock[s].row \in 1..Len(token)
         /\ Retiring(s) => knock[s].new \in 1..Len(token)
<1>1. CASE Retiring(s)
  BY <1>1 DEF SessTypes, KnockFits, Retiring
<1>2. CASE ~Retiring(s)
  <2>1. knock[s].at \in AtRow
    BY <1>2 DEF RotPlaces, AtRow, Retiring
  <2> QED BY <1>2, <2>1, AtRowFits
<1> QED BY <1>1, <1>2

\* Lines stand while tokens do and none is added.
LEMMA LinesStand ==
  ASSUME SessTypes, LinesInv, TokensStand, Len(token') = Len(token)
  PROVE  LinesInv'
<1> SUFFICES ASSUME NEW i \in 1..Len(token)
             PROVE  /\ token'[i].line \in 1..i
                    /\ token'[token'[i].line].line = token'[i].line
                    /\ token'[token'[i].line].of = token'[i].of
  BY DEF LinesInv
<1>1. /\ token[i].line \in 1..i /\ token[token[i].line].line = token[i].line
      /\ token[token[i].line].of = token[i].of
  BY DEF LinesInv
<1>2. token[i].line \in 1..Len(token)
  BY <1>1
<1>3. token'[i].line = token[i].line /\ token'[i].of = token[i].of
  BY DEF TokensStand
<1>4. token'[token[i].line].line = token[token[i].line].line /\ token'[token[i].line].of = token[token[i].line].of
  BY <1>2 DEF TokensStand
<1> QED BY <1>1, <1>3, <1>4

\* Successors stand while tokens do and no request is about to write a new one.
LEMMA NextStands ==
  ASSUME SessTypes, SessTypes', NextInv, TokensStand,
         \A i \in 1..Len(token) : token'[i].next = token[i].next,
         \A i \in 1..Len(token') : i > Len(token) => token'[i].next = 0,
         \A s \in Visitors : knock'[s].at = "retire" => knock'[s] = knock[s]
  PROVE  NextInv'
<1>0. Len(token) \in Nat /\ Len(token') \in Nat /\ Len(token) <= Len(token')
  BY DEF SessTypes, TokensStand
<1>1. ASSUME NEW i \in 1..Len(token'), token'[i].next # 0
      PROVE  /\ token'[i].revoked /\ token'[i].next > i /\ token'[i].next <= Len(token')
             /\ token'[token'[i].next].line = token'[i].line
             /\ \A j \in 1..Len(token') : token'[j].next = token'[i].next => j = i
  <2>1. i \in 1..Len(token) /\ token'[i].next = token[i].next
    BY <1>0, <1>1
  <2> DEFINE n == token[i].next
  <2>2. /\ token[i].revoked /\ n > i /\ n <= Len(token) /\ token[n].line = token[i].line
        /\ \A j \in 1..Len(token) : token[j].next = n => j = i
    BY <1>1, <2>1 DEF NextInv
  <2>3. n \in 1..Len(token)
    <3>1. token[i] \in TokenRows
      BY <2>1 DEF SessTypes
    <3>2. n \in Nat
      BY <3>1 DEF TokenRows
    <3> QED BY <1>0, <2>1, <2>2, <3>2
  <2>4. token'[n].line = token[n].line /\ token'[i].line = token[i].line /\ token'[i].revoked
    BY <2>1, <2>2, <2>3 DEF TokensStand
  <2>5. ASSUME NEW j \in 1..Len(token'), token'[j].next = n PROVE j = i
    <3>1. j \in 1..Len(token)
      BY <1>0, <1>1, <2>1, <2>5
    <3> QED BY <2>2, <2>5, <3>1
  <2>6. n <= Len(token')
    BY <1>0, <2>3
  <2> QED BY <2>1, <2>2, <2>4, <2>5, <2>6
<1>2. ASSUME NEW s \in Visitors, knock'[s].at = "retire"
      PROVE  /\ knock'[s].row < knock'[s].new
             /\ token'[knock'[s].new].line = token'[knock'[s].row].line
             /\ \A j \in 1..Len(token') : token'[j].next # knock'[s].new
             /\ \A v \in Visitors : knock'[v].at = "retire" /\ knock'[v].new = knock'[s].new => v = s
  <2>1. knock'[s] = knock[s] /\ Retiring(s)
    BY <1>2 DEF Retiring
  <2> DEFINE n == knock[s].row
             m == knock[s].new
  <2>2. /\ n < m /\ token[m].line = token[n].line
        /\ \A j \in 1..Len(token) : token[j].next # m
        /\ \A v \in Visitors : Retiring(v) /\ knock[v].new = m => v = s
    BY <2>1 DEF NextInv
  <2>3. n \in 1..Len(token) /\ m \in 1..Len(token)
    BY <2>1, WorkNames DEF RotPlaces, Retiring
  <2>4. token'[m].line = token'[n].line
    BY <2>2, <2>3 DEF TokensStand
  <2>5. ASSUME NEW j \in 1..Len(token') PROVE token'[j].next # m
    <3>1. m # 0
      BY <2>3
    <3>2. CASE j \in 1..Len(token)
      BY <2>2, <3>2
    <3>3. CASE j > Len(token)
      BY <3>1, <3>3
    <3> QED BY <1>0, <3>2, <3>3
  <2>6. ASSUME NEW v \in Visitors, knock'[v].at = "retire", knock'[v].new = m PROVE v = s
    BY <2>2, <2>6 DEF Retiring
  <2> QED BY <2>1, <2>2, <2>4, <2>5, <2>6
<1> QED BY <1>1, <1>2 DEF NextInv, Retiring

\* A line's requests and good tokens stay, or go, in a quiet step.
LEMMA RotatorsStand ==
  ASSUME SessTypes, SessTypes', TokensStand, Len(token') = Len(token), forked \subseteq forked',
         \A s \in Visitors : knock'[s] = knock[s] \/ QuietMove(s),
         NEW l, RotatorsFit(l)
  PROVE  RotatorsFit(l)' /\ Rotating(l)' \subseteq Rotating(l) /\ LiveIn(l)' \subseteq LiveIn(l)
<1>1. ASSUME NEW s \in Rotating(l)'
      PROVE  s \in Rotating(l) /\ knock'[s].row = knock[s].row /\ (knock'[s] = knock[s] \/ ~Retiring(s))
  <2>1. s \in Visitors /\ knock'[s].at \in RotPlaces /\ token'[knock'[s].row].line = l
    BY DEF Rotating, RotPlaces
  <2>2. knock[s].at \in RotPlaces /\ knock'[s].row = knock[s].row /\ (knock'[s] = knock[s] \/ ~Retiring(s))
    BY <2>1 DEF QuietMove
  <2>3. knock[s].row \in 1..Len(token)
    BY <2>1, <2>2, WorkNames
  <2>4. token[knock[s].row].line = l
    BY <2>1, <2>2, <2>3 DEF TokensStand
  <2> QED BY <2>1, <2>2, <2>4, Members
<1>2. ASSUME NEW i \in LiveIn(l)' PROVE i \in LiveIn(l)
  <2>1. i \in 1..Len(token) /\ token'[i].line = l /\ ~token'[i].revoked
    BY DEF LiveIn, SessTypes
  <2>2. token[i].line = l /\ ~token[i].revoked
    BY <2>1 DEF TokensStand
  <2> QED BY <2>1, <2>2, Members
<1>3. ASSUME l \notin forked'
      PROVE  /\ \A r, s \in Rotating(l)' : r = s
             /\ Rotating(l)' = {} => \A i, j \in LiveIn(l)' : i = j
             /\ \A r \in Rotating(l)', i \in LiveIn(l)' :
                  i = knock'[r].row \/ (knock'[r].at = "retire" /\ i = knock'[r].new)
  <2>1. /\ \A r, s \in Rotating(l) : r = s
        /\ Rotating(l) = {} => \A i, j \in LiveIn(l) : i = j
        /\ \A r \in Rotating(l), i \in LiveIn(l) : i = knock[r].row \/ (Retiring(r) /\ i = knock[r].new)
    BY <1>3 DEF RotatorsFit
  <2>2. ASSUME Rotating(l)' = {}, NEW i \in LiveIn(l)', NEW j \in LiveIn(l)' PROVE i = j
    <3>1. CASE Rotating(l) = {}
      BY <1>2, <2>1, <3>1
    <3>2. CASE Rotating(l) # {}
      <4>1. PICK r : r \in Rotating(l)
        BY <3>2
      <4>2. r \in Visitors /\ knock[r].at \in RotPlaces /\ token[knock[r].row].line = l
        BY <4>1, Members
      <4>3. knock[r].row \in 1..Len(token)
        BY <4>2, WorkNames
      <4>4. token'[knock[r].row].line = l
        BY <4>2, <4>3 DEF TokensStand
      <4>5. knock'[r] # knock[r]
        BY <2>2, <4>2, <4>4 DEF Rotating, RotPlaces
      <4>6. ~Retiring(r)
        BY <1>3, <4>2, <4>5 DEF QuietMove
      <4> QED BY <1>2, <2>1, <4>1, <4>6
    <3> QED BY <3>1, <3>2
  <2>3. ASSUME NEW r \in Rotating(l)', NEW i \in LiveIn(l)'
        PROVE  i = knock'[r].row \/ (knock'[r].at = "retire" /\ i = knock'[r].new)
    BY <1>1, <1>2, <2>1 DEF Retiring
  <2> QED BY <1>1, <2>1, <2>2, <2>3
<1>4. RotatorsFit(l)'
  BY <1>3 DEF RotatorsFit, Retiring
<1> QED BY <1>1, <1>2, <1>4

\* A quiet step keeps the tokens' invariant.
LEMMA QuietKeepsTokens ==
  ASSUME SessTypes, SessTypes', TokenInv, TokensStand, Len(token') = Len(token),
         \A i \in 1..Len(token) : token'[i].next = token[i].next,
         forked \subseteq forked', ended \subseteq ended',
         \A l \in ended' \ ended : l \in 1..Len(token) /\ LiveIn(l)' = {} /\ Rotating(l) = {},
         \A s \in Visitors : knock'[s] = knock[s] \/ QuietMove(s)
  PROVE  TokenInv'
<1>0. Len(token) \in Nat
  BY DEF SessTypes
<1>1. LinesInv'
  BY LinesStand DEF TokenInv
<1>2. NextInv'
  <2>1. \A i \in 1..Len(token') : i > Len(token) => token'[i].next = 0
    BY <1>0
  <2>2. \A s \in Visitors : knock'[s].at = "retire" => knock'[s] = knock[s]
    BY DEF QuietMove, RotPlaces
  <2> QED BY <2>1, <2>2, NextStands DEF TokenInv
<1>3. ASSUME NEW l \in 1..Len(token)
      PROVE  RotatorsFit(l)' /\ Rotating(l)' \subseteq Rotating(l) /\ LiveIn(l)' \subseteq LiveIn(l)
  <2>1. RotatorsFit(l)
    BY DEF TokenInv, RotationInv
  <2> QED BY <2>1, RotatorsStand
<1>4. RotationInv'
  BY <1>3 DEF RotationInv
<1>5. EndInv'
  <2>1. ended \subseteq 1..Len(token) /\ \A l \in ended \ forked : LiveIn(l) = {} /\ Rotating(l) = {}
    BY DEF TokenInv, EndInv
  <2>2. ASSUME NEW l \in ended' \ forked'
        PROVE  l \in 1..Len(token) /\ LiveIn(l)' = {} /\ Rotating(l)' = {}
    <3>1. CASE l \in ended
      BY <1>3, <2>1, <3>1
    <3>2. CASE l \notin ended
      BY <1>3, <3>2
    <3> QED BY <3>1, <3>2
  <2>3. ended' \subseteq 1..Len(token')
    BY <2>1
  <2> QED BY <2>2, <2>3 DEF EndInv
<1> QED BY <1>1, <1>2, <1>4, <1>5 DEF TokenInv

\* A token read to be rotated: another request at work on its line is a fork.
LEMMA RotateKeepsTokens ==
  ASSUME SessTypes, SessTypes', TokenInv, NEW r \in Visitors, knock[r] = Gone,
         UNCHANGED <<token, ended>>, \A s \in Visitors \ {r} : knock'[s] = knock[s],
         NEW i \in 1..Len(token), knock'[r].at = "load", knock'[r].row = i, ~token[i].revoked,
         forked' = IF Rotating(token[i].line) # {} THEN forked \cup {token[i].line} ELSE forked
  PROVE  TokenInv'
<1> DEFINE here == token[i].line
<1>0. /\ Len(token) \in Nat /\ here \in 1..Len(token) /\ i \in LiveIn(here) /\ forked \subseteq forked'
      /\ TokensStand
  <2>1. here \in 1..i
    BY DEF TokenInv, LinesInv
  <2>2. i \in LiveIn(here)
    BY Members
  <2> QED BY <2>1, <2>2 DEF SessTypes, TokensStand
<1>1. LinesInv'
  BY <1>0, LinesStand DEF TokenInv
<1>2. NextInv'
  <2>1. \A s \in Visitors : knock'[s].at = "retire" => knock'[s] = knock[s]
    OBVIOUS
  <2> QED BY <1>0, <2>1, NextStands DEF TokenInv
<1>3. ASSUME NEW l
      PROVE  /\ \A s : s \in Rotating(l)' <=> s \in Rotating(l) \/ (s = r /\ l = here)
             /\ LiveIn(l)' = LiveIn(l)
  <2>1. r \notin Rotating(l)
    BY GoneFits DEF Rotating
  <2>2. r \in Rotating(l)' <=> l = here
    BY DEF Rotating
  <2>3. \A s \in Visitors \ {r} : s \in Rotating(l)' <=> s \in Rotating(l)
    BY DEF Rotating
  <2>4. Rotating(l) \subseteq Visitors /\ Rotating(l)' \subseteq Visitors
    BY DEF Rotating
  <2>5. LiveIn(l)' = LiveIn(l)
    BY DEF LiveIn
  <2> QED BY <2>1, <2>2, <2>3, <2>4, <2>5
<1>4. ASSUME NEW l \in 1..Len(token), l \notin forked'
      PROVE  /\ \A u, s \in Rotating(l)' : u = s
             /\ Rotating(l)' = {} => \A j, k \in LiveIn(l)' : j = k
             /\ \A s \in Rotating(l)', j \in LiveIn(l)' :
                  j = knock'[s].row \/ (knock'[s].at = "retire" /\ j = knock'[s].new)
  <2>1. /\ \A u, s \in Rotating(l) : u = s
        /\ Rotating(l) = {} => \A j, k \in LiveIn(l) : j = k
        /\ \A s \in Rotating(l), j \in LiveIn(l) : j = knock[s].row \/ (Retiring(s) /\ j = knock[s].new)
    BY <1>0, <1>4 DEF TokenInv, RotationInv, RotatorsFit
  <2>2. r \notin Rotating(l) /\ Rotating(l) \subseteq Visitors
    BY GoneFits DEF Rotating
  <2>3. CASE l # here
    <3>1. \A s : s \in Rotating(l)' <=> s \in Rotating(l)
      BY <1>3, <2>3
    <3>2. \A s \in Rotating(l) : knock'[s] = knock[s]
      BY <2>2
    <3> QED BY <1>3, <2>1, <3>1, <3>2 DEF Retiring
  <2>4. CASE l = here
    <3>1. Rotating(l) = {}
      BY <1>4, <2>4
    <3>2. \A s : s \in Rotating(l)' <=> s = r
      BY <1>3, <2>4, <3>1
    <3>3. \A j \in LiveIn(l) : j = i
      BY <1>0, <2>1, <2>4, <3>1
    <3> QED BY <1>3, <3>2, <3>3
  <2> QED BY <2>3, <2>4
<1>5. RotationInv'
  BY <1>4 DEF RotationInv, RotatorsFit, Retiring
<1>6. EndInv'
  <2>1. ended \subseteq 1..Len(token) /\ \A l \in ended \ forked : LiveIn(l) = {} /\ Rotating(l) = {}
    BY DEF TokenInv, EndInv
  <2>2. ASSUME NEW l \in ended \ forked' PROVE LiveIn(l)' = {} /\ Rotating(l)' = {}
    <3>1. LiveIn(l) = {} /\ Rotating(l) = {}
      BY <1>0, <2>1
    <3>2. l # here
      BY <1>0, <3>1
    <3> QED BY <1>3, <3>1, <3>2
  <2> QED BY <2>1, <2>2 DEF EndInv
<1> QED BY <1>1, <1>2, <1>5, <1>6 DEF TokenInv

\* Calls keep the tokens.
LEMMA CallsKeepTokens ==
  ASSUME SessTypes, TokenInv, NEW r \in Visitors, knock[r] = Gone, SessionCall(r)
  PROVE  SessTypes' /\ TokenInv'
<1>1. /\ SessTypes' /\ UNCHANGED <<token, ended>>
      /\ \A s \in Visitors \ {r} : knock'[s] = knock[s]
      /\ \/ knock'[r].at \notin RotPlaces /\ forked' = forked
         \/ \E i \in 1..Len(token) :
              /\ knock'[r].at = "load" /\ knock'[r].row = i /\ ~token[i].revoked
              /\ forked' = IF Rotating(token[i].line) # {} THEN forked \cup {token[i].line} ELSE forked
  BY CallEffect
<1>2. CASE knock'[r].at \notin RotPlaces /\ forked' = forked
  <2>1. QuietMove(r)
    BY <1>2, GoneFits DEF QuietMove, Retiring
  <2>2. \A s \in Visitors : knock'[s] = knock[s] \/ QuietMove(s)
    BY <1>1, <2>1
  <2>3. TokensStand
    BY <1>1 DEF TokensStand, SessTypes
  <2> QED BY <1>1, <1>2, <2>2, <2>3, QuietKeepsTokens
<1>3. ASSUME NEW i \in 1..Len(token), knock'[r].at = "load", knock'[r].row = i, ~token[i].revoked,
             forked' = IF Rotating(token[i].line) # {} THEN forked \cup {token[i].line} ELSE forked
      PROVE  TokenInv'
  BY <1>1, <1>3, RotateKeepsTokens
<1> QED BY <1>1, <1>2, <1>3

\* A new token keeps the lines: it is the first of its own, or joins one.
LEMMA LinesGrow ==
  ASSUME SessTypes, LinesInv, Len(token') = Len(token) + 1,
         \A i \in 1..Len(token) : token'[i] = token[i],
         LET new == token'[Len(token) + 1]
         IN \/ new.line = Len(token) + 1
            \/ \E n \in 1..Len(token) : new.line = token[n].line /\ new.of = token[n].of
  PROVE  LinesInv'
<1> DEFINE new == Len(token) + 1
<1>0. Len(token) \in Nat
  BY DEF SessTypes
<1>1. ASSUME NEW i \in 1..Len(token)
      PROVE  /\ token[i].line \in 1..i /\ token[i].line \in 1..Len(token)
             /\ token[token[i].line].line = token[i].line /\ token[token[i].line].of = token[i].of
             /\ token'[token[i].line].line = token[i].line /\ token'[token[i].line].of = token[i].of
  <2>1. /\ token[i].line \in 1..i
        /\ token[token[i].line].line = token[i].line /\ token[token[i].line].of = token[i].of
    BY DEF LinesInv
  <2>2. token[i].line \in 1..Len(token)
    BY <1>0, <2>1
  <2>3. token'[token[i].line] = token[token[i].line]
    BY <2>2
  <2> QED BY <2>1, <2>2, <2>3
<1>2. ASSUME NEW i \in 1..Len(token')
      PROVE  /\ token'[i].line \in 1..i
             /\ token'[token'[i].line].line = token'[i].line
             /\ token'[token'[i].line].of = token'[i].of
  <2>1. CASE i \in 1..Len(token)
    BY <1>1, <2>1
  <2>2. CASE i = new /\ token'[new].line = new
    BY <1>0, <2>2
  <2>3. CASE i = new /\ token'[new].line # new
    <3>1. PICK n \in 1..Len(token) : token'[new].line = token[n].line /\ token'[new].of = token[n].of
      BY <2>3
    <3>2. token[n].line \in 1..new
      BY <1>0, <1>1
    <3> QED BY <1>1, <2>3, <3>1, <3>2
  <2> QED BY <1>0, <2>1, <2>2, <2>3
<1> QED BY <1>2 DEF LinesInv

\* A sign-in opens a line of its own.
LEMMA IssueKeepsTokens ==
  ASSUME SessTypes, TokenInv, NEW r \in Visitors, issue(r)
  PROVE  SessTypes' /\ TokenInv'
<1> DEFINE new == Len(token) + 1
<1>1. /\ SessTypes' /\ UNCHANGED <<account, forked, ended, mixed>>
      /\ knock'[r] = Gone /\ \A s \in Visitors \ {r} : knock'[s] = knock[s]
      /\ Len(token') = new /\ \A i \in 1..Len(token) : token'[i] = token[i]
      /\ token'[new].line = new /\ ~token'[new].revoked /\ token'[new].next = 0
      /\ knock[r].at = "issue"
  BY IssueEffect DEF issue
<1>0. Len(token) \in Nat /\ 1..Len(token') = 1..Len(token) \cup {new}
  BY <1>1 DEF SessTypes
<1>2. TokensStand
  BY <1>0, <1>1 DEF TokensStand
<1>3. LinesInv'
  BY <1>1, LinesGrow DEF TokenInv
<1>4. NextInv'
  <2>1. /\ \A i \in 1..Len(token') : i > Len(token) => token'[i].next = 0
        /\ \A i \in 1..Len(token) : token'[i].next = token[i].next
    BY <1>0, <1>1
  <2>2. \A s \in Visitors : knock'[s].at = "retire" => knock'[s] = knock[s]
    BY <1>1, GoneFits
  <2> QED BY <1>1, <1>2, <2>1, <2>2, NextStands DEF TokenInv
<1>5. ASSUME NEW l
      PROVE  /\ \A s : s \in Rotating(l)' <=> s \in Rotating(l)
             /\ \A i : i \in LiveIn(l)' <=> i \in LiveIn(l) \/ (i = new /\ l = new)
  <2>1. ASSUME NEW s \in Visitors PROVE s \in Rotating(l)' <=> s \in Rotating(l)
    <3>1. CASE s = r
      BY <1>1, <3>1, GoneFits DEF Rotating
    <3>2. CASE s # r /\ knock[s].at \in RotPlaces
      <4>1. knock[s].row \in 1..Len(token)
        BY <3>2, WorkNames
      <4> QED BY <1>1, <3>2, <4>1 DEF Rotating
    <3>3. CASE s # r /\ knock[s].at \notin RotPlaces
      BY <1>1, <3>3 DEF Rotating, RotPlaces
    <3> QED BY <3>1, <3>2, <3>3
  <2>2. Rotating(l) \subseteq Visitors /\ Rotating(l)' \subseteq Visitors
    BY DEF Rotating
  <2>3. \A i : i \in LiveIn(l)' <=> i \in 1..Len(token') /\ token'[i].line = l /\ ~token'[i].revoked
    BY <1>1 DEF LiveIn, SessTypes
  <2>4. \A i : i \in LiveIn(l)' <=> i \in LiveIn(l) \/ (i = new /\ l = new)
    BY <1>0, <1>1, <2>3, Members
  <2> QED BY <2>1, <2>2, <2>4
<1>6. Rotating(new) = {} /\ LiveIn(new) = {}
  <2>1. \A i \in 1..Len(token) : token[i].line # new
    BY <1>0 DEF TokenInv, LinesInv
  <2> QED BY <2>1, Members, WorkNames
<1>7. ASSUME NEW l \in 1..Len(token'), l \notin forked'
      PROVE  /\ \A u, s \in Rotating(l)' : u = s
             /\ Rotating(l)' = {} => \A j, k \in LiveIn(l)' : j = k
             /\ \A s \in Rotating(l)', j \in LiveIn(l)' :
                  j = knock'[s].row \/ (knock'[s].at = "retire" /\ j = knock'[s].new)
  <2>1. CASE l = new
    BY <1>5, <1>6, <2>1
  <2>2. CASE l \in 1..Len(token)
    <3>1. /\ \A u, s \in Rotating(l) : u = s
          /\ Rotating(l) = {} => \A j, k \in LiveIn(l) : j = k
          /\ \A s \in Rotating(l), j \in LiveIn(l) : j = knock[s].row \/ (Retiring(s) /\ j = knock[s].new)
      BY <1>1, <1>7, <2>2 DEF TokenInv, RotationInv, RotatorsFit
    <3>2. l # new
      BY <1>0, <2>2
    <3>3. \A s \in Rotating(l) : s \in Visitors /\ s # r
      BY <1>1 DEF Rotating
    <3> QED BY <1>1, <1>5, <3>1, <3>2, <3>3 DEF Retiring
  <2> QED BY <1>0, <2>1, <2>2
<1>8. RotationInv'
  BY <1>7 DEF RotationInv, RotatorsFit, Retiring
<1>9. EndInv'
  <2>1. ended \subseteq 1..Len(token) /\ \A l \in ended \ forked : LiveIn(l) = {} /\ Rotating(l) = {}
    BY DEF TokenInv, EndInv
  <2>2. ASSUME NEW l \in ended \ forked PROVE LiveIn(l)' = {} /\ Rotating(l)' = {}
    BY <1>0, <1>5, <2>1
  <2> QED BY <1>0, <1>1, <2>1, <2>2 DEF EndInv
<1> QED BY <1>1, <1>3, <1>4, <1>8, <1>9 DEF TokenInv

\* The successor joins the line of the token it replaces.
LEMMA CreateKeepsTokens ==
  ASSUME SessTypes, TokenInv, NEW r \in Visitors, CreateToken(r)
  PROVE  SessTypes' /\ TokenInv'
<1> DEFINE new == Len(token) + 1
           n == knock[r].row
           here == token[n].line
<1>0. knock[r].at = "create" /\ n \in 1..Len(token) /\ here \in 1..Len(token) /\ here \in 1..n
      /\ Len(token) \in Nat
  <2>1. knock[r].at = "create" /\ Len(token) \in Nat
    BY DEF CreateToken, SessTypes
  <2>2. n \in 1..Len(token)
    BY <2>1, WorkNames DEF RotPlaces
  <2>3. here \in 1..n
    BY <2>2 DEF TokenInv, LinesInv
  <2> QED BY <2>1, <2>2, <2>3
<1>1. /\ SessTypes' /\ UNCHANGED <<account, forked, ended, mixed>>
      /\ knock'[r].at = "retire" /\ knock'[r].row = n /\ knock'[r].new = new
      /\ \A s \in Visitors \ {r} : knock'[s] = knock[s]
      /\ Len(token') = new /\ \A i \in 1..Len(token) : token'[i] = token[i]
      /\ token'[new].line = here /\ token'[new].of = token[n].of
      /\ ~token'[new].revoked /\ token'[new].next = 0
  BY <1>0, CreateEffect
<1>2. 1..Len(token') = 1..Len(token) \cup {new}
  BY <1>0, <1>1
<1>3. LinesInv'
  BY <1>0, <1>1, LinesGrow DEF TokenInv
<1>4. NextInv'
  <2>1. ASSUME NEW i \in 1..Len(token'), token'[i].next # 0
        PROVE  /\ token'[i].revoked /\ token'[i].next > i /\ token'[i].next <= Len(token')
               /\ token'[token'[i].next].line = token'[i].line
               /\ \A j \in 1..Len(token') : token'[j].next = token'[i].next => j = i
    <3>1. i \in 1..Len(token) /\ token'[i] = token[i]
      BY <1>1, <1>2, <2>1
    <3> DEFINE m == token[i].next
    <3>2. /\ token[i].revoked /\ m > i /\ m <= Len(token) /\ token[m].line = token[i].line
          /\ \A j \in 1..Len(token) : token[j].next = m => j = i
      BY <2>1, <3>1 DEF TokenInv, NextInv
    <3>3. m \in 1..Len(token)
      <4>1. token[i] \in TokenRows
        BY <3>1 DEF SessTypes
      <4>2. m \in Nat
        BY <4>1 DEF TokenRows
      <4> QED BY <1>0, <3>1, <3>2, <4>2
    <3>4. token'[m] = token[m] /\ m # 0 /\ m <= Len(token')
      BY <1>0, <1>1, <3>3
    <3> QED BY <1>1, <1>2, <3>1, <3>2, <3>4
  <2>2. ASSUME NEW i \in 1..Len(token) PROVE token[i].next # new
    BY <1>0 DEF TokenInv, NextInv
  <2>3. ASSUME NEW s \in Visitors \ {r}, Retiring(s)
        PROVE  /\ knock[s].row \in 1..Len(token) /\ knock[s].new \in 1..Len(token) /\ knock[s].new # new
               /\ knock[s].row < knock[s].new
               /\ token[knock[s].new].line = token[knock[s].row].line
               /\ \A j \in 1..Len(token) : token[j].next # knock[s].new
               /\ \A v \in Visitors : Retiring(v) /\ knock[v].new = knock[s].new => v = s
    <3>1. knock[s].row \in 1..Len(token) /\ knock[s].new \in 1..Len(token)
      BY <2>3, WorkNames DEF Retiring, RotPlaces
    <3> QED BY <1>0, <2>3, <3>1 DEF TokenInv, NextInv
  <2>4. ASSUME NEW s \in Visitors, knock'[s].at = "retire"
        PROVE  /\ knock'[s].row < knock'[s].new
               /\ token'[knock'[s].new].line = token'[knock'[s].row].line
               /\ \A j \in 1..Len(token') : token'[j].next # knock'[s].new
               /\ \A v \in Visitors : knock'[v].at = "retire" /\ knock'[v].new = knock'[s].new => v = s
    <3>1. CASE s = r
      <4>1. n < new /\ token'[new].line = token'[n].line /\ new # 0
        BY <1>0, <1>1
      <4>2. \A j \in 1..Len(token') : token'[j].next # new
        BY <1>1, <1>2, <2>2, <4>1
      <4>3. ASSUME NEW v \in Visitors, knock'[v].at = "retire", knock'[v].new = new PROVE v = r
        BY <1>1, <2>3, <4>3 DEF Retiring
      <4> QED BY <1>1, <3>1, <4>1, <4>2, <4>3
    <3>2. CASE s # r
      <4>1. knock'[s] = knock[s] /\ Retiring(s) /\ s \in Visitors \ {r}
        BY <1>1, <2>4, <3>2 DEF Retiring
      <4> DEFINE a == knock[s].row
                 b == knock[s].new
      <4>2. /\ a \in 1..Len(token) /\ b \in 1..Len(token) /\ b # new /\ a < b
            /\ token[b].line = token[a].line
            /\ \A j \in 1..Len(token) : token[j].next # b
            /\ \A v \in Visitors : Retiring(v) /\ knock[v].new = b => v = s
        BY <2>3, <4>1
      <4>3. token'[b].line = token'[a].line /\ b # 0
        BY <1>1, <4>2
      <4>4. \A j \in 1..Len(token') : token'[j].next # b
        BY <1>1, <1>2, <4>2, <4>3
      <4>5. ASSUME NEW v \in Visitors, knock'[v].at = "retire", knock'[v].new = b PROVE v = s
        <5>1. v # r
          BY <1>1, <4>2, <4>5
        <5> QED BY <1>1, <4>2, <4>5, <5>1 DEF Retiring
      <4> QED BY <4>1, <4>2, <4>3, <4>4, <4>5
    <3> QED BY <3>1, <3>2
  <2> QED BY <2>1, <2>4 DEF NextInv, Retiring
<1>5. ASSUME NEW l
      PROVE  /\ \A s : s \in Rotating(l)' <=> s \in Rotating(l)
             /\ \A i : i \in LiveIn(l)' <=> i \in LiveIn(l) \/ (i = new /\ l = here)
  <2>1. ASSUME NEW s \in Visitors PROVE s \in Rotating(l)' <=> s \in Rotating(l)
    <3>1. CASE s = r
      BY <1>0, <1>1, <3>1 DEF Rotating
    <3>2. CASE s # r /\ knock[s].at \in RotPlaces
      <4>1. knock[s].row \in 1..Len(token)
        BY <3>2, WorkNames
      <4> QED BY <1>1, <3>2, <4>1 DEF Rotating
    <3>3. CASE s # r /\ knock[s].at \notin RotPlaces
      BY <1>1, <3>3 DEF Rotating, RotPlaces
    <3> QED BY <3>1, <3>2, <3>3
  <2>2. Rotating(l) \subseteq Visitors /\ Rotating(l)' \subseteq Visitors
    BY DEF Rotating
  <2>3. \A i : i \in LiveIn(l)' <=> i \in 1..Len(token') /\ token'[i].line = l /\ ~token'[i].revoked
    BY <1>1 DEF LiveIn, SessTypes
  <2>4. \A i : i \in LiveIn(l)' <=> i \in LiveIn(l) \/ (i = new /\ l = here)
    BY <1>0, <1>1, <1>2, <2>3, Members
  <2> QED BY <2>1, <2>2, <2>4
<1>6. r \in Rotating(here)
  BY <1>0 DEF Rotating
<1>7. ASSUME NEW l \in 1..Len(token'), l \notin forked'
      PROVE  /\ \A u, s \in Rotating(l)' : u = s
             /\ Rotating(l)' = {} => \A j, k \in LiveIn(l)' : j = k
             /\ \A s \in Rotating(l)', j \in LiveIn(l)' :
                  j = knock'[s].row \/ (knock'[s].at = "retire" /\ j = knock'[s].new)
  <2>1. CASE l = new
    <3>1. l # here /\ \A i \in 1..Len(token) : token[i].line # new
      BY <1>0, <2>1 DEF TokenInv, LinesInv
    <3>2. Rotating(l) = {} /\ LiveIn(l) = {}
      BY <2>1, <3>1, Members, WorkNames
    <3> QED BY <1>5, <3>1, <3>2
  <2>2. CASE l \in 1..Len(token)
    <3>1. /\ \A u, s \in Rotating(l) : u = s
          /\ Rotating(l) = {} => \A j, k \in LiveIn(l) : j = k
          /\ \A s \in Rotating(l), j \in LiveIn(l) : j = knock[s].row \/ (Retiring(s) /\ j = knock[s].new)
      BY <1>1, <1>7, <2>2 DEF TokenInv, RotationInv, RotatorsFit
    <3>2. Rotating(l) \subseteq Visitors /\ ~Retiring(r)
      BY <1>0 DEF Rotating, Retiring
    <3>3. CASE l = here
      <4>1. \A s : s \in Rotating(l)' <=> s = r
        BY <1>5, <1>6, <3>1, <3>3
      <4>2. \A j \in LiveIn(l)' : j = n \/ j = new
        BY <1>5, <1>6, <3>1, <3>2, <3>3
      <4>3. /\ \A u, s \in Rotating(l)' : u = s
            /\ Rotating(l)' # {}
        BY <4>1
      <4>4. ASSUME NEW s \in Rotating(l)', NEW j \in LiveIn(l)'
            PROVE  j = knock'[s].row \/ (knock'[s].at = "retire" /\ j = knock'[s].new)
        <5>1. s = r /\ (j = n \/ j = new)
          BY <4>1, <4>2
        <5> QED BY <1>1, <5>1
      <4> QED BY <4>3, <4>4
    <3>4. CASE l # here
      <4>1. r \notin Rotating(l)
        BY <3>4 DEF Rotating
      <4>2. \A s \in Rotating(l) : knock'[s] = knock[s]
        BY <1>1, <3>2, <4>1
      <4> QED BY <1>5, <3>1, <3>4, <4>2 DEF Retiring
    <3> QED BY <3>3, <3>4
  <2> QED BY <1>2, <2>1, <2>2
<1>8. RotationInv'
  BY <1>7 DEF RotationInv, RotatorsFit, Retiring
<1>9. EndInv'
  <2>1. ended \subseteq 1..Len(token) /\ \A l \in ended \ forked : LiveIn(l) = {} /\ Rotating(l) = {}
    BY DEF TokenInv, EndInv
  <2>2. ASSUME NEW l \in ended \ forked PROVE LiveIn(l)' = {} /\ Rotating(l)' = {}
    <3>1. l # here
      BY <1>6, <2>1
    <3> QED BY <1>5, <2>1, <3>1
  <2> QED BY <1>1, <1>2, <2>1, <2>2 DEF EndInv
<1> QED BY <1>1, <1>3, <1>4, <1>8, <1>9 DEF TokenInv

\* The old token is revoked and names its successor, if nothing revoked it first.
LEMMA RetireKeepsTokens ==
  ASSUME SessTypes, TokenInv, NEW r \in Visitors, Retire(r)
  PROVE  SessTypes' /\ TokenInv'
<1> DEFINE n == knock[r].row
           new == knock[r].new
           here == token[n].line
<1>0. Retiring(r) /\ n \in 1..Len(token) /\ new \in 1..Len(token) /\ Len(token) \in Nat
  <2>1. Retiring(r) /\ Len(token) \in Nat
    BY DEF Retire, Retiring, SessTypes
  <2> QED BY <2>1, WorkNames DEF RotPlaces, Retiring
<1>1. /\ SessTypes' /\ UNCHANGED <<account, forked, ended, mixed>>
      /\ knock'[r] = Gone /\ \A s \in Visitors \ {r} : knock'[s] = knock[s]
      /\ Len(token') = Len(token)
      /\ \A i \in 1..Len(token) :
           /\ token'[i].of = token[i].of /\ token'[i].line = token[i].line
           /\ token[i].revoked => token'[i].revoked
           /\ token'[i].next = token[i].next \/ (i = n /\ ~token[i].revoked /\ token'[i].next = new)
      /\ token'[n].revoked
  BY RevokeEffect DEF Retire
<1>2. TokensStand
  BY <1>0, <1>1 DEF TokensStand
<1>3. LinesInv'
  BY <1>1, <1>2, LinesStand DEF TokenInv
<1>4. /\ n < new /\ token[new].line = here /\ new # 0
      /\ \A j \in 1..Len(token) : token[j].next # new
      /\ \A v \in Visitors : Retiring(v) /\ knock[v].new = new => v = r
  BY <1>0 DEF TokenInv, NextInv
<1>5. NextInv'
  <2>1. ASSUME NEW i \in 1..Len(token), token'[i].next # 0
        PROVE  /\ token'[i].revoked /\ token'[i].next > i /\ token'[i].next <= Len(token)
               /\ token'[token'[i].next].line = token'[i].line
               /\ \A j \in 1..Len(token) : token'[j].next = token'[i].next => j = i
    <3>1. CASE i = n /\ token'[i].next = new
      <4>1. token'[new].line = token'[n].line
        BY <1>0, <1>1, <1>4
      <4>2. \A j \in 1..Len(token) : token'[j].next = new => j = n
        BY <1>1, <1>4
      <4> QED BY <1>0, <1>1, <1>4, <3>1, <4>1, <4>2
    <3>2. CASE token'[i].next = token[i].next
      <4> DEFINE m == token[i].next
      <4>1. /\ token[i].revoked /\ m > i /\ m <= Len(token) /\ token[m].line = token[i].line
            /\ \A j \in 1..Len(token) : token[j].next = m => j = i
        BY <2>1, <3>2 DEF TokenInv, NextInv
      <4>2. m \in 1..Len(token)
        <5>1. token[i] \in TokenRows
          BY DEF SessTypes
        <5>2. m \in Nat
          BY <5>1 DEF TokenRows
        <5> QED BY <1>0, <4>1, <5>2
      <4>3. token'[m].line = token'[i].line /\ token'[i].revoked
        BY <1>1, <4>1, <4>2
      <4>4. ASSUME NEW j \in 1..Len(token), token'[j].next = m PROVE j = i
        <5>1. m # new
          BY <1>4
        <5> QED BY <1>1, <4>1, <4>4, <5>1
      <4> QED BY <3>2, <4>1, <4>3, <4>4
    <3> QED BY <1>1, <3>1, <3>2
  <2>2. ASSUME NEW s \in Visitors, knock'[s].at = "retire"
        PROVE  /\ knock'[s].row < knock'[s].new
               /\ token'[knock'[s].new].line = token'[knock'[s].row].line
               /\ \A j \in 1..Len(token) : token'[j].next # knock'[s].new
               /\ \A v \in Visitors : knock'[v].at = "retire" /\ knock'[v].new = knock'[s].new => v = s
    <3>1. s # r /\ knock'[s] = knock[s] /\ Retiring(s)
      BY <1>1, <2>2, GoneFits DEF Retiring
    <3> DEFINE a == knock[s].row
               b == knock[s].new
    <3>2. a \in 1..Len(token) /\ b \in 1..Len(token)
      BY <3>1, WorkNames DEF RotPlaces, Retiring
    <3>3. /\ a < b /\ token[b].line = token[a].line
          /\ \A j \in 1..Len(token) : token[j].next # b
          /\ \A v \in Visitors : Retiring(v) /\ knock[v].new = b => v = s
      BY <3>1 DEF TokenInv, NextInv
    <3>4. b # new
      BY <1>4, <3>1
    <3>5. token'[b].line = token'[a].line /\ \A j \in 1..Len(token) : token'[j].next # b
      BY <1>1, <3>2, <3>3, <3>4
    <3>6. ASSUME NEW v \in Visitors, knock'[v].at = "retire", knock'[v].new = b PROVE v = s
      <4>1. v # r
        BY <1>1, <3>6, GoneFits
      <4> QED BY <1>1, <3>3, <3>6, <4>1 DEF Retiring
    <3> QED BY <3>1, <3>3, <3>5, <3>6
  <2> QED BY <1>1, <2>1, <2>2 DEF NextInv, Retiring
<1>6. ASSUME NEW l
      PROVE  /\ \A s : s \in Rotating(l)' <=> s \in Rotating(l) /\ s # r
             /\ \A i : i \in LiveIn(l)' => i \in LiveIn(l) /\ i # n
  <2>1. ASSUME NEW s \in Visitors PROVE s \in Rotating(l)' <=> s \in Rotating(l) /\ s # r
    <3>1. CASE s = r
      BY <1>1, <3>1, GoneFits DEF Rotating
    <3>2. CASE s # r /\ knock[s].at \in RotPlaces
      <4>1. knock[s].row \in 1..Len(token)
        BY <3>2, WorkNames
      <4> QED BY <1>1, <3>2, <4>1 DEF Rotating
    <3>3. CASE s # r /\ knock[s].at \notin RotPlaces
      BY <1>1, <3>3 DEF Rotating, RotPlaces
    <3> QED BY <3>1, <3>2, <3>3
  <2>2. Rotating(l) \subseteq Visitors /\ Rotating(l)' \subseteq Visitors
    BY DEF Rotating
  <2>3. \A i : i \in LiveIn(l)' <=> i \in 1..Len(token') /\ token'[i].line = l /\ ~token'[i].revoked
    BY <1>1 DEF LiveIn, SessTypes
  <2>4. \A i : i \in LiveIn(l)' => i \in LiveIn(l) /\ i # n
    BY <1>1, <2>3, Members
  <2> QED BY <2>1, <2>2, <2>4
<1>7. r \in Rotating(here)
  BY <1>0 DEF Rotating, Retiring
<1>8. ASSUME NEW l \in 1..Len(token'), l \notin forked'
      PROVE  /\ \A u, s \in Rotating(l)' : u = s
             /\ Rotating(l)' = {} => \A j, k \in LiveIn(l)' : j = k
             /\ \A s \in Rotating(l)', j \in LiveIn(l)' :
                  j = knock'[s].row \/ (knock'[s].at = "retire" /\ j = knock'[s].new)
  <2>1. /\ \A u, s \in Rotating(l) : u = s
        /\ Rotating(l) = {} => \A j, k \in LiveIn(l) : j = k
        /\ \A s \in Rotating(l), j \in LiveIn(l) : j = knock[s].row \/ (Retiring(s) /\ j = knock[s].new)
    BY <1>1, <1>8 DEF TokenInv, RotationInv, RotatorsFit
  <2>2. CASE r \in Rotating(l)
    <3>1. \A s : s \notin Rotating(l)'
      BY <1>6, <2>1, <2>2
    <3>2. \A j \in LiveIn(l)' : j = new
      BY <1>6, <2>1, <2>2
    <3> QED BY <3>1, <3>2
  <2>3. CASE r \notin Rotating(l)
    <3>1. \A s : s \in Rotating(l)' <=> s \in Rotating(l)
      BY <1>6, <2>3
    <3>2. \A s \in Rotating(l) : s \in Visitors /\ knock'[s] = knock[s]
      BY <1>1, <2>3 DEF Rotating
    <3>3. /\ \A u, s \in Rotating(l)' : u = s
          /\ Rotating(l)' = {} => \A j, k \in LiveIn(l)' : j = k
      BY <1>6, <2>1, <3>1
    <3>4. \A s \in Rotating(l)', j \in LiveIn(l)' :
            j = knock'[s].row \/ (knock'[s].at = "retire" /\ j = knock'[s].new)
      BY <1>6, <2>1, <3>1, <3>2 DEF Retiring
    <3> QED BY <3>3, <3>4
  <2> QED BY <2>2, <2>3
<1>9. RotationInv'
  BY <1>8 DEF RotationInv, RotatorsFit, Retiring
<1>10. EndInv'
  <2>1. ended \subseteq 1..Len(token) /\ \A l \in ended \ forked : LiveIn(l) = {} /\ Rotating(l) = {}
    BY DEF TokenInv, EndInv
  <2>2. ASSUME NEW l \in ended \ forked PROVE LiveIn(l)' = {} /\ Rotating(l)' = {}
    BY <1>6, <2>1
  <2> QED BY <1>1, <2>1, <2>2 DEF EndInv
<1> QED BY <1>1, <1>3, <1>5, <1>9, <1>10 DEF TokenInv

\* All of an account's tokens are revoked: its lines are over.
LEMMA RevokeAllKeepsTokens ==
  ASSUME SessTypes, TokenInv, NEW r \in Visitors, revokeAllForSubject(r)
  PROVE  SessTypes' /\ TokenInv'
<1> DEFINE who == token[knock[r].row].of
<1>1. /\ SessTypes' /\ UNCHANGED <<account, forked, mixed>>
      /\ knock[r].at = "revokeAll"
      /\ knock'[r] = Gone /\ \A s \in Visitors \ {r} : knock'[s] = knock[s]
      /\ Len(token') = Len(token)
      /\ \A i \in 1..Len(token) :
           /\ token'[i].of = token[i].of /\ token'[i].line = token[i].line /\ token'[i].next = token[i].next
           /\ token'[i].revoked = (token[i].revoked \/ token[i].of = who)
      /\ ended' = ended \cup {l \in Lines : token[l].of = who /\ Rotating(l) = {}}
  BY RevokeAllEffect
<1>2. TokensStand
  <2>1. ASSUME NEW i \in 1..Len(token), token[i].revoked PROVE token'[i].revoked
    BY <1>1, <2>1
  <2> QED BY <1>1, <2>1 DEF TokensStand, SessTypes
<1>3. ASSUME NEW l \in ended' \ ended
      PROVE  l \in 1..Len(token) /\ LiveIn(l)' = {} /\ Rotating(l) = {}
  <2>1. l \in Lines /\ token[l].of = who /\ Rotating(l) = {}
    BY <1>1
  <2>2. PICK i \in 1..Len(token) : token[i].line = l
    BY <2>1 DEF Lines, SessTypes
  <2>3. l \in 1..Len(token)
    BY <2>2 DEF TokenInv, LinesInv, SessTypes
  <2>4. ASSUME NEW j \in LiveIn(l)' PROVE FALSE
    <3>1. j \in 1..Len(token) /\ token'[j].line = l /\ ~token'[j].revoked
      BY <1>1 DEF LiveIn, SessTypes
    <3>2. token[j].line = l
      BY <1>1, <3>1
    <3>3. token[j].of = who
      BY <2>1, <3>1, <3>2 DEF TokenInv, LinesInv
    <3>4. token'[j].revoked = (token[j].revoked \/ token[j].of = who)
      BY <1>1, <3>1
    <3> QED BY <3>1, <3>3, <3>4
  <2> QED BY <2>1, <2>3, <2>4
<1>4. QuietMove(r)
  BY <1>1, GoneFits DEF QuietMove, Retiring, RotPlaces
<1>5. \A s \in Visitors : knock'[s] = knock[s] \/ QuietMove(s)
  BY <1>1, <1>4
<1> QED BY <1>1, <1>2, <1>3, <1>5, QuietKeepsTokens

\* A token is dropped: with nothing under way, and nothing else good, its line is over.
LEMMA DropKeepsTokens ==
  ASSUME SessTypes, TokenInv, NEW r \in Visitors, Drop(r)
  PROVE  SessTypes' /\ TokenInv'
<1> DEFINE n == knock[r].row
           here == token[n].line
<1>0. knock[r].at = "drop" /\ ~Retire(r) /\ n \in 1..Len(token)
      /\ ended' = IF Rotating(here) = {} /\ LiveIn(here) \subseteq {n} THEN ended \cup {here} ELSE ended
  <2>1. knock[r].at = "drop" /\ "drop" \in AtRow /\ ~Retire(r)
    BY DEF Drop, Retire, AtRow
  <2>2. n \in 1..Len(token)
    BY <2>1, AtRowFits
  <2> QED BY <2>1, <2>2 DEF Drop
<1>1. /\ SessTypes' /\ UNCHANGED <<account, forked, mixed>>
      /\ knock'[r] = Gone /\ \A s \in Visitors \ {r} : knock'[s] = knock[s]
      /\ Len(token') = Len(token)
      /\ \A i \in 1..Len(token) :
           /\ token'[i].of = token[i].of /\ token'[i].line = token[i].line
           /\ token[i].revoked => token'[i].revoked
           /\ token'[i].next = token[i].next \/ (i = n /\ ~token[i].revoked /\ token'[i].next = 0)
      /\ token'[n].revoked
  BY <1>0, RevokeEffect
<1>2. TokensStand
  BY <1>1 DEF TokensStand, SessTypes
<1>3. \A i \in 1..Len(token) : token'[i].next = token[i].next
  BY <1>1 DEF TokenInv, NextInv
<1>4. ASSUME NEW l \in ended' \ ended
      PROVE  l \in 1..Len(token) /\ LiveIn(l)' = {} /\ Rotating(l) = {}
  <2>1. l = here /\ Rotating(here) = {} /\ LiveIn(here) \subseteq {n}
    BY <1>0
  <2>2. here \in 1..Len(token)
    BY <1>0 DEF TokenInv, LinesInv, SessTypes
  <2>3. ASSUME NEW j \in LiveIn(l)' PROVE FALSE
    <3>1. j \in 1..Len(token) /\ token'[j].line = l /\ ~token'[j].revoked
      BY <1>1 DEF LiveIn, SessTypes
    <3>2. token[j].line = l /\ ~token[j].revoked
      BY <1>1, <3>1
    <3>3. j = n
      BY <2>1, <3>1, <3>2, Members
    <3> QED BY <1>1, <3>1, <3>3
  <2> QED BY <2>1, <2>2, <2>3
<1>5. QuietMove(r)
  BY <1>0, <1>1, GoneFits DEF QuietMove, Retiring, RotPlaces
<1>6. \A s \in Visitors : knock'[s] = knock[s] \/ QuietMove(s)
  BY <1>1, <1>5
<1>7. forked \subseteq forked' /\ ended \subseteq ended'
  BY <1>0, <1>1
<1> QED BY <1>1, <1>2, <1>3, <1>4, <1>6, <1>7, QuietKeepsTokens

\* Requests that read, edit accounts or stop keep the tokens.
LEMMA OthersKeepTokens ==
  ASSUME SessTypes, TokenInv, NEW r \in Visitors,
         \/ loadSubject(r) \/ restoreSoftDeleted(r) \/ replaceForSubAdmin(r)
         \/ WriteState(r) \/ KnockFails(r)
  PROVE  SessTypes' /\ TokenInv'
<1>1. ASSUME SessTypes', UNCHANGED <<token, ended>>, forked \subseteq forked',
             QuietMove(r), \A s \in Visitors \ {r} : knock'[s] = knock[s]
      PROVE  TokenInv'
  <2>1. TokensStand
    BY <1>1 DEF TokensStand, SessTypes
  <2>2. \A s \in Visitors : knock'[s] = knock[s] \/ QuietMove(s)
    BY <1>1
  <2> QED BY <1>1, <2>1, <2>2, QuietKeepsTokens
<1>2. CASE loadSubject(r)
  <2>1. /\ SessTypes' /\ UNCHANGED <<account, token, forked, ended, mixed>> /\ knock[r].at = "load"
        /\ knock'[r].at \in {"create", "drop"} /\ knock'[r].row = knock[r].row
        /\ \A s \in Visitors \ {r} : knock'[s] = knock[s]
    BY <1>2, LoadEffect
  <2>2. QuietMove(r)
    BY <2>1 DEF QuietMove, Retiring, RotPlaces
  <2> QED BY <1>1, <2>1, <2>2
<1>3. CASE restoreSoftDeleted(r)
  <2>1. /\ SessTypes' /\ UNCHANGED <<token, forked, ended>> /\ knock[r].at = "restore" /\ knock'[r].at = "grants"
        /\ \A v \in Visitors \ {r} : knock'[v] = knock[v]
    BY <1>3, RestoreEffect
  <2>2. QuietMove(r)
    BY <2>1 DEF QuietMove, Retiring, RotPlaces
  <2> QED BY <1>1, <2>1, <2>2
<1>4. CASE replaceForSubAdmin(r)
  <2>1. /\ SessTypes' /\ UNCHANGED <<token, forked, ended, mixed>> /\ knock[r].at = "grants" /\ knock'[r] = Gone
        /\ \A v \in Visitors \ {r} : knock'[v] = knock[v]
    BY <1>4, ReplaceEffect
  <2>2. QuietMove(r)
    BY <2>1, GoneFits DEF QuietMove, Retiring, RotPlaces
  <2> QED BY <1>1, <2>1, <2>2
<1>5. CASE KnockFails(r)
  <2>1. /\ SessTypes' /\ UNCHANGED <<account, token, ended>>
        /\ knock'[r] = Gone /\ \A v \in Visitors \ {r} : knock'[v] = knock[v]
        /\ forked' = IF knock[r].at = "retire" THEN forked \cup {token[knock[r].row].line} ELSE forked
    BY <1>5, FailEffect
  <2>2. QuietMove(r) /\ forked \subseteq forked'
    BY <2>1, GoneFits DEF QuietMove, Retiring, RotPlaces
  <2> QED BY <1>1, <2>1, <2>2
<1>6. CASE WriteState(r)
  <2>1. /\ SessTypes' /\ UNCHANGED <<token, forked, ended>> /\ knock[r].at = "setState" /\ knock'[r] = Gone
        /\ \A v \in Visitors \ {r} : knock'[v] = knock[v]
    BY <1>6, StateEffect
  <2>2. QuietMove(r)
    BY <2>1, GoneFits DEF QuietMove, Retiring, RotPlaces
  <2> QED BY <1>1, <2>1, <2>2
<1> QED BY <1>2, <1>3, <1>4, <1>5, <1>6

----------------------------------------
(* The modules of an account: an edit under way writes those of this life.   *)

Granting(r, s) == knock[r].at = "grants" /\ knock[r].of = s

ModulesInv ==
  \A s \in Subjects \ mixed :
    /\ \A r \in Visitors : Granting(r, s) => knock[r].life = account[s].life
    /\ account[s].grants = account[s].life \/ \E r \in Visitors : Granting(r, s)

\* Steps that leave the lives, and edit no modules.
LEMMA ModulesStand ==
  ASSUME ModulesInv, mixed' = mixed,
         \A s \in Subjects : account'[s].life = account[s].life /\ account'[s].grants = account[s].grants,
         NEW r \in Visitors, \A v \in Visitors \ {r} : knock'[v] = knock[v],
         knock[r].at # "grants",
         knock'[r].at = "grants" => knock'[r].life = account[knock'[r].of].life
  PROVE  ModulesInv'
<1> SUFFICES ASSUME NEW s \in Subjects \ mixed
             PROVE  /\ \A v \in Visitors : knock'[v].at = "grants" /\ knock'[v].of = s
                                             => knock'[v].life = account'[s].life
                    /\ \/ account'[s].grants = account'[s].life
                       \/ \E v \in Visitors : knock'[v].at = "grants" /\ knock'[v].of = s
  BY DEF ModulesInv, Granting
<1>1. /\ \A v \in Visitors : knock[v].at = "grants" /\ knock[v].of = s => knock[v].life = account[s].life
      /\ \/ account[s].grants = account[s].life
         \/ \E v \in Visitors : knock[v].at = "grants" /\ knock[v].of = s
  BY DEF ModulesInv, Granting
<1>2. ASSUME NEW v \in Visitors, knock'[v].at = "grants", knock'[v].of = s
      PROVE  knock'[v].life = account'[s].life
  BY <1>1, <1>2
<1>3. ASSUME NEW v \in Visitors, knock[v].at = "grants", knock[v].of = s
      PROVE  knock'[v].at = "grants" /\ knock'[v].of = s
  BY <1>3
<1> QED BY <1>1, <1>2, <1>3

\* Every step keeps them.
LEMMA StepsKeepModules ==
  ASSUME SessTypes, LinesInv, ModulesInv, NEW r \in Visitors,
         (knock[r] = Gone /\ SessionCall(r)) \/ (knock[r] # Gone /\ SessionWork(r))
  PROVE  ModulesInv'
<1>1. CASE knock[r] = Gone /\ SessionCall(r)
  <2>1. /\ mixed' = mixed
        /\ \A s \in Subjects : account'[s].life = account[s].life /\ account'[s].grants = account[s].grants
        /\ \A v \in Visitors \ {r} : knock'[v] = knock[v]
        /\ knock'[r].at = "grants" => knock'[r].life = account[knock'[r].of].life
    BY <1>1, CallEffect
  <2>2. knock[r].at # "grants"
    BY <1>1, GoneFits
  <2> QED BY <2>1, <2>2, ModulesStand
<1>2. ASSUME UNCHANGED <<account, mixed>>, \A v \in Visitors \ {r} : knock'[v] = knock[v],
             knock[r].at # "grants", knock'[r].at # "grants"
      PROVE  ModulesInv'
  BY <1>2, ModulesStand
<1>3. CASE issue(r)
  BY <1>2, <1>3, IssueEffect, GoneFits DEF issue
<1>4. CASE revokeAllForSubject(r)
  BY <1>2, <1>4, RevokeAllEffect, GoneFits
<1>5. CASE loadSubject(r)
  BY <1>2, <1>5, LoadEffect
<1>6. CASE CreateToken(r)
  <2>1. knock[r].at = "create" /\ knock[r].row \in 1..Len(token)
    BY <1>6, WorkNames DEF CreateToken, RotPlaces
  <2>2. token[knock[r].row].line \in 1..Len(token)
    BY <2>1 DEF LinesInv, SessTypes
  <2> QED BY <1>2, <1>6, <2>2, CreateEffect
<1>7. CASE Retire(r) \/ Drop(r)
  <2>1. /\ UNCHANGED <<account, mixed>> /\ knock'[r] = Gone
        /\ \A v \in Visitors \ {r} : knock'[v] = knock[v]
    BY <1>7, RevokeEffect
  <2>2. knock[r].at # "grants"
    BY <1>7 DEF Retire, Drop
  <2> QED BY <1>2, <2>1, <2>2, GoneFits
<1>8. CASE restoreSoftDeleted(r)
  <2> DEFINE a == knock[r].of
  <2>1. /\ knock[r].at = "restore" /\ a \in Subjects
        /\ knock'[r].at = "grants" /\ knock'[r].of = a /\ knock'[r].life = account[a].life + 1
        /\ \A v \in Visitors \ {r} : knock'[v] = knock[v]
        /\ account'[a].life = account[a].life + 1
        /\ \A v \in Subjects \ {a} : account'[v] = account[v]
        /\ mixed' = IF \E v \in Visitors \ {r} : knock[v].at \in {"restore", "grants"} /\ knock[v].of = a
                    THEN mixed \cup {a} ELSE mixed
    BY <1>8, RestoreEffect
  <2>2. ASSUME NEW s \in Subjects \ mixed'
        PROVE  /\ \A v \in Visitors : knock'[v].at = "grants" /\ knock'[v].of = s
                                        => knock'[v].life = account'[s].life
               /\ \/ account'[s].grants = account'[s].life
                  \/ \E v \in Visitors : knock'[v].at = "grants" /\ knock'[v].of = s
    <3>1. CASE s = a
      <4>1. \A v \in Visitors \ {r} : ~(knock[v].at = "grants" /\ knock[v].of = a)
        BY <2>1, <2>2, <3>1
      <4> QED BY <2>1, <3>1, <4>1
    <3>2. CASE s # a
      <4>1. s \in Subjects \ mixed
        BY <2>1, <2>2
      <4>2. /\ \A v \in Visitors : knock[v].at = "grants" /\ knock[v].of = s => knock[v].life = account[s].life
            /\ \/ account[s].grants = account[s].life
               \/ \E v \in Visitors : knock[v].at = "grants" /\ knock[v].of = s
        BY <4>1 DEF ModulesInv, Granting
      <4> QED BY <2>1, <2>2, <3>2, <4>2
    <3> QED BY <3>1, <3>2
  <2> QED BY <2>2 DEF ModulesInv, Granting
<1>9. CASE replaceForSubAdmin(r)
  <2> DEFINE a == knock[r].of
  <2>1. /\ mixed' = mixed /\ knock[r].at = "grants" /\ a \in Subjects
        /\ knock'[r] = Gone /\ \A v \in Visitors \ {r} : knock'[v] = knock[v]
        /\ account'[a].life = account[a].life /\ account'[a].grants = knock[r].life
        /\ \A v \in Subjects \ {a} : account'[v] = account[v]
    BY <1>9, ReplaceEffect
  <2>2. ASSUME NEW s \in Subjects \ mixed
        PROVE  /\ \A v \in Visitors : knock'[v].at = "grants" /\ knock'[v].of = s
                                        => knock'[v].life = account'[s].life
               /\ \/ account'[s].grants = account'[s].life
                  \/ \E v \in Visitors : knock'[v].at = "grants" /\ knock'[v].of = s
    <3>1. /\ \A v \in Visitors : knock[v].at = "grants" /\ knock[v].of = s => knock[v].life = account[s].life
          /\ \/ account[s].grants = account[s].life
             \/ \E v \in Visitors : knock[v].at = "grants" /\ knock[v].of = s
      BY DEF ModulesInv, Granting
    <3>2. account'[s].life = account[s].life
      BY <2>1
    <3>3. ASSUME NEW v \in Visitors, knock'[v].at = "grants", knock'[v].of = s
          PROVE  knock'[v].life = account'[s].life
      <4>1. v # r
        BY <2>1, <3>3, GoneFits
      <4> QED BY <2>1, <3>1, <3>2, <3>3, <4>1
    <3>4. CASE s = a
      BY <2>1, <3>1, <3>2, <3>3, <3>4
    <3>5. CASE s # a
      BY <2>1, <3>1, <3>3, <3>5
    <3> QED BY <3>4, <3>5
  <2> QED BY <2>1, <2>2 DEF ModulesInv, Granting
<1>10. CASE KnockFails(r)
  <2>1. /\ UNCHANGED account /\ knock'[r] = Gone /\ \A v \in Visitors \ {r} : knock'[v] = knock[v]
        /\ mixed' = IF knock[r].at = "grants" THEN mixed \cup {knock[r].of} ELSE mixed
    BY <1>10, FailEffect
  <2>2. CASE knock[r].at # "grants"
    BY <1>2, <2>1, <2>2, GoneFits
  <2>3. CASE knock[r].at = "grants"
    <3>1. ASSUME NEW s \in Subjects \ mixed'
          PROVE  /\ \A v \in Visitors : knock'[v].at = "grants" /\ knock'[v].of = s
                                          => knock'[v].life = account'[s].life
                 /\ \/ account'[s].grants = account'[s].life
                    \/ \E v \in Visitors : knock'[v].at = "grants" /\ knock'[v].of = s
      <4>1. s \in Subjects \ mixed /\ s # knock[r].of
        BY <2>1, <2>3
      <4>2. /\ \A v \in Visitors : knock[v].at = "grants" /\ knock[v].of = s => knock[v].life = account[s].life
            /\ \/ account[s].grants = account[s].life
               \/ \E v \in Visitors : knock[v].at = "grants" /\ knock[v].of = s
        BY <4>1 DEF ModulesInv, Granting
      <4> QED BY <2>1, <4>1, <4>2, GoneFits
    <3> QED BY <3>1 DEF ModulesInv, Granting
  <2> QED BY <2>2, <2>3
<1>11. CASE WriteState(r)
  BY <1>11, StateEffect, ModulesStand, GoneFits
<1> QED BY <1>1, <1>3, <1>4, <1>5, <1>6, <1>7, <1>8, <1>9, <1>10, <1>11 DEF SessionWork

----------------------------------------
(* Sessions keep what they promise.                                          *)

SessInv == SessTypes /\ TokenInv /\ ModulesInv

\* In the first state there are no tokens and no requests.
LEMMA SessionsStart == ASSUME SessionsInit PROVE SessInv
<1> DEFINE first == [state |-> "active", life |-> 1, grants |-> 1]
<1>1. first \in Lives /\ first.life = 1 /\ first.grants = 1
  BY DEF Lives, States
<1>2. account = [s \in Subjects |-> first]
  BY DEF SessionsInit
<1> HIDE DEF first
<1>3. account \in [Subjects -> Lives] /\ \A s \in Subjects : account[s].life = 1 /\ account[s].grants = 1
  BY <1>1, <1>2
<1>4. /\ token = <<>> /\ Len(token) = 0 /\ forked = {} /\ ended = {} /\ mixed = {}
      /\ DOMAIN knock = Visitors /\ \A r \in Visitors : knock[r] = Gone
  BY DEF SessionsInit
<1>5. SessTypes
  <2>1. token \in Seq(TokenRows) /\ Len(token) <= MaxTokens
    BY <1>4, SessionsAssumption
  <2> QED BY <1>3, <1>4, <2>1, GoneFits DEF SessTypes
<1>6. LinesInv /\ RotationInv /\ EndInv
  BY <1>4 DEF LinesInv, RotationInv, EndInv
<1>7. NextInv
  BY <1>4, GoneFits DEF NextInv, Retiring
<1>8. ModulesInv
  BY <1>3, <1>4, GoneFits DEF ModulesInv, Granting
<1> QED BY <1>5, <1>6, <1>7, <1>8 DEF SessInv, TokenInv

\* Every step keeps the invariant.
LEMMA SessionsStep == ASSUME SessInv, SessionsNext PROVE SessInv'
<1>1. SessTypes /\ TokenInv /\ ModulesInv /\ LinesInv
  BY DEF SessInv, TokenInv
<1>2. ASSUME NEW r \in Visitors, knock[r] = Gone, SessionCall(r) PROVE SessInv'
  <2>1. SessTypes' /\ TokenInv'
    BY <1>1, <1>2, CallsKeepTokens
  <2>2. ModulesInv'
    BY <1>1, <1>2, StepsKeepModules
  <2> QED BY <2>1, <2>2 DEF SessInv
<1>3. ASSUME NEW r \in Visitors, knock[r] # Gone, SessionWork(r) PROVE SessInv'
  <2>1. SessTypes' /\ TokenInv'
    BY <1>1, <1>3, IssueKeepsTokens, CreateKeepsTokens, RetireKeepsTokens, RevokeAllKeepsTokens,
       DropKeepsTokens, OthersKeepTokens DEF SessionWork
  <2>2. ModulesInv'
    BY <1>1, <1>3, StepsKeepModules
  <2> QED BY <2>1, <2>2 DEF SessInv
<1>4. ASSUME NEW i \in DOMAIN token, ExpireToken(i) PROVE SessInv'
  <2>1. /\ token' \in Seq(TokenRows) /\ Len(token') = Len(token)
        /\ \A j \in 1..Len(token) :
             /\ token'[j].of = token[j].of /\ token'[j].line = token[j].line
             /\ token'[j].next = token[j].next /\ token'[j].revoked = token[j].revoked
        /\ UNCHANGED <<account, knock, forked, ended, mixed>>
    BY <1>1, <1>4, TokenExpires
  <2>2. SessTypes'
    BY <1>1, <2>1 DEF SessTypes
  <2>3. TokensStand
    BY <1>1, <2>1 DEF TokensStand, SessTypes
  <2>4. TokenInv'
    BY <1>1, <2>1, <2>2, <2>3, QuietKeepsTokens
  <2>5. ModulesInv'
    BY <1>1, <2>1 DEF ModulesInv, Granting
  <2> QED BY <2>2, <2>4, <2>5 DEF SessInv
<1> QED BY <1>2, <1>3, <1>4 DEF SessionsNext

\* What the invariant says of the four promises.
LEMMA SessionsHold == ASSUME SessInv PROVE SessionsSound
<1>1. /\ SessTypes /\ LinesInv /\ RotationInv /\ EndInv /\ NextInv /\ ModulesInv
      /\ Len(token) \in Nat /\ DOMAIN token = 1..Len(token)
  BY DEF SessInv, TokenInv, SessTypes
<1>2. \A l \in Lines : l \in 1..Len(token)
  BY <1>1 DEF Lines, LinesInv
<1>3. SessionsTypeOK
  <2>1. account \in [Subjects -> [state : States, life : Nat, grants : Nat]]
    BY <1>1 DEF SessTypes, Lives
  <2> DEFINE Row == [of : Subjects, revoked : BOOLEAN, next : 0 .. MaxTokens, expired : BOOLEAN, line : 1 .. MaxTokens]
  <2>2. ASSUME NEW i \in 1..Len(token) PROVE token[i] \in Row
    <3>1. token[i] \in TokenRows /\ Len(token) <= MaxTokens /\ MaxTokens \in Nat
      BY <1>1, SessionsAssumption DEF SessTypes
    <3>2. token[i].line \in 1..MaxTokens
      BY <1>1, <3>1 DEF LinesInv
    <3>3. token[i].next \in 0..MaxTokens
      <4>1. token[i].next \in Nat
        BY <3>1 DEF TokenRows
      <4>2. token[i].next # 0 => token[i].next <= Len(token)
        BY <1>1 DEF NextInv
      <4> QED BY <1>1, <3>1, <4>1, <4>2
    <3> QED BY <3>1, <3>2, <3>3 DEF TokenRows
  <2> HIDE DEF Row
  <2>3. token \in Seq(Row)
    <3>1. token \in Seq(TokenRows)
      BY <1>1 DEF SessTypes
    <3> QED BY <1>1, <2>2, <3>1
  <2> QED BY <2>1, <2>3 DEF SessionsTypeOK, Row, States
<1>4. OneTokenPerLine
  <2> SUFFICES ASSUME NEW l \in Lines \ forked, Rotating(l) = {} PROVE Cardinality(LiveIn(l)) <= 1
    BY DEF OneTokenPerLine
  <2>1. \A i, j \in LiveIn(l) : i = j
    BY <1>1, <1>2 DEF RotationInv, RotatorsFit
  <2>2. CASE LiveIn(l) = {}
    BY <2>2, FS_EmptySet
  <2>3. CASE LiveIn(l) # {}
    <3>1. PICK i : LiveIn(l) = {i}
      BY <2>1, <2>3
    <3>2. Cardinality({i}) = 1
      BY FS_Singleton
    <3> QED BY <3>1, <3>2
  <2> QED BY <2>2, <2>3
<1>5. EndedStaysEnded
  BY <1>1 DEF EndInv, EndedStaysEnded
<1>6. SuccessorsFit
  BY <1>1 DEF NextInv, SuccessorsFit
<1>7. GrantsOfThisLife
  BY <1>1 DEF ModulesInv, Granting, GrantsOfThisLife
<1> QED BY <1>3, <1>4, <1>5, <1>6, <1>7 DEF SessionsSound

\* Standing still keeps it.
LEMMA SessionsIdle == ASSUME SessInv, UNCHANGED sessionVars PROVE SessInv'
BY DEF sessionVars, SessInv, SessTypes, TokenInv, LinesInv, RotationInv, RotatorsFit, EndInv, NextInv,
   ModulesInv, Granting, Retiring, Rotating, LiveIn

\* A line of tokens has one good token, once ended stays ended, names its
\* successors truly, and a recreated account has the modules of its new life
\* (refresh.js, sub_admin/management.js).
THEOREM SessionsAreSound == SessionsSpec => []SessionsSound
<1>1. SessionsInit => SessInv
  BY SessionsStart
<1>2. SessInv /\ [SessionsNext]_sessionVars => SessInv'
  BY SessionsStep, SessionsIdle
<1> QED BY <1>1, <1>2, SessionsHold, PTL DEF SessionsSpec

----------------------------------------
(* Side by side: what sessions and the link promise, under one specification. *)

\* No refresh token, line of sign-ins or calendar grant is used after it was
\* used up or taken back (refresh.js, googleCalendarOAuth.js).
THEOREM GrantsAreSound == AccessSpec => []GrantsSound
<1>1. AccessInit => SessInv /\ LinkInv
  BY SessionsStart, LinkStarts DEF AccessInit
<1>2. SessInv /\ LinkInv /\ [AccessNext]_<<door, accountVars, sessionVars, pinVars, idemVars, linkVars>>
        => SessInv' /\ LinkInv'
  <2> SUFFICES ASSUME SessInv, LinkInv,
                      [AccessNext]_<<door, accountVars, sessionVars, pinVars, idemVars, linkVars>>
               PROVE  SessInv' /\ LinkInv'
    OBVIOUS
  <2>1. (SessionsNext \/ UNCHANGED sessionVars) /\ (LinkNext \/ UNCHANGED linkVars)
    BY DEF AccessNext
  <2>2. SessInv'
    BY <2>1, SessionsStep, SessionsIdle
  <2>3. LinkInv'
    BY <2>1, LinkSteps
  <2> QED BY <2>2, <2>3
<1>3. SessInv /\ LinkInv => GrantsSound
  BY SessionsHold, LinkHolds DEF GrantsSound
<1> QED BY <1>1, <1>2, <1>3, PTL DEF AccessSpec

----------------------------------------
(* One-time codes, and the accounts they open: the inductive invariant.       *)

CodeKeys   == ({"register", "login"} \X Emails) \cup ({"reset"} \X StaffMail)
CodeRows   == [key : CodeKeys, tries : Nat, consumed : BOOLEAN, age : 0..Hour, taken : Nat]
SellerRows == [mobile : Mobiles \cup {NoMobile}, email : Emails \cup {NoEmail}, verified : BOOLEAN,
               active : BOOLEAN, deleted : BOOLEAN, proven : SUBSET Emails]

Goals     == {"mark", "enter", "password"}
Stages    == {"verify", "compare"} \cup Goals
Proof(m, n) == [at : Stages, key : CodeKeys, row : 0..n, typed : 0..n, then : Goals,
                seller : 0..m, was : BOOLEAN, email : Emails \cup StaffMail]

\* What a request carries at each stage, among m sellers and n codes.
VisitFits(v, m, n) ==
  /\ v.at \in {"rates", "issue"} => v \in [at : {"rates", "issue"}, key : CodeKeys]
  /\ v.at = "draft" => v.mobile \in Mobiles /\ v.email \in Emails /\ v.seller \in 0..m
  /\ v.at = "profile" => v.seller \in 1..m /\ v.email \in Emails \cup {NoEmail}
  /\ v.at \in Stages =>
       /\ v \in Proof(m, n)
       /\ v.at \in Goals => v.at = v.then
       /\ v.then = "mark" => v.seller \in 1..m /\ v.email \in Emails
       /\ v.then = "password" => v.email \in StaffMail /\ v.key = <<"reset", v.email>>

\* The code a request compares is one of its key.
RowFits(v) == v.at = "compare" => v.row \in 1..Len(code) /\ code[v.row].key = v.key

AccountTypes ==
  /\ code \in Seq(CodeRows) /\ shared \subseteq 1..Len(code)
  /\ seller \in Seq(SellerRows) /\ password \in [StaffMail -> Nat]
  /\ DOMAIN visit = Patrons
  /\ \A r \in Patrons : VisitFits(visit[r], Len(seller), Len(code)) /\ RowFits(visit[r])

Compares(v, i) == v.at = "compare" /\ v.row = i
Comparing(i)   == {r \in Patrons : Compares(visit[r], i)}

\* A code that no two verifications held at once is accepted once; while one of
\* them compares it, it is open and has a try left.
OnceInv ==
  \A i \in 1..Len(code) :
    /\ code[i].taken > 0 <=> code[i].consumed
    /\ i \notin shared =>
         /\ code[i].taken <= 1 /\ code[i].tries <= MaxTries
         /\ \A r, s \in Comparing(i) : r = s
         /\ \A r \in Comparing(i) : ~code[i].consumed /\ code[i].tries < MaxTries

\* Tries past the limit are those of requests that compared when it was reached.
TriesInv ==
  \A i \in 1..Len(code) :
    code[i].tries + Cardinality(Comparing(i)) <= MaxTries + Cardinality(Patrons)

Issuing(key) == {r \in Patrons : visit[r].at = "issue" /\ visit[r].key = key}

\* A key that no two requests issued codes for at once keeps to the rates, with
\* room for the code that is being issued.
RatesInv ==
  \A key \in CodeKeys \ rushed :
    /\ Recent(key, Minute) <= PerMinute /\ Recent(key, Hour) <= PerHour
    /\ \A r, s \in Issuing(key) : r = s
    /\ Issuing(key) # {} => Recent(key, Minute) < PerMinute /\ Recent(key, Hour) < PerHour

DraftWrites(v) == v.at \in {"draft", "profile"}

\* Until two have an address at once, no two sellers have it, verified or not,
\* and who is about to write it writes it over itself.
AddressInv ==
  /\ \A i, j \in LiveSellers : i # j =>
       /\ seller[i].mobile # seller[j].mobile
       /\ seller[i].email = seller[j].email => seller[i].email \in doubled \cup {NoEmail}
  /\ \A r \in Patrons : DraftWrites(visit[r]) /\ visit[r].email \notin doubled \cup {NoEmail} =>
       findByEmail(visit[r].email) \subseteq {visit[r].seller}

Proves(v, i) == v.at \in {"verify", "compare", "mark"} /\ v.then = "mark" /\ v.seller = i

\* Until a seller's address is changed under a proof, or edited, the proofs that
\* run for the seller are of the address in the row.
ProvenInv ==
  \A i \in 1..Len(seller) : i \notin rewritten =>
    /\ seller[i].verified => seller[i].email \in seller[i].proven
    /\ \A r \in Patrons : Proves(visit[r], i) => visit[r].email = seller[i].email

Setting(s) == {r \in Patrons : visit[r].at = "password" /\ visit[r].email = s}

\* Each reset that was made, or is about to be, has a code of its own.
PaidInv ==
  \A s \in StaffMail : Accepted(<<"reset", s>>) \cap shared = {} =>
    password[s] + Cardinality(Setting(s)) <= Cardinality(Accepted(<<"reset", s>>))

AccountsInv == AccountTypes /\ OnceInv /\ TriesInv /\ RatesInv /\ AddressInv /\ ProvenInv /\ PaidInv

----------------------------------------
(* What the types give.                                                      *)

\* Codes and sellers are numbered from 1.
LEMMA Numbered ==
  ASSUME AccountTypes
  PROVE  /\ DOMAIN code = 1..Len(code) /\ Len(code) \in Nat /\ \A i \in 1..Len(code) : code[i] \in CodeRows
         /\ DOMAIN seller = 1..Len(seller) /\ Len(seller) \in Nat
         /\ \A i \in 1..Len(seller) : seller[i] \in SellerRows
BY DEF AccountTypes

\* The sets that are counted are finite.
LEMMA Finite ==
  ASSUME AccountTypes
  PROVE  /\ IsFiniteSet(1..Len(code)) /\ IsFiniteSet(Patrons)
         /\ \A T \in SUBSET (1..Len(code)) : IsFiniteSet(T) /\ Cardinality(T) \in Nat
         /\ \A T \in SUBSET Patrons : IsFiniteSet(T) /\ Cardinality(T) \in Nat
                                      /\ Cardinality(T) <= Cardinality(Patrons)
<1>1. IsFiniteSet(1..Len(code))
  BY Numbered, FS_Interval
<1>2. IsFiniteSet(Patrons)
  BY CodesAssumption
<1>3. ASSUME NEW T \in SUBSET (1..Len(code)) PROVE IsFiniteSet(T) /\ Cardinality(T) \in Nat
  BY <1>1, FS_Subset, FS_CardinalityType
<1>4. ASSUME NEW T \in SUBSET Patrons
      PROVE  IsFiniteSet(T) /\ Cardinality(T) \in Nat /\ Cardinality(T) <= Cardinality(Patrons)
  BY <1>2, FS_Subset, FS_CardinalityType
<1> QED BY <1>1, <1>2, <1>3, <1>4

\* What fits among some rows fits among more.
LEMMA FitsMore ==
  ASSUME NEW m \in Nat, NEW n \in Nat, NEW m2 \in Nat, NEW n2 \in Nat, m <= m2, n <= n2,
         NEW v, VisitFits(v, m, n)
  PROVE  VisitFits(v, m2, n2)
<1>1. 0..m \subseteq 0..m2 /\ 1..m \subseteq 1..m2 /\ 0..n \subseteq 0..n2
  OBVIOUS
<1>2. v \in Proof(m, n) => v \in Proof(m2, n2)
  BY <1>1 DEF Proof
<1> QED BY <1>1, <1>2 DEF VisitFits

\* One request goes on; rows are added and changed, but not their keys.
LEMMA TypesMove ==
  ASSUME AccountTypes, NEW r \in Patrons, NEW v, visit' = [visit EXCEPT ![r] = v],
         code' \in Seq(CodeRows), Len(code) <= Len(code'),
         \A i \in 1..Len(code) : code'[i].key = code[i].key,
         seller' \in Seq(SellerRows), Len(seller) <= Len(seller'),
         shared' \subseteq 1..Len(code'), password' \in [StaffMail -> Nat],
         VisitFits(v, Len(seller'), Len(code')),
         v.at = "compare" => v.row \in 1..Len(code') /\ code'[v.row].key = v.key
  PROVE  AccountTypes' /\ visit'[r] = v /\ \A s \in Patrons \ {r} : visit'[s] = visit[s]
<1>1. visit'[r] = v /\ \A s \in Patrons \ {r} : visit'[s] = visit[s] /\ DOMAIN visit' = Patrons
  BY DEF AccountTypes
<1>2. Len(code) \in Nat /\ Len(code') \in Nat /\ Len(seller) \in Nat /\ Len(seller') \in Nat
  BY DEF AccountTypes
<1>3. ASSUME NEW s \in Patrons
      PROVE  VisitFits(visit'[s], Len(seller'), Len(code')) /\ RowFits(visit[s])'
  <2>1. CASE s = r
    BY <2>1, <1>1 DEF RowFits
  <2>2. CASE s # r
    <3>1. VisitFits(visit[s], Len(seller), Len(code)) /\ RowFits(visit[s]) /\ visit'[s] = visit[s]
      BY <2>2, <1>1 DEF AccountTypes
    <3>2. VisitFits(visit[s], Len(seller'), Len(code'))
      BY <3>1, <1>2, FitsMore
    <3>3. RowFits(visit[s])'
      BY <3>1, <1>2 DEF RowFits
    <3> QED BY <3>1, <3>2, <3>3
  <2> QED BY <2>1, <2>2
<1>4. DOMAIN visit' = Patrons
  BY DEF AccountTypes
<1> QED BY <1>1, <1>3, <1>4 DEF AccountTypes

----------------------------------------
(* Steps that leave a part of the invariant alone.                           *)

\* Nobody begins to compare, and no code changes.
LEMMA OnceKept ==
  ASSUME AccountTypes, OnceInv, TriesInv, code' = code, shared' = shared,
         \A i \in 1..Len(code) : Comparing(i)' \subseteq Comparing(i)
  PROVE  OnceInv' /\ TriesInv'
<1>1. OnceInv'
  BY DEF OnceInv
<1>2. ASSUME NEW i \in 1..Len(code)
      PROVE  code[i].tries + Cardinality(Comparing(i)') <= MaxTries + Cardinality(Patrons)
  <2>1. Comparing(i) \in SUBSET Patrons /\ IsFiniteSet(Comparing(i)) /\ Cardinality(Comparing(i)) \in Nat
    BY Finite DEF Comparing
  <2>2. Cardinality(Comparing(i)') <= Cardinality(Comparing(i)) /\ Cardinality(Comparing(i)') \in Nat
    <3> DEFINE T == Comparing(i)'
    <3>1. T \in SUBSET Comparing(i)
      OBVIOUS
    <3> HIDE DEF T
    <3>2. Cardinality(T) <= Cardinality(Comparing(i)) /\ Cardinality(T) \in Nat
      BY <2>1, <3>1, FS_Subset, FS_CardinalityType
    <3> QED BY <3>2 DEF T
  <2>3. code[i].tries + Cardinality(Comparing(i)) <= MaxTries + Cardinality(Patrons)
    BY DEF TriesInv
  <2>4. code[i].tries \in Nat /\ MaxTries \in Nat /\ Cardinality(Patrons) \in Nat
    BY Numbered, Finite, CodesAssumption DEF CodeRows
  <2> QED BY <2>1, <2>2, <2>3, <2>4
<1>3. TriesInv'
  BY <1>2 DEF TriesInv
<1> QED BY <1>1, <1>3

\* Nobody begins to issue, and no code is added.
LEMMA RatesKept ==
  ASSUME RatesInv, DOMAIN code' = DOMAIN code, rushed \subseteq rushed',
         \A i \in DOMAIN code : code'[i].key = code[i].key /\ code'[i].age = code[i].age,
         \A key \in CodeKeys : Issuing(key)' \subseteq Issuing(key)
  PROVE  RatesInv'
<1>1. ASSUME NEW key PROVE Recent(key, Minute)' = Recent(key, Minute) /\ Recent(key, Hour)' = Recent(key, Hour)
  BY DEF Recent
<1> QED BY <1>1 DEF RatesInv

\* Addresses, mobiles and who is about to write them stay.
LEMMA AddressKept ==
  ASSUME AddressInv, DOMAIN seller' = DOMAIN seller, doubled \subseteq doubled',
         LiveSellers' \subseteq LiveSellers,
         \A i \in LiveSellers' : seller'[i].mobile = seller[i].mobile /\ seller'[i].email = seller[i].email,
         \A r \in Patrons : DraftWrites(visit'[r]) => visit'[r] = visit[r]
  PROVE  AddressInv'
<1>1. ASSUME NEW e PROVE findByEmail(e)' \subseteq findByEmail(e)
  BY DEF findByEmail
<1>2. ASSUME NEW r \in Patrons, DraftWrites(visit'[r]), visit'[r].email \notin doubled' \cup {NoEmail}
      PROVE  findByEmail(visit[r].email)' \subseteq {visit[r].seller} /\ visit'[r] = visit[r]
  BY <1>1, <1>2 DEF AddressInv
<1>3. ASSUME NEW r \in Patrons, DraftWrites(visit'[r]), visit'[r].email \notin doubled' \cup {NoEmail}
      PROVE  findByEmail(visit[r].email)' \subseteq {visit'[r].seller}
  BY <1>2, <1>3
<1>4. ASSUME NEW r \in Patrons, DraftWrites(visit'[r]), visit'[r].email \notin doubled' \cup {NoEmail}
      PROVE  {j \in LiveSellers' : seller'[j].email = visit'[r].email} \subseteq {visit'[r].seller}
  BY <1>2, <1>3, <1>4 DEF findByEmail
<1>5. ASSUME NEW i \in LiveSellers', NEW j \in LiveSellers', i # j
      PROVE  /\ seller'[i].mobile # seller'[j].mobile
             /\ seller'[i].email = seller'[j].email => seller'[i].email \in doubled' \cup {NoEmail}
  BY <1>5 DEF AddressInv
<1> QED BY <1>4, <1>5 DEF AddressInv, findByEmail

\* Who begins to prove proves the address of the row, and the rows keep what is
\* proven.
LEMMA ProvenKept ==
  ASSUME ProvenInv, Len(seller') = Len(seller), rewritten \subseteq rewritten',
         \A i \in 1..Len(seller) : /\ seller'[i].email = seller[i].email
                                   /\ seller'[i].verified = seller[i].verified
                                   /\ seller'[i].proven = seller[i].proven,
         \A r \in Patrons : \A i \in 1..Len(seller) :
           Proves(visit'[r], i) => \/ Proves(visit[r], i) /\ visit'[r].email = visit[r].email
                                   \/ visit'[r].email = seller[i].email
  PROVE  ProvenInv'
BY DEF ProvenInv

\* Nobody begins to set a password, and no code is taken.
LEMMA PaidKept ==
  ASSUME AccountTypes, PaidInv, password' = password, shared \subseteq shared', DOMAIN code \subseteq DOMAIN code',
         \A i \in DOMAIN code' \ DOMAIN code : code'[i].taken = 0,
         \A i \in DOMAIN code : code'[i].key = code[i].key /\ code'[i].taken = code[i].taken,
         \A s \in StaffMail : Setting(s)' \subseteq Setting(s)
  PROVE  PaidInv'
<1>1. ASSUME NEW key PROVE Accepted(key)' = Accepted(key)
  BY DEF Accepted
<1>2. ASSUME NEW s \in StaffMail, Accepted(<<"reset", s>>)' \cap shared' = {}
      PROVE  password[s] + Cardinality(Setting(s)') <= Cardinality(Accepted(<<"reset", s>>))
  <2>1. Accepted(<<"reset", s>>) \cap shared = {}
    BY <1>1, <1>2
  <2>2. password[s] + Cardinality(Setting(s)) <= Cardinality(Accepted(<<"reset", s>>))
    BY <2>1 DEF PaidInv
  <2>3. Setting(s) \in SUBSET Patrons /\ IsFiniteSet(Setting(s)) /\ Cardinality(Setting(s)) \in Nat
    BY Finite DEF Setting
  <2>4. Cardinality(Setting(s)') <= Cardinality(Setting(s)) /\ Cardinality(Setting(s)') \in Nat
    <3> DEFINE T == Setting(s)'
    <3>1. T \in SUBSET Setting(s)
      OBVIOUS
    <3> HIDE DEF T
    <3>2. Cardinality(T) <= Cardinality(Setting(s)) /\ Cardinality(T) \in Nat
      BY <2>3, <3>1, FS_Subset, FS_CardinalityType
    <3> QED BY <3>2 DEF T
  <2>5. Accepted(<<"reset", s>>) \in SUBSET (1..Len(code))
    BY Numbered DEF Accepted
  <2>6. Cardinality(Accepted(<<"reset", s>>)) \in Nat /\ password[s] \in Nat
    BY <2>5, Finite DEF AccountTypes
  <2> HIDE DEF Setting
  <2> QED BY <2>2, <2>3, <2>4, <2>6
<1>3. ASSUME NEW s \in StaffMail, Accepted(<<"reset", s>>)' \cap shared' = {}
      PROVE  password'[s] + Cardinality(Setting(s)') <= Cardinality(Accepted(<<"reset", s>>)')
  BY <1>1, <1>2, <1>3
<1> QED BY <1>3 DEF PaidInv

\* What a request that goes on may disturb.
LEMMA TurnKeeps ==
  ASSUME NEW r \in Patrons, NEW v, visit'[r] = v, \A s \in Patrons \ {r} : visit'[s] = visit[s]
  PROVE  /\ v.at # "compare" => \A i \in 1..Len(code) : Comparing(i)' \subseteq Comparing(i)
         /\ v.at # "issue" => \A key \in CodeKeys : Issuing(key)' \subseteq Issuing(key)
         /\ ~DraftWrites(v) => \A s \in Patrons : DraftWrites(visit'[s]) => visit'[s] = visit[s]
         /\ (\A i \in 1..Len(seller) : Proves(v, i) => v.email = seller[i].email) =>
              \A s \in Patrons : \A i \in 1..Len(seller) :
                Proves(visit'[s], i) => \/ Proves(visit[s], i) /\ visit'[s].email = visit[s].email
                                        \/ visit'[s].email = seller[i].email
         /\ v.at # "password" => \A s \in StaffMail : Setting(s)' \subseteq Setting(s)
<1>1. \A s \in Patrons : (visit'[s] = v /\ s = r) \/ visit'[s] = visit[s]
  OBVIOUS
<1>2. v.at # "compare" => \A i \in 1..Len(code) : Comparing(i)' \subseteq Comparing(i)
  BY <1>1 DEF Comparing, Compares
<1>3. v.at # "issue" => \A key \in CodeKeys : Issuing(key)' \subseteq Issuing(key)
  BY <1>1 DEF Issuing
<1>4. ~DraftWrites(v) => \A s \in Patrons : DraftWrites(visit'[s]) => visit'[s] = visit[s]
  BY <1>1
<1>5. (\A i \in 1..Len(seller) : Proves(v, i) => v.email = seller[i].email) =>
        \A s \in Patrons : \A i \in 1..Len(seller) :
          Proves(visit'[s], i) => \/ Proves(visit[s], i) /\ visit'[s].email = visit[s].email
                                  \/ visit'[s].email = seller[i].email
  BY <1>1
<1>6. v.at # "password" => \A s \in StaffMail : Setting(s)' \subseteq Setting(s)
  BY <1>1 DEF Setting
<1> QED BY <1>2, <1>3, <1>4, <1>5, <1>6

\* A request goes on, and writes nothing.
LEMMA CalmTurn ==
  ASSUME AccountsInv, NEW r \in Patrons, NEW v, visit' = [visit EXCEPT ![r] = v],
         UNCHANGED <<code, shared, seller, password, rewritten>>,
         rushed \subseteq rushed', doubled \subseteq doubled',
         VisitFits(v, Len(seller), Len(code)),
         v.at \notin {"compare", "issue", "password"}, ~DraftWrites(v),
         \A i \in 1..Len(seller) : Proves(v, i) => v.email = seller[i].email
  PROVE  AccountsInv'
<1>1. AccountTypes /\ OnceInv /\ TriesInv /\ RatesInv /\ AddressInv /\ ProvenInv /\ PaidInv
  BY DEF AccountsInv
<1>2. code \in Seq(CodeRows) /\ seller \in Seq(SellerRows) /\ password \in [StaffMail -> Nat]
      /\ shared \subseteq 1..Len(code)
  BY <1>1 DEF AccountTypes
<1>3. Len(code) \in Nat /\ Len(seller) \in Nat
  BY <1>2
<1>4. AccountTypes' /\ visit'[r] = v /\ \A s \in Patrons \ {r} : visit'[s] = visit[s]
  <2>1. code' = code /\ shared' = shared /\ seller' = seller /\ password' = password /\ v.at # "compare"
    OBVIOUS
  <2>2. /\ code' \in Seq(CodeRows) /\ seller' \in Seq(SellerRows) /\ password' \in [StaffMail -> Nat]
        /\ shared' \subseteq 1..Len(code') /\ Len(code) <= Len(code') /\ Len(seller) <= Len(seller')
        /\ \A i \in 1..Len(code) : code'[i].key = code[i].key
        /\ VisitFits(v, Len(seller'), Len(code'))
    BY <1>2, <1>3, <2>1
  <2> QED BY <1>1, <2>1, <2>2, TypesMove
<1>5. /\ \A i \in 1..Len(code) : Comparing(i)' \subseteq Comparing(i)
      /\ \A key \in CodeKeys : Issuing(key)' \subseteq Issuing(key)
      /\ \A s \in Patrons : DraftWrites(visit'[s]) => visit'[s] = visit[s]
      /\ \A s \in Patrons : \A i \in 1..Len(seller) :
           Proves(visit'[s], i) => \/ Proves(visit[s], i) /\ visit'[s].email = visit[s].email
                                   \/ visit'[s].email = seller[i].email
      /\ \A s \in StaffMail : Setting(s)' \subseteq Setting(s)
  BY <1>4, TurnKeeps
<1>6. OnceInv' /\ TriesInv'
  BY <1>1, <1>5, OnceKept
<1>7. RatesInv'
  BY <1>1, <1>5, RatesKept
<1>8. AddressInv'
  BY <1>1, <1>5, AddressKept DEF LiveSellers
<1>9. ProvenInv'
  BY <1>1, <1>5, ProvenKept
<1>10. PaidInv'
  BY <1>1, <1>5, PaidKept
<1> QED BY <1>4, <1>6, <1>7, <1>8, <1>9, <1>10 DEF AccountsInv

----------------------------------------
(* One lemma for each step.                                                  *)

\* A request that does not write, sign in or prove is over, or asks for a code.
LEMMA PlainFits ==
  ASSUME AccountTypes
  PROVE  /\ VisitFits(Away, Len(seller), Len(code))
         /\ \A key \in CodeKeys : VisitFits([at |-> "rates", key |-> key], Len(seller), Len(code))
         /\ \A key \in CodeKeys : VisitFits([at |-> "issue", key |-> key], Len(seller), Len(code))
BY DEF VisitFits, Away, Stages, Goals

\* What a request that asks for a code is.
LEMMA Asks ==
  ASSUME AccountTypes, NEW r \in Patrons, visit[r].at \in {"rates", "issue"}
  PROVE  /\ visit[r].key \in CodeKeys /\ visit[r] = [at |-> visit[r].at, key |-> visit[r].key]
         /\ visit[r].at = "rates" => [visit[r] EXCEPT !.at = "issue"] = [at |-> "issue", key |-> visit[r].key]
<1>1. visit[r] \in [at : {"rates", "issue"}, key : CodeKeys]
  BY DEF AccountTypes, VisitFits
<1> QED BY <1>1

\* Signing in and asking for a reset send a code.
LEMMA AsksKeep ==
  ASSUME AccountsInv, NEW r \in Patrons,
         \/ \E e \in Emails : loginStart(r, e)
         \/ \E s \in StaffMail : requestReset(r, s)
  PROVE  AccountsInv'
<1>1. PICK key \in CodeKeys : visit' = [visit EXCEPT ![r] = [at |-> "rates", key |-> key]]
  BY DEF loginStart, requestReset, Visit, CodeKeys
<1>2. UNCHANGED <<code, shared, rushed, seller, password, doubled, rewritten>>
  BY DEF loginStart, requestReset, accountOnly
<1>3. VisitFits([at |-> "rates", key |-> key], Len(seller), Len(code))
  BY PlainFits DEF AccountsInv
<1> DEFINE v == [at |-> "rates", key |-> key]
<1>4. v.at = "rates" /\ ~DraftWrites(v) /\ \A i \in 1..Len(seller) : ~Proves(v, i)
  BY DEF DraftWrites, Proves
<1> HIDE DEF v
<1> QED BY <1>1, <1>2, <1>3, <1>4, CalmTurn DEF v

\* A request ends, or fails, without a write.
LEMMA EndsKeep ==
  ASSUME AccountsInv, NEW r \in Patrons, visit' = [visit EXCEPT ![r] = Away],
         UNCHANGED <<code, shared, seller, password, rewritten>>,
         rushed \subseteq rushed', doubled \subseteq doubled'
  PROVE  AccountsInv'
<1>1. VisitFits(Away, Len(seller), Len(code))
  BY PlainFits DEF AccountsInv
<1>2. Away.at = "idle" /\ ~DraftWrites(Away) /\ \A i \in 1..Len(seller) : ~Proves(Away, i)
  BY DEF Away, DraftWrites, Proves
<1> QED BY <1>1, <1>2, CalmTurn

\* Who brings a code brings it for the address of the row, or of the account.
LEMMA ProvingKeeps ==
  ASSUME AccountsInv, NEW r \in Patrons,
         \/ \E i \in DOMAIN seller : \E e \in Emails, typed \in 0..Len(code) : registerVerify(r, i, e, typed)
         \/ \E e \in Emails : \E typed \in 0..Len(code) : loginVerify(r, e, typed)
         \/ \E s \in StaffMail : \E typed \in 0..Len(code), known \in BOOLEAN : completeReset(r, s, typed, known)
  PROVE  AccountsInv'
<1>1. AccountTypes
  BY DEF AccountsInv
<1>2. UNCHANGED <<code, shared, rushed, seller, password, doubled, rewritten>>
  BY DEF registerVerify, loginVerify, completeReset, accountOnly
<1>3. PICK v : /\ visit' = [visit EXCEPT ![r] = v] /\ v.at = "verify"
               /\ VisitFits(v, Len(seller), Len(code))
               /\ v.then = "mark" => v.email = seller[v.seller].email
  <2>1. CASE \E i \in DOMAIN seller : \E e \in Emails, typed \in 0..Len(code) : registerVerify(r, i, e, typed)
    <3>1. PICK i \in DOMAIN seller, e \in Emails, typed \in 0..Len(code) : registerVerify(r, i, e, typed)
      BY <2>1
    <3> DEFINE v == Proving(<<"register", seller[i].email>>, typed, "mark", i, seller[i].verified,
                            seller[i].email)
    <3>2. i \in 1..Len(seller) /\ seller[i].email \in Emails /\ seller[i].verified \in BOOLEAN
      BY <3>1, <1>1, Numbered DEF registerVerify, ProofAddress, SellerRows
    <3>3. visit' = [visit EXCEPT ![r] = v]
      BY <3>1 DEF registerVerify, ProofAddress, Visit
    <3>4. /\ v.at = "verify" /\ v.then = "mark" /\ v.seller = i /\ v.email = seller[i].email
          /\ v \in Proof(Len(seller), Len(code))
      BY <3>2, <1>1, Numbered DEF Proving, Proof, Stages, Goals, CodeKeys
    <3> HIDE DEF v
    <3>5. VisitFits(v, Len(seller), Len(code))
      BY <3>2, <3>4 DEF VisitFits, Goals
    <3> QED BY <3>3, <3>4, <3>5
  <2>2. CASE \E e \in Emails : \E typed \in 0..Len(code) : loginVerify(r, e, typed)
    <3>1. PICK e \in Emails, typed \in 0..Len(code) : loginVerify(r, e, typed)
      BY <2>2
    <3>2. PICK i \in findActiveVerifiedByEmail(e) :
            visit' = [visit EXCEPT ![r] = Proving(<<"login", e>>, typed, "enter", i, TRUE, e)]
      BY <3>1 DEF loginVerify, Visit
    <3> DEFINE v == Proving(<<"login", e>>, typed, "enter", i, TRUE, e)
    <3>3. i \in 1..Len(seller)
      BY <1>1, Numbered DEF findActiveVerifiedByEmail, findVerifiedByEmail, findByEmail, LiveSellers
    <3>4. v.at = "verify" /\ v.then = "enter" /\ v \in Proof(Len(seller), Len(code))
      BY <3>3, <1>1, Numbered DEF Proving, Proof, Stages, Goals, CodeKeys
    <3>5. visit' = [visit EXCEPT ![r] = v]
      BY <3>2
    <3> HIDE DEF v
    <3>6. VisitFits(v, Len(seller), Len(code))
      BY <3>4 DEF VisitFits, Goals
    <3> QED BY <3>4, <3>5, <3>6
  <2>3. CASE \E s \in StaffMail : \E typed \in 0..Len(code), known \in BOOLEAN : completeReset(r, s, typed, known)
    <3>1. PICK s \in StaffMail, typed \in 0..Len(code), known \in BOOLEAN : completeReset(r, s, typed, known)
      BY <2>3
    <3> DEFINE v == Proving(<<"reset", s>>, typed, "password", 0, known, s)
    <3>2. visit' = [visit EXCEPT ![r] = v]
      BY <3>1 DEF completeReset, Visit
    <3>3. /\ v.at = "verify" /\ v.then = "password" /\ v.email = s /\ v.key = <<"reset", s>>
          /\ v \in Proof(Len(seller), Len(code))
      BY <1>1, Numbered DEF Proving, Proof, Stages, Goals, CodeKeys
    <3> HIDE DEF v
    <3>4. VisitFits(v, Len(seller), Len(code))
      BY <3>3 DEF VisitFits, Goals
    <3> QED BY <3>2, <3>3, <3>4
  <2> QED BY <2>1, <2>2, <2>3
<1>4. ~DraftWrites(v) /\ \A i \in 1..Len(seller) : Proves(v, i) => v.email = seller[i].email
  BY <1>3 DEF DraftWrites, Proves
<1> QED BY <1>2, <1>3, <1>4, CalmTurn

\* The stages of a request that brings a code.
LEMMA Brings ==
  ASSUME AccountTypes, NEW r \in Patrons, visit[r].at \in Stages
  PROVE  /\ visit[r] \in Proof(Len(seller), Len(code))
         /\ visit[r].at \in Goals => visit[r].at = visit[r].then
         /\ visit[r].then = "mark" => visit[r].seller \in 1..Len(seller) /\ visit[r].email \in Emails
         /\ visit[r].then = "password" => visit[r].email \in StaffMail /\ visit[r].key = <<"reset", visit[r].email>>
         /\ visit[r].at = "compare" => visit[r].row \in 1..Len(code) /\ code[visit[r].row].key = visit[r].key
BY DEF AccountTypes, VisitFits, RowFits

\* A code is looked up: who finds one that another compares marks it as shared.
LEMMA LookUpKeeps ==
  ASSUME AccountsInv, NEW r \in Patrons, LookUpCode(r), UNCHANGED accountOnly
  PROVE  AccountsInv'
<1>1. AccountTypes /\ OnceInv /\ TriesInv /\ RatesInv /\ AddressInv /\ ProvenInv /\ PaidInv
  BY DEF AccountsInv
<1> DEFINE found == {i \in findLatestUnconsumed(visit[r].key) : ~Locked(i)}
           Held(i) == [visit[r] EXCEPT !.at = "compare", !.row = i]
<1>2. /\ visit[r].at = "verify"
      /\ visit' = [visit EXCEPT ![r] = IF found = {} THEN Away ELSE Held(CHOOSE i \in found : TRUE)]
      /\ shared' = shared \cup {i \in found : \E s \in Patrons \ {r} : visit[s].at = "compare" /\ visit[s].row = i}
      /\ UNCHANGED <<code, rushed, seller, password, doubled, rewritten>>
  BY DEF LookUpCode, Onward, accountOnly
<1>3. CASE found = {}
  <2>1. visit' = [visit EXCEPT ![r] = Away] /\ shared' = shared /\ rushed \subseteq rushed'
    BY <1>2, <1>3
  <2> QED BY <2>1, <1>2, EndsKeep
<1>4. CASE found # {}
  <2>1. PICK k \in found : k = CHOOSE i \in found : TRUE
    BY <1>4
  <2> DEFINE v == Held(k)
  <2>2. found \subseteq {i \in 1..Len(code) : code[i].key = visit[r].key /\ ~code[i].consumed /\ ~Locked(i)}
    BY <1>1, Numbered DEF findLatestUnconsumed, Open
  <2>3. visit' = [visit EXCEPT ![r] = v]
    BY <1>2, <1>4, <2>1
  <2>4. visit[r] \in Proof(Len(seller), Len(code)) /\ visit[r].at \in Stages
    BY <1>1, <1>2, Brings DEF Stages
  <2>5. \A s \in Patrons \ {r} : Compares(visit[s], k) => k \in shared'
    BY <1>2, <2>1 DEF Compares
  <2>6. shared \subseteq shared' /\ shared' \subseteq 1..Len(code)
    BY <1>1, <1>2, <2>2 DEF AccountTypes
  <2>7. k \in 1..Len(code) /\ code[k].key = visit[r].key /\ ~code[k].consumed /\ ~(code[k].tries >= MaxTries)
    BY <2>1, <2>2 DEF Locked
  <2> HIDE DEF found
  <2>8. /\ v.at = "compare" /\ v.row = k /\ v.key = visit[r].key /\ v.then = visit[r].then
        /\ v.seller = visit[r].seller /\ v.email = visit[r].email /\ v \in Proof(Len(seller), Len(code))
    <3>1. k \in 0..Len(code) /\ "compare" \in Stages
      BY <2>7, <1>1, Numbered DEF Stages
    <3> QED BY <2>4, <3>1 DEF Proof
  <2> HIDE DEF v
  <2>9. VisitFits(v, Len(seller), Len(code))
    BY <2>4, <2>8, <1>1, Brings DEF VisitFits, Goals, Stages
  <2>10. AccountTypes' /\ visit'[r] = v /\ \A s \in Patrons \ {r} : visit'[s] = visit[s]
    <3>1. code' = code /\ seller' = seller /\ password' = password
      BY <1>2
    <3>2. /\ code' \in Seq(CodeRows) /\ seller' \in Seq(SellerRows) /\ password' \in [StaffMail -> Nat]
          /\ shared' \subseteq 1..Len(code') /\ Len(code) <= Len(code') /\ Len(seller) <= Len(seller')
          /\ \A i \in 1..Len(code) : code'[i].key = code[i].key
          /\ VisitFits(v, Len(seller'), Len(code'))
      BY <1>1, <2>6, <2>9, <3>1, Numbered DEF AccountTypes
    <3> QED BY <1>1, <2>3, <2>7, <2>8, <3>1, <3>2, TypesMove
  <2>11. /\ \A i \in 1..Len(code) : Comparing(i)' \subseteq Comparing(i) \cup {r}
         /\ \A i \in 1..Len(code) : i # k => Comparing(i)' \subseteq Comparing(i)
         /\ \A s \in Comparing(k)' \ {r} : k \in shared'
    BY <2>5, <2>8, <2>10 DEF Comparing, Compares
  <2>12. OnceInv'
    <3> SUFFICES ASSUME NEW i \in 1..Len(code)
                 PROVE  /\ code[i].taken > 0 <=> code[i].consumed
                        /\ i \notin shared' =>
                           /\ code[i].taken <= 1 /\ code[i].tries <= MaxTries
                           /\ \A s, t \in Comparing(i)' : s = t
                           /\ \A s \in Comparing(i)' : ~code[i].consumed /\ code[i].tries < MaxTries
      BY <1>2 DEF OnceInv
    <3>1. /\ code[i].taken > 0 <=> code[i].consumed
          /\ i \notin shared =>
             /\ code[i].taken <= 1 /\ code[i].tries <= MaxTries
             /\ \A s, t \in Comparing(i) : s = t
             /\ \A s \in Comparing(i) : ~code[i].consumed /\ code[i].tries < MaxTries
      BY <1>1 DEF OnceInv
    <3>2. code[k].tries < MaxTries
      BY SMTT(30), <1>1, <2>7, Numbered, CodesAssumption DEF CodeRows
    <3>3. CASE i = k
      BY <2>6, <2>7, <2>11, <3>1, <3>2, <3>3
    <3>4. CASE i # k
      BY <2>6, <2>11, <3>1, <3>4
    <3> QED BY <3>3, <3>4
  <2>13. TriesInv'
    <3> SUFFICES ASSUME NEW i \in 1..Len(code)
                 PROVE  code[i].tries + Cardinality(Comparing(i)') <= MaxTries + Cardinality(Patrons)
      BY <1>2 DEF TriesInv
    <3> DEFINE T == Comparing(i)'
    <3>1. T \in SUBSET Patrons /\ Comparing(i) \in SUBSET Patrons
      BY DEF Comparing
    <3> HIDE DEF T
    <3>2. /\ Cardinality(T) \in Nat /\ Cardinality(T) <= Cardinality(Patrons) /\ Cardinality(Patrons) \in Nat
          /\ Cardinality(Comparing(i)) \in Nat /\ IsFiniteSet(Comparing(i))
      BY <1>1, <3>1, Finite
    <3>3. code[i].tries \in Nat /\ MaxTries \in Nat
      BY <1>1, Numbered, CodesAssumption DEF CodeRows
    <3>4. CASE i = k
      <4>1. code[i].tries < MaxTries
        BY <2>7, <3>3, <3>4
      <4> QED BY <4>1, <3>2, <3>3 DEF T
    <3>5. CASE i # k
      <4>1. T \in SUBSET Comparing(i)
        BY <2>11, <3>5 DEF T
      <4>2. Cardinality(T) <= Cardinality(Comparing(i))
        BY <4>1, <3>2, FS_Subset
      <4>3. code[i].tries + Cardinality(Comparing(i)) <= MaxTries + Cardinality(Patrons)
        BY <1>1 DEF TriesInv
      <4> QED BY <4>2, <4>3, <3>2, <3>3 DEF T
    <3> QED BY <3>4, <3>5
  <2>14. /\ \A key \in CodeKeys : Issuing(key)' \subseteq Issuing(key)
         /\ \A s \in Patrons : DraftWrites(visit'[s]) => visit'[s] = visit[s]
         /\ \A s \in StaffMail : Setting(s)' \subseteq Setting(s)
    BY <2>8, <2>10, TurnKeeps DEF DraftWrites
  <2>15. ASSUME NEW s \in Patrons, NEW i \in 1..Len(seller), Proves(visit'[s], i)
         PROVE  Proves(visit[s], i) /\ visit'[s].email = visit[s].email
    <3>1. CASE s = r
      BY <3>1, <2>15, <2>8, <2>10, <1>2 DEF Proves
    <3>2. CASE s # r
      BY <3>2, <2>15, <2>10
    <3> QED BY <3>1, <3>2
  <2>16. RatesInv'
    BY <1>1, <1>2, <2>14, RatesKept
  <2>17. AddressInv'
    BY <1>1, <1>2, <2>14, AddressKept DEF LiveSellers
  <2>18. ProvenInv'
    BY <1>1, <1>2, <2>15, ProvenKept
  <2>19. PaidInv'
    BY <1>1, <1>2, <2>6, <2>14, PaidKept
  <2> QED BY <2>10, <2>12, <2>13, <2>16, <2>17, <2>18, <2>19 DEF AccountsInv
<1> QED BY <1>3, <1>4

\* A code is compared: the request that holds it lets go of it.
LEMMA LetsGo ==
  ASSUME AccountTypes, NEW r \in Patrons, NEW k \in 1..Len(code), Compares(visit[r], k),
         NEW v, v.at # "compare", visit'[r] = v, \A s \in Patrons \ {r} : visit'[s] = visit[s]
  PROVE  /\ \A i \in 1..Len(code) : Comparing(i)' \subseteq Comparing(i)
         /\ Comparing(k)' = Comparing(k) \ {r} /\ r \in Comparing(k)
         /\ Cardinality(Comparing(k)') + 1 = Cardinality(Comparing(k)) /\ Cardinality(Comparing(k)') \in Nat
<1>1. \A i \in 1..Len(code) : Comparing(i)' \subseteq Comparing(i)
  BY DEF Comparing, Compares
<1>2. Comparing(k)' = Comparing(k) \ {r} /\ r \in Comparing(k)
  BY DEF Comparing, Compares
<1>3. IsFiniteSet(Comparing(k)) /\ Cardinality(Comparing(k)) \in Nat
  BY Finite DEF Comparing
<1>4. /\ Cardinality(Comparing(k) \ {r}) = Cardinality(Comparing(k)) - 1
      /\ Cardinality(Comparing(k) \ {r}) \in Nat
  BY <1>2, <1>3, FS_RemoveElement, FS_CardinalityType
<1> QED BY <1>1, <1>2, <1>3, <1>4

\* A code that was held by one request is tried once more, or consumed.
LEMMA ComparedKeeps ==
  ASSUME AccountTypes, OnceInv, TriesInv,
         NEW r \in Patrons, NEW k \in 1..Len(code), Compares(visit[r], k),
         NEW v, v.at # "compare", visit'[r] = v, \A s \in Patrons \ {r} : visit'[s] = visit[s],
         shared' = shared, NEW c \in CodeRows, code' = [code EXCEPT ![k] = c],
         \/ c.tries = code[k].tries + 1 /\ c.taken = code[k].taken /\ c.consumed = code[k].consumed
         \/ c.tries = code[k].tries /\ c.taken = code[k].taken + 1 /\ c.consumed = TRUE
  PROVE  OnceInv' /\ TriesInv'
<1>1. /\ Len(code') = Len(code) /\ code'[k] = c /\ \A i \in (1..Len(code)) \ {k} : code'[i] = code[i]
  BY DEF AccountTypes
<1>2. /\ code[k].tries \in Nat /\ code[k].taken \in Nat /\ code[k].consumed \in BOOLEAN
      /\ MaxTries \in Nat /\ Cardinality(Patrons) \in Nat
  BY Numbered, Finite, CodesAssumption DEF CodeRows
<1>4. /\ \A i \in 1..Len(code) : Comparing(i)' \subseteq Comparing(i)
      /\ Comparing(k)' = Comparing(k) \ {r} /\ r \in Comparing(k)
      /\ Cardinality(Comparing(k)') + 1 = Cardinality(Comparing(k)) /\ Cardinality(Comparing(k)') \in Nat
  BY LetsGo
<1>5. ASSUME NEW i \in 1..Len(code)
      PROVE  /\ code'[i].taken > 0 <=> code'[i].consumed
             /\ i \notin shared =>
                /\ code'[i].taken <= 1 /\ code'[i].tries <= MaxTries
                /\ \A s, t \in Comparing(i)' : s = t
                /\ \A s \in Comparing(i)' : ~code'[i].consumed /\ code'[i].tries < MaxTries
  <2>1. /\ code[i].taken > 0 <=> code[i].consumed
        /\ i \notin shared =>
           /\ code[i].taken <= 1 /\ code[i].tries <= MaxTries
           /\ \A s, t \in Comparing(i) : s = t
           /\ \A s \in Comparing(i) : ~code[i].consumed /\ code[i].tries < MaxTries
    BY DEF OnceInv
  <2>2. CASE i # k
    BY <1>1, <1>4, <2>1, <2>2
  <2>3. CASE i = k
    <3>1. k \notin shared => Comparing(k)' = {} /\ ~code[k].consumed /\ code[k].tries < MaxTries
      BY <1>4, <2>1, <2>3
    <3>2. c.taken > 0 <=> c.consumed
      BY <1>2, <2>1, <2>3
    <3>3. k \notin shared => c.taken <= 1 /\ c.tries <= MaxTries
      BY <1>2, <2>1, <2>3, <3>1
    <3> QED BY <1>1, <2>3, <3>1, <3>2, <3>3
  <2> QED BY <2>2, <2>3
<1>6. OnceInv'
  BY <1>1, <1>5 DEF OnceInv
<1>7. ASSUME NEW i \in 1..Len(code)
      PROVE  code'[i].tries + Cardinality(Comparing(i)') <= MaxTries + Cardinality(Patrons)
  <2>1. code[i].tries + Cardinality(Comparing(i)) <= MaxTries + Cardinality(Patrons)
    BY DEF TriesInv
  <2>2. CASE i = k
    <3>1. code'[k].tries <= code[k].tries + 1 /\ code'[k].tries \in Nat
      BY <1>1, <1>2
    <3>2. Cardinality(Comparing(i)') + 1 = Cardinality(Comparing(i)) /\ Cardinality(Comparing(i)') \in Nat
      BY <1>4, <2>2
    <3>3. code[i].tries = code[k].tries /\ code'[i].tries = code'[k].tries /\ Cardinality(Comparing(i)) \in Nat
      BY <2>2, <3>2
    <3> HIDE DEF Comparing
    <3> QED BY SMTT(30), <1>2, <2>1, <3>1, <3>2, <3>3
  <2>3. CASE i # k
    <3> DEFINE T == Comparing(i)'
    <3>1. T \in SUBSET Comparing(i)
      BY <1>4
    <3> HIDE DEF T
    <3>2. IsFiniteSet(Comparing(i)) /\ Cardinality(Comparing(i)) \in Nat
      BY Finite DEF Comparing
    <3>3. Cardinality(T) <= Cardinality(Comparing(i)) /\ Cardinality(T) \in Nat
      BY <3>1, <3>2, FS_Subset, FS_CardinalityType
    <3>4. code'[i] = code[i] /\ code[i].tries \in Nat
      BY <1>1, <2>3, Numbered DEF CodeRows
    <3> QED BY <1>2, <2>1, <3>2, <3>3, <3>4 DEF T
  <2> QED BY <2>2, <2>3
<1>8. TriesInv'
  BY <1>1, <1>7 DEF TriesInv
<1> QED BY <1>6, <1>8

\* A wrong code costs a try.
LEMMA WrongKeeps ==
  ASSUME AccountsInv, NEW r \in Patrons, WrongCode(r), UNCHANGED accountOnly
  PROVE  AccountsInv'
<1>1. AccountTypes /\ OnceInv /\ TriesInv /\ RatesInv /\ AddressInv /\ ProvenInv /\ PaidInv
  BY DEF AccountsInv
<1>2. PICK k : k = visit[r].row
  OBVIOUS
<1>3. /\ visit[r].at = "compare" /\ visit' = [visit EXCEPT ![r] = Away] /\ k \in 1..Len(code)
      /\ code' = [code EXCEPT ![k].tries = @ + 1]
      /\ UNCHANGED <<shared, rushed, seller, password, doubled, rewritten>>
  BY <1>1, <1>2, Brings DEF WrongCode, Onward, accountOnly, Stages
<1> DEFINE c == [code[k] EXCEPT !.tries = @ + 1]
<1>4. code[k] \in CodeRows /\ c \in CodeRows
  BY <1>1, <1>3, Numbered DEF CodeRows
<1>5. code' = [code EXCEPT ![k] = c]
  BY <1>3
<1>6. c.key = code[k].key /\ c.age = code[k].age /\ c.taken = code[k].taken
  BY <1>4 DEF CodeRows
<1>7. /\ code' \in Seq(CodeRows) /\ Len(code') = Len(code) /\ DOMAIN code' = DOMAIN code
      /\ code'[k] = c /\ \A i \in (1..Len(code)) \ {k} : code'[i] = code[i]
  BY <1>1, <1>3, <1>4, <1>5 DEF AccountTypes
<1>8. \A i \in 1..Len(code) : code'[i].key = code[i].key /\ code'[i].age = code[i].age /\ code'[i].taken = code[i].taken
  BY <1>6, <1>7
<1>9. Away.at = "idle"
  BY DEF Away
<1>10. AccountTypes' /\ visit'[r] = Away /\ \A s \in Patrons \ {r} : visit'[s] = visit[s]
  <2>1. VisitFits(Away, Len(seller'), Len(code')) /\ Len(code) \in Nat /\ Len(seller) \in Nat
    BY <1>1, <1>3, <1>7, PlainFits, Numbered
  <2>2. /\ seller' \in Seq(SellerRows) /\ password' \in [StaffMail -> Nat]
        /\ shared' \subseteq 1..Len(code') /\ Len(code) <= Len(code') /\ Len(seller) <= Len(seller')
    BY <1>1, <1>3, <1>7, <2>1 DEF AccountTypes
  <2> QED BY <1>1, <1>3, <1>7, <1>8, <1>9, <2>1, <2>2, TypesMove
<1>11. Compares(visit[r], k)
  BY <1>2, <1>3 DEF Compares
<1>12. OnceInv' /\ TriesInv'
  <2>1. c.tries = code[k].tries + 1 /\ c.taken = code[k].taken /\ c.consumed = code[k].consumed
    BY <1>4 DEF CodeRows
  <2> HIDE DEF c
  <2> QED BY <1>1, <1>3, <1>4, <1>5, <1>9, <1>10, <1>11, <2>1, ComparedKeeps
<1>13. /\ \A key \in CodeKeys : Issuing(key)' \subseteq Issuing(key)
       /\ \A s \in Patrons : DraftWrites(visit'[s]) => visit'[s] = visit[s]
       /\ \A s \in Patrons : \A i \in 1..Len(seller) :
            Proves(visit'[s], i) => \/ Proves(visit[s], i) /\ visit'[s].email = visit[s].email
                                    \/ visit'[s].email = seller[i].email
       /\ \A s \in StaffMail : Setting(s)' \subseteq Setting(s)
  <2>1. ~DraftWrites(Away) /\ \A i : ~Proves(Away, i)
    BY <1>9 DEF DraftWrites, Proves
  <2> QED BY <1>9, <1>10, <2>1, TurnKeeps
<1> HIDE DEF c
<1>14. DOMAIN code = 1..Len(code)
  BY <1>1, Numbered
<1>15. RatesInv'
  BY <1>1, <1>3, <1>7, <1>8, <1>13, <1>14, RatesKept
<1>16. AddressInv'
  BY <1>1, <1>3, <1>13, AddressKept DEF LiveSellers
<1>17. ProvenInv'
  BY <1>1, <1>3, <1>13, ProvenKept
<1>18. PaidInv'
  BY <1>1, <1>3, <1>7, <1>8, <1>13, <1>14, PaidKept
<1> QED BY <1>10, <1>12, <1>15, <1>16, <1>17, <1>18 DEF AccountsInv

\* The right code is consumed, and what it opens goes on: each reset it opens
\* has a code that nobody had taken.
LEMMA RightKeeps ==
  ASSUME AccountsInv, NEW r \in Patrons, RightCode(r), UNCHANGED accountOnly
  PROVE  AccountsInv'
<1>1. AccountTypes /\ OnceInv /\ TriesInv /\ RatesInv /\ AddressInv /\ ProvenInv /\ PaidInv
  BY DEF AccountsInv
<1>2. PICK k : k = visit[r].row
  OBVIOUS
<1> DEFINE v == [visit[r] EXCEPT !.at = visit[r].then]
           c == [code[k] EXCEPT !.consumed = TRUE, !.taken = @ + 1]
<1>3. /\ visit[r].at = "compare" /\ visit' = [visit EXCEPT ![r] = v] /\ k \in 1..Len(code)
      /\ code' = [code EXCEPT ![k].consumed = TRUE, ![k].taken = @ + 1]
      /\ UNCHANGED <<shared, rushed, seller, password, doubled, rewritten>>
      /\ visit[r].at \in Stages /\ code[k].key = visit[r].key
  BY <1>1, <1>2, Brings DEF RightCode, Onward, accountOnly, Stages
<1>4. code[k] \in CodeRows /\ c \in CodeRows
  BY <1>1, <1>3, Numbered DEF CodeRows
<1>5. /\ code' = [code EXCEPT ![k] = c] /\ k \in 1..Len(code)
      /\ code \in Seq(CodeRows) /\ shared' = shared
  BY <1>1, <1>3 DEF AccountTypes
<1>6. /\ c.key = code[k].key /\ c.age = code[k].age /\ c.tries = code[k].tries
      /\ c.taken = code[k].taken + 1 /\ c.consumed = TRUE
  BY <1>4 DEF CodeRows
<1> HIDE DEF c
<1>7. /\ code' \in Seq(CodeRows) /\ Len(code') = Len(code) /\ DOMAIN code' = DOMAIN code
      /\ code'[k] = c /\ \A i \in (1..Len(code)) \ {k} : code'[i] = code[i]
  BY <1>4, <1>5
<1>8. \A i \in 1..Len(code) : code'[i].key = code[i].key /\ code'[i].age = code[i].age
  BY <1>6, <1>7
<1>9. /\ visit[r] \in Proof(Len(seller), Len(code))
      /\ visit[r].then = "mark" => visit[r].seller \in 1..Len(seller) /\ visit[r].email \in Emails
      /\ visit[r].then = "password" => visit[r].email \in StaffMail /\ visit[r].key = <<"reset", visit[r].email>>
  BY <1>1, <1>3, Brings
<1>10. /\ v \in Proof(Len(seller), Len(code)) /\ v.at = visit[r].then /\ v.at \in Goals
       /\ v.then = visit[r].then /\ v.seller = visit[r].seller /\ v.email = visit[r].email /\ v.key = visit[r].key
  BY <1>9 DEF Proof, Stages
<1> HIDE DEF v
<1>11. VisitFits(v, Len(seller), Len(code))
  BY <1>9, <1>10 DEF VisitFits, Goals
<1>12. v.at \notin {"compare", "issue", "draft", "profile"}
  BY <1>10 DEF Goals
<1>13. AccountTypes' /\ visit'[r] = v /\ \A s \in Patrons \ {r} : visit'[s] = visit[s]
  <2>1. VisitFits(v, Len(seller'), Len(code')) /\ Len(code) \in Nat /\ Len(seller) \in Nat
    BY <1>1, <1>3, <1>7, <1>11, Numbered
  <2>2. /\ seller' \in Seq(SellerRows) /\ password' \in [StaffMail -> Nat]
        /\ shared' \subseteq 1..Len(code') /\ Len(code) <= Len(code') /\ Len(seller) <= Len(seller')
    BY <1>1, <1>3, <1>7, <2>1 DEF AccountTypes
  <2> QED BY <1>1, <1>3, <1>7, <1>8, <1>12, <2>1, <2>2, TypesMove
<1>14. Compares(visit[r], k)
  BY <1>2, <1>3 DEF Compares
<1>15. OnceInv' /\ TriesInv'
  <2> QED BY <1>1, <1>4, <1>5, <1>6, <1>12, <1>13, <1>14, ComparedKeeps
<1>16. /\ \A key \in CodeKeys : Issuing(key)' \subseteq Issuing(key)
       /\ \A s \in Patrons : DraftWrites(visit'[s]) => visit'[s] = visit[s]
  BY <1>12, <1>13, TurnKeeps DEF DraftWrites
<1>17. ASSUME NEW s \in Patrons, NEW i \in 1..Len(seller), Proves(visit'[s], i)
       PROVE  Proves(visit[s], i) /\ visit'[s].email = visit[s].email
  <2>1. CASE s = r
    BY <2>1, <1>17, <1>3, <1>10, <1>13 DEF Proves
  <2>2. CASE s # r
    BY <2>2, <1>17, <1>13
  <2> QED BY <2>1, <2>2
<1>18. DOMAIN code = 1..Len(code)
  BY <1>1, Numbered
<1>19. RatesInv'
  BY <1>1, <1>3, <1>7, <1>8, <1>16, <1>18, RatesKept
<1>20. AddressInv'
  BY <1>1, <1>3, <1>16, AddressKept DEF LiveSellers
<1>21. ProvenInv'
  BY <1>1, <1>3, <1>17, ProvenKept
<1>22. ASSUME NEW s \in StaffMail, Accepted(<<"reset", s>>)' \cap shared = {}
       PROVE  password[s] + Cardinality(Setting(s)') <= Cardinality(Accepted(<<"reset", s>>)')
  <2> DEFINE A == Accepted(<<"reset", s>>)
             B == A'
             W == Setting(s)
             X == W'
  <2>1. code[k].taken \in Nat /\ \A i \in 1..Len(code) : code[i].taken \in Nat
    BY <1>1, <1>3, Numbered DEF CodeRows
  <2>2. A \subseteq B /\ B \subseteq 1..Len(code) /\ A \subseteq 1..Len(code)
        /\ (code[k].key = <<"reset", s>> => k \in B /\ B = A \cup {k})
    BY <1>3, <1>6, <1>7, <1>8, <1>18, <2>1 DEF Accepted
  <2>3. W \subseteq Patrons /\ X \subseteq W \cup {r} /\ (~(v.at = "password" /\ v.email = s) => X \subseteq W)
    BY <1>13 DEF Setting
  <2>4. A \cap shared = {} /\ B \cap shared = {}
    BY <1>22, <2>2
  <2>5. password[s] + Cardinality(W) <= Cardinality(A)
    BY <1>1, <2>4 DEF PaidInv
  <2>6. code[k].key = <<"reset", s>> => k \notin A
    <3>1. SUFFICES ASSUME code[k].key = <<"reset", s>>, k \in A PROVE FALSE
      OBVIOUS
    <3>2. k \notin shared
      BY <2>2, <2>4, <3>1
    <3>3. ~code[k].consumed /\ (code[k].taken > 0 <=> code[k].consumed)
      BY <1>1, <1>3, <1>14, <3>2 DEF OnceInv, Comparing
    <3>4. code[k].taken > 0
      BY <3>1 DEF Accepted
    <3> QED BY <3>3, <3>4
  <2>7. password[s] \in Nat
    BY <1>1 DEF AccountTypes
  <2> HIDE DEF A, B, W, X
  <2>8. /\ IsFiniteSet(A) /\ Cardinality(A) \in Nat /\ IsFiniteSet(B) /\ Cardinality(B) \in Nat
        /\ IsFiniteSet(W) /\ Cardinality(W) \in Nat
    BY <1>1, <2>2, <2>3, Finite
  <2>9. IsFiniteSet(W \cup {r}) /\ Cardinality(W \cup {r}) <= Cardinality(W) + 1 /\ Cardinality(W \cup {r}) \in Nat
    <3>1. /\ IsFiniteSet(W \cup {r})
          /\ Cardinality(W \cup {r}) = IF r \in W THEN Cardinality(W) ELSE Cardinality(W) + 1
      BY <2>8, FS_AddElement
    <3> QED BY <2>8, <3>1
  <2>10. X \in SUBSET (W \cup {r}) /\ Cardinality(X) <= Cardinality(W \cup {r}) /\ Cardinality(X) \in Nat
    BY <2>3, <2>9, FS_Subset, FS_CardinalityType
  <2>11. CASE v.at = "password" /\ v.email = s
    <3>1. code[k].key = <<"reset", s>>
      BY <2>11, <1>3, <1>9, <1>10
    <3>2. Cardinality(B) = Cardinality(A) + 1
      BY <3>1, <2>2, <2>6, <2>8, FS_AddElement
    <3> QED BY <3>2, <2>5, <2>7, <2>8, <2>9, <2>10 DEF A, B, W, X
  <2>12. CASE ~(v.at = "password" /\ v.email = s)
    <3>1. Cardinality(X) <= Cardinality(W)
      BY <2>3, <2>8, <2>12, FS_Subset
    <3>2. Cardinality(A) <= Cardinality(B)
      BY <2>2, <2>8, FS_Subset
    <3> QED BY <3>1, <3>2, <2>5, <2>7, <2>8, <2>10 DEF A, B, W, X
  <2> QED BY <2>11, <2>12
<1>23. PaidInv'
  BY <1>3, <1>22 DEF PaidInv
<1> QED BY <1>13, <1>15, <1>19, <1>20, <1>21, <1>23 DEF AccountsInv

\* A code is issued: the key's other codes are as recent as before, and only the
\* request that found room for it issues one.
LEMMA IssueKeeps ==
  ASSUME AccountsInv, NEW r \in Patrons, IssueCode(r), UNCHANGED accountOnly
  PROVE  AccountsInv'
<1>1. AccountTypes /\ OnceInv /\ TriesInv /\ RatesInv /\ AddressInv /\ ProvenInv /\ PaidInv
  BY DEF AccountsInv
<1>2. PICK key : key = visit[r].key
  OBVIOUS
<1>3. PICK n : n = Len(code) + 1
  OBVIOUS
<1> DEFINE c == [key |-> key, tries |-> 0, consumed |-> FALSE, age |-> 0, taken |-> 0]
<1>4. /\ visit[r].at = "issue" /\ visit' = [visit EXCEPT ![r] = Away]
      /\ code' = Append(code, c)
      /\ UNCHANGED <<shared, rushed, seller, password, doubled, rewritten>>
  BY <1>2 DEF IssueCode, Onward, accountOnly
<1>5. key \in CodeKeys
  BY <1>1, <1>2, <1>4, Asks
<1>6. c \in CodeRows /\ c.key = key /\ c.tries = 0 /\ ~c.consumed /\ c.taken = 0 /\ c.age = 0
  BY <1>5, CodesAssumption DEF CodeRows
<1> HIDE DEF c
<1>7. /\ DOMAIN code = 1..Len(code) /\ Len(code) \in Nat /\ Len(seller) \in Nat
      /\ code \in Seq(CodeRows) /\ shared \subseteq 1..Len(code)
  BY <1>1, Numbered DEF AccountTypes
<1>8. /\ code' \in Seq(CodeRows) /\ Len(code') = n /\ n \in Nat \ {0} /\ Len(code) <= n
      /\ DOMAIN code' = 1..n /\ code'[n] = c /\ \A i \in 1..Len(code) : code'[i] = code[i]
      /\ 1..n = (1..Len(code)) \cup {n} /\ n \notin 1..Len(code)
  BY <1>3, <1>4, <1>6, <1>7
<1>9. Away.at = "idle"
  BY DEF Away
<1>10. AccountTypes' /\ visit'[r] = Away /\ \A s \in Patrons \ {r} : visit'[s] = visit[s]
  <2>1. VisitFits(Away, Len(seller'), Len(code'))
    <3>1. VisitFits(Away, Len(seller), Len(code))
      BY <1>1, PlainFits
    <3> QED BY <3>1, <1>4, <1>7, <1>8, FitsMore
  <2>2. /\ seller' \in Seq(SellerRows) /\ password' \in [StaffMail -> Nat]
        /\ shared' \subseteq 1..Len(code') /\ Len(code) <= Len(code') /\ Len(seller) <= Len(seller')
        /\ \A i \in 1..Len(code) : code'[i].key = code[i].key
    BY <1>1, <1>4, <1>7, <1>8 DEF AccountTypes
  <2> QED BY <1>1, <1>4, <1>8, <1>9, <2>1, <2>2, TypesMove
<1>11. /\ \A i \in 1..Len(code) : Comparing(i)' \subseteq Comparing(i)
       /\ \A s \in Patrons : DraftWrites(visit'[s]) => visit'[s] = visit[s]
       /\ \A s \in Patrons : \A i \in 1..Len(seller) :
            Proves(visit'[s], i) => \/ Proves(visit[s], i) /\ visit'[s].email = visit[s].email
                                    \/ visit'[s].email = seller[i].email
       /\ \A s \in StaffMail : Setting(s)' \subseteq Setting(s)
       /\ \A k \in CodeKeys : Issuing(k)' \subseteq Issuing(k)
  <2>1. ~DraftWrites(Away) /\ \A i : ~Proves(Away, i)
    BY <1>9 DEF DraftWrites, Proves
  <2> QED BY <1>9, <1>10, <2>1, TurnKeeps
<1>12. Comparing(n)' = {}
  <2>1. ASSUME NEW s \in Patrons, Compares(visit'[s], n) PROVE FALSE
    <3>1. s # r /\ visit'[s] = visit[s]
      BY <1>9, <1>10, <2>1 DEF Compares
    <3>2. visit[s].at = "compare" /\ visit[s].row = n /\ visit[s].at \in Stages
      BY <2>1, <3>1 DEF Compares, Stages
    <3>3. n \in 1..Len(code)
      BY <1>1, <3>2, Brings
    <3> QED BY <3>3, <1>8
  <2> QED BY <2>1, <1>3 DEF Comparing
<1>13. OnceInv'
  <2> SUFFICES ASSUME NEW i \in 1..n
               PROVE  /\ code'[i].taken > 0 <=> code'[i].consumed
                      /\ i \notin shared =>
                         /\ code'[i].taken <= 1 /\ code'[i].tries <= MaxTries
                         /\ \A s, t \in Comparing(i)' : s = t
                         /\ \A s \in Comparing(i)' : ~code'[i].consumed /\ code'[i].tries < MaxTries
    BY <1>4, <1>8 DEF OnceInv
  <2>1. CASE i = n
    <3>1. Comparing(i)' = {}
      BY <1>12, <2>1
    <3> QED BY <3>1, <2>1, <1>6, <1>8, CodesAssumption
  <2>2. CASE i # n
    BY <2>2, <1>1, <1>8, <1>11 DEF OnceInv
  <2> QED BY <2>1, <2>2
<1>14. TriesInv'
  <2> SUFFICES ASSUME NEW i \in 1..n
               PROVE  code'[i].tries + Cardinality(Comparing(i)') <= MaxTries + Cardinality(Patrons)
    BY <1>8 DEF TriesInv
  <2>1. MaxTries \in Nat /\ Cardinality(Patrons) \in Nat
    BY <1>1, Finite, CodesAssumption
  <2>2. CASE i = n
    <3>1. Cardinality(Comparing(i)') = 0
      BY <1>12, <2>2, FS_EmptySet
    <3> QED BY <2>1, <2>2, <3>1, <1>6, <1>8
  <2>3. CASE i # n
    <3> DEFINE T == Comparing(i)'
    <3>1. T \in SUBSET Comparing(i) /\ i \in 1..Len(code)
      BY <1>8, <1>11, <2>3
    <3> HIDE DEF T
    <3>2. IsFiniteSet(Comparing(i)) /\ Cardinality(Comparing(i)) \in Nat
      BY <1>1, Finite DEF Comparing
    <3>3. Cardinality(T) <= Cardinality(Comparing(i)) /\ Cardinality(T) \in Nat
      BY <3>1, <3>2, FS_Subset, FS_CardinalityType
    <3>4. code'[i] = code[i] /\ code[i].tries \in Nat
      BY <1>1, <1>8, <3>1, Numbered DEF CodeRows
    <3>5. code[i].tries + Cardinality(Comparing(i)) <= MaxTries + Cardinality(Patrons)
      BY <1>1, <3>1 DEF TriesInv
    <3> QED BY <2>1, <3>2, <3>3, <3>4, <3>5 DEF T
  <2> QED BY <2>2, <2>3
<1>15. RatesInv'
  <2> DEFINE Rows(k, w) == {i \in 1..Len(code) : code[i].key = k /\ code[i].age < w}
  <2>1. \A k, w : Recent(k, w) = Cardinality(Rows(k, w))
    BY <1>7 DEF Recent
  <2>2. ASSUME NEW k, NEW w PROVE {i \in 1..n : code'[i].key = k /\ code'[i].age < w} \subseteq Rows(k, w) \cup {n}
                                  /\ Rows(k, w) \subseteq {i \in 1..n : code'[i].key = k /\ code'[i].age < w}
                                  /\ (k # key => {i \in 1..n : code'[i].key = k /\ code'[i].age < w} = Rows(k, w))
    BY <1>6, <1>8
  <2>3. ASSUME NEW k, NEW w \in {Minute, Hour}
        PROVE  /\ Recent(k, w) \in Nat /\ Recent(k, w)' \in Nat /\ Recent(k, w)' <= Recent(k, w) + 1
               /\ k # key => Recent(k, w)' = Recent(k, w)
    <3> DEFINE R == Rows(k, w)
               S == {i \in 1..n : code'[i].key = k /\ code'[i].age < w}
    <3>1. Recent(k, w) = Cardinality(R) /\ Recent(k, w)' = Cardinality(S)
      BY <1>8, <2>1 DEF Recent
    <3>2. R \in SUBSET (1..Len(code)) /\ S \subseteq R \cup {n} /\ (k # key => S = R)
      BY <2>2
    <3> HIDE DEF R, S
    <3>3. IsFiniteSet(R) /\ Cardinality(R) \in Nat
      BY <1>1, <3>2, Finite
    <3>4. IsFiniteSet(R \cup {n}) /\ Cardinality(R \cup {n}) = IF n \in R THEN Cardinality(R) ELSE Cardinality(R) + 1
      BY <3>3, FS_AddElement
    <3>5. S \in SUBSET (R \cup {n}) /\ Cardinality(S) <= Cardinality(R \cup {n}) /\ Cardinality(S) \in Nat
      BY <3>2, <3>4, FS_Subset, FS_CardinalityType
    <3>6. Recent(k, w)' <= Recent(k, w) + 1
      BY <3>1, <3>3, <3>4, <3>5
    <3> QED BY <3>1, <3>2, <3>3, <3>5, <3>6
  <2> HIDE DEF Rows
  <2>4. r \in Issuing(key) /\ r \notin Issuing(key)'
    BY <1>2, <1>4, <1>9, <1>10 DEF Issuing
  <2>5. ASSUME NEW k \in CodeKeys \ rushed
        PROVE  /\ Recent(k, Minute)' <= PerMinute /\ Recent(k, Hour)' <= PerHour
               /\ \A s, t \in Issuing(k)' : s = t
               /\ Issuing(k)' # {} => Recent(k, Minute)' < PerMinute /\ Recent(k, Hour)' < PerHour
    <3>1. /\ Recent(k, Minute) <= PerMinute /\ Recent(k, Hour) <= PerHour
          /\ \A s, t \in Issuing(k) : s = t
          /\ Issuing(k) # {} => Recent(k, Minute) < PerMinute /\ Recent(k, Hour) < PerHour
      BY <1>1 DEF RatesInv
    <3>2. Issuing(k)' \subseteq Issuing(k)
      BY <1>11
    <3>3. CASE k = key
      <4>1. Issuing(k)' = {}
        BY <2>4, <3>1, <3>2, <3>3
      <4>2. Recent(k, Minute) < PerMinute /\ Recent(k, Hour) < PerHour
        BY <2>4, <3>1, <3>3
      <4>3. Recent(k, Minute)' <= PerMinute /\ Recent(k, Hour)' <= PerHour
        BY <2>3, <4>2, CodesAssumption
      <4> QED BY <4>1, <4>3
    <3>4. CASE k # key
      BY <2>3, <3>1, <3>2, <3>4
    <3> QED BY <3>3, <3>4
  <2> QED BY <1>4, <2>5 DEF RatesInv
<1>16. AddressInv'
  BY <1>1, <1>4, <1>11, AddressKept DEF LiveSellers
<1>17. ProvenInv'
  BY <1>1, <1>4, <1>11, ProvenKept
<1>18. PaidInv'
  <2>1. /\ DOMAIN code \subseteq DOMAIN code' /\ \A i \in DOMAIN code' \ DOMAIN code : code'[i].taken = 0
        /\ \A i \in DOMAIN code : code'[i].key = code[i].key /\ code'[i].taken = code[i].taken
    BY <1>6, <1>7, <1>8
  <2> QED BY <1>1, <1>4, <1>11, <2>1, PaidKept
<1> QED BY <1>10, <1>13, <1>14, <1>15, <1>16, <1>17, <1>18 DEF AccountsInv

\* The rates are counted: who finds room beside another that found it rushes the
\* key.
LEMMA CountKeeps ==
  ASSUME AccountsInv, NEW r \in Patrons, CheckRates(r), UNCHANGED accountOnly
  PROVE  AccountsInv'
<1>1. AccountTypes /\ OnceInv /\ TriesInv /\ RatesInv /\ AddressInv /\ ProvenInv /\ PaidInv
  BY DEF AccountsInv
<1>2. PICK key : key = visit[r].key
  OBVIOUS
<1> DEFINE v == [at |-> "issue", key |-> key]
<1>3. /\ visit[r].at = "rates"
      /\ visit' = [visit EXCEPT ![r] = IF WithinRates(key) THEN v ELSE Away]
      /\ rushed' = IF \E s \in Patrons \ {r} : visit[s].at = "issue" /\ visit[s].key = key
                   THEN rushed \cup {key} ELSE rushed
      /\ UNCHANGED <<code, shared, seller, password, doubled, rewritten>>
      /\ key \in CodeKeys
  BY <1>1, <1>2, Asks DEF CheckRates, Onward, accountOnly
<1>4. rushed \subseteq rushed'
  BY <1>3
<1>5. CASE ~WithinRates(key)
  <2>1. visit' = [visit EXCEPT ![r] = Away]
    BY <1>3, <1>5
  <2> QED BY <2>1, <1>3, <1>4, EndsKeep
<1>6. CASE WithinRates(key)
  <2>1. visit' = [visit EXCEPT ![r] = v] /\ v.at = "issue" /\ v.key = key
    BY <1>3, <1>6
  <2>2. VisitFits(v, Len(seller), Len(code))
    BY <1>1, <1>3, PlainFits
  <2> HIDE DEF v
  <2>3. AccountTypes' /\ visit'[r] = v /\ \A s \in Patrons \ {r} : visit'[s] = visit[s]
    <3>1. code' = code /\ shared' = shared /\ seller' = seller /\ password' = password
      BY <1>3
    <3>2. /\ code' \in Seq(CodeRows) /\ seller' \in Seq(SellerRows) /\ password' \in [StaffMail -> Nat]
          /\ shared' \subseteq 1..Len(code') /\ Len(code) <= Len(code') /\ Len(seller) <= Len(seller')
          /\ \A i \in 1..Len(code) : code'[i].key = code[i].key
          /\ VisitFits(v, Len(seller'), Len(code'))
      BY <1>1, <2>2, <3>1, Numbered DEF AccountTypes
    <3> QED BY <1>1, <2>1, <3>1, <3>2, TypesMove
  <2>4. /\ \A i \in 1..Len(code) : Comparing(i)' \subseteq Comparing(i)
        /\ \A s \in Patrons : DraftWrites(visit'[s]) => visit'[s] = visit[s]
        /\ \A s \in Patrons : \A i \in 1..Len(seller) :
             Proves(visit'[s], i) => \/ Proves(visit[s], i) /\ visit'[s].email = visit[s].email
                                     \/ visit'[s].email = seller[i].email
        /\ \A s \in StaffMail : Setting(s)' \subseteq Setting(s)
    <3>1. ~DraftWrites(v) /\ \A i : ~Proves(v, i)
      BY <2>1 DEF DraftWrites, Proves
    <3> QED BY <2>1, <2>3, <3>1, TurnKeeps
  <2>5. ASSUME NEW k \in CodeKeys \ rushed'
        PROVE  /\ Recent(k, Minute)' <= PerMinute /\ Recent(k, Hour)' <= PerHour
               /\ \A s, t \in Issuing(k)' : s = t
               /\ Issuing(k)' # {} => Recent(k, Minute)' < PerMinute /\ Recent(k, Hour)' < PerHour
    <3>1. /\ Recent(k, Minute) <= PerMinute /\ Recent(k, Hour) <= PerHour
          /\ \A s, t \in Issuing(k) : s = t
          /\ Issuing(k) # {} => Recent(k, Minute) < PerMinute /\ Recent(k, Hour) < PerHour
      BY <1>1, <1>4, <2>5 DEF RatesInv
    <3>2. Recent(k, Minute)' = Recent(k, Minute) /\ Recent(k, Hour)' = Recent(k, Hour)
      BY <1>3 DEF Recent
    <3>3. CASE k = key
      <4>1. \A s \in Patrons \ {r} : ~(visit[s].at = "issue" /\ visit[s].key = key)
        BY <1>3, <2>5, <3>3
      <4>2. Issuing(k)' \subseteq {r}
        BY <2>3, <3>3, <4>1 DEF Issuing
      <4>3. Recent(k, Minute) < PerMinute /\ Recent(k, Hour) < PerHour
        BY <1>6, <3>3 DEF WithinRates
      <4> QED BY <3>1, <3>2, <4>2, <4>3
    <3>4. CASE k # key
      <4>1. Issuing(k)' \subseteq Issuing(k)
        BY <2>1, <2>3, <3>4 DEF Issuing
      <4> QED BY <3>1, <3>2, <4>1
    <3> QED BY <3>3, <3>4
  <2>6. RatesInv'
    BY <2>5 DEF RatesInv
  <2>7. OnceInv' /\ TriesInv'
    BY <1>1, <1>3, <2>4, OnceKept
  <2>8. AddressInv'
    BY <1>1, <1>3, <2>4, AddressKept DEF LiveSellers
  <2>9. ProvenInv'
    BY <1>1, <1>3, <2>4, ProvenKept
  <2>10. PaidInv'
    BY <1>1, <1>3, <2>4, PaidKept
  <2> QED BY <2>3, <2>6, <2>7, <2>8, <2>9, <2>10 DEF AccountsInv
<1> QED BY <1>5, <1>6

\* Codes only grow older: as time passes, no key has more recent ones.
LEMMA TimeKeeps ==
  ASSUME AccountsInv, PassTime, UNCHANGED accountOnly
  PROVE  AccountsInv'
<1>1. AccountTypes /\ OnceInv /\ TriesInv /\ RatesInv /\ AddressInv /\ ProvenInv /\ PaidInv
  BY DEF AccountsInv
<1>2. /\ UNCHANGED <<visit, shared, rushed, seller, password, doubled, rewritten>>
      /\ code' = [i \in DOMAIN code |-> [code[i] EXCEPT !.age = AgeOn(@)]]
  BY DEF PassTime, accountOnly
<1>3. DOMAIN code = 1..Len(code) /\ Len(code) \in Nat /\ \A i \in 1..Len(code) : code[i] \in CodeRows
  BY <1>1, Numbered
<1>4. ASSUME NEW i \in 1..Len(code)
      PROVE  /\ code'[i] \in CodeRows /\ code'[i].key = code[i].key /\ code'[i].tries = code[i].tries
             /\ code'[i].consumed = code[i].consumed /\ code'[i].taken = code[i].taken
             /\ code[i].age <= code'[i].age /\ code[i].age \in Nat /\ code'[i].age \in Nat
  <2>1. code'[i] = [code[i] EXCEPT !.age = AgeOn(code[i].age)] /\ code[i] \in CodeRows
    BY <1>2, <1>3
  <2>2. /\ code[i].age \in 0..Hour /\ AgeOn(code[i].age) \in 0..Hour /\ Hour \in Nat
        /\ code[i].age <= AgeOn(code[i].age)
    BY <2>1, CodesAssumption DEF CodeRows, AgeOn
  <2> HIDE DEF AgeOn
  <2> QED BY <2>1, <2>2 DEF CodeRows
<1>5. DOMAIN code' = 1..Len(code) /\ Len(code') = Len(code) /\ code' \in Seq(CodeRows)
  <2>1. code' \in [1..Len(code) -> CodeRows]
    BY <1>2, <1>3, <1>4
  <2> QED BY <1>3, <2>1
<1>6. AccountTypes'
  BY <1>1, <1>2, <1>4, <1>5 DEF AccountTypes, RowFits
<1>7. \A i \in 1..Len(code) : Comparing(i)' = Comparing(i)
  BY <1>2 DEF Comparing
<1>8. OnceInv' /\ TriesInv'
  BY <1>1, <1>2, <1>4, <1>5, <1>7 DEF OnceInv, TriesInv
<1>9. ASSUME NEW k, NEW w \in {Minute, Hour}
      PROVE  Recent(k, w)' <= Recent(k, w) /\ Recent(k, w) \in Nat /\ Recent(k, w)' \in Nat
  <2> DEFINE R == {i \in 1..Len(code) : code[i].key = k /\ code[i].age < w}
             S == {i \in 1..Len(code) : code'[i].key = k /\ code'[i].age < w}
  <2>1. Recent(k, w) = Cardinality(R) /\ Recent(k, w)' = Cardinality(S)
    BY <1>3, <1>5 DEF Recent
  <2>2. w \in Nat
    BY CodesAssumption
  <2>3. S \in SUBSET R /\ R \in SUBSET (1..Len(code))
    BY <1>4, <2>2
  <2> HIDE DEF R, S
  <2>4. IsFiniteSet(R) /\ Cardinality(R) \in Nat
    BY <1>1, <2>3, Finite
  <2>5. Cardinality(S) <= Cardinality(R) /\ Cardinality(S) \in Nat
    BY <2>3, <2>4, FS_Subset, FS_CardinalityType
  <2> QED BY <2>1, <2>4, <2>5
<1>10. RatesInv'
  <2> SUFFICES ASSUME NEW k \in CodeKeys \ rushed
               PROVE  /\ Recent(k, Minute)' <= PerMinute /\ Recent(k, Hour)' <= PerHour
                      /\ \A s, t \in Issuing(k)' : s = t
                      /\ Issuing(k)' # {} => Recent(k, Minute)' < PerMinute /\ Recent(k, Hour)' < PerHour
    BY <1>2 DEF RatesInv
  <2>1. /\ Recent(k, Minute) <= PerMinute /\ Recent(k, Hour) <= PerHour
        /\ \A s, t \in Issuing(k) : s = t
        /\ Issuing(k) # {} => Recent(k, Minute) < PerMinute /\ Recent(k, Hour) < PerHour
    BY <1>1 DEF RatesInv
  <2>2. Issuing(k)' = Issuing(k)
    BY <1>2 DEF Issuing
  <2>3. PerMinute \in Nat /\ PerHour \in Nat
    BY CodesAssumption
  <2>4. /\ Recent(k, Minute)' <= Recent(k, Minute) /\ Recent(k, Minute) \in Nat /\ Recent(k, Minute)' \in Nat
        /\ Recent(k, Hour)' <= Recent(k, Hour) /\ Recent(k, Hour) \in Nat /\ Recent(k, Hour)' \in Nat
    BY <1>9
  <2> QED BY <2>1, <2>2, <2>3, <2>4
<1>11. AddressInv'
  BY <1>1, <1>2, AddressKept DEF LiveSellers
<1>12. ProvenInv'
  BY <1>1, <1>2, ProvenKept
<1>13. PaidInv'
  <2>1. \A s \in StaffMail : Setting(s)' \subseteq Setting(s)
    BY <1>2 DEF Setting
  <2> QED BY <1>1, <1>2, <1>3, <1>4, <1>5, <2>1, PaidKept
<1> QED BY <1>6, <1>8, <1>10, <1>11, <1>12, <1>13 DEF AccountsInv

\* A step of the sellers' own: the codes stay, and what is counted about them.
LEMMA SellerStep ==
  ASSUME AccountsInv, NEW r \in Patrons, NEW v, visit' = [visit EXCEPT ![r] = v],
         UNCHANGED <<code, shared, rushed, password>>,
         seller' \in Seq(SellerRows), Len(seller) <= Len(seller'),
         VisitFits(v, Len(seller'), Len(code)), v.at \notin {"compare", "issue", "password"}
  PROVE  /\ AccountTypes' /\ OnceInv' /\ TriesInv' /\ RatesInv' /\ PaidInv'
         /\ visit'[r] = v /\ \A s \in Patrons \ {r} : visit'[s] = visit[s]
<1>1. AccountTypes /\ OnceInv /\ TriesInv /\ RatesInv /\ AddressInv /\ ProvenInv /\ PaidInv
  BY DEF AccountsInv
<1>2. AccountTypes' /\ visit'[r] = v /\ \A s \in Patrons \ {r} : visit'[s] = visit[s]
  <2>1. code' = code /\ shared' = shared /\ password' = password /\ v.at # "compare"
    OBVIOUS
  <2>2. /\ code' \in Seq(CodeRows) /\ password' \in [StaffMail -> Nat]
        /\ shared' \subseteq 1..Len(code') /\ Len(code) <= Len(code')
        /\ \A i \in 1..Len(code) : code'[i].key = code[i].key
        /\ VisitFits(v, Len(seller'), Len(code'))
    BY <1>1, <2>1, Numbered DEF AccountTypes
  <2> QED BY <1>1, <2>1, <2>2, TypesMove
<1>3. /\ \A i \in 1..Len(code) : Comparing(i)' \subseteq Comparing(i)
      /\ \A key \in CodeKeys : Issuing(key)' \subseteq Issuing(key)
      /\ \A s \in StaffMail : Setting(s)' \subseteq Setting(s)
  BY <1>2, TurnKeeps
<1>4. OnceInv' /\ TriesInv'
  BY <1>1, <1>3, OnceKept
<1>5. RatesInv'
  BY <1>1, <1>3, RatesKept
<1>6. PaidInv'
  BY <1>1, <1>3, PaidKept
<1> QED BY <1>2, <1>4, <1>5, <1>6

\* No two live sellers have the mobile, nor the address until two have it at once.
LEMMA OneSeller ==
  ASSUME AddressInv
  PROVE  /\ \A m : \A i, j \in findByMobile(m) : i = j
         /\ \A e : e \notin doubled \cup {NoEmail} => \A i, j \in findByEmail(e) : i = j
<1>1. \A m : \A i, j \in findByMobile(m) : i = j
  BY DEF AddressInv, findByMobile
<1>2. \A e : e \notin doubled \cup {NoEmail} => \A i, j \in findByEmail(e) : i = j
  BY DEF AddressInv, findByEmail
<1> QED BY <1>1, <1>2

\* A registration starts: the address is nobody's, or it is marked as doubled.
LEMMA StartKeeps ==
  ASSUME AccountsInv, NEW r \in Patrons, NEW m \in Mobiles, NEW e \in Emails, registerStart(r, m, e)
  PROVE  AccountsInv'
<1>1. AccountTypes /\ OnceInv /\ TriesInv /\ RatesInv /\ AddressInv /\ ProvenInv /\ PaidInv
  BY DEF AccountsInv
<1> DEFINE own == findByMobile(m)
<1>2. PICK k : k = IF own = {} THEN 0 ELSE CHOOSE i \in own : TRUE
  OBVIOUS
<1> DEFINE v == [at |-> "draft", mobile |-> m, email |-> e, seller |-> k]
<1>3. /\ ~EmailTaken(e, own)
      /\ visit' = [visit EXCEPT ![r] = v]
      /\ doubled' = IF \E i \in findByEmail(e) \ own : ~seller[i].verified THEN doubled \cup {e} ELSE doubled
      /\ UNCHANGED <<code, shared, rushed, seller, password, rewritten>>
  BY <1>2 DEF registerStart, Visit
<1>4. own \subseteq 1..Len(seller) /\ (own = {} => k = 0) /\ (own # {} => k \in own)
  BY <1>1, <1>2, Numbered DEF findByMobile, LiveSellers
<1>5. k \in 0..Len(seller) /\ Len(seller) \in Nat
  BY <1>1, <1>4, Numbered
<1>6. v.at = "draft" /\ v.email = e /\ v.seller = k /\ v.mobile = m
  OBVIOUS
<1> HIDE DEF v
<1>7. VisitFits(v, Len(seller), Len(code))
  BY <1>5, <1>6 DEF VisitFits, Stages, Goals
<1>8. /\ AccountTypes' /\ OnceInv' /\ TriesInv' /\ RatesInv' /\ PaidInv'
      /\ visit'[r] = v /\ \A s \in Patrons \ {r} : visit'[s] = visit[s]
  <2>1. seller' \in Seq(SellerRows) /\ Len(seller) <= Len(seller') /\ VisitFits(v, Len(seller'), Len(code))
    BY <1>1, <1>3, <1>5, <1>7 DEF AccountTypes
  <2> QED BY <1>3, <1>6, <2>1, SellerStep
<1>9. e \notin doubled' \cup {NoEmail} => findByEmail(e) \subseteq {k}
  <2> SUFFICES ASSUME e \notin doubled' \cup {NoEmail}, NEW j \in findByEmail(e)
               PROVE  j = k
    OBVIOUS
  <2>1. e \notin doubled /\ \A i \in findByEmail(e) \ own : seller[i].verified
    BY <1>3
  <2>2. PICK i \in findByEmail(e) : ~(seller[i].verified /\ i \notin own)
    BY <1>3 DEF EmailTaken
  <2>3. i \in own /\ i = j
    BY <1>1, <2>1, <2>2, OneSeller
  <2>4. k = i
    BY <1>1, <1>4, <2>3, OneSeller
  <2> QED BY <2>3, <2>4
<1>10. AddressInv'
  <2>1. LiveSellers' = LiveSellers /\ \A x : findByEmail(x)' = findByEmail(x)
    BY <1>3 DEF LiveSellers, findByEmail
  <2>2. doubled \subseteq doubled'
    BY <1>3
  <2>3. ASSUME NEW s \in Patrons, DraftWrites(visit'[s]), visit'[s].email \notin doubled' \cup {NoEmail}
        PROVE  findByEmail(visit'[s].email) \subseteq {visit'[s].seller}
    <3>1. CASE s = r
      BY <3>1, <2>3, <1>6, <1>8, <1>9
    <3>2. CASE s # r
      BY <3>2, <2>2, <2>3, <1>1, <1>8 DEF AddressInv
    <3> QED BY <3>1, <3>2
  <2>4. \A i, j \in LiveSellers : i # j =>
          /\ seller[i].mobile # seller[j].mobile
          /\ seller[i].email = seller[j].email => seller[i].email \in doubled' \cup {NoEmail}
    BY <1>1, <2>2 DEF AddressInv
  <2>5. \A s \in Patrons : DraftWrites(visit'[s]) /\ visit'[s].email \notin doubled' \cup {NoEmail} =>
          {i \in LiveSellers' : seller'[i].email = visit'[s].email} \subseteq {visit'[s].seller}
    BY <1>3, <2>1, <2>3 DEF findByEmail
  <2> QED BY <1>3, <2>1, <2>4, <2>5 DEF AddressInv, findByEmail
<1>11. ProvenInv'
  <2>1. \A i : ~Proves(v, i)
    BY <1>6 DEF Proves
  <2>2. \A s \in Patrons : \A i \in 1..Len(seller) :
          Proves(visit'[s], i) => \/ Proves(visit[s], i) /\ visit'[s].email = visit[s].email
                                  \/ visit'[s].email = seller[i].email
    BY <1>8, <2>1, TurnKeeps
  <2> QED BY <1>1, <1>3, <2>2, ProvenKept
<1> QED BY <1>8, <1>10, <1>11 DEF AccountsInv

\* A seller is marked as verified: by a proof of the address in the row, unless
\* that changed meanwhile.
LEMMA MarkKeeps ==
  ASSUME AccountsInv, NEW r \in Patrons, MarkVerified(r)
  PROVE  AccountsInv'
<1>1. AccountTypes /\ OnceInv /\ TriesInv /\ RatesInv /\ AddressInv /\ ProvenInv /\ PaidInv
  BY DEF AccountsInv
<1>2. PICK k : k = visit[r].seller
  OBVIOUS
<1>3. PICK e : e = visit[r].email
  OBVIOUS
<1>4. /\ visit[r].at = "mark" /\ visit' = [visit EXCEPT ![r] = Away]
      /\ seller' = IF seller[k].deleted \/ visit[r].was THEN seller
                   ELSE [seller EXCEPT ![k].verified = TRUE, ![k].proven = @ \cup {e}]
      /\ UNCHANGED <<code, shared, rushed, password, doubled, rewritten>>
  BY <1>2, <1>3 DEF MarkVerified, Onward
<1>5. visit[r].then = "mark" /\ k \in 1..Len(seller) /\ e \in Emails
  BY <1>1, <1>2, <1>3, <1>4, Brings DEF Stages, Goals
<1>6. CASE seller' = seller
  BY <1>4, <1>6, EndsKeep
<1>7. CASE seller' = [seller EXCEPT ![k].verified = TRUE, ![k].proven = @ \cup {e}]
  <2> DEFINE w == [seller[k] EXCEPT !.verified = TRUE, !.proven = @ \cup {e}]
  <2>1. seller[k] \in SellerRows /\ seller \in Seq(SellerRows) /\ Len(seller) \in Nat
    BY <1>1, <1>5, Numbered DEF AccountTypes
  <2>2. seller' = [seller EXCEPT ![k] = w]
    BY <1>7
  <2>3. /\ w \in SellerRows /\ w.mobile = seller[k].mobile /\ w.email = seller[k].email
        /\ w.deleted = seller[k].deleted /\ w.verified = TRUE /\ w.proven = seller[k].proven \cup {e}
    BY <1>5, <2>1 DEF SellerRows
  <2> HIDE DEF w
  <2>4. /\ seller' \in Seq(SellerRows) /\ Len(seller') = Len(seller) /\ DOMAIN seller' = DOMAIN seller
        /\ seller'[k] = w /\ \A i \in (1..Len(seller)) \ {k} : seller'[i] = seller[i]
    BY <1>5, <2>1, <2>2, <2>3
  <2>5. Away.at = "idle" /\ VisitFits(Away, Len(seller'), Len(code))
    BY <1>1, <2>4, PlainFits DEF Away
  <2>6. /\ AccountTypes' /\ OnceInv' /\ TriesInv' /\ RatesInv' /\ PaidInv'
        /\ visit'[r] = Away /\ \A s \in Patrons \ {r} : visit'[s] = visit[s]
    <3>1. Len(seller) <= Len(seller') /\ Away.at \notin {"compare", "issue", "password"}
      BY <2>1, <2>4, <2>5
    <3> QED BY <1>4, <2>4, <2>5, <3>1, SellerStep
  <2>7. DOMAIN seller = 1..Len(seller)
    BY <1>1, Numbered
  <2>8. \A s \in Patrons : DraftWrites(visit'[s]) => visit'[s] = visit[s]
    BY <2>5, <2>6 DEF DraftWrites
  <2>9. AddressInv'
    <3>1. LiveSellers' \subseteq LiveSellers
      BY <2>3, <2>4, <2>7 DEF LiveSellers
    <3>2. \A i \in LiveSellers' : seller'[i].mobile = seller[i].mobile /\ seller'[i].email = seller[i].email
      BY <2>3, <2>4, <2>7 DEF LiveSellers
    <3> QED BY <1>1, <1>4, <2>4, <2>8, <3>1, <3>2, AddressKept
  <2>10. ASSUME NEW i \in 1..Len(seller), i \notin rewritten
         PROVE  /\ seller'[i].verified => seller'[i].email \in seller'[i].proven
                /\ \A s \in Patrons : Proves(visit'[s], i) => visit'[s].email = seller'[i].email
    <3>1. /\ seller[i].verified => seller[i].email \in seller[i].proven
          /\ \A s \in Patrons : Proves(visit[s], i) => visit[s].email = seller[i].email
      BY <1>1, <2>10 DEF ProvenInv
    <3>2. seller'[i].email = seller[i].email
      BY <2>3, <2>4
    <3>3. \A s \in Patrons : Proves(visit'[s], i) => visit'[s].email = seller'[i].email
      BY <2>5, <2>6, <3>1, <3>2 DEF Proves
    <3>4. CASE i = k
      <4>1. Proves(visit[r], k)
        BY <1>2, <1>4, <1>5 DEF Proves
      <4>2. seller[k].email = e
        BY <1>3, <3>1, <3>4, <4>1
      <4> QED BY <2>3, <2>4, <3>3, <3>4, <4>2
    <3>5. CASE i # k
      BY <2>4, <3>1, <3>3, <3>5
    <3> QED BY <3>4, <3>5
  <2>11. ProvenInv'
    BY <1>4, <2>4, <2>10 DEF ProvenInv
  <2> QED BY <2>6, <2>9, <2>11 DEF AccountsInv
<1> QED BY <1>4, <1>6, <1>7

\* One row changes.
LEMMA OneRow ==
  ASSUME AccountTypes, NEW k \in 1..Len(seller), NEW w \in SellerRows, seller' = [seller EXCEPT ![k] = w]
  PROVE  /\ seller' \in Seq(SellerRows) /\ Len(seller') = Len(seller) /\ DOMAIN seller' = DOMAIN seller
         /\ DOMAIN seller = 1..Len(seller) /\ Len(seller) \in Nat
         /\ seller'[k] = w /\ \A i \in (1..Len(seller)) \ {k} : seller'[i] = seller[i]
BY DEF AccountTypes

\* An admin switches a seller on or off, or removes one.
LEMMA AdminKeeps ==
  ASSUME AccountsInv, NEW r \in Patrons, NEW k \in DOMAIN seller,
         (\E on \in BOOLEAN : setSellerActive(r, k, on)) \/ removeSeller(r, k)
  PROVE  AccountsInv'
<1>1. AccountTypes /\ OnceInv /\ TriesInv /\ RatesInv /\ AddressInv /\ ProvenInv /\ PaidInv
  BY DEF AccountsInv
<1>2. seller[k] \in SellerRows /\ seller \in Seq(SellerRows) /\ Len(seller) \in Nat /\ k \in 1..Len(seller)
  BY <1>1, Numbered DEF AccountTypes
<1>3. /\ visit' = [visit EXCEPT ![r] = Away]
      /\ UNCHANGED <<code, shared, rushed, password, doubled, rewritten>>
  BY DEF setSellerActive, removeSeller, Visit
<1>4. PICK w \in SellerRows :
        /\ seller' = [seller EXCEPT ![k] = w] /\ w.email = seller[k].email /\ w.verified = seller[k].verified
        /\ w.proven = seller[k].proven
        /\ w.deleted \/ (w.mobile = seller[k].mobile /\ w.deleted = seller[k].deleted)
  <2>1. CASE \E on \in BOOLEAN : setSellerActive(r, k, on)
    <3>1. PICK on \in BOOLEAN : setSellerActive(r, k, on)
      BY <2>1
    <3> DEFINE w == [seller[k] EXCEPT !.active = on]
    <3>2. seller' = [seller EXCEPT ![k] = w]
      BY <3>1 DEF setSellerActive
    <3>3. /\ w \in SellerRows /\ w.email = seller[k].email /\ w.verified = seller[k].verified
          /\ w.proven = seller[k].proven /\ w.mobile = seller[k].mobile /\ w.deleted = seller[k].deleted
      BY <1>2 DEF SellerRows
    <3> HIDE DEF w
    <3> QED BY <3>2, <3>3
  <2>2. CASE removeSeller(r, k)
    <3> DEFINE w == [seller[k] EXCEPT !.deleted = TRUE, !.active = FALSE, !.mobile = NoMobile]
    <3>1. seller' = [seller EXCEPT ![k] = w]
      BY <2>2 DEF removeSeller
    <3>2. /\ w \in SellerRows /\ w.email = seller[k].email /\ w.verified = seller[k].verified
          /\ w.proven = seller[k].proven /\ w.deleted
      BY <1>2 DEF SellerRows
    <3> HIDE DEF w
    <3> QED BY <3>1, <3>2
  <2> QED BY <2>1, <2>2
<1>5. /\ seller' \in Seq(SellerRows) /\ Len(seller') = Len(seller) /\ DOMAIN seller' = DOMAIN seller
      /\ DOMAIN seller = 1..Len(seller)
      /\ seller'[k] = w /\ \A i \in (1..Len(seller)) \ {k} : seller'[i] = seller[i]
  BY <1>1, <1>2, <1>4, OneRow
<1>6. /\ Away.at = "idle" /\ VisitFits(Away, Len(seller'), Len(code)) /\ Len(seller) <= Len(seller')
      /\ Away.at \notin {"compare", "issue", "password"} /\ ~DraftWrites(Away) /\ \A i : ~Proves(Away, i)
  BY <1>1, <1>2, <1>5, PlainFits DEF Away, DraftWrites, Proves
<1>7. /\ AccountTypes' /\ OnceInv' /\ TriesInv' /\ RatesInv' /\ PaidInv'
      /\ visit'[r] = Away /\ \A s \in Patrons \ {r} : visit'[s] = visit[s]
  BY <1>3, <1>5, <1>6, SellerStep
<1>8. /\ \A s \in Patrons : DraftWrites(visit'[s]) => visit'[s] = visit[s]
      /\ \A s \in Patrons : \A i \in 1..Len(seller) :
           Proves(visit'[s], i) => \/ Proves(visit[s], i) /\ visit'[s].email = visit[s].email
                                   \/ visit'[s].email = seller[i].email
  BY <1>6, <1>7, TurnKeeps
<1>9. AddressInv'
  <2>1. LiveSellers' \subseteq LiveSellers
    BY <1>4, <1>5, <1>2 DEF LiveSellers
  <2>2. \A i \in LiveSellers' : seller'[i].mobile = seller[i].mobile /\ seller'[i].email = seller[i].email
    BY <1>4, <1>5, <1>2 DEF LiveSellers
  <2> QED BY <1>1, <1>3, <1>5, <1>8, <2>1, <2>2, AddressKept
<1>10. ProvenInv'
  <2>1. \A i \in 1..Len(seller) : /\ seller'[i].email = seller[i].email
                                  /\ seller'[i].verified = seller[i].verified
                                  /\ seller'[i].proven = seller[i].proven
    BY <1>4, <1>5
  <2> QED BY <1>1, <1>3, <1>5, <1>8, <2>1, ProvenKept
<1> QED BY <1>7, <1>9, <1>10 DEF AccountsInv

\* The address e is written into row k, a live one: it is in no other row until
\* two have it at once.
LEMMA AddressWritten ==
  ASSUME AccountTypes, AddressInv, NEW r \in Patrons, NEW k \in LiveSellers, NEW e,
         DraftWrites(visit[r]), visit[r].email = e, visit[r].seller = k,
         DOMAIN seller' = DOMAIN seller, LiveSellers' = LiveSellers,
         \A i \in LiveSellers : seller'[i].mobile = seller[i].mobile,
         \A i \in LiveSellers \ {k} : seller'[i].email = seller[i].email, seller'[k].email = e,
         doubled' = IF Writing(r, e) # {} THEN doubled \cup {e} ELSE doubled,
         ~DraftWrites(visit'[r]), \A s \in Patrons \ {r} : visit'[s] = visit[s]
  PROVE  AddressInv'
<1>1. doubled \subseteq doubled'
  OBVIOUS
<1>2. e \notin doubled' \cup {NoEmail} => \A i \in LiveSellers \ {k} : seller[i].email # e
  BY <1>1 DEF AddressInv, findByEmail
<1>3. ASSUME NEW i \in LiveSellers, NEW j \in LiveSellers, i # j
      PROVE  /\ seller'[i].mobile # seller'[j].mobile
             /\ seller'[i].email = seller'[j].email => seller'[i].email \in doubled' \cup {NoEmail}
  <2>1. /\ seller[i].mobile # seller[j].mobile
        /\ seller[i].email = seller[j].email => seller[i].email \in doubled' \cup {NoEmail}
    BY <1>1, <1>3 DEF AddressInv
  <2>2. CASE i = k
    BY <1>2, <1>3, <2>1, <2>2
  <2>3. CASE j = k
    BY <1>2, <1>3, <2>1, <2>3
  <2>4. CASE i # k /\ j # k
    BY <2>1, <2>4
  <2> QED BY <2>2, <2>3, <2>4
<1>4. ASSUME NEW s \in Patrons, DraftWrites(visit'[s]), visit'[s].email \notin doubled' \cup {NoEmail}
      PROVE  {i \in LiveSellers' : seller'[i].email = visit'[s].email} \subseteq {visit'[s].seller}
  <2>1. s # r /\ visit'[s] = visit[s] /\ visit[s].email \notin doubled \cup {NoEmail}
    BY <1>1, <1>4
  <2>2. findByEmail(visit[s].email) \subseteq {visit[s].seller}
    BY <1>4, <2>1 DEF AddressInv
  <2>3. visit[s].email # e
    <3>1. SUFFICES ASSUME visit[s].email = e PROVE FALSE
      OBVIOUS
    <3>2. s \in Writing(r, e)
      BY <1>4, <2>1, <3>1 DEF Writing, DraftWrites
    <3> QED BY <1>4, <2>1, <3>1, <3>2
  <2> QED BY <2>1, <2>2, <2>3 DEF findByEmail
<1> QED BY <1>3, <1>4 DEF AddressInv, findByEmail

\* A profile is written: nobody proves the new address, so the row is marked.
LEMMA ProfileKeeps ==
  ASSUME AccountsInv, NEW r \in Patrons, WriteProfile(r)
  PROVE  AccountsInv'
<1>1. AccountTypes /\ OnceInv /\ TriesInv /\ RatesInv /\ AddressInv /\ ProvenInv /\ PaidInv
  BY DEF AccountsInv
<1>2. PICK k : k = visit[r].seller
  OBVIOUS
<1>3. PICK e : e = visit[r].email
  OBVIOUS
<1>4. /\ visit[r].at = "profile" /\ visit' = [visit EXCEPT ![r] = Away]
      /\ seller' = IF seller[k].deleted THEN seller ELSE [seller EXCEPT ![k].email = e]
      /\ rewritten' = rewritten \cup {k}
      /\ doubled' = IF Writing(r, e) # {} THEN doubled \cup {e} ELSE doubled
      /\ UNCHANGED <<code, shared, rushed, password>>
  BY <1>2, <1>3 DEF WriteProfile, Onward
<1>5. k \in 1..Len(seller) /\ e \in Emails \cup {NoEmail}
  BY <1>1, <1>2, <1>3, <1>4 DEF AccountTypes, VisitFits
<1> DEFINE w == IF seller[k].deleted THEN seller[k] ELSE [seller[k] EXCEPT !.email = e]
<1>6. seller[k] \in SellerRows /\ seller \in Seq(SellerRows) /\ Len(seller) \in Nat
  BY <1>1, <1>5, Numbered DEF AccountTypes
<1>7. seller' = [seller EXCEPT ![k] = w]
  <2>1. CASE seller[k].deleted
    <3>1. seller = [seller EXCEPT ![k] = seller[k]]
      BY <1>6
    <3> QED BY <1>4, <2>1, <3>1
  <2>2. CASE ~seller[k].deleted
    BY <1>4, <2>2
  <2> QED BY <2>1, <2>2
<1>8. /\ w \in SellerRows /\ w.mobile = seller[k].mobile /\ w.deleted = seller[k].deleted
      /\ ~seller[k].deleted => w.email = e
  BY <1>5, <1>6 DEF SellerRows
<1> HIDE DEF w
<1>9. /\ seller' \in Seq(SellerRows) /\ Len(seller') = Len(seller) /\ DOMAIN seller' = DOMAIN seller
      /\ DOMAIN seller = 1..Len(seller)
      /\ seller'[k] = w /\ \A i \in (1..Len(seller)) \ {k} : seller'[i] = seller[i]
  BY <1>1, <1>5, <1>7, <1>8, OneRow
<1>10. /\ Away.at = "idle" /\ VisitFits(Away, Len(seller'), Len(code)) /\ Len(seller) <= Len(seller')
       /\ Away.at \notin {"compare", "issue", "password"} /\ ~DraftWrites(Away) /\ \A i : ~Proves(Away, i)
  BY <1>1, <1>6, <1>9, PlainFits DEF Away, DraftWrites, Proves
<1>11. /\ AccountTypes' /\ OnceInv' /\ TriesInv' /\ RatesInv' /\ PaidInv'
       /\ visit'[r] = Away /\ \A s \in Patrons \ {r} : visit'[s] = visit[s]
  BY <1>4, <1>9, <1>10, SellerStep
<1>12. AddressInv'
  <2>1. LiveSellers' = LiveSellers
    BY <1>8, <1>9 DEF LiveSellers
  <2>2. CASE seller[k].deleted
    <3>1. seller' = seller /\ \A s \in Patrons : DraftWrites(visit'[s]) => visit'[s] = visit[s]
      BY <1>4, <1>10, <1>11, <2>2
    <3> QED BY <1>1, <1>4, <2>1, <3>1, AddressKept
  <2>3. CASE ~seller[k].deleted
    <3>1. k \in LiveSellers /\ LiveSellers \subseteq 1..Len(seller)
      BY <1>5, <1>9, <2>3 DEF LiveSellers
    <3>2. /\ \A i \in LiveSellers : seller'[i].mobile = seller[i].mobile
          /\ \A i \in LiveSellers \ {k} : seller'[i].email = seller[i].email
          /\ seller'[k].email = e
      BY <1>8, <1>9, <2>3, <3>1
    <3>3. DraftWrites(visit[r]) /\ ~DraftWrites(visit'[r])
      BY <1>4, <1>10, <1>11 DEF DraftWrites
    <3>4. doubled' = IF Writing(r, e) # {} THEN doubled \cup {e} ELSE doubled
      BY <1>4
    <3>5. AccountTypes /\ AddressInv
      BY <1>1
    <3>6. DOMAIN seller' = DOMAIN seller /\ \A s \in Patrons \ {r} : visit'[s] = visit[s]
      BY <1>9, <1>11
    <3>7. visit[r].email = e /\ visit[r].seller = k
      BY <1>2, <1>3
    <3> HIDE DEF DraftWrites, LiveSellers, Writing
    <3> QED BY <2>1, <3>1, <3>2, <3>3, <3>4, <3>5, <3>6, <3>7, AddressWritten
  <2> QED BY <2>2, <2>3
<1>13. ProvenInv'
  <2>1. \A s \in Patrons : \A i : Proves(visit'[s], i) => visit'[s] = visit[s]
    BY <1>10, <1>11
  <2>2. \A i \in 1..Len(seller) : i \notin rewritten' => i \notin rewritten /\ seller'[i] = seller[i]
    BY <1>4, <1>9
  <2>3. ASSUME NEW i \in 1..Len(seller), i \notin rewritten'
        PROVE  /\ seller'[i].verified => seller'[i].email \in seller'[i].proven
               /\ \A s \in Patrons : Proves(visit'[s], i) => visit'[s].email = seller'[i].email
    <3>1. i \notin rewritten /\ seller'[i] = seller[i]
      BY <2>2, <2>3
    <3>2. /\ seller[i].verified => seller[i].email \in seller[i].proven
          /\ \A s \in Patrons : Proves(visit[s], i) => visit[s].email = seller[i].email
      BY <1>1, <3>1 DEF ProvenInv
    <3> QED BY <2>1, <3>1, <3>2
  <2> QED BY <1>9, <2>3 DEF ProvenInv
<1> QED BY <1>11, <1>12, <1>13 DEF AccountsInv

\* An edit of a profile is taken on: the address is the seller's own or nobody's.
LEMMA EditKeeps ==
  ASSUME AccountsInv, NEW r \in Patrons, NEW k \in DOMAIN seller, NEW e \in Emails \cup {NoEmail},
         updateProfile(r, k, e)
  PROVE  AccountsInv'
<1>1. AccountTypes /\ OnceInv /\ TriesInv /\ RatesInv /\ AddressInv /\ ProvenInv /\ PaidInv
  BY DEF AccountsInv
<1> DEFINE v == [at |-> "profile", seller |-> k, email |-> e]
<1>2. /\ k \in LiveSellers /\ (e = NoEmail \/ e = seller[k].email \/ findByEmail(e) = {})
      /\ visit' = [visit EXCEPT ![r] = v]
      /\ UNCHANGED <<code, shared, rushed, seller, password, doubled, rewritten>>
  BY DEF updateProfile, Visit, accountOnly
<1>3. v.at = "profile" /\ v.seller = k /\ v.email = e
  OBVIOUS
<1> HIDE DEF v
<1>4. k \in 1..Len(seller) /\ Len(seller) \in Nat /\ seller \in Seq(SellerRows)
  BY <1>1, Numbered DEF AccountTypes
<1>5. VisitFits(v, Len(seller), Len(code))
  BY <1>3, <1>4 DEF VisitFits, Stages, Goals
<1>6. /\ AccountTypes' /\ OnceInv' /\ TriesInv' /\ RatesInv' /\ PaidInv'
      /\ visit'[r] = v /\ \A s \in Patrons \ {r} : visit'[s] = visit[s]
  <2>1. /\ seller' \in Seq(SellerRows) /\ Len(seller) <= Len(seller') /\ VisitFits(v, Len(seller'), Len(code))
        /\ v.at \notin {"compare", "issue", "password"}
    BY <1>2, <1>3, <1>4, <1>5
  <2> QED BY <1>2, <2>1, SellerStep
<1>7. e \notin doubled \cup {NoEmail} => findByEmail(e) \subseteq {k}
  <2>1. e = seller[k].email => k \in findByEmail(e)
    BY <1>2 DEF findByEmail
  <2> QED BY <1>1, <1>2, <2>1, OneSeller
<1>8. AddressInv'
  <2>1. LiveSellers' = LiveSellers /\ \A x : findByEmail(x)' = findByEmail(x)
    BY <1>2 DEF LiveSellers, findByEmail
  <2>2. ASSUME NEW s \in Patrons, DraftWrites(visit'[s]), visit'[s].email \notin doubled \cup {NoEmail}
        PROVE  findByEmail(visit'[s].email) \subseteq {visit'[s].seller}
    <3>1. CASE s = r
      BY <3>1, <2>2, <1>3, <1>6, <1>7
    <3>2. CASE s # r
      BY <3>2, <2>2, <1>1, <1>6 DEF AddressInv
    <3> QED BY <3>1, <3>2
  <2>3. \A s \in Patrons : DraftWrites(visit'[s]) /\ visit'[s].email \notin doubled \cup {NoEmail} =>
          {i \in LiveSellers' : seller'[i].email = visit'[s].email} \subseteq {visit'[s].seller}
    BY <1>2, <2>1, <2>2 DEF findByEmail
  <2> QED BY <1>1, <1>2, <2>1, <2>3 DEF AddressInv, findByEmail
<1>9. ProvenInv'
  <2>1. \A i : ~Proves(v, i)
    BY <1>3 DEF Proves
  <2>2. \A s \in Patrons : \A i \in 1..Len(seller) :
          Proves(visit'[s], i) => \/ Proves(visit[s], i) /\ visit'[s].email = visit[s].email
                                  \/ visit'[s].email = seller[i].email
    BY <1>6, <2>1, TurnKeeps
  <2> QED BY <1>1, <1>2, <2>2, ProvenKept
<1> QED BY <1>6, <1>8, <1>9 DEF AccountsInv

\* A password is set, by the request that took a code for it.
LEMMA SetKeeps ==
  ASSUME AccountsInv, NEW r \in Patrons, SetPassword(r)
  PROVE  AccountsInv'
<1>1. AccountTypes /\ OnceInv /\ TriesInv /\ RatesInv /\ AddressInv /\ ProvenInv /\ PaidInv
  BY DEF AccountsInv
<1>2. PICK e : e = visit[r].email
  OBVIOUS
<1>3. /\ visit[r].at = "password" /\ visit' = [visit EXCEPT ![r] = Away]
      /\ password' = IF visit[r].was THEN [password EXCEPT ![e] = @ + 1] ELSE password
      /\ UNCHANGED <<code, shared, rushed, seller, doubled, rewritten>>
  BY <1>2 DEF SetPassword, Onward
<1>4. e \in StaffMail
  BY <1>1, <1>2, <1>3, Brings DEF Stages, Goals
<1>5. /\ password' \in [StaffMail -> Nat] /\ password \in [StaffMail -> Nat]
      /\ password'[e] <= password[e] + 1 /\ \A s \in StaffMail \ {e} : password'[s] = password[s]
  BY <1>1, <1>3, <1>4 DEF AccountTypes
<1>6. /\ Away.at = "idle" /\ VisitFits(Away, Len(seller), Len(code))
      /\ ~DraftWrites(Away) /\ \A i : ~Proves(Away, i)
  BY <1>1, PlainFits DEF Away, DraftWrites, Proves
<1>7. AccountTypes' /\ visit'[r] = Away /\ \A s \in Patrons \ {r} : visit'[s] = visit[s]
  <2>1. code' = code /\ shared' = shared /\ seller' = seller /\ Away.at # "compare"
    BY <1>3, <1>6
  <2>2. /\ code' \in Seq(CodeRows) /\ seller' \in Seq(SellerRows)
        /\ shared' \subseteq 1..Len(code') /\ Len(code) <= Len(code') /\ Len(seller) <= Len(seller')
        /\ \A i \in 1..Len(code) : code'[i].key = code[i].key
        /\ VisitFits(Away, Len(seller'), Len(code'))
    BY <1>1, <1>6, <2>1, Numbered DEF AccountTypes
  <2> QED BY <1>1, <1>3, <1>5, <2>1, <2>2, TypesMove
<1>8. /\ \A i \in 1..Len(code) : Comparing(i)' \subseteq Comparing(i)
      /\ \A key \in CodeKeys : Issuing(key)' \subseteq Issuing(key)
      /\ \A s \in Patrons : DraftWrites(visit'[s]) => visit'[s] = visit[s]
      /\ \A s \in Patrons : \A i \in 1..Len(seller) :
           Proves(visit'[s], i) => \/ Proves(visit[s], i) /\ visit'[s].email = visit[s].email
                                   \/ visit'[s].email = seller[i].email
      /\ \A s \in StaffMail : Setting(s)' \subseteq Setting(s)
  BY <1>6, <1>7, TurnKeeps
<1>9. OnceInv' /\ TriesInv'
  BY <1>1, <1>3, <1>8, OnceKept
<1>10. RatesInv'
  BY <1>1, <1>3, <1>8, RatesKept
<1>11. AddressInv'
  BY <1>1, <1>3, <1>8, AddressKept DEF LiveSellers
<1>12. ProvenInv'
  BY <1>1, <1>3, <1>8, ProvenKept
<1>13. ASSUME NEW s \in StaffMail, Accepted(<<"reset", s>>)' \cap shared = {}
       PROVE  password'[s] + Cardinality(Setting(s)') <= Cardinality(Accepted(<<"reset", s>>)')
  <2> DEFINE A == Accepted(<<"reset", s>>)
             W == Setting(s)
             X == W'
  <2>1. A' = A
    BY <1>3 DEF Accepted
  <2>2. W \subseteq Patrons /\ X \subseteq W /\ (s = e => X = W \ {r} /\ r \in W)
    BY <1>2, <1>3, <1>6, <1>7, <1>8 DEF Setting
  <2>3. password[s] + Cardinality(W) <= Cardinality(A)
    BY <1>1, <1>13, <2>1 DEF PaidInv
  <2>4. password[s] \in Nat /\ password'[s] \in Nat
    BY <1>5
  <2>5. A \in SUBSET (1..Len(code))
    BY <1>1, Numbered DEF Accepted
  <2> HIDE DEF A, W, X
  <2>6. IsFiniteSet(W) /\ Cardinality(W) \in Nat /\ Cardinality(A) \in Nat
    BY <1>1, <2>2, <2>5, Finite
  <2>7. X \in SUBSET W /\ Cardinality(X) <= Cardinality(W) /\ Cardinality(X) \in Nat
    BY <2>2, <2>6, FS_Subset, FS_CardinalityType
  <2>8. password'[s] + Cardinality(X) <= Cardinality(A)
    <3>1. CASE s = e
      <4>1. Cardinality(X) = Cardinality(W) - 1
        BY <2>2, <2>6, <3>1, FS_RemoveElement
      <4>2. password'[s] <= password[s] + 1
        BY <1>5, <3>1
      <4> QED BY <2>3, <2>4, <2>6, <2>7, <4>1, <4>2
    <3>2. CASE s # e
      <4>1. password'[s] = password[s]
        BY <1>5, <3>2
      <4> QED BY <2>3, <2>4, <2>6, <2>7, <4>1
    <3> QED BY <3>1, <3>2
  <2>9. password'[s] + Cardinality(X) <= Cardinality(A')
    BY <2>1, <2>8
  <2> QED BY <2>9 DEF A, W, X
<1>14. PaidInv'
  BY <1>3, <1>13 DEF PaidInv
<1> QED BY <1>7, <1>9, <1>10, <1>11, <1>12, <1>14 DEF AccountsInv

\* A draft is written: a new row, the draft's row over itself, or nothing.
LEMMA DraftKeeps ==
  ASSUME AccountsInv, NEW r \in Patrons, WriteDraft(r)
  PROVE  AccountsInv'
<1>1. AccountTypes /\ OnceInv /\ TriesInv /\ RatesInv /\ AddressInv /\ ProvenInv /\ PaidInv
  BY DEF AccountsInv
<1>2. PICK k : k = visit[r].seller
  OBVIOUS
<1>3. PICK e : e = visit[r].email
  OBVIOUS
<1>4. PICK m : m = visit[r].mobile
  OBVIOUS
<1> DEFINE taken == k = 0 /\ findByMobile(m) # {}
           hit == k # 0 /\ ~seller[k].deleted /\ ~seller[k].verified
           new == [mobile |-> m, email |-> e, verified |-> FALSE, active |-> TRUE, deleted |-> FALSE,
                   proven |-> {}]
           v == [at |-> "rates", key |-> <<"register", e>>]
           Proven(s) == visit[s].at \in {"verify", "compare", "mark"} /\ visit[s].seller = k
<1>5. /\ visit[r].at = "draft"
      /\ seller' = IF k = 0 /\ ~taken THEN Append(seller, new)
                   ELSE IF hit THEN [seller EXCEPT ![k].email = e] ELSE seller
      /\ rewritten' = IF hit /\ \E s \in Patrons \ {r} : Proven(s) THEN rewritten \cup {k} ELSE rewritten
      /\ doubled' = IF Writing(r, e) # {} THEN doubled \cup {e} ELSE doubled
      /\ visit' = [visit EXCEPT ![r] = IF taken THEN Away ELSE v]
      /\ UNCHANGED <<code, shared, rushed, password>>
  BY <1>2, <1>3, <1>4 DEF WriteDraft, Onward
<1>6. m \in Mobiles /\ e \in Emails /\ k \in 0..Len(seller)
  BY <1>1, <1>2, <1>3, <1>4, <1>5 DEF AccountTypes, VisitFits
<1>7. /\ v.at = "rates" /\ ~DraftWrites(v) /\ (\A i : ~Proves(v, i)) /\ <<"register", e>> \in CodeKeys
      /\ VisitFits(v, Len(seller), Len(code))
  <2>1. <<"register", e>> \in CodeKeys
    BY <1>6 DEF CodeKeys
  <2>2. VisitFits(v, Len(seller), Len(code))
    BY <1>1, <2>1, PlainFits
  <2> QED BY <2>1, <2>2 DEF DraftWrites, Proves
<1>8. /\ seller \in Seq(SellerRows) /\ Len(seller) \in Nat /\ Len(code) \in Nat /\ DOMAIN seller = 1..Len(seller)
      /\ LiveSellers \subseteq 1..Len(seller) /\ doubled \subseteq doubled' /\ rewritten \subseteq rewritten'
  BY <1>1, <1>5, Numbered DEF AccountTypes, LiveSellers
<1> HIDE DEF v
<1>9. CASE taken
  <2>1. seller' = seller /\ rewritten' = rewritten /\ visit' = [visit EXCEPT ![r] = Away]
    BY <1>5, <1>9
  <2> QED BY <1>5, <1>8, <2>1, EndsKeep
<1>10. CASE ~taken /\ k # 0 /\ ~hit
  <2>1. seller' = seller /\ rewritten' = rewritten /\ visit' = [visit EXCEPT ![r] = v]
    BY <1>5, <1>10
  <2> QED BY <1>5, <1>7, <1>8, <2>1, CalmTurn
<1>11. CASE ~taken /\ k = 0
  <2>1. PICK n : n = Len(seller) + 1
    OBVIOUS
  <2>2. /\ new \in SellerRows /\ new.mobile = m /\ new.email = e /\ new.verified = FALSE /\ new.deleted = FALSE
    BY <1>6 DEF SellerRows
  <2>3. seller' = Append(seller, new) /\ rewritten' = rewritten /\ visit' = [visit EXCEPT ![r] = v]
    BY <1>5, <1>11
  <2>4. findByMobile(m) = {}
    BY <1>11
  <2> HIDE DEF new, taken, hit
  <2>5. /\ seller' \in Seq(SellerRows) /\ Len(seller') = n /\ n \in Nat \ {0} /\ Len(seller) <= n
        /\ DOMAIN seller' = 1..n /\ seller'[n] = new /\ \A i \in 1..Len(seller) : seller'[i] = seller[i]
        /\ 1..n = (1..Len(seller)) \cup {n} /\ n \notin 1..Len(seller)
    BY <1>8, <2>1, <2>2, <2>3
  <2>6. /\ AccountTypes' /\ OnceInv' /\ TriesInv' /\ RatesInv' /\ PaidInv'
        /\ visit'[r] = v /\ \A s \in Patrons \ {r} : visit'[s] = visit[s]
    <3>1. VisitFits(v, Len(seller'), Len(code)) /\ v.at \notin {"compare", "issue", "password"}
      BY <1>7, <1>8, <2>5, FitsMore
    <3> QED BY <1>5, <2>3, <2>5, <3>1, SellerStep
  <2>7. /\ LiveSellers' = LiveSellers \cup {n} /\ \A i \in LiveSellers : i # n /\ seller'[i] = seller[i]
    BY <1>8, <2>2, <2>5 DEF LiveSellers
  <2>8. \A i \in LiveSellers : seller[i].mobile # m
    BY <2>4 DEF findByMobile
  <2>9. e \notin doubled' \cup {NoEmail} => \A i \in LiveSellers : seller[i].email # e
    <3>1. e \notin doubled \cup {NoEmail} => findByEmail(e) \subseteq {k}
      BY <1>1, <1>2, <1>3, <1>5 DEF AddressInv, DraftWrites
    <3>2. 0 \notin LiveSellers
      BY <1>8
    <3> QED BY <1>8, <1>11, <3>1, <3>2 DEF findByEmail
  <2>10. ASSUME NEW i \in LiveSellers', NEW j \in LiveSellers', i # j
         PROVE  /\ seller'[i].mobile # seller'[j].mobile
                /\ seller'[i].email = seller'[j].email => seller'[i].email \in doubled' \cup {NoEmail}
    <3>1. CASE i = n
      BY <2>2, <2>5, <2>7, <2>8, <2>9, <2>10, <3>1
    <3>2. CASE j = n
      BY <2>2, <2>5, <2>7, <2>8, <2>9, <2>10, <3>2
    <3>3. CASE i # n /\ j # n
      BY <1>1, <1>8, <2>7, <2>10, <3>3 DEF AddressInv
    <3> QED BY <3>1, <3>2, <3>3
  <2>11. ASSUME NEW s \in Patrons, DraftWrites(visit'[s]), visit'[s].email \notin doubled' \cup {NoEmail}
         PROVE  {i \in LiveSellers' : seller'[i].email = visit'[s].email} \subseteq {visit'[s].seller}
    <3>1. s # r /\ visit'[s] = visit[s] /\ visit[s].email \notin doubled \cup {NoEmail}
      BY <1>7, <1>8, <2>6, <2>11
    <3>2. findByEmail(visit[s].email) \subseteq {visit[s].seller}
      BY <1>1, <2>11, <3>1 DEF AddressInv
    <3>3. visit[s].email # e
      <4>1. SUFFICES ASSUME visit[s].email = e PROVE FALSE
        OBVIOUS
      <4>2. s \in Writing(r, e)
        BY <2>11, <3>1, <4>1 DEF Writing, DraftWrites
      <4> QED BY <1>5, <2>11, <3>1, <4>1, <4>2
    <3> QED BY <2>2, <2>5, <2>7, <3>1, <3>2, <3>3 DEF findByEmail
  <2>12. AddressInv'
    BY <2>10, <2>11 DEF AddressInv, findByEmail
  <2>13. ASSUME NEW i \in 1..n, i \notin rewritten
         PROVE  /\ seller'[i].verified => seller'[i].email \in seller'[i].proven
                /\ \A s \in Patrons : Proves(visit'[s], i) => visit'[s].email = seller'[i].email
    <3>1. CASE i = n
      <4>1. ASSUME NEW s \in Patrons, Proves(visit'[s], n) PROVE FALSE
        <5>1. s # r /\ visit'[s] = visit[s]
          BY <1>7, <2>6, <4>1
        <5>2. visit[s].at \in Stages /\ visit[s].then = "mark" /\ visit[s].seller = n
          BY <4>1, <5>1 DEF Proves, Stages, Goals
        <5> QED BY <1>1, <2>5, <5>2, Brings
      <4> QED BY <2>2, <2>5, <3>1, <4>1
    <3>2. CASE i # n
      <4>1. i \in 1..Len(seller) /\ seller'[i] = seller[i]
        BY <2>5, <3>2
      <4>2. \A s \in Patrons : Proves(visit'[s], i) => visit'[s] = visit[s]
        BY <1>7, <2>6
      <4> QED BY <1>1, <2>13, <4>1, <4>2 DEF ProvenInv
    <3> QED BY <3>1, <3>2
  <2>14. ProvenInv'
    BY <2>3, <2>5, <2>13 DEF ProvenInv
  <2> QED BY <2>6, <2>12, <2>14 DEF AccountsInv
<1>12. CASE hit
  <2> DEFINE w == [seller[k] EXCEPT !.email = e]
  <2>1. k \in 1..Len(seller) /\ k # 0 /\ ~seller[k].deleted /\ ~seller[k].verified
    BY <1>6, <1>8, <1>12
  <2>2. seller' = [seller EXCEPT ![k] = w] /\ visit' = [visit EXCEPT ![r] = v]
    BY <1>5, <1>12
  <2>3. seller[k] \in SellerRows
    BY <1>1, <2>1, Numbered
  <2>4. /\ w \in SellerRows /\ w.mobile = seller[k].mobile /\ w.deleted = seller[k].deleted
        /\ w.email = e /\ w.verified = seller[k].verified
    BY <1>6, <2>3 DEF SellerRows
  <2>5. (\E s \in Patrons \ {r} : Proven(s)) => k \in rewritten'
    BY <1>5, <1>12
  <2> HIDE DEF w, taken, hit, new
  <2>6. /\ seller' \in Seq(SellerRows) /\ Len(seller') = Len(seller) /\ DOMAIN seller' = DOMAIN seller
        /\ seller'[k] = w /\ \A i \in (1..Len(seller)) \ {k} : seller'[i] = seller[i]
    BY <1>1, <2>1, <2>2, <2>4, OneRow
  <2>7. /\ AccountTypes' /\ OnceInv' /\ TriesInv' /\ RatesInv' /\ PaidInv'
        /\ visit'[r] = v /\ \A s \in Patrons \ {r} : visit'[s] = visit[s]
    <3>1. VisitFits(v, Len(seller'), Len(code)) /\ v.at \notin {"compare", "issue", "password"}
          /\ Len(seller) <= Len(seller')
      BY <1>7, <1>8, <2>6
    <3> QED BY <1>5, <2>2, <2>6, <3>1, SellerStep
  <2>8. AddressInv'
    <3>1. LiveSellers' = LiveSellers /\ k \in LiveSellers
      BY <1>8, <2>1, <2>4, <2>6 DEF LiveSellers
    <3>2. /\ \A i \in LiveSellers : seller'[i].mobile = seller[i].mobile
          /\ \A i \in LiveSellers \ {k} : seller'[i].email = seller[i].email
          /\ seller'[k].email = e
      BY <1>8, <2>1, <2>4, <2>6
    <3>3. DraftWrites(visit[r]) /\ ~DraftWrites(visit'[r])
      BY <1>5, <1>7, <2>7 DEF DraftWrites
    <3>4. doubled' = IF Writing(r, e) # {} THEN doubled \cup {e} ELSE doubled
      BY <1>5
    <3>5. AccountTypes /\ AddressInv
      BY <1>1
    <3>6. DOMAIN seller' = DOMAIN seller /\ \A s \in Patrons \ {r} : visit'[s] = visit[s]
      BY <2>6, <2>7
    <3>7. visit[r].email = e /\ visit[r].seller = k
      BY <1>2, <1>3
    <3> HIDE DEF DraftWrites, LiveSellers, Writing
    <3> QED BY <3>1, <3>2, <3>3, <3>4, <3>5, <3>6, <3>7, AddressWritten
  <2>9. ASSUME NEW i \in 1..Len(seller), i \notin rewritten'
        PROVE  /\ seller'[i].verified => seller'[i].email \in seller'[i].proven
               /\ \A s \in Patrons : Proves(visit'[s], i) => visit'[s].email = seller'[i].email
    <3>1. \A s \in Patrons : Proves(visit'[s], i) => s # r /\ visit'[s] = visit[s]
      BY <1>7, <2>7
    <3>2. CASE i = k
      <4>1. ASSUME NEW s \in Patrons, Proves(visit'[s], i) PROVE FALSE
        <5>1. Proven(s) /\ s # r
          BY <3>1, <3>2, <4>1 DEF Proves
        <5> QED BY <2>5, <2>9, <3>2, <5>1
      <4> QED BY <2>1, <2>4, <2>6, <3>2, <4>1
    <3>3. CASE i # k
      BY <1>1, <1>8, <2>6, <2>9, <3>1, <3>3 DEF ProvenInv
    <3> QED BY <3>2, <3>3
  <2>10. ProvenInv'
    BY <2>6, <2>9 DEF ProvenInv
  <2> QED BY <2>7, <2>8, <2>10 DEF AccountsInv
<1> QED BY <1>9, <1>10, <1>11, <1>12

----------------------------------------
(* The invariant, and what it says.                                          *)

\* Nobody has asked for anything.
LEMMA AccountsStart ==
  ASSUME AccountsInit
  PROVE  AccountsInv
<1>1. /\ code = <<>> /\ visit = [r \in Patrons |-> Away] /\ shared = {} /\ rushed = {}
      /\ seller = <<>> /\ password = [s \in StaffMail |-> 0] /\ doubled = {} /\ rewritten = {}
  BY DEF AccountsInit, CodesInit
<1>2. /\ Len(code) = 0 /\ DOMAIN code = {} /\ 1..Len(code) = {} /\ code \in Seq(CodeRows)
      /\ Len(seller) = 0 /\ DOMAIN seller = {} /\ 1..Len(seller) = {} /\ seller \in Seq(SellerRows)
  BY <1>1
<1>3. \A r \in Patrons : visit[r] = Away /\ visit[r].at = "idle"
  BY <1>1 DEF Away
<1>4. AccountTypes
  BY <1>1, <1>2, <1>3 DEF AccountTypes, VisitFits, RowFits, Stages, Goals
<1>5. OnceInv /\ TriesInv /\ ProvenInv
  BY <1>2 DEF OnceInv, TriesInv, ProvenInv
<1>6. AddressInv
  BY <1>2, <1>3 DEF AddressInv, LiveSellers, DraftWrites
<1>7. RatesInv
  <2>1. \A k, w : Recent(k, w) = 0
    BY <1>2, FS_EmptySet DEF Recent
  <2>2. \A k : Issuing(k) = {}
    BY <1>3 DEF Issuing
  <2> QED BY <2>1, <2>2, CodesAssumption DEF RatesInv
<1>8. PaidInv
  <2> SUFFICES ASSUME NEW s \in StaffMail
               PROVE  password[s] + Cardinality(Setting(s)) <= Cardinality(Accepted(<<"reset", s>>))
    BY DEF PaidInv
  <2>1. Setting(s) = {} /\ Accepted(<<"reset", s>>) = {} /\ password[s] = 0
    BY <1>1, <1>2, <1>3 DEF Setting, Accepted
  <2> HIDE DEF Setting, Accepted
  <2>2. Cardinality(Setting(s)) = 0 /\ Cardinality(Accepted(<<"reset", s>>)) = 0
    BY <2>1, FS_EmptySet
  <2> QED BY <2>1, <2>2
<1> QED BY <1>4, <1>5, <1>6, <1>7, <1>8 DEF AccountsInv

\* A request goes on with its code.
LEMMA CodeWorkKeeps ==
  ASSUME AccountsInv, NEW r \in Patrons, CodeWork(r), UNCHANGED accountOnly
  PROVE  AccountsInv'
BY CountKeeps, IssueKeeps, LookUpKeeps, WrongKeeps, RightKeeps DEF CodeWork

\* A request signs in, or fails.
LEMMA OverKeeps ==
  ASSUME AccountsInv, NEW r \in Patrons, Enter(r) \/ VisitFails(r)
  PROVE  AccountsInv'
<1>1. /\ visit' = [visit EXCEPT ![r] = Away]
      /\ UNCHANGED <<code, shared, rushed, seller, password, doubled, rewritten>>
  BY DEF Enter, VisitFails, Onward, accountOnly
<1> QED BY <1>1, EndsKeep

\* A request begins.
LEMMA CallKeeps ==
  ASSUME AccountsInv, NEW r \in Patrons, AccountCall(r)
  PROVE  AccountsInv'
<1>1. CASE \E m \in Mobiles, e \in Emails : registerStart(r, m, e)
  BY <1>1, StartKeeps
<1>2. CASE \E i \in DOMAIN seller : \E e \in Emails, typed \in 0..Len(code) : registerVerify(r, i, e, typed)
  BY <1>2, ProvingKeeps
<1>3. CASE \E i \in DOMAIN seller : \E e \in Emails \cup {NoEmail} : updateProfile(r, i, e)
  BY <1>3, EditKeeps
<1>4. CASE \E i \in DOMAIN seller : (\E on \in BOOLEAN : setSellerActive(r, i, on)) \/ removeSeller(r, i)
  BY <1>4, AdminKeeps
<1>5. CASE (\E e \in Emails : loginStart(r, e)) \/ (\E s \in StaffMail : requestReset(r, s))
  BY <1>5, AsksKeep
<1>6. CASE \/ \E e \in Emails : \E typed \in 0..Len(code) : loginVerify(r, e, typed)
           \/ \E s \in StaffMail : \E typed \in 0..Len(code), known \in BOOLEAN : completeReset(r, s, typed, known)
  BY <1>6, ProvingKeeps
<1> QED BY <1>1, <1>2, <1>3, <1>4, <1>5, <1>6 DEF AccountCall

\* Every step keeps the invariant.
LEMMA AccountsStep ==
  ASSUME AccountsInv, [AccountsNext]_accountVars
  PROVE  AccountsInv'
<1>1. CASE UNCHANGED accountVars
  <2>1. UNCHANGED <<code, visit, shared, rushed, seller, password, doubled, rewritten>>
    BY <1>1 DEF accountVars, codeVars
  <2>2. AccountTypes'
    BY <2>1 DEF AccountsInv, AccountTypes, RowFits
  <2>3. OnceInv' /\ TriesInv'
    BY <2>1 DEF AccountsInv, OnceInv, TriesInv, Comparing
  <2>4. RatesInv'
    BY <2>1, RatesKept DEF AccountsInv, Issuing
  <2>5. AddressInv'
    BY <2>1, AddressKept DEF AccountsInv, LiveSellers
  <2>6. ProvenInv'
    BY <2>1 DEF AccountsInv, ProvenInv
  <2>7. PaidInv'
    BY <2>1 DEF AccountsInv, PaidInv, Setting, Accepted
  <2> QED BY <2>2, <2>3, <2>4, <2>5, <2>6, <2>7 DEF AccountsInv
<1>2. CASE PassTime /\ UNCHANGED accountOnly
  BY <1>2, TimeKeeps
<1>3. CASE \E r \in Patrons : visit[r] = Away /\ AccountCall(r)
  BY <1>3, CallKeeps
<1>4. CASE \E r \in Patrons : visit[r] # Away /\ AccountWork(r)
  <2>1. PICK r \in Patrons : AccountWork(r)
    BY <1>4
  <2>2. CASE CodeWork(r) /\ UNCHANGED accountOnly
    BY <2>2, CodeWorkKeeps
  <2>3. CASE WriteDraft(r)
    BY <2>3, DraftKeeps
  <2>4. CASE MarkVerified(r)
    BY <2>4, MarkKeeps
  <2>5. CASE WriteProfile(r)
    BY <2>5, ProfileKeeps
  <2>6. CASE SetPassword(r)
    BY <2>6, SetKeeps
  <2>7. CASE Enter(r) \/ VisitFails(r)
    BY <2>7, OverKeeps
  <2> QED BY <2>1, <2>2, <2>3, <2>4, <2>5, <2>6, <2>7 DEF AccountWork
<1> QED BY <1>1, <1>2, <1>3, <1>4 DEF AccountsNext

\* The invariant holds throughout.
LEMMA AccountsInvariant == AccountsSpec => []AccountsInv
<1>1. AccountsInit => AccountsInv
  BY AccountsStart
<1>2. AccountsInv /\ [AccountsNext]_accountVars => AccountsInv'
  BY AccountsStep
<1> QED BY <1>1, <1>2, PTL DEF AccountsSpec

\* It says what codes and accounts promise.
LEMMA AccountsPromise ==
  ASSUME AccountsInv
  PROVE  AccountsSound
<1>1. AccountTypes /\ OnceInv /\ TriesInv /\ RatesInv /\ AddressInv /\ ProvenInv /\ PaidInv
  BY DEF AccountsInv
<1>2. /\ DOMAIN code = 1..Len(code) /\ Len(code) \in Nat /\ \A i \in 1..Len(code) : code[i] \in CodeRows
      /\ DOMAIN seller = 1..Len(seller) /\ Len(seller) \in Nat
  BY <1>1, Numbered
<1>3. ASSUME NEW i \in 1..Len(code) PROVE code[i].tries \in 0..(MaxTries + Cardinality(Patrons))
  <2>1. Cardinality(Comparing(i)) \in Nat /\ Cardinality(Patrons) \in Nat
    BY <1>1, Finite DEF Comparing
  <2>2. code[i].tries \in Nat /\ MaxTries \in Nat
    BY <1>2, CodesAssumption DEF CodeRows
  <2>3. code[i].tries + Cardinality(Comparing(i)) <= MaxTries + Cardinality(Patrons)
    BY <1>1 DEF TriesInv
  <2> QED BY <2>1, <2>2, <2>3
<1>4. AccountsTypeOK
  BY <1>1, <1>2, <1>3 DEF AccountsTypeOK, CodesTypeOK, AccountTypes, SellerRows, CodeRows
<1>5. CodesSound
  <2>1. \A i \in DOMAIN code \ shared : code[i].taken <= 1 /\ code[i].tries <= MaxTries
    BY <1>1, <1>2 DEF OnceInv
  <2>2. \A i \in DOMAIN code : code[i].key \notin rushed =>
          Recent(code[i].key, Minute) <= PerMinute /\ Recent(code[i].key, Hour) <= PerHour
    BY <1>1, <1>2 DEF RatesInv, CodeRows
  <2> QED BY <2>1, <2>2 DEF CodesSound
<1>6. VerifiedIsProven
  BY <1>1, <1>2 DEF VerifiedIsProven, ProvenInv
<1>7. SellersDistinct
  BY <1>1 DEF SellersDistinct, AddressInv
<1>8. ResetsArePaid
  <2> SUFFICES ASSUME NEW s \in StaffMail, Accepted(<<"reset", s>>) \cap shared = {}
               PROVE  password[s] <= Cardinality(Accepted(<<"reset", s>>))
    BY DEF ResetsArePaid
  <2>1. password[s] + Cardinality(Setting(s)) <= Cardinality(Accepted(<<"reset", s>>))
    BY <1>1 DEF PaidInv
  <2>2. Accepted(<<"reset", s>>) \in SUBSET (1..Len(code)) /\ Setting(s) \in SUBSET Patrons
    BY <1>2 DEF Accepted, Setting
  <2>3. /\ Cardinality(Setting(s)) \in Nat /\ Cardinality(Accepted(<<"reset", s>>)) \in Nat
        /\ password[s] \in Nat
    BY <1>1, <2>2, Finite DEF AccountTypes
  <2> QED BY <2>1, <2>3
<1> QED BY <1>4, <1>5, <1>6, <1>7, <1>8 DEF AccountsSound

\* However the requests of sellers and staff interleave or fail (otp.js,
\* seller/auth.js, password_reset.js), a code that no two of them held at once
\* opens one thing, within its tries and rates; a verified seller proved the
\* address of the row, unless it was rewritten; sellers share neither mobile nor
\* address, unless two took it at once; and each password reset has its code.
THEOREM AccountsAreSound == AccountsSpec => []AccountsSound
BY AccountsInvariant, AccountsPromise, PTL

=============================================================================
