------------------------------ MODULE KeyPins ------------------------------
(***************************************************************************)
(* Key PINs (services/security/key_pins.js) and their change and reset     *)
(* (services/security/key_pin_reset.js). A PIN is a model value: what is   *)
(* stored is its hash, compared with the hash of every active row. Counts, *)
(* comparisons and writes are statements of their own.                     *)
(***************************************************************************)
EXTENDS Naturals, Sequences, FiniteSets

CONSTANTS
  Pins, NoPin, FirstPins,     \* FirstPins: the tables a run starts from.
                              \* six-digit PINs; NoPin: the field is left out
  Admins,                     \* administrators who ask for resets
  Guards,                     \* requests that may run at once
  MAX_ACTIVE_PINS,            \* 2 in the code
  PerAdmin, PerPin,           \* MAX_REQUESTS_PER_ADMIN_15MIN, MAX_REQUESTS_PER_PIN_15MIN
  MaxPins, MaxResets, MaxTasks   \* bounds: rows of the tables, requests

\* The rows of a table that open the doors.
ActiveOf(table) == {i \in DOMAIN table : ~table[i].deleted /\ table[i].active}

ASSUME PinsAssumption == NoPin \notin Pins /\ MAX_ACTIVE_PINS \in Nat
\* What a run starts from was written by the service, one request after the other.
ASSUME FirstPinsAssumption ==
  \A table \in FirstPins :
    /\ table \in Seq([value : Pins, active : BOOLEAN, deleted : BOOLEAN])
    /\ Cardinality(ActiveOf(table)) <= MAX_ACTIVE_PINS
    /\ \A i, j \in ActiveOf(table) : table[i].value = table[j].value => i = j

VARIABLES
  pin,       \* key_pins: [value, active, deleted]
  reset,     \* key_pin_reset_requests: [pin, by, verified, used, old]; done: history,
             \* PINs written on its word, and on a word not yet verified
  task,      \* the requests
  crowded,   \* history: two requests were past the count of active PINs at once, or
             \* one kept active a row that was made inactive meanwhile
  loose,     \* history: PINs made active with no comparison, or with two at once
  twice,     \* history: resets completed by two requests, or cut short; pins asked twice
  tasks

pinVars == <<pin, reset, task, crowded, loose, twice, tasks>>

Free == [at |-> "idle"]

KeyPinsInit ==
  /\ pin \in FirstPins
  /\ reset = <<>>
  /\ task = [r \in Guards |-> Free]
  /\ crowded = FALSE
  /\ loose = {} /\ twice = {}
  /\ tasks = 0

Task(r, next) ==
  /\ tasks < MaxTasks
  /\ tasks' = tasks + 1
  /\ task' = [task EXCEPT ![r] = next]

TaskTo(r, at) == task' = [task EXCEPT ![r].at = at] /\ UNCHANGED tasks
Finish(r) == task' = [task EXCEPT ![r] = Free] /\ UNCHANGED tasks

KeptPins == {i \in DOMAIN pin : ~pin[i].deleted}
listActive == {i \in KeptPins : pin[i].active}

\* What a request will write: the row (0: a new one), the PIN or NoPin, and
\* whether the row becomes active ("keep": as it is).
Writes(at, i, value, to, activates, k) ==
  [at |-> at, row |-> i, value |-> value, to |-> to, activates |-> activates, reset |-> k]

Pending == {"match", "write"}   \* places where a request still holds a count

Limit == MAX_ACTIVE_PINS

UnderLimit(activates) == activates => Cardinality(listActive) < Limit

Crowds(r, activates) ==
  \/ crowded
  \/ activates /\ \E q \in Guards \ {r} : task[q].at \in Pending /\ task[q].activates

create(r, value, active) ==
  /\ UnderLimit(active)
  /\ Len(pin) < MaxPins
  /\ Task(r, Writes("match", 0, value, IF active THEN "on" ELSE "off", active, 0))
  /\ crowded' = Crowds(r, active)
  /\ UNCHANGED <<pin, reset, loose, twice>>

update(r, i, value, to) ==
  LET activates == to = "on" /\ ~pin[i].active
  IN /\ i \in KeptPins
     /\ UnderLimit(activates)
     /\ Task(r, Writes(IF value = NoPin THEN "write" ELSE "match", i, value, to, activates, 0))
     /\ crowded' = Crowds(r, activates)
     /\ UNCHANGED <<pin, reset, loose, twice>>

\* verifyPlaintext: the first active row with the PIN.
verifyPlaintext(value) ==
  {i \in listActive : pin[i].value = value /\ \A j \in listActive : pin[j].value = value => i <= j}

\* PIN_DUPLICATE
Duplicate(value, own) == verifyPlaintext(value) \ {own} # {}

Match(r) ==
  /\ task[r].at = "match"
  /\ LET value == task[r].value
         other == \E q \in Guards \ {r} : task[q].at = "write" /\ task[q].value = value
     IN IF Duplicate(value, task[r].row)
        THEN Finish(r) /\ UNCHANGED loose
        ELSE TaskTo(r, "write") /\ loose' = IF other THEN loose \cup {value} ELSE loose
  /\ UNCHANGED <<pin, reset, crowded, twice>>

\* changeInline: the current PIN is compared, nothing else is.
changeInline(r, i, value) ==
  /\ i \in KeptPins
  /\ value # pin[i].value
  /\ Task(r, Writes("write", i, value, "keep", FALSE, 0))
  /\ loose' = loose \cup {value}
  /\ UNCHANGED <<pin, reset, crowded, twice>>

\* The row as the request leaves it.
Written(old, t) ==
  [value |-> IF t.value = NoPin THEN old.value ELSE t.value,
   active |-> IF t.to = "keep" THEN old.active ELSE t.to = "on",
   deleted |-> FALSE]

WritePin(r) ==
  /\ task[r].at = "write"
  /\ LET t == task[r]
         i == t.row
     IN /\ i = 0 => Len(pin) < MaxPins
        /\ pin' = IF i = 0 THEN Append(pin, [value |-> t.value, active |-> t.to = "on", deleted |-> FALSE])
                  ELSE IF pin[i].deleted THEN pin ELSE [pin EXCEPT ![i] = Written(@, t)]
        /\ loose' = IF i # 0 /\ t.value = NoPin /\ t.to = "on" THEN loose \cup {pin[i].value} ELSE loose
        /\ crowded' = (crowded \/ (i # 0 /\ t.to = "on" /\ ~t.activates /\ ~pin[i].active))
        /\ reset' = IF t.reset = 0 THEN reset
                    ELSE [reset EXCEPT ![t.reset].done = @ + 1,
                                       ![t.reset].early = @ \/ ~reset[t.reset].verified]
        /\ IF t.reset = 0 THEN Finish(r) ELSE TaskTo(r, "markUsed")
  /\ UNCHANGED twice

remove(r, i) ==
  /\ i \in KeptPins
  /\ Task(r, Free)
  /\ pin' = [pin EXCEPT ![i].deleted = TRUE]
  /\ UNCHANGED <<reset, crowded, loose, twice>>

---------------------------------------------------------------------------
(* Resets: asked for, verified by code or link, completed *)

\* The rates look back as far as a request is good for: fifteen minutes.
RecentResets(asked) == Cardinality({k \in asked : ~reset[k].old})

requestPinReset(r, i, a) ==
  /\ i \in KeptPins
  /\ RecentResets({k \in DOMAIN reset : reset[k].by = a}) < PerAdmin
  /\ RecentResets({k \in DOMAIN reset : reset[k].pin = i}) < PerPin
  /\ Task(r, [at |-> "supersede", row |-> i, by |-> a])
  /\ UNCHANGED <<pin, reset, crowded, loose, twice>>

\* mutant: the code sent last is dropped, the ones before it stay good
MutSuperseded(i) == {k \in DOMAIN reset : reset[k].pin = i /\ k = Len(reset) /\ reset[k].verified}

Superseded(i) == {k \in DOMAIN reset : reset[k].pin = i /\ ~reset[k].used /\ ~reset[k].verified}

invalidatePendingForPin(r) ==
  /\ task[r].at = "supersede"
  /\ LET i == task[r].row
         other == \E q \in Guards \ {r} : task[q].at = "insertReset" /\ task[q].row = i
     IN /\ reset' = [k \in DOMAIN reset |->
                       [reset[k] EXCEPT !.used = @ \/ k \in Superseded(i)]]
        /\ twice' = IF other THEN twice \cup {<<"pin", i>>} ELSE twice
  /\ TaskTo(r, "insertReset")
  /\ UNCHANGED <<pin, crowded, loose>>

createResetRequest(r) ==
  /\ task[r].at = "insertReset"
  /\ Len(reset) < MaxResets
  /\ reset' = Append(reset, [pin |-> task[r].row, by |-> task[r].by, verified |-> FALSE,
                             used |-> FALSE, old |-> FALSE, done |-> 0, early |-> FALSE])
  /\ Finish(r)
  /\ UNCHANGED <<pin, crowded, loose, twice>>

GoodResets == {k \in DOMAIN reset : ~reset[k].used /\ ~reset[k].old}

\* By link any good request is found, by code the newest of the PIN.
verifyReset(r, k, byLink) ==
  /\ k \in GoodResets
  /\ byLink \/ \A j \in GoodResets : reset[j].pin = reset[k].pin => j <= k
  /\ Task(r, [at |-> "markVerified", reset |-> k])
  /\ UNCHANGED <<pin, reset, crowded, loose, twice>>

markVerified(r) ==
  /\ task[r].at = "markVerified"
  /\ reset' = [reset EXCEPT ![task[r].reset].verified = @ \/ ~reset[task[r].reset].used]
  /\ Finish(r)
  /\ UNCHANGED <<pin, crowded, loose, twice>>

MayComplete(k) == ~reset[k].used /\ reset[k].verified /\ ~reset[k].old

Completing(k) == {r \in Guards : task[r].at \in {"write", "markUsed"} /\ task[r].reset = k}

completePinReset(r, k, value) ==
  /\ MayComplete(k)
  /\ reset[k].pin \in KeptPins
  /\ value # pin[reset[k].pin].value
  /\ Task(r, Writes("write", reset[k].pin, value, "keep", FALSE, k))
  /\ loose' = loose \cup {value}
  /\ twice' = IF Completing(k) # {} THEN twice \cup {<<"reset", k>>} ELSE twice
  /\ UNCHANGED <<pin, reset, crowded>>

markUsed(r) ==
  /\ task[r].at = "markUsed"
  /\ reset' = [reset EXCEPT ![task[r].reset].used = TRUE]
  /\ Finish(r)
  /\ UNCHANGED <<pin, crowded, loose, twice>>

ResetAges(k) ==
  /\ ~reset[k].old
  /\ reset' = [reset EXCEPT ![k].old = TRUE]
  /\ UNCHANGED <<pin, task, crowded, loose, twice, tasks>>

\* A statement throws, or the process stops: what was written stays.
TaskFails(r) ==
  /\ twice' = IF task[r].at = "markUsed" THEN twice \cup {<<"reset", task[r].reset>>} ELSE twice
  /\ Finish(r)
  /\ UNCHANGED <<pin, reset, crowded, loose>>

PinCall(r) ==
  \/ \E value \in Pins, active \in BOOLEAN : create(r, value, active)
  \/ \E i \in DOMAIN pin :
       \/ \E value \in Pins \cup {NoPin}, to \in {"on", "off"} : update(r, i, value, to)
       \/ \E value \in Pins : update(r, i, value, "keep") \/ changeInline(r, i, value)
       \/ remove(r, i)
       \/ \E a \in Admins : requestPinReset(r, i, a)
  \/ \E k \in DOMAIN reset : \/ \E byLink \in BOOLEAN : verifyReset(r, k, byLink)
                             \/ \E value \in Pins : completePinReset(r, k, value)

PinWork(r) ==
  \/ Match(r) \/ WritePin(r) \/ invalidatePendingForPin(r) \/ createResetRequest(r)
  \/ markVerified(r) \/ markUsed(r) \/ TaskFails(r)

KeyPinsNext ==
  \/ \E r \in Guards : \/ task[r] = Free /\ PinCall(r)
                       \/ task[r] # Free /\ PinWork(r)
  \/ \E k \in DOMAIN reset : ResetAges(k)

KeyPinsSpec == KeyPinsInit /\ [][KeyPinsNext]_pinVars

---------------------------------------------------------------------------
KeyPinsTypeOK ==
  /\ pin \in Seq([value : Pins, active : BOOLEAN, deleted : BOOLEAN])
  /\ \A k \in DOMAIN reset : reset[k].pin \in DOMAIN pin /\ reset[k].by \in Admins

\* Never more than MAX_ACTIVE_PINS PINs open the doors, unless two requests
\* were past the count at once (key_pins.js:150-168), or one that found its row
\* active, and so did not count, wrote after another had made it inactive.
ActiveIsBounded == ~crowded => Cardinality(listActive) <= MAX_ACTIVE_PINS

\* Two active PINs are the same only when one was made active, changed or
\* reset with no comparison, or two comparisons ran at once.
ActiveIsDistinct ==
  \A i, j \in listActive : i # j /\ pin[i].value = pin[j].value => pin[i].value \in loose

\* A reset request changes its PIN once, and only after it was verified,
\* unless two completions overlapped or one stopped before it marked the
\* request used (key_pin_reset.js:305-312).
ResetsAreSingleUse ==
  \A k \in DOMAIN reset :
    /\ ~reset[k].early
    /\ <<"reset", k>> \notin twice => reset[k].done <= 1

\* At most one code of a PIN waits to be verified ("prevents multiple live
\* OTPs"), unless two requests asked for one at once.
OnePending ==
  \A i \in DOMAIN pin : <<"pin", i>> \notin twice =>
    Cardinality({k \in DOMAIN reset : reset[k].pin = i /\ ~reset[k].used /\ ~reset[k].verified}) <= 1

\* What the PINs that unlock contact data, and their resets, promise.
PinsSound ==
  KeyPinsTypeOK /\ ActiveIsBounded /\ ActiveIsDistinct /\ ResetsAreSingleUse /\ OnePending
===========================================================================
