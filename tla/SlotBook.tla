------------------------------ MODULE SlotBook ------------------------------
(***************************************************************************)
(* What the booking service promises, with no database, no requests and no *)
(* Google Calendar: a diary of 15-minute slots.  A booking holds exactly   *)
(* one slot from the moment it is made until it is released, may move to a *)
(* free slot, and once released never comes back.                          *)
(*                                                                         *)
(* It states guarantees 1 and 2 in the header of                           *)
(* src/server/services/crm/appointmentSlots.js and the rule, enforced by   *)
(* its ALREADY_CANCELLED answers, that a cancelled booking is final.       *)
(* Appointments implements this specification.                             *)
(***************************************************************************)
EXTENDS Integers

CONSTANTS
  Ids,     \* the bookings that can ever be made; 0 is not one of them
  Slots    \* the 15-minute buckets

VARIABLES
  holder,   \* holder[s] is the booking that has slot s, or 0
  released  \* the bookings that were given up

bookVars == <<holder, released>>

Held == {i \in Ids : \E s \in Slots : holder[s] = i}

BookInit == /\ holder = [s \in Slots |-> 0]
            /\ released = {}

\* A booking that was never made takes a free slot.
Book(i, s) == /\ holder[s] = 0
              /\ i \notin Held \cup released
              /\ holder' = [holder EXCEPT ![s] = i]
              /\ UNCHANGED released

\* A booking leaves its slot for a free one, in one step.
Move(i, s, t) == /\ holder[s] = i
                 /\ holder[t] = 0
                 /\ holder' = [holder EXCEPT ![s] = 0, ![t] = i]
                 /\ UNCHANGED released

\* A booking gives its slot back for good.
Release(i, s) == /\ holder[s] = i
                 /\ holder' = [holder EXCEPT ![s] = 0]
                 /\ released' = released \cup {i}

BookNext == \E i \in Ids, s \in Slots :
               \/ Book(i, s)
               \/ Release(i, s)
               \/ \E t \in Slots : Move(i, s, t)

BookSpec == BookInit /\ [][BookNext]_bookVars

=============================================================================
