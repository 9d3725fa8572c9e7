------------------------------ MODULE MCAccess ------------------------------
(***************************************************************************)
(* Who may do what, side by side: accounts and their one-time codes,       *)
(* sessions, key PINs, the idempotency keys of the routes behind them, and *)
(* the link to Google Calendar.                                            *)
(* Each behaviour follows one of the components, which share no state.     *)
(***************************************************************************)
EXTENDS Accounts, Sessions, KeyPins, Idempotency, CalendarLink, TLC

CONSTANTS p, q

VARIABLE door

MCFirstPins ==
  {<<>>, <<[value |-> p, active |-> TRUE, deleted |-> FALSE],
           [value |-> q, active |-> FALSE, deleted |-> FALSE]>>}

AccessInit ==
  /\ door \in {"accounts", "sessions", "pins", "keys", "calendar"}
  /\ AccountsInit /\ SessionsInit /\ IdempotencyInit /\ LinkInit
  /\ IF door = "pins" THEN KeyPinsInit ELSE KeyPinsInit /\ pin = <<>>

AccessNext ==
  /\ UNCHANGED door
  /\ \/ door = "accounts" /\ AccountsNext /\ UNCHANGED <<sessionVars, pinVars, idemVars, linkVars>>
     \/ door = "sessions" /\ SessionsNext /\ UNCHANGED <<accountVars, pinVars, idemVars, linkVars>>
     \/ door = "pins" /\ KeyPinsNext /\ UNCHANGED <<accountVars, sessionVars, idemVars, linkVars>>
     \/ door = "keys" /\ IdempotencyNext /\ UNCHANGED <<accountVars, sessionVars, pinVars, linkVars>>
     \/ door = "calendar" /\ LinkNext
        /\ UNCHANGED <<accountVars, sessionVars, pinVars, idemVars>>

AccessSpec == AccessInit /\ [][AccessNext]_<<door, accountVars, sessionVars, pinVars, idemVars, linkVars>>

\* Requests, mobiles and PINs are interchangeable.
Symmetry == Permutations(Patrons) \cup Permutations(Mobiles)

-----------------------------------------------------------------------------
\* What a person was granted once is used once and ends when it is taken back:
\* refresh tokens of a session, and the grant that links the calendar.
GrantsSound ==
  /\ door = "sessions" => SessionsSound
  /\ door = "calendar" => LinkSound
=============================================================================
