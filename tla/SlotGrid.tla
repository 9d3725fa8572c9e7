------------------------------- MODULE SlotGrid -------------------------------
(***************************************************************************)
(* The slots an admin is offered, and those a booking accepts              *)
(* (crm/appointmentSlots.js, with the times of db/queries/appointments.js  *)
(* and of the event crm/googleCalendar.js writes).  Times are minutes: of  *)
(* Indian wall clock for slots and their keys, UTC for Google.             *)
(***************************************************************************)
EXTENDS Integers, FiniteSets, FiniteSetsExt

CONSTANTS Ticks,      \* UTC minutes at which the grid is looked at
          Wishes,     \* wall-clock minutes asked for
          Meetings,   \* events others may have in the calendar
          MaxBooked   \* bound on the bookings

\* Minutes are counted from a day before the first; an event is from when to when.
ASSUME GridAssumption ==
  /\ Ticks \subseteq Nat /\ Ticks # {} /\ Wishes \subseteq Nat
  /\ \A e \in Meetings : e.from \in Int /\ e.to \in Int

VARIABLES utcNow,
          bookings,   \* active_slot_key of the active appointments
          calendar,   \* events of the linked calendar, [from, to]
          calendarUp  \* the calendar is linked and answers

gridVars == <<utcNow, bookings, calendar, calendarUp>>

IstOffset == 330
DayLength == 1440
SlotLength == 15
DurationMinutes == 30

\* parseAndFloorIstWallClock, and the same floor in createAppointment
floorToSlot(m) == m - (m % SlotLength)

nowSlotKey == floorToSlot(utcNow + IstOffset)
todayIst == nowSlotKey \div DayLength

MutIsSlotKeyInPastIst(key) == key < nowSlotKey   \* a mutant: the slot that runs is no past
isSlotKeyInPastIst(key) == key <= nowSlotKey

\* SLOT_HOUR_START to SLOT_HOUR_END
buildDayGrid == {h * 60 + m : h \in 6..23, m \in {0, 15, 30, 45}}

\* freebusy.query: what overlaps the window; nothing if Google does not answer
busyIn(from, to) == IF calendarUp THEN {e \in calendar : e.from < to /\ e.to > from} ELSE {}

checkGoogleCalendarBusy(key) ==
  busyIn(key - IstOffset, key + DurationMinutes - IstOffset) # {}

\* The window ends with the day
listGoogleBusyForDate(day) ==
  busyIn(day * DayLength - IstOffset, (day + 1) * DayLength - IstOffset)

slotOverlapsBusy(key, busy) ==
  \E e \in busy : key - IstOffset < e.to /\ key - IstOffset + DurationMinutes > e.from

\* listAvailableSlots: the slots offered for a day
Offered(day) ==
  LET busy == listGoogleBusyForDate(day)
  IN {s \in buildDayGrid :
        LET key == day * DayLength + s
        IN /\ ~(day < todayIst \/ (day = todayIst /\ key <= nowSlotKey))
           /\ key \notin bookings
           /\ ~slotOverlapsBusy(key, busy)}

\* -1 for none
findNextAvailableSlot(key) ==
  LET day == key \div DayLength
      later == {s \in Offered(day) : key % DayLength \in buildDayGrid => s > key % DayLength}
  IN IF later = {} THEN -1 ELSE day * DayLength + Min(later)

\* createAppointment: what is refused, and what is offered instead
Refused(key) == isSlotKeyInPastIst(key) \/ checkGoogleCalendarBusy(key) \/ key \in bookings

buildEventBody(key) == [from |-> key - IstOffset, to |-> key - IstOffset + DurationMinutes]

-----------------------------------------------------------------------------
GridInit ==
  /\ utcNow = Min(Ticks)
  /\ bookings = {} /\ calendar = {} /\ calendarUp \in BOOLEAN

\* A booking and its event; if Google does not answer the event waits for the
\* sync worker
Book ==
  \E w \in Wishes :
    LET key == floorToSlot(w) IN
    /\ Cardinality(bookings) < MaxBooked
    /\ ~Refused(key)
    /\ bookings' = bookings \cup {key}
    /\ calendar' = IF calendarUp THEN calendar \cup {buildEventBody(key)} ELSE calendar
    /\ UNCHANGED <<utcNow, calendarUp>>

Unbook ==
  \E key \in bookings :
    /\ bookings' = bookings \ {key}
    /\ calendar' = IF calendarUp THEN calendar \ {buildEventBody(key)} ELSE calendar
    /\ UNCHANGED <<utcNow, calendarUp>>

\* The owner of the calendar enters an event of his own
Meet ==
  /\ \E e \in Meetings \ calendar : calendar' = calendar \cup {e}
  /\ UNCHANGED <<utcNow, bookings, calendarUp>>

LinkOrUnlink ==
  /\ calendarUp' = ~calendarUp
  /\ UNCHANGED <<utcNow, bookings, calendar>>

Tick ==
  /\ \E t \in Ticks : t > utcNow /\ utcNow' = t
  /\ UNCHANGED <<bookings, calendar, calendarUp>>

GridNext == Book \/ Unbook \/ Meet \/ LinkOrUnlink \/ Tick

-----------------------------------------------------------------------------
\* The grid of an office day offers the slots a booking would accept now, and
\* no others, although it reads the calendar by the day, in UTC, and a booking
\* by its half hour; only the last slot may be refused, for an event after
\* midnight.  Any time in a quarter books that quarter; and a refusal names the
\* first slot after it that is still offered, on its day.
GridSound ==
  \A day \in {t \div DayLength : t \in Wishes} :
    LET accepted == {s \in buildDayGrid : ~Refused(day * DayLength + s)}
        last == DayLength - SlotLength
        offered == Offered(day)
    IN /\ accepted \subseteq offered
       /\ offered \subseteq accepted \cup {last}
       /\ (last \in offered \ accepted) =>
            \E e \in calendar : e.from < (day + 1) * DayLength + SlotLength - IstOffset
                                /\ e.from >= (day + 1) * DayLength - IstOffset
       /\ \A w \in Wishes :
            LET key == floorToSlot(w)
                next == findNextAvailableSlot(key)
            IN /\ w - key \in 0..(SlotLength - 1)
               /\ (key \div DayLength = day /\ Refused(key)) =>
                    IF next = -1 THEN \A s \in offered : s <= key % DayLength
                    ELSE next > key /\ next - day * DayLength \in offered
=============================================================================
