\* Two dispatches overlap; a reschedule, a cancel and a failure; time cannot pass
\* without a dispatch.
SPECIFICATION Spec
CONSTANTS
  Bookings = {1}
  Dispatchers = {worker, cron}
  LeadA = 4
  LeadB = 3
  Limit = 1
  Horizon = 5
  MaxMoves = 1
  MaxFaults = 1
  Timely = TRUE
SYMMETRY Symmetry
INVARIANTS ReminderAtMostOnce OneKindPerInstant NoCallUnreminded
