\* A booking is moved between the scan and the claim.
SPECIFICATION Spec
CONSTANTS
  Bookings = {1}
  Dispatchers = {worker}
  LeadA = 3
  LeadB = 1
  Limit = 1
  Horizon = 3
  MaxMoves = 1
  MaxFaults = 0
  Timely = FALSE
INVARIANTS StampMeansThisTime
