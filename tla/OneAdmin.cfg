\* One request at a time books, moves, cancels and closes; no failure; with fairness.
SPECIFICATION LeadFairSpec
CONSTANTS
  Requests = {r1}
  NoRequest = NoRequest
  Enquiries = {e1}
  NoEnquiry = NoEnquiry
  MaxAppts = 2
  MaxSlot = 3
  MaxEvents = 4
  BatchSize = 1
  Ops = {"create", "edit", "cancel", "status"}
  MaxIssued = 4
  MaxFaults = 0
  Fields = {"status"}
  Values = {"new", "closed_won"}
  Cleared = Cleared
  Keep = Keep
  Closed = {"closed_won"}
INVARIANTS CalendarAgrees
PROPERTIES ClosingReleasesSlot
