\* A status change dies after its booking is committed.
SPECIFICATION LeadSpec
CONSTANTS
  Requests = {r1}
  NoRequest = NoRequest
  Enquiries = {e1}
  NoEnquiry = NoEnquiry
  MaxAppts = 1
  MaxSlot = 1
  MaxEvents = 1
  BatchSize = 1
  Ops = {"status"}
  MaxIssued = 1
  MaxFaults = 1
  Fields = {"status", "lead_rating"}
  Values = {"new", "closed_won"}
  Cleared = Cleared
  Keep = Keep
  Closed = {"closed_won"}
PROPERTIES NoHalfAppliedChange
