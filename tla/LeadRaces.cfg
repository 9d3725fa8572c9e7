\* Two status changes race on one lead, with bookings and one failure.
SPECIFICATION LeadSpec
CONSTANTS
  Requests = {r1, r2}
  NoRequest = NoRequest
  Enquiries = {e1}
  NoEnquiry = NoEnquiry
  MaxAppts = 1
  MaxSlot = 2
  MaxEvents = 1
  BatchSize = 1
  Ops = {"status"}
  MaxIssued = 2
  MaxFaults = 1
  Fields = {"status", "lead_rating"}
  Values = {"new", "closed_won"}
  Cleared = Cleared
  Keep = Keep
  Closed = {"closed_won"}
SYMMETRY Symmetry
INVARIANTS TimelineExplainsLead
