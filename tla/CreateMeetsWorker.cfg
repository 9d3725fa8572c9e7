\* The worker ticks while a booking is on its way to Google.
SPECIFICATION Spec
CONSTANTS
  Requests = {r1}
  NoRequest = NoRequest
  Enquiries = {e1}
  NoEnquiry = NoEnquiry
  MaxAppts = 1
  MaxSlot = 1
  MaxEvents = 3
  BatchSize = 1
  Ops = {"create", "worker"}
  MaxIssued = 1
  MaxFaults = 0
INVARIANTS OneLiveEvent
