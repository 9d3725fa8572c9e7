\* Handlers, the Retry button and the sync worker write the same rows while a call
\* fails and the calendar is disconnected for a while; with fairness.
SPECIFICATION FairSpec
CONSTANTS
  Requests = {r1, r2}
  NoRequest = NoRequest
  Enquiries = {e1}
  NoEnquiry = NoEnquiry
  MaxAppts = 2
  MaxSlot = 2
  MaxEvents = 7
  BatchSize = 2
  Ops = {"create", "edit", "cancel", "retry", "worker", "link", "clock"}
  MaxIssued = 2
  MaxFaults = 1
INVARIANTS EventBelongsToRow LocksMatchTx
PROPERTIES EventuallySynced
