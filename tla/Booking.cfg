\* Two requests race over three slots and two enquiries; no failures, no worker.
SPECIFICATION Spec
CONSTANTS
  Requests = {r1, r2}
  NoRequest = NoRequest
  Enquiries = {e1, e2}
  NoEnquiry = NoEnquiry
  MaxAppts = 2
  MaxSlot = 3
  MaxEvents = 4
  BatchSize = 2
  Ops = {"create", "edit", "cancel"}
  MaxIssued = 4
  MaxFaults = 0
SYMMETRY Symmetry
INVARIANTS TypeOK SlotExclusive HistoryReplaysRow MailTellsHistory ReadUnderLock
PROPERTIES CancelledIsFinal ImplementsDiary
