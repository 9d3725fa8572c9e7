SPECIFICATION DeskSpec
CONSTANTS
  Agreed = {p1, p2}
  LastDay = 2
  EndDays = {1, 16, 31}
  None = None
  Blank = Blank
  PropertyTypes = {"land-sale", "flat-resale", "land-lease"}
  Units = {"acre"}
  Areas = {Blank, 3}
  Rates = {Blank, 33}
  Amounts = {Blank, 101}
  Percents = {Blank, 18}
  ManualLines = {"paperNotice"}
  MaxSaves = 2
  Absent = Absent
  Feet = {1, 10}
  MasterCodes = {c1, c2}
  MaxSubmits = 2
  FormLeaves <- MCForms
  UnitForms <- MCUnits
  DeniedKeys = {"ownerName", "contact"}
  PropertyFiles = {f1}
  MaxShares = 1
  Savers = {s1, s2}
  Mailers = {l1, l2}
  MaxConfigs = 2
  MaxEmailSaves = 2
  MaxMails = 2
  Notifiers = {l1}
  NoticeTimes = {0, 719, 720, 1439, 2885}
  LeadTimes = {1, 60, 90, 1440}
  Editors = {e1, e2}
  MaxUploads = 2
  Quota = 2
  NoFile = 0
  Clerks = {k1, k2}
  Batches <- MCBatches
  NoEmail = "none"
  BadMobile = "bad"
  Labels = {"r and d", "rnd", "vendor"}
  NoLabel = "none"
  Codes = {"r-and-d", "vendor", "old"}
  CodeOf <- MCCodeOf
  FirstMaster <- MCFirstMaster
  FirstBook <- MCFirstBook
  MaxContacts = 4
  MaxOrders = 2
  Keys = {"inventory_management", "inventory_properties", "crm_management"}
  MaxNow = 2
  TokenLife = 1
  MaxEdits = 1
  FirstGrants <- MCFirstGrants
  NoAnswer = NoAnswer
  Callers = {q1, q2, q3, q4}
  Bookers = {q1, q2}
  Limit = 3
  Stock = {1, 2, 3, 4}
  Missing = Missing
  Firsts <- MCFirsts
  Arrivals <- MCArrivals
  Filters <- MCFilters
  PerPage = 2
  ExportSize = 3
  SimilarLimit = 2
  Elsewhere = {0, 1}
  MaxChanges = 1
  MaxReads = 1
  Ticks = {0, 287, 1110}
  Wishes = {360, 605, 614, 1439, 1440}
  Meetings <- MCMeetings
  MaxBooked = 2
  LandClerks = {d1, d2}
  LandForms <- MCLandForms
  NoFigure = NoFigure
  LandPageSize = 1
  MaxLandRows = 2
  MaxLandCalls = 3
  Asked = {"asha", "n1", "n3", "e1", "broker"}
  Digits = {"n1", "n3"}
  Empty = ""
  FirstBooks <- MCFirstBooks
  NewRecords <- MCNewRecords
  PerSourceCap = 2
  ShowLimit = 3
  MaxLookups = 1
  MaxSaved = 2
INVARIANTS
  RequestsSound
  FiguresSound
  ListsSound
  FormsSound
  MailsSound
  StoreSound
  ContactsSound
PROPERTIES
  EveryoneServed
CHECK_DEADLOCK FALSE
