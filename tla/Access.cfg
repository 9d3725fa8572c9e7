SPECIFICATION AccessSpec
CONSTANTS
  Patrons = {r1, r2}
  MaxTries = 2
  Minute = 1
  Ttl = 2
  Hour = 3
  PerMinute = 1
  PerHour = 2
  MaxCodes = 3
  MaxVisits = 4
  Mobiles = {m1, m2}
  NoMobile = NoMobile
  Emails = {e1, e2}
  NoEmail = NoEmail
  StaffMail = {s1}
  MaxSellers = 2
  Subjects = {s1}
  Visitors = {r1, r2}
  MaxTokens = 4
  MaxLives = 2
  MaxKnocks = 5
  p = p
  q = q
  Pins = {p, q}
  NoPin = NoPin
  FirstPins <- MCFirstPins
  Admins = {a1}
  Guards = {r1, r2}
  MAX_ACTIVE_PINS = 2
  PerAdmin = 2
  PerPin = 2
  MaxPins = 3
  MaxResets = 2
  MaxTasks = 4
  Askers = {r1, r2}
  MaxAsks = 4
  Tabs = {t1, t2}
  Pushers = {u1}
  StateTtl = 0
  AccessLife = 2
  Buffer = 1
  MaxConnects = 2
  MaxGrants = 2
  MaxPushes = 2
  MaxHour = 2
SYMMETRY Symmetry
INVARIANTS
  AccountsSound
  GrantsSound
  PinsSound
  OneEffectPerKey
CHECK_DEADLOCK FALSE
