INIT CustomersInit
NEXT CustomersNext
VIEW CustomersView
SYMMETRY Symmetry
CHECK_DEADLOCK FALSE
CONSTANTS
  a1 = a1 a2 = a2 b1 = b1 b2 = b2 c1 = c1 c2 = c2
  Asker = {a1, a2} Person = {b1, b2} AccessKey = {c1, c2} NoKey = NoKey NoUpdate = NoUpdate
  Link = {link} Place = {place} Update = {update} MaxRoom = 2 MaxTokens = 2
  Launch = {launch} Attempt = {attempt} Visit = {a1, a2} Session = {b1, b2} NoVisit = NoVisit
  LaunchDate = 1 MaxClock = 7 LaunchAge = 2 LaunchSkew = 1
  ClaimLife = 5 AttemptLife = 3 SessionLife = 4 Patience = 1
  Notified = {key} Teller = {a1, a2} ClaimTime = 1 SendTime = 1 RecordTime = 1
  StaleClaim = 4 Backoff = 2 MaxMoments = 8 MaxStalled = 1
  ReadyPoint = {a1, a2} MaxTarget = 1 HealthAge = 1 MaxMinutes = 2 MaxUpsetsToday = 2
INVARIANTS AccessOnce SignInOnce DisabledStaysOut NoticeOnce
PROPERTIES PlacedWithinLimit OpenedOnTruth
