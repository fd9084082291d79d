INIT FleetInit
NEXT FleetNext
VIEW FleetView
SYMMETRY Symmetry
CHECK_DEADLOCK FALSE
CONSTANTS
  a1 = a1 a2 = a2 b1 = b1 b2 = b2
  Parts = {"maintenance", "keys", "release", "bootstrap", "onboarding", "backup", "watchdog",
           "discovery", "loop", "targets"}
  Job = {a1, a2} NoJob = NoJob MaxCuts = 1
  LegacyKey = {a1, a2} NoLegacyKey = NoLegacyKey BatchSize = 2 MaxBreaks = 1
  Release = {a1, a2} NoRelease = NoRelease MaxKills = 3
  Boot = {a1, a2} MaxBootKills = 2
  OnboardJob = {a1, a2} PublicKey = {b1, b2} NoPublicKey = NoPublicKey
  MaxTurns = 2 MaxKicks = 2
  MaxSets = 4 Retention = 2 LastSource = 2 MaxEdits = 1
  LocalCheck = {"disk"} DataCheck = {"dispatch"} MaxCycles = 6 MaxFaults = 2
  Tracked = {name} Ticket = {ticket} Grace = 1 Redemption = 3 LookTime = 1 StaleAfter = 0
  MaxDays = 2 MaxLooks = 2
  Probing = {a1, a2, probe} NoProbing = NoProbing
  Named = {a1, a2, name} RpsWorker = {b1, b2} Priorities = {1, 3} MaxRps = 2
INVARIANTS ShellExcluded LegacyKeysAgree ReleaseSurvives TokenOnce ReadyIsProven LatestIsComplete
  WindowHolds LoopHolds TargetsFit
PROPERTIES AlarmsPair
