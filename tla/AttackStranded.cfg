SPECIFICATION AttackSpec
CONSTANTS
  Worker = {w1, w2}
  Runs = 1
  Run <- MCRun
  MaxRows = 1
  MaxCalls = 2
  MaxUpsets = 1
  MaxOverruns = 1
  MaxInFlight = 1
  Confirmations = 2
  NoTask = NoTask
INVARIANTS RunningIsPolled
