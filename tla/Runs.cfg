SPECIFICATION RunsSpec
CONSTANTS
  Names = {n1, n2}
  Sids = {s1}
  Paths = {}
  Terminals = {}
  NoSid = NoSid
  NoTerminal = NoTerminal
  Kinds <- AllKinds
  Stored <- AllStates
  MaxRestored = 1
  MaxRuns = 2
  Kept = {a, b, c}
  Age = 1
  MaxDay = 4
  MaxBatches = 4
  named = named
  found = found
  l1 = l1
  l2 = l2
  Logs = {l1, l2}
  RunIds = {named, found}
  Nobody = Nobody
  MaxTokens = 2
  MaxLedgerSteps = 2
  EventIds = {e1, e2}
  NoRecord = NoRecord
  MaxDrains = 2
  MaxLost = 1
  MaxRetries = 1
SYMMETRY Interchangeable
PROPERTIES OutcomeStands
INVARIANTS RetentionSparesTheLiving MeasuredOnce LiveMatchesColdRestore
