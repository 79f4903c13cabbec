SPECIFICATION Spec
CONSTANTS
  Names = {n1}
  Sids = {s1, s2}
  Paths = {p1}
  Terminals = {t1, t2}
  NoSid = NoSid
  NoTerminal = NoTerminal
  Kinds = {"dispatch", "task_started"}
  Stored = {"Running", "Blocked", "EndedUnknown"}
  MaxRestored = 1
  MaxRuns = 3
SYMMETRY Interchangeable
INVARIANTS IdentitiesSound
PROPERTIES NeverSplit InferredEndSound
