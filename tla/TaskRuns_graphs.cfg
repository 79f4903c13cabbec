SPECIFICATION Spec
CONSTANTS
  Names = {n1, n2, n3}
  Sids = {s1}
  Paths = {}
  Terminals = {t1}
  NoSid = NoSid
  NoTerminal = NoTerminal
  Kinds = {"dispatch", "depends_on"}
  Stored = {"Running"}
  MaxRestored = 0
  MaxRuns = 3
SYMMETRY Interchangeable
INVARIANTS GraphsSound
