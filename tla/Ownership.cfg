SPECIFICATION Spec
CONSTANTS
  p1 = p1
  p2 = p2
  p3 = p3
  c1 = c1
  a = a
  b = b
  r1 = r1
  r2 = r2
  Processes = {p1, p2, p3}
  Clients = {c1}
  Names = {a, b}
  NameOf <- Sessions
  Roots = {r1, r2}
  Layouts <- BothLayouts
  Inodes = {i1, i2}
  None = None
  MaxFaults = 2
INVARIANTS OneWriter BoundStaysReachable EmitReachesItsSession
PROPERTY RefusalsJustified
