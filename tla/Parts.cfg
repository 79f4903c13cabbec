SPECIFICATION PartsSpec
CONSTANTS
  NewLine = NewLine
  Return = Return
  OtherBytes = {x}
  TailChunk = 2
  MaxRecord = 1
  MaxBytes = 4
  MaxFiles = 2
  root = root
  sub = sub
  codex = codex
  Roots = {root}
  Subagents = {sub}
  ParentOf <- Parent
  Rollouts = {codex}
  Grace = 1
  Inactivity = 2
  BufferCapacity = 4
  MaxSource = 2
  MaxRecords = 3
  ClaudeRecords = 2
  parent = parent
  child = child
  p1 = p1
  p2 = p2
  Entities = {parent, child}
  Depth <- DepthOf
  Slots = {"upsert"}
  Paths = {p1, p2}
  TimeOf <- Times12
  Goalposts <- Firsts
  NoEvent = NoEvent
  EntityCapacity = 1
  SampleLimit = 1
  EgressCapacity = 1
  TaskRuns = {p, q}
  MaxTime = 1
  MaxEvidence = 2
  MaxOutages = 1
  first = first
  second = second
  third = third
  t1 = t1
  t2 = t2
  w1 = w1
  w2 = w2
  Launches = {first, second, third}
  HomeOf <- Homes
  PaneIds = {w1, w2, w3}
  OwnerRetries = 1
  Nowhere = Nowhere
  MaxMoves = 2
  ControlCapacity = 1
  EventCapacity = 1
  MaxFound = 1
  MaxChanges = 1
  MaxTargetSets = 1
  MaxDrains = 1
  MaxBulk = 1
  MaxTroubles = 1
CHECK_DEADLOCK FALSE
PROPERTY TailImplementsFeed
INVARIANT CoalescedTruthfully
INVARIANT ToldAgrees
PROPERTY LaneSettles
PROPERTY LifecycleKeepsNewest
INVARIANT RestartShowsTheSame
INVARIANT FocusReachesOwner
INVARIANT StopIsClean
PROPERTY ThreadKeepsUp
