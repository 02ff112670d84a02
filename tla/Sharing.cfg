SPECIFICATION Spec
CONSTANTS
  t1 = t1
  t2 = t2
  m1 = m1
  m2 = m2
  m3 = m3
  s1 = s1
  s2 = s2
  c1 = c1
  c2 = c2
  p1 = p1
  p2 = p2
  Threads = {t1, t2}
  None = None
  Lockers <- MCLockers
  Ptrs <- MCPtrs
  MaxNodes <- MCMaxNodes
  MaxVersion <- MCMaxVersion
  MaxLocks <- MCMaxLocks
  MaxHolds <- MCMaxHolds
  Modes <- MCModes
  Forgotten <- MCForgotten
  Requests = {2, 3, 5}
  Memory = 10
  Page = 2
  ChunkPages = 2
  kMaxLevel = 5
  MaxRandom = 2
  Objects = {x1, x2}
  Codes = {"ok", "internal"}
  Messages = {None, msg}
  NoMessage = None
  Payloads = {payload}
  NoPayload = no_payload
  Reps = {m1, m2, m3}
  Values = {1, 2}
  Default = 1
  Addresses <- MCAddresses
  Savers <- MCSavers
  MaxChanges <- MCMaxChanges
  Words = {w1, w2}
  MaxWrites = 2
  Cords <- MCCords
  Profilers <- MCProfilers
  Infos = {1, 2}
  CordReps = {1, 2}
  Samples = {m1, m2, m3}
  graveyard_ = graveyard
  max_samples_ = 1
INVARIANTS
  DeadlocksReported
  ArenaIsSound
  CountsAreHolders
  FlagsAreSound
  CordzIsSound
  RecorderIsSound
PROPERTIES
  ImplementsAcyclicGraph
  ImplementsStatusValue
VIEW View
CHECK_DEADLOCK FALSE
