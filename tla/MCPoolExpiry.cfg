\* A bound source whose operator right runs out.
SPECIFICATION Spec
CONSTANTS
  u1 = u1
  u2 = u2
  Users = {u1}
  Keeper = keeper
  Pool = pool
  Sources = {s1, s2}
  NoSource = none
  MaxUint64 = 8
  Tiers = {0, 1}
  TierTables = {}
  KeeperFees = {}
  Rand = {0}
  Keccak <- MCKeccak
  OrderKey <- MCOrderKey
  MinPeriod = 1
  CancelAfter = 1
  LivenessRate = 1
  LivenessCap = 1
  SolvencyCover = 1
  FeeShareDivisor = 2
  TierChangeInterval = 1
  MaxPrizeMultiple = 2
  SourceOperatorWindow = 1
  Supply = 1
  Amounts = {1}
  MaxTime = 3
  MaxDraws = 1
  MaxObservations = 2
  MinGaps = 1
  RecentMax = 2
INVARIANTS
  BoundSourceMayPull
CHECK_DEADLOCK FALSE
