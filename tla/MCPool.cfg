\* Windows and weights over cancelled draws; an owner's settings and sources.
SPECIFICATION PoolRun
CONSTANTS
  u1 = u1
  u2 = u2
  Users = {u1, u2}
  Keeper = keeper
  Pool = pool
  Sources = {s1, s2}
  NoSource = none
  MaxUint64 = 8
  Tiers = {0, 1}
  TierTables <- MCTables
  KeeperFees = {1}
  Rand = {0}
  Keccak <- MCKeccak
  OrderKey <- MCOrderKey
  MinPeriod = 1
  CancelAfter = 1
  LivenessRate = 1
  LivenessCap = 1
  SolvencyCover = 1
  FeeShareDivisor = 2
  TierChangeInterval = 1
  MaxPrizeMultiple = 2
  SourceOperatorWindow = 0
  Supply = 1
  Amounts = {1}
  MaxTime = 4
  MaxDraws = 3
  MaxObservations = 2
  MinGaps = 1
  RecentMax = 2
INVARIANTS
  Inductive
  CacheIsTransparent
  ScreensAgreeWithPool
  NeverOverbooked
  OnlyBoundSourceMayPull
PROPERTIES
  WeightsAreFrozen
  RoundsSpec
  EntitlementMovesWithMoney
CHECK_DEADLOCK FALSE
