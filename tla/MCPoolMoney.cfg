\* Books, prizes, fees: a short reserve, a short pot, no source.
SPECIFICATION MoneyRun
CONSTANTS
  u1 = u1
  u2 = u2
  Users = {u1, u2}
  Keeper = keeper
  Pool = pool
  Sources = {}
  NoSource = none
  MaxUint64 = 8
  Tiers = {0, 1}
  TierTables = {}
  KeeperFees = {}
  Rand = {0, 1}
  Keccak <- MCKeccak
  OrderKey <- MCOrderKey
  MinPeriod = 1
  CancelAfter = 1
  LivenessRate = 1
  LivenessCap = 1
  SolvencyCover = 1
  FeeShareDivisor = 2
  TierChangeInterval = 2
  MaxPrizeMultiple = 2
  SourceOperatorWindow = 2
  Supply = 1
  Amounts = {1, 2}
  MaxTime = 3
  MaxDraws = 2
  MaxObservations = 3
  MinGaps = 1
  RecentMax = 2
INVARIANTS
  BooksBalance
  WeightsSumToTotal
  OnlyStakersWin
  HistoryMatchesCredit
PROPERTIES
  ReserveBuysOnlyPrizes
CHECK_DEADLOCK FALSE
