\* Gifts, deposits and withdrawals around a vault that returns less, the same or more.
SPECIFICATION MCSpec
CONSTANTS
  Amounts = {1, 3}
  Rate = 1
  Scale = 2
  Period = 1
  Prices = {1, 2}
  Funds = 4
  MaxUint64 = 16
  MaxTime = 2
  MaxBatches = 2
  MaxGifts = 1
  MaxUnbooked = 17
  Depositors = {u1, u2}
  Unseen = Unseen
  ChunkSize = 2
  MaxDraws = 2
  MaxBlocks = 3
  MaxShapes = 2
INVARIANTS
  BufferIsWhatIsNotInVault
  YieldFollowsPrincipal
  ListsAreComplete
  AuditIsOfOneDraw
PROPERTIES
  JoinsSpareTheBuffer
CHECK_DEADLOCK FALSE
