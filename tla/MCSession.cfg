SPECIFICATION ClientSpec
CONSTANTS
  k1 = k1
  r1 = r1
  r2 = r2
  Owners = {o1}
  Keys = {k1}
  Others = {r1, r2}
  Tokens = {t1}
  Token = t1
  NoOne = NoOne
  MaxAmount = 3
  MaxTokens = 1
  MaxRecipients = 3
  MaxTime = 1
  Ops = {s1, s2}
  Expiry = 1
  Cap = 1
  Budget = 2
  Listed <- MCListed
  Visible = TRUE
  Amount <- MCAmount
  SendTo = {r1}
  Recipients = {r1, r2}
  GasTarget = 2
  OwnerFunds = {0, 2}
  MaxUpsets = 1
INVARIANT IndexMatchesList
INVARIANT SendsWithinCap
INVARIANT ReportsMatchChain
INVARIANT OpenedKeysLoadable
INVARIANT ReadersAreOpened
PROPERTY ImplementsAllowance
SYMMETRY OpSymmetry
CHECK_DEADLOCK FALSE
