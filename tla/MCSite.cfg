SPECIFICATION Spec
CONSTANTS
  alice = alice
  bob = bob
  Nobody = Nobody
  Unread = Unread
  Hidden = Hidden
  Accounts <- MCAccounts
  Opening <- MCOpening
  KeyAccount = alice
  Reconnected = alice
  Typed <- MCTyped
  Signed <- MCSigned
  Amounts <- MCAmounts
  Faucet = 1
  Ceiling = 2
  Attempts = 2
  MaxSteps = 4
INVARIANT FiguresAreCurrent
INVARIANT PressedMeansMoved
PROPERTY ToolRefusalsAreKnown
PROPERTY RequestsKeptUntilPaid
CHECK_DEADLOCK FALSE
