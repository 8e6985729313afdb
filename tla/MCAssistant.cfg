SPECIFICATION DeploymentSpec
CONSTANTS
  c1 = c1
  c2 = c2
  Calls = {c1, c2}
  Keys = {k1, k2}
  Instances = {i1, i2}
  Called = {"open_session", "add_recipient", "mint", "wrap", "balance", "session_status", "send", "pool_deposit", "revoke_all"}
  None = None
  MaxRestarts = 1
  Processes = {p1, p2}
  VaultKeys <- MCVaultKeys
  DefaultDir = default
  OwnDir = own
  OtherServers = {other}
  Store = libsecret
  NoKey <- MCNoKey
  MaxTroubles = 2
  Budgets <- MCBudgets
  CoarseBucket = 4
  Figures = {2, 4, 6}
  Upper = 16
  MaxProbes = 3
  Slots = {s1, s2}
  MaxHeld = 1
  MaxSends = 2
INVARIANT ReferencesNameOneValue
INVARIANT KeyKeptOnlyByFailure
INVARIANT AnswersAreHonest
INVARIANT ClearKeysHaveReasons
INVARIANT ClosedIsRefused
INVARIANT PageTokenIsOpened
INVARIANT LossesAreTheKnownOnes
INVARIANT AnswersHideAndHold
PROPERTY EveryPromptEnds
CHECK_DEADLOCK FALSE
