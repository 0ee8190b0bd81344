SPECIFICATION Spec
CONSTANTS
  alice = alice
  bob = bob
  btc = btc
  eth = eth
  NoEntry = NoEntry
  Blank = Blank
  CodecBuild = "protoc"
  One = 100
  Markets = {btc}
  Addrs = {alice, bob}
  FundingInterval = 100
  MaxFundingRate = 75
  Dust = 200
  MaintenanceMarginRatio = 3
  LiquidationPenaltyMin = 2
  PartialLiquidationRate = 50
  InitialMarginRatio = 5
  AuthorizedMatcher = alice
  Uint64 = 4
  Amounts = {60}
  Prices = {50, 100}
  FundingMarks = {}
  Batches <- TradingBatches
  Senders = {alice}
  MaxDeposit = 120
  MaxBatches = 2
  MaxIndex = 0
  MaxEntered = 400
  WordSize = 1073741824
  Calls <- EvmCalls
INVARIANTS
  TypeOK
  InductiveInv
  NonNegativeCollateral
  BackedByDeposits
  OpenInterestBalanced
  StoresInv
PROPERTIES
  WithdrawKeepsMargin
  TradeKeepsPnL
  OnlyTradesGrowPositions
  SettlesAtomically
