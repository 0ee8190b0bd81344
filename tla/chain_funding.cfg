SPECIFICATION Spec
CONSTANTS
  alice = alice
  bob = bob
  btc = btc
  eth = eth
  NoEntry = NoEntry
  Blank = Blank
  CodecBuild = "protoc"
  One = 100
  Markets = {btc}
  Addrs = {alice, bob}
  FundingInterval = 100
  MaxFundingRate = 50
  Dust = 300
  MaintenanceMarginRatio = 3
  LiquidationPenaltyMin = 2
  PartialLiquidationRate = 50
  InitialMarginRatio = 5
  AuthorizedMatcher = alice
  Uint64 = 4
  Amounts = {80}
  Prices = {100}
  FundingMarks = {50, 150}
  Batches <- FundedBatches
  Senders = {alice}
  MaxDeposit = 80
  MaxBatches = 1
  MaxIndex = 50
  MaxEntered = 0
  WordSize = 1073741824
  Calls = {}
PROPERTIES
  FundingRoundBalances
