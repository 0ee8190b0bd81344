SPECIFICATION Spec
CONSTANTS
  alice = alice
  bob = bob
  btc = btc
  eth = eth
  NoEntry = NoEntry
  Blank = Blank
  CodecBuild = "protoc"
  One = 100
  Markets = {btc}
  Addrs = {alice, bob}
  FundingInterval = 100
  MaxFundingRate = 75
  Dust = 200
  MaintenanceMarginRatio = 3
  LiquidationPenaltyMin = 2
  PartialLiquidationRate = 50
  InitialMarginRatio = 5
  AuthorizedMatcher = alice
  Uint64 = 4
  Amounts = {150}
  Prices = {100}
  FundingMarks = {50, 160}
  Batches <- FundedBatches
  Senders = {alice}
  MaxDeposit = 150
  MaxBatches = 2
  MaxIndex = 125
  MaxEntered = 0
  WordSize = 1073741824
  Calls = {}
INVARIANTS
  LongsPayShorts
