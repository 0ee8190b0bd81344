SPECIFICATION LiquidatorSpec
CONSTANTS
  alice = alice
  bob = bob
  btc = btc
  eth = eth
  NoEntry = NoEntry
  Blank = Blank
  CodecBuild = "protoc"
  One = 100
  Markets = {btc, eth}
  Addrs = {alice, bob}
  FundingInterval = 100
  MaxFundingRate = 75
  Dust = 300
  MaintenanceMarginRatio = 3
  LiquidationPenaltyMin = 2
  PartialLiquidationRate = 50
  InitialMarginRatio = 5
  AuthorizedMatcher = alice
  Uint64 = 4
  Amounts = {140}
  Prices = {60}
  FundingMarks = {}
  Batches <- CrossBatches
  Senders = {alice}
  MaxDeposit = 140
  MaxBatches = 2
  MaxIndex = 0
  MaxEntered = 0
  WordSize = 1073741824
  Calls = {}
INVARIANTS
  FullyBacked
  StoresInv
PROPERTIES
  ScanChargesTotalPenalty
  LiquidationClears
