SPECIFICATION Spec
CONSTANTS
  eth = eth
  alice = alice
  bob = bob
  Unit = 100
  Mmr = 3
  Imr = 5
  TakerFee = 1
  Addresses = {alice, bob}
  NoAddress = NoAddress
  MaxPending = 2
  DemoModes = {TRUE, FALSE}
  Symbols = {eth}
  FirstSymbol = eth
  Quotes <- MCQuotes
  MockPrice <- MCPrice
  MaxLeverage <- MCLeverage
  MockPositions <- ShortPosition
  OrderTypes = {"limit", "market"}
  MockOpenOrders <- RestingOrder
  NaN = NaN
  Undefined = Undefined
  MaxOrders = 2
  ChartViews = {"price"}
  Sides = {"long"}
  ExecModes = {"low-latency"}
  TypedPrices = {NaN}
  TypedSizes = {1}
  NoSize = NoSize
  DefaultLeverage = 10
  Leverages = {10}
  BankBalance <- MCBank
  MaxRequests = 2
  AssetNames = {"BTC", "USDC"}
  Assets <- MockAssets
  TypedAmounts = {1}
  QuickAmounts = {1}
  NoAmount = NoAmount
  MaxDeposited = 2
  MaxEntering = 1
INVARIANTS
  FrontendTypeOK
  NoDeadForm
  FrontendInv
  FiguresAgree
PROPERTIES
  NoSilentFailure
  TransfersAreAtomic
  FiguresFollowTransfers
