SPECIFICATION ClientsSpec
CONSTANTS
  chart = chart
  ticker = ticker
  btc = btc
  eth = eth
  Feeds = {chart, ticker}
  Market <- ChartAndTicker
  Markets = {btc, eth}
  Prices = {1, 2}
  Slots = {1, 2}
  None = None
  alice = alice
  bob = bob
  Addresses = {alice, bob}
  NoAddress = NoAddress
  BankBalance <- MCBank
  MaxRequests = 2
INVARIANTS
  OneConnection
  FeedInv
PROPERTIES
  FeedReconnects
  EquityCatchesUp
