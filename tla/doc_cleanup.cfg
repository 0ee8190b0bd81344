SPECIFICATION Spec
CONSTANTS
  chart = chart
  ticker = ticker
  btc = btc
  eth = eth
  Feeds = {chart, ticker}
  Market <- ChartAndTicker
  Markets = {btc, eth}
  Prices = {1, 2}
  Slots = {1, 2}
  None = None
PROPERTIES
  SilentAfterCleanup
