SPECIFICATION FairSpec
CONSTANTS
  Traders = {t1, t2, t3}
  Builder = Builder
  NoOne = NoOne
  Markets = {btc}
  NoOrder = NoOrder
  Prices = {1, 2}
  Sizes = {1, 2}
INVARIANTS
  TypeOK
  QuantityConserved
  FlowInv
PROPERTIES
  FilledInArrivalOrder
  EveryOrderProcessed
