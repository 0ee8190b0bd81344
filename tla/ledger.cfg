SPECIFICATION Spec
CONSTANTS
  One = 100
  alice = alice
  bob = bob
  Addrs = {alice, bob}
  FeePool = FeePool
  InsuranceFund = InsuranceFund
  Charges <- OddAndEvenCharges
  Payments <- PaymentsBothWays
  MaxBalance = 8
INVARIANTS
  BalancesNonNegative
  LedgerConserves
