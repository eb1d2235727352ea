CONSTANTS
  Carriers = {k1, k2}
  Customers = {h1}
  Compartments = {1, 2}
  Codes = {n1, n2}
  Sizes = {"small"}
  SizeOf <- OneSize
  MaxParcels = 2
  NoToken = NoToken
SPECIFICATION LockerSpec
CHECK_DEADLOCK FALSE
INVARIANTS HandedOutEmpty
