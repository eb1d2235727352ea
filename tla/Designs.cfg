CONSTANTS
  Jobs = {j1, j2}
  Workers = {w1, w2}
  None = None
  Delays <- MCDelays
  MaxTime = 3
  TicksPerMs = 2
  s1 = s1  s2 = s2
  Seats <- TwoSeats
  Users = {u1, u2, u3}
  Requests <- Overlapping
  ConfirmLimit = 1
  Gates = {g1, g2}
  Spots = {1, 2}
  VehicleTypes = {"car", "bus"}
  Fits <- MCFits
  MaxTickets = 3
  NoSpot = NoSpot
  Carriers = {k1, k2}
  Customers = {h1, h2}
  Compartments = {1, 2}
  Codes = {n1, n2}
  Sizes = {"small", "big"}
  SizeOf <- MCSizeOf
  MaxParcels = 2
  NoToken = NoToken
  Threads = {d1, d2}
  Messages = {"m", "copy"}
  Keys = {"event"}
  KeyOf <- MCKeyOf
  MaxAttempts = 2
  NoMessage = NoMessage
  Calls = {x1, x2}
  Carts = {"b1", "b2"}
  OrderKeys = {y1, y2}
  Products = {"p", "q"}
  LinesOf <- MCLines
  StockOf <- MCStock
  MaxCalls = 3
  MaxFailures = 2
  Withdrawals = {1, 2}
  AmountOf <- MCAmounts
  Denominations <- MCDenominations
  NotesAtFirst <- MCNotes
  MaxExecutions = 2
  Cars = {e1, e2}
  TopFloor = 2
  Buttons <- MCButtons
  Prices <- MCPrices
  Quantities = {1, 2}
  MaxOrders = 3
  NoOrder = NoOrder
  Requesters = {r1, r2}
  MaxRequests = 2
  Window = 2
  LastTime = 5
  CacheKeys = {a, b, c, d}
  Capacity = 2
  HeadNode = HeadNode
  TailNode = TailNode
  Null = Null
  LfuKeys = {a, b, c, d}
  LfuCapacity = 3
  MaxFrequency = 3
  Levels = {0, 1, 2}
  LoggerLevel = 1
  SinkLevels <- MCSinkLevels
  QueueCapacity = 2
  MaxRecords = 5
SPECIFICATION DesignsSpec
CHECK_DEADLOCK FALSE
INVARIANTS
  HeapSorted NoMissedWakeup
  OneClaimant BookingKept
  OneOwnerPerSpot
  SentTwiceOnlyIfUnsure
  StockAccounted
  AccountMatchesNotes
  AtMostOneReversal
  PriceTimePriority NeverCrossed
  ListIsRecency
  EverySinkGetsTheLog
PROPERTIES
  CodeOpensItsParcel
  ShutdownReleases
  QueuedIsReported
  LimitIsExact
  EvictsLeastFrequent
