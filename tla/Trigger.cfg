SPECIFICATION Spec
CONSTANTS
  l1 = l1
  l2 = l2
  eth = eth
  NoLevel = NoLevel
  NoOrder = NoOrder
  NoTick = NoTick
  Nobody = Nobody
  Levels <- MCLevels
  Markets <- MCMarkets
  Terms <- MCTerms
  Prices = {1, 2}
  Stamps = {0, 1}
  Cooldown = 1
  PreflightRetry = 1
  MaxAge = 1
  Skew = 0
  TickChannel = 1
  MaxNow = 2
SYMMETRY Symmetry
INVARIANTS
  TypeOK
  OneLiveOrderPerLevel
  OrdersKeepTheirLevel
PROPERTIES
  ArmedWhenPlaced
