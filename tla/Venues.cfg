SPECIFICATION Spec
CONSTANTS
  Places = 2
  Bps = 20
  MaxDecimals = 2
  U256 = 256
  SupportedChains <- MCSupportedChains
  PricedChains <- MCPricedChains
  MaxTtl = 2
  None = None
  Mantissa = 32
  MaxExponent = 16
  PriceUnit = 2
  R = 4
  U128 = 256
  U64 = 64
  FEE_RATE_DENOMINATOR = 10
  MIN_SQRT_PRICE = 2
  MAX_SQRT_PRICE = 9
  TickPrice <- MCTickPrice
  CoinDecimals <- MCCoinDecimals
  PoolStates <- MCPoolStates
  MAX_TICKS_FETCHED = 4
  TickPage = 2
  CoinPage = 2
  MaxMoves = 1
  Multiple = 2520
  Wallet = "wallet"
  Proxy = "proxy"
  Native = "native"
  ApiOuts <- MCApiOuts
  MinPoolTvl = 10
  Unlimited = 300
  OtherAmounts <- MCOtherAmounts
  MaxSpends = 1
  PairPrice <- MCPairPrice
  IndexStates <- MCIndexStates
  MARKET_HOURS = 2
  TICK_PAGE_SIZE = 2
  MaxBlocks = 1
  CetusCases <- MCCetusCases
  UniswapCases <- MCUniswapCases
  ChartCases <- MCChartCases
INVARIANTS
  TypeOK
  GuardedOrder
  PlanIsTheLevels
  QuoteIsThePools
  RefusalIsTrue
  PointsAreTrue
PROPERTIES
  SignedIsThePlan
CHECK_DEADLOCK FALSE
