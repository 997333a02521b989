SPECIFICATION LiveSpec
CONSTANTS
  Strategies <- MCStrategies
  Levels <- MCLevels
  Markets <- MCMarkets
  Seeds <- MCSeeds
  DEFAULT_ORDER_LIMIT = 1
  MaxStarts = 2
  MaxEdits = 1
  None = None
INVARIANTS
  TypeOK
  SelectionIsListed
  PaneIsTrue
PROPERTIES
  Reconnects
  ChartCatchesUp
CHECK_DEADLOCK FALSE
