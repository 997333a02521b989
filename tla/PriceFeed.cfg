SPECIFICATION LiveSpec
CONSTANTS
  eth = eth
  NoTask = NoTask
  NoPrice = NoPrice
  Pairs = {eth}
  Slots = {1, 2}
  Prices = {0, 2, 3, 4}
  max_move_bps = 5000
  QueueBound = 1
INVARIANTS
  TypeOK
  OneSubscription
  FeedsShowTheirPump
PROPERTIES
  ShownMovesArePlausible
  NeededIsWatched
