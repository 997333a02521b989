SPECIFICATION Spec
CONSTANTS
  eth = eth
  NoTask = NoTask
  NoPrice = NoPrice
  Pairs = {eth}
  Slots = {1, 2}
  Prices = {0, 2}
  max_move_bps = 5000
  QueueBound = 1
INVARIANTS
  QuotesAreValid
