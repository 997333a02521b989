SPECIFICATION Spec
CONSTANTS
  o1 = o1
  o2 = o2
  p1 = p1
  NoTx = NoTx
  NoRow = NoRow
  NoOrder = NoOrder
  Orders <- MCOrders
  Allowances <- MCAllowances
  Operators = {p1}
  BroadcastModes <- OnlyOn
  MaxTransitions = 2
  AllowanceBound = 0
  MaxReplays = 1
  MaxFaults = 1
  MaxNow = 1
  SwapRetryCap = 1
  InitialBackoff = 1
  MaxBackoff = 2
  ReceiptDeadline = 0
SYMMETRY Symmetry
INVARIANTS
  TypeOK
  OneSwapPerOrder
  SentIsRecorded
  FilledIsLanded
  RetriesAreCapped
PROPERTIES
  ImplementsLifecycle
