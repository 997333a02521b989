SPECIFICATION Spec
CONSTANTS
  o1 = o1
  o2 = o2
  p1 = p1
  NoTx = NoTx
  NoRow = NoRow
  NoOrder = NoOrder
  Orders <- MCOrders
  Allowances <- MCAllowances
  Operators = {p1}
  BroadcastModes <- OnlyOn
  MaxTransitions = 12
  AllowanceBound = 0
  MaxReplays = 0
  MaxFaults = 0
  MaxNow = 30
  SwapRetryCap = 1
  InitialBackoff = 1
  MaxBackoff = 2
  ReceiptDeadline = 1
INVARIANTS
  NoncesStayUnique
