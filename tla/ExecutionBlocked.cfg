SPECIFICATION Spec
CONSTANTS
  o1 = o1
  o2 = o2
  p1 = p1
  NoTx = NoTx
  NoRow = NoRow
  NoOrder = NoOrder
  Orders = {o1}
  Allowances <- MCAllowances
  Operators = {p1}
  BroadcastModes <- OffAndOn
  MaxTransitions = 3
  AllowanceBound = 2
  MaxReplays = 0
  MaxFaults = 2
  MaxNow = 30
  SwapRetryCap = 2
  InitialBackoff = 1
  MaxBackoff = 2
  ReceiptDeadline = 1
INVARIANTS
  SentIsRecorded
