SPECIFICATION Spec
CONSTANTS
  paid = paid
  off = off
  other = other
  twin = twin
  split = split
  fixed = fixed
  None = None
  Sessions = {u1}
  u1 = u1
  u2 = u2
  SharedOperation = FALSE
  Rows <- MCRows
  ReceiptOf <- MCReceiptOf
  OrderOf <- MCOrderOf
  Excluded <- MCExcluded
  Frozen <- MCFrozen
  Amount <- MCAmount
  Baseline = 20
  Tolerance = 2
  InitialRows <- MCInitialRows
  Batches <- MCBatches
PROPERTIES RefusedOnlyIfChanged
