SPECIFICATION Spec
CONSTANTS
  Users = {u1}
  Reqs = {r1, r2}
  None = None
  MaxMem = 3
  MaxVersion = 1
  MaxReceipts = 1
  MaxDepth = 2
  Ops = {"create", "erase"}
CHECK_DEADLOCK FALSE
SYMMETRY Symmetric
PROPERTIES
  ReceiptDescribesErasure
