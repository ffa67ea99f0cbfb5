SPECIFICATION FairSpec
CONSTANTS
  Users = {u1}
  Reqs = {r1, r2}
  None = None
  MaxMem = 2
  MaxVersion = 2
  MaxReceipts = 1
  MaxDepth = 2
  Ops = {"create", "update", "delete", "agent_delete", "erase"}
CHECK_DEADLOCK FALSE
PROPERTIES
  RequestsReturn
