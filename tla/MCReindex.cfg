SPECIFICATION FairBesideSpec
CONSTANTS
    Users = {u1, u2}
    Reqs = {r1, r2}
    None = None
    MaxMem = 3
    MaxVersion = 2
    MaxReceipts = 1
    MaxDepth = 2
    Ops = {"create", "update", "delete", "agent_delete", "erase"}
    Solo = u1
    Beside = r1
    PageSize = 1
    MaxRetries = 1
    Batches = {{1, 2}}
CHECK_DEADLOCK FALSE
INVARIANTS
    ReindexMakesWhole
PROPERTIES
    ReindexEnds
