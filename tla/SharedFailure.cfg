CONSTANTS
    t1 = t1  t2 = t2
    NoRequest = NoRequest
    Threads = {t1, t2}
    Kinds = {"event"}
    Pres <- MCPres
    Posts <- MCPosts
    AfterHandlers = 2
    MaxRows = 2
SPECIFICATION Spec
SYMMETRY Symmetric
INVARIANTS
    ReasonIsOwn
CHECK_DEADLOCK FALSE
