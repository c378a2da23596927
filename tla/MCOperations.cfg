CONSTANTS
    v1 = v1  v2 = v2
    t1 = t1  t2 = t2  u1 = u1  u2 = u2  c1 = c1
    s1 = s1  e1 = e1  a1 = a1  a2 = a2  none = none
    l1 = l1  l2 = l2  letter = letter  newline = newline  bearer = bearer  marker = marker
    Clients = {c1}
    Formats = {"structured", "sse", "ndjson"}
    MaxRows = 3
    MaxDrops = 2
    Buffer = 1
    Batch = 2
SPECIFICATION OpsSpec
SYMMETRY SameServers
INVARIANTS
    
    NoSecretPublished
    
PROPERTIES
    
    FiredOnce
CHECK_DEADLOCK FALSE
