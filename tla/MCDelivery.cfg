CONSTANTS
    q1 = q1  q2 = q2  r1 = r1  r2 = r2  r3 = r3  k1 = k1
    c1 = c1  c2 = c2  d1 = d1  d2 = d2  none = none
    Request <- FewRequests
    Edit = {}
    Deployment = {d1, d2}
    MaxRestarts = 1
SPECIFICATION DeliverySpec
SYMMETRY SamePair
CONSTRAINT KeyBound
INVARIANTS
    
    SucceededIsVerified
PROPERTIES
    OneVersion
    
    AppliesApproved
CHECK_DEADLOCK FALSE
