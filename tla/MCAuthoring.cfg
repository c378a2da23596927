CONSTANTS
    q1 = q1  q2 = q2
    u1 = u1  u2 = u2  p1 = p1  p2 = p2  l1 = l1  n1 = n1  e1 = e1  e2 = e2  a1 = a1  a2 = a2  none = none
SPECIFICATION Spec
SYMMETRY SameRequests
PROPERTIES
    
    
    CreatedAsReviewed
    StagingHolds
CHECK_DEADLOCK FALSE
