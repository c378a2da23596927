CONSTANTS
    q1 = q1  q2 = q2
    i1 = i1  i2 = i2  e1 = e1  e2 = e2
    u1 = u1  u2 = u2  s1 = s1  s3 = s3  t1 = t1  x1 = x1  x2 = x2  c1 = c1  none = none
SPECIFICATION Spec
SYMMETRY SamePair

    
PROPERTIES
    AccountsHold
    
    
    PairingHolds
CHECK_DEADLOCK FALSE
