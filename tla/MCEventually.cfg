CONSTANTS
    p1 = p1  i1 = i1  e1 = e1  v1 = v1  u1 = u1  t1 = t1  c1 = c1  a1 = a1  d1 = d1  none = none
SPECIFICATION FairSpec
PROPERTIES
    SilenceEnds
    DueIsHandled
    ReviewEnds
    
CHECK_DEADLOCK FALSE
