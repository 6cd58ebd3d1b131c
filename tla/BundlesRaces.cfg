\* One worker with two requests and a background task, and a command line.
CONSTANTS
  c1 = c1
  r1 = r1  r2 = r2  r3 = r3
  t1 = t1  t2 = t2
  w1 = w1  w2 = w2
  Callsigns <- One
  Requests <- Three
  Tasks <- Two
  Workers <- Both
  Console <- Shell
  Home <- HomeOf
  Nobody = Nobody
  MaxFailures = 2
SPECIFICATION FairSpec
INVARIANTS ServedIsThere HalfIsBeingFilled
PROPERTIES SettledStays CertifiedGetsBundle
