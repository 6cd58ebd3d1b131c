\* Three handlers, on one worker or each on its own.
CONSTANTS
  r1 = r1  r2 = r2  r3 = r3  w1 = w1  w2 = w2  w3 = w3
  InviteCodes = {k1}
  Callsigns = {c1, c2, c3}
  NoPool = NoPool
  Requests = {r1, r2, r3}
  Workers = {w1, w2, w3}
  Deployments <- OneOrThree
  MaxFailures = 1
SPECIFICATION PoolSpec
INVARIANT LateOnePerWorker
PROPERTY PoolsAreFinal
