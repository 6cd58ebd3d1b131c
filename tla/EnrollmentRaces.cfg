\* Two spellings of one callsign and a product's CN, one worker or two, one failure or crash.
CONSTANTS
  c1 = c1  c2 = c2  c3 = c3  r1 = r1  r2 = r2  r3 = r3  w1 = w1  w2 = w2
  Callsigns = {c1, c2, c3}
  Fold <- Variants
  ProductCNs = {c3}
  ServiceCN = service
  Admins = {a1}
  Nobody = Nobody
  Requests = {r1, r2}
  Workers = {w1, w2}
  Deployments <- OneOrTwo
  MaxFailures = 1
  MaxResets = 0
SPECIFICATION Spec
INVARIANTS SignedOnce ValidIsLive
PROPERTY AccountSpec
