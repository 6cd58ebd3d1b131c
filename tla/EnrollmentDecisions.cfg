\* One callsign, three handlers on two workers, a replaced approvecode; nothing fails.
CONSTANTS
  c1 = c1  c2 = c2  c3 = c3  r1 = r1  r2 = r2  r3 = r3  w1 = w1  w2 = w2
  Callsigns = {c1}
  Fold <- Distinct
  ProductCNs = {}
  ServiceCN = service
  Admins = {a1}
  Nobody = Nobody
  Requests = {r1, r2, r3}
  Workers = {w1, w2}
  Deployments <- Two
  MaxFailures = 0
  MaxResets = 1
SPECIFICATION FairSpec
INVARIANTS ApprovedHasCertificate DecisionIsAttributed
PROPERTIES InsertedIsReferenced FoundCertificateIsRevoked
