\* Two callsigns, two requests on one worker or on two, two failures or crashes.
CONSTANTS
  c1 = c1  c2 = c2  q1 = q1  r1 = r1  r2 = r2  w1 = w1  w2 = w2
  Callsigns = {c1, c2}
  AnonAdmin = anon_admin
  Products = {q1}
  Nobody = Nobody
  Requests = {r1, r2}
  Workers = {w1, w2}
  Deployments <- OneOrTwo
  MaxFailures = 2
SPECIFICATION FairSpec
INVARIANTS CodeMeansAdmin NothingHalfDone CreatedBeforePromoted
PROPERTY EnrolledIsAnnounced
