\* Three creations on two workers, two products, one failure or crash.
CONSTANTS
  c1 = c1  c2 = c2  c3 = c3  w1 = w1  w2 = w2  tak = tak  bl = bl
  Products <- Two
  Requests = {c1, c2, c3}
  AnonAdmin = anon_admin
  Workers = {w1, w2}
  Deployments <- Shared
  MaxFailures = 1
SPECIFICATION GroupsFairSpec
INVARIANTS MemberOfAll NotAllRefused
PROPERTIES GroupsGetMade
\* Every creation ends.
CHECK_DEADLOCK FALSE
