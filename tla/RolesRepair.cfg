\* Two handlers and two tasks for one person, on one worker or on two, and a failure.
CONSTANTS
  r1 = r1  r2 = r2  t1 = t1  t2 = t2  w1 = w1  w2 = w2
  Persons = {p1}
  NullExtra = {p1}
  Nobody = Nobody
  Requests = {r1, r2, t1, t2}
  Tasks = {t1, t2}
  Workers = {w1, w2}
  Deployments <- OneOrTwo
  MaxRows = 2
  MaxFailures = 1
SPECIFICATION FairSpec
INVARIANTS RowPerWorker SyncRepairs
PROPERTIES RemovedStaysRemoved KcCatchesUp
\* Once every person is deleted each request is refused.
CHECK_DEADLOCK FALSE
