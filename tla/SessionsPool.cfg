\* Pools of one, two and four connections, up to three handlers, one failure.
CONSTANTS
  p1 = p1  p2 = p2
  r1 = r1  r2 = r2  r3 = r3
  Persons <- Pair
  Requests <- Trio
  Limits <- OneTwoFour
  Nobody = Nobody
  MaxFailures = 1
SPECIFICATION FairSpec
INVARIANTS ConnectionsReturned CommittedReachesCa FewNeverStarve
PROPERTIES EveryoneEnds
