\* Three handlers, on one worker or on two; one failure or crash.
CONSTANTS
  r1 = r1  r2 = r2  r3 = r3  w1 = w1  w2 = w2
  LoginCodes = {k1}
  Nonces = {n2, n3}
  AdminNonces = {n3}
  CsrNonces = {n2, n3}
  Nothing = Nothing
  Requests = {r1, r2, r3}
  Workers = {w1, w2}
  Deployments <- OneOrTwo
  MaxFailures = 1
SPECIFICATION FairSpec
INVARIANT GrantedIsSpent
PROPERTIES NonceSpec CodeSpec SpentIsGranted
\* Once every token is spent each request is refused without a change of state.
CHECK_DEADLOCK FALSE
