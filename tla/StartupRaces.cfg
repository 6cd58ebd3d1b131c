\* Three workers, two failures or crashes.
CONSTANTS
  w1 = w1  w2 = w2  w3 = w3
  Workers <- Trio
  Sources <- Both
  Nobody = Nobody
  MaxFailures = 2
SPECIFICATION FairSpec
INVARIANTS FilesMatch
PROPERTIES KeysAreFinal RestartsRecover
\* Every worker is up and has its client certificate.
CHECK_DEADLOCK FALSE
