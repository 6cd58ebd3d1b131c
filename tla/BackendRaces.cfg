\* CFSSL: a person and a product, two locked answers, a failure.
\* cert-manager: two CNs with one slug, two keys, two calls at a time, three in all.
CONSTANTS
  alice = alice  tak = tak  cn1 = cn1  cn2 = cn2  slug = slug
  Persons = {alice}
  Products = {tak}
  MaxLocked = 2
  MaxFailures = 1
  CNs = {cn1, cn2}
  Slugs = {slug}
  SlugOf <- AlikeSlugs
  NoCN = NoCN
  Keys = {k1, k2}
  Signers = {s1, s2}
  NoCsr = NoCsr
  MaxCalls = 3
  MaxDenied = 1
SPECIFICATION FairSpec
INVARIANTS RetrySignsOnce KnownBeforeTold AnswerIsForCN AnswersAgree
PROPERTY DeletedIsRevoked
CHECK_DEADLOCK FALSE
