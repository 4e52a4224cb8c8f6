SPECIFICATION Spec
CONSTANTS
  t1 = t1
  t2 = t2
  A = A
  B = B
  j = j
  None = None
  Tasks <- MCTasks
  Issuers <- MCIssuers
  Producers <- MCProducers
  Advertises <- MCAdvertises
  Tokens <- MCTokens
  IssuerOf <- MCIssuerOf
  Ahead <- MCAhead
  FailModes <- MCClosed
  MaxStaleness = 1
  CacheTtl = 1
  SnapshotTtl = 2
  Refresh = 2
  MaxTime = 3
INVARIANT
  FreshWhenUsed
