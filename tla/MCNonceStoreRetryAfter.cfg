SPECIFICATION MCFreeSpec
CONSTANTS
  c1 = c1
  c2 = c2
  n1 = n1
  n2 = n2
  n3 = n3
  v1 = v1
  v2 = v2
  NoRecord = NoRecord
  Callers <- MCTwoCallers
  Nonces <- MCNonces
  Verifiers <- MCOneVerifier
  NumShards = 2
  ShardOf <- MCOneNonceEach
  Capacity = 1
  CompactSlack = 0
  Ttls <- MCShortTtls
  MaxTime = 1
  MaxIssues = 2
  Never = 9
INVARIANTS
  RetryAfterNeverLate
