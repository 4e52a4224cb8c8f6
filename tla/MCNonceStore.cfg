SPECIFICATION MCSpec
CONSTANTS
  c1 = c1
  c2 = c2
  n1 = n1
  n2 = n2
  n3 = n3
  v1 = v1
  v2 = v2
  NoRecord = NoRecord
  Callers <- MCTwoCallers
  Nonces <- MCThreeNonces
  Verifiers <- MCTwoVerifiers
  NumShards = 2
  ShardOf <- MCTwoInOne
  Capacity = 2
  CompactSlack = 0
  Ttls <- MCThisSecondOrLong
  MaxTime = 1
  MaxIssues = 2
  Never = 9
SYMMETRY MCSymmetry
INVARIANTS
  StoreInv
  CapacityBound
  SingleUse
PROPERTY
  ImplementsLedger
