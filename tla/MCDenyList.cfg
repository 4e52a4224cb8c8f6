SPECIFICATION Spec
CONSTANTS
  c1 = c1
  c2 = c2
  i1 = i1
  i2 = i2
  i3 = i3
  Absent = Absent
  NoOne = NoOne
  Callers <- MCCallers
  Ids <- MCIds
  NumShards = 2
  ShardOf <- MCShardOf
  Capacity = 1
  Windows <- MCWindows
  MaxTime = 1
INVARIANTS
  RecordsFreshId
  ListKept
PROPERTY
  CallsReturn
