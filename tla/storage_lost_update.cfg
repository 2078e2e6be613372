CONSTANTS
  w1 = w1
  w2 = w2
  w3 = w3
  i1 = i1
  i2 = i2
  Workers = {w1, w2}
  Ids = {i1}
  MaxRev = 3
  Isolation = "ReadCommitted"
  MayRun <- PutOps
  NullRevision = FALSE
SPECIFICATION Spec
INVARIANT OneUpdatePerRevision
