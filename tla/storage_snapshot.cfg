CONSTANTS
  w1 = w1
  w2 = w2
  w3 = w3
  i1 = i1
  i2 = i2
  Workers = {w1, w2}
  Ids = {i1}
  MaxRev = 3
  Isolation = "RepeatableRead"
  MayRun <- AnyOp
  NullRevision = FALSE
SPECIFICATION Spec
INVARIANTS
  TypeOK
  OneRowPerItem
  OneUpdatePerRevision
  DeletedIsGone
  ReadsOneVersion
PROPERTY ImplementsStore
