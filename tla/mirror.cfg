CONSTANTS
  w1 = w1
  w2 = w2
  i1 = i1
  i2 = i2
  l1 = l1
  l2 = l2
  Workers = {w1, w2}
  Ids = {i1}
  Listeners = {l1}
  MaxRev = 2
  MaxChange = 3
  Settings <- Following
  Replacements <- AnyFollowing
  MayFail = TRUE
SPECIFICATION FairMirrorSpec
INVARIANT
  MirrorCurrent
PROPERTY Converges
