\* Two descriptors share a bucket and one has its own; every client may leave.
CONSTANTS
  Keys = {k1, k2, k3}
  Conns = {c1, c2}
  Buckets = {b1, b2}
  Bucket <- OnePair
  Chunks = {n1, n2, n3, n4}
  NULL = NULL
  Wild = Wild
  Scribbles = {Wild}
  NoKey = NoKey
  NoConn = NoConn
  k1 = k1
  k2 = k2
  k3 = k3
  k4 = k4
  b1 = b1
  b2 = b2
SPECIFICATION FairSpec
INVARIANT TypeOK
PROPERTIES Implements CallsEnd
CHECK_DEADLOCK FALSE
