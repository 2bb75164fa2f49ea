\* Two pairs of descriptors that share a bucket, and every client may leave.
CONSTANTS
  Keys = {k1, k2, k3, k4}
  Conns = {c1}
  Buckets = {b1, b2}
  Bucket <- TwoPairs
  Chunks = {n1, n2, n3, n4, n5}
  NULL = NULL
  Wild = Wild
  Scribbles = {}
  NoKey = NoKey
  NoConn = NoConn
  k1 = k1
  k2 = k2
  k3 = k3
  k4 = k4
  b1 = b1
  b2 = b2
SPECIFICATION FairSpec
PROPERTY EveryCallEnds
CHECK_DEADLOCK FALSE
