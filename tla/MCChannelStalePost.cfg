\* Two posts overlap on one channel, then a third starts.
SPECIFICATION Spec
CONSTANTS
  r1 = r1  r2 = r2  c1 = c1  c2 = c2  c3 = c3  h0 = h0  h1 = h1  h2 = h2  h3 = h3
  Replica = {r1, r2}
  Owner = r1
  Call = {c1, c2, c3}
  Kind = {"post"}
  Home <- OverlapHome
  Hash = {h0, h1, h2, h3}
  Root = h0
  Skew <- SkewedClocks
  ParentDelta = 1
  Future = 1
  MaxLeaves = 2
  MaxClock = 0
  None = None
SYMMETRY HashSymmetry
INVARIANT SequentialPosts
CHECK_DEADLOCK FALSE
