\* Overlapping calls: two in flight on r1's channel, one on r2's.
SPECIFICATION Spec
CONSTANTS
  r1 = r1  r2 = r2  c1 = c1  c2 = c2  c3 = c3  h0 = h0  h1 = h1  h2 = h2  h3 = h3
  Replica = {r1, r2}
  Owner = r1
  Call = {c1, c2, c3}
  Kind = {"post", "receive"}
  Home <- OverlapHome
  Hash = {h0, h1, h2, h3}
  Root = h0
  Skew <- SkewedClocks
  ParentDelta = 0
  Future = 1
  MaxLeaves = 2
  MaxClock = 0
  None = None
SYMMETRY HashSymmetry
INVARIANTS DagClosed LeavesExact HonestNotBanned
PROPERTY ImplementsDag
CHECK_DEADLOCK FALSE
