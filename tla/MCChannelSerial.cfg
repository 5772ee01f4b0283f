\* One call at a time per channel: the order the caches are written for.
SPECIFICATION Spec
CONSTANTS
  r1 = r1  r2 = r2  c1 = c1  c2 = c2  c3 = c3  h0 = h0  h1 = h1  h2 = h2  h3 = h3
  Replica = {r1, r2}
  Owner = r1
  Call = {c1, c2}
  Kind = {"post", "receive", "query", "count"}
  Home <- SerialHome
  Hash = {h0, h1, h2, h3}
  Root = h0
  Skew <- SkewedClocks
  ParentDelta = 1
  Future = 1
  MaxLeaves = 2
  MaxClock = 1
  None = None
SYMMETRY HashSymmetry
INVARIANTS SequentialPosts QueryCoversLeaves IncomingOnce NoInternalError CacheCoherent
CHECK_DEADLOCK FALSE
