CONSTANTS
  top = top
  mid = mid
  leaf = leaf
  twin = twin
  t1 = t1
  m1 = m1
  l1 = l1
  l2 = l2
  k1 = k1
  none = none
  nothing = nothing
  Surfaces = {top, mid, leaf, twin}
  Root = top
  Parents <- Above
  BuffersOf <- LeafBuffers
  AttachAlways = FALSE
  Destroys = {"applied"}
  DetachedDesync = FALSE
  MaxRoles = 3
  ChainRoles = 2
  MaxRequests = 6
SYMMETRY BuffersSymmetric
VIEW WithoutFrame
SPECIFICATION MCSpec
PROPERTIES
  CommitsKept
