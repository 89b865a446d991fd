SPECIFICATION Spec
CONSTANTS
  t1 = t1  t2 = t2
  f = f  g = g  o = o  p = p  q = q  k = k  z = z
  Threads = {t1, t2}
  Lifted = {f, g}
  Overridden = {o}
  Plt = {p, q}
  Unbound = {q}
  Tokens = {k}
  Nowhere = {z}
  Arity <- MCArity
  Passed <- MCPassed
  Words = {1, 2}
  RETURN = RETURN
  NULL = NULL
  Permissive = FALSE
  DepthLimit = 2
  StackSize = 5
SYMMETRY Symmetry
INVARIANTS DispatchSound StackBalanced
PROPERTY ImplementsCallStack
CHECK_DEADLOCK FALSE
