SPECIFICATION Spec
CONSTANTS
  Threads = {t1, t2, t3}
  Mutexes = {m1}
  Conds = {c1}
  Hosts = {h1, h2, h3}
  NULL = NULL
  MaxDepth = 2
SYMMETRY Symmetry
INVARIANTS
  TypeOK
  OneHostObject
  MutualExclusion
  NoOrphan
PROPERTIES
  WakeupsArrive
  ImplementsPosixSync
