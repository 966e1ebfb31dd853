SPECIFICATION Spec
CONSTANTS
  t1 = t1
  t2 = t2
  k1 = k1
  Threads = {t1, t2}
  Keys = {k1}
  TagKeys = {k1}
  Ttl = 2
  MaxClock = 2
  MaxVersion = 2
SYMMETRY Symmetric
INVARIANTS
  VisibleAtOnce
