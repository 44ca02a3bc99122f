\* Two CPUs shape one client's packets in both directions while it is added twice
\* and its profile changes.
SPECIFICATION Spec
CONSTANTS
  None = None
  Dir = {"up", "down"}  CPU = {c1, c2}  Elem = {e1, e2}  Watched = e1
  Len = {2}  Rate = {0, 1}  Scale = 1  Horizon = 2
  MaxTime = 1  MaxQueue = 0
INVARIANTS TypeOK BacklogBounded RateConforms
PROPERTIES DeparturesInOrder ImplementsPacer
SYMMETRY CpuSymmetry
