SPECIFICATION Spec
CONSTANTS
  Users = {o}
  Owner = o
  Sources = {s1}
  Keys = {k1, k2}
  Workers = {w1, w2}
  Contents = {c1, c2}
  BuildLease = 1
  WorkerLease = 2
  RunLimit = 1
  RunSkew = 0
  Exposed = {}
  MaxVersion = 1
  MaxRevision = 1
  None = None
SYMMETRY Symmetry
INVARIANTS OneExecutionPerBuild ActivePointerSound
PROPERTIES LedgerRowsClose
