SPECIFICATION Spec
CONSTANTS
  Users = {o, e}
  Owner = o
  Sources = {s1}
  Keys = {k1}
  Workers = {w1}
  Contents = {c1}
  BuildLease = 1
  WorkerLease = 2
  RunLimit = 1
  RunSkew = 0
  Exposed = {e}
  MaxVersion = 1
  MaxRevision = 2
  None = None
INVARIANTS TypeOK
PROPERTIES ActivationIsCurrent
