SPECIFICATION MCSpec
CONSTANTS
  ann = ann
  ben = ben
  pool = pool
  silo = silo
  repo = repo
  User = {ann, ben}
  Source = {pool, silo, repo}
  Key = {k1, k2, k3}
  Call = {q1, q2}
  kind <- MCkind
  siloOf <- MCsiloOf
  MaxActiveKeys = 1
  MaxCalls = 3
  MaxFaults = 1
  None = None
INVARIANTS
  SharedSourceCounted
  CountNeverOverstates
  RecordedServiceRuns
  ActiveKeysBounded
  OffboardedIsPowerless
  NothingAbandoned
SYMMETRY Symmetry
CONSTRAINT OneSource
CHECK_DEADLOCK FALSE
