SPECIFICATION FairSpec
CONSTANTS
  Users = {o}
  Owner = o
  Sources = {s1}
  Keys = {k1}
  Workers = {w1}
  Contents = {c1}
  BuildLease = 1
  WorkerLease = 2
  RunLimit = 1
  RunSkew = 0
  Exposed = {}
  MaxVersion = 2
  MaxRevision = 2
  None = None
PROPERTIES SupersededRowsEnd
