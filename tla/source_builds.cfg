SPECIFICATION FairSpec
CONSTANTS
  Pollers = {p1}
  Hooks = {h1}
  Consoles = {k1}
  Builds = {b1, b2}
  Grace = 1
  Window = 2
  Backstop = 2
  BuildLimit = 1
  Interval = 1
  MaxHead = 2
  MaxMishaps = 2
  None = None
INVARIANTS
  TypeOK
  BuiltSucceeded
PROPERTIES
  HeadIsBuilt
  ClaimsEnd
