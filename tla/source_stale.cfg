SPECIFICATION Spec
CONSTANTS
  Pollers = {p1}
  Hooks = {h1}
  Consoles = {}
  Builds = {b1, b2}
  Grace = 1
  Window = 2
  Backstop = 2
  BuildLimit = 1
  Interval = 1
  MaxHead = 2
  MaxMishaps = 1
  None = None
PROPERTY StaleEventsIgnored
SYMMETRY Symmetry
