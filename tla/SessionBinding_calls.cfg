CONSTANTS
  c1 = c1
  c2 = c2
  a1 = a1
  a2 = a2
  Connections = {c1, c2}
  Agents = {a1, a2}
  Projects = {p1}
  Calls = {x, y}
  Callers <- MCCallers
  NoProject = NoProject
  NoTransport = NoTransport
  NoAgent = NoAgent
  MaxCalls = 2
  MaxEnds = 1
  MaxFaults = 1
  MaxRestarts = 1
SPECIFICATION Spec
INVARIANTS TypeOK AskedOnly Revoked
PROPERTIES KeepsSession TeardownSpares
SYMMETRY MCSymmetry
CHECK_DEADLOCK FALSE
