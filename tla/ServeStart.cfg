SPECIFICATION Spec
CONSTANTS
  s1 = s1  s2 = s2
  p1 = p1
  Servers = {s1, s2}
  Ports = {p1}
  PortOf <- MCPortOf
  Versions = {"v1", "v2"}
  Installed = "v1"
  MaxStarts = 3
  MaxWrites = 1
INVARIANTS OneServerPerPort HealthTellsLoaded
PROPERTIES PortGoesToOneWhoAsks StartEnds
CHECK_DEADLOCK FALSE
