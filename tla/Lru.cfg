\* Three keys whose nodes are freed and used again, up to seven uses.
SPECIFICATION Spec
CONSTANTS
  k1 = k1
  k2 = k2
  k3 = k3
  n1 = n1
  n2 = n2
  n3 = n3
  Keys = {k1, k2, k3}
  Nodes = {n1, n2, n3}
  Counts = {0, 1, 2, 4}
  MaxClock = 7
SYMMETRY Symmetry
INVARIANTS
  MapMatchesList
  ListIsRecencyOrder
PROPERTIES
  VictimsAreOldest
  MovesAsRecencyList
