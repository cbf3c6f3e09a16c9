SPECIFICATION Spec
CONSTANTS
  Workers = {w1, w2, w3}
  Limit = 2
  Window = 2
  Faults = {"call"}
PROPERTIES
  WindowEnds
