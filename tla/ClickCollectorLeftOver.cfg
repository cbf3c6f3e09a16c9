SPECIFICATION Spec
CONSTANTS
  Handlers = {h1, h2}
  ChanCap = 2
  BatchSize = 2
  MaxClicks = 5
INVARIANTS
  GracefulExitKeepsClicks
