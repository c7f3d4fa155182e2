SPECIFICATION IdSpec
CONSTANTS
  Caller = {a, b}
  Node = 3
  NODES = 2
  SEQUENCES = 2
  MaxClock = 3
  MaxIds = 4
INVARIANT Increasing
PROPERTY Timely
