\* Two restarts of two brokers.
CONSTANTS
  Broker = {b1, b2}
  Controller = {}
  Fragile = {}
  Mortal = {}
  Restart = {r1, r2}
  Upgrade = {}
SPECIFICATION Spec
INVARIANTS OneByOne
CHECK_DEADLOCK FALSE
