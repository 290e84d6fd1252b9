\* A restart beside an upgrade, on two brokers and a controller.
CONSTANTS
  Broker = {b1, b2}
  Controller = {q1}
  Fragile = {b2}
  Mortal = {"kafka"}
  Restart = {r1}
  Upgrade = {u1}
SPECIFICATION FairSpec
INVARIANTS TypeOK VersionIsInstalled RemovalIsReported
PROPERTIES KeepsRollPromise TaskEnds
CHECK_DEADLOCK FALSE
