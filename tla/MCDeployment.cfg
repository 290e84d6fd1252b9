\* Two deploys of a cluster overlap with each other and with other requests.
CONSTANTS
  Host = {h1}
  Deploy = {d1, d2}
SPECIFICATION Spec
INVARIANTS TypeOK DeployingIsOwned
PROPERTIES KeepsDeployPromise
CHECK_DEADLOCK FALSE
