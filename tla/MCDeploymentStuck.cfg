\* One deploy of one host over its agent.
CONSTANTS
  Host = {h1}
  Deploy = {d1}
SPECIFICATION Spec
INVARIANTS DeployingMeansInProgress
CHECK_DEADLOCK FALSE
