\* One cluster that deploys its registry twice.
CONSTANTS
  SrCluster = {c1}
  SrHost = {m1}
  SrPort = {sp1, sp2}
  SrRequest = {r1, r2}
SPECIFICATION SrSpec
INVARIANTS RedeployReclaimsPort
CHECK_DEADLOCK FALSE
