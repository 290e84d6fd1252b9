\* One deploy over two hosts, so that services and units can differ.
CONSTANTS
  Host = {h1, h2}
  Deploy = {d1}
SPECIFICATION FairSpec
PROPERTIES DeployEnds HeaderConverges
CHECK_DEADLOCK FALSE
