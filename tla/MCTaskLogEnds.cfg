\* One console on a short log.
CONSTANTS
  MaxLines = 5
  HeadLines = 2
  MaxLogged = 3
  Viewer = {v1}
SPECIFICATION LogFairSpec
PROPERTIES StreamEnds
CHECK_DEADLOCK FALSE
