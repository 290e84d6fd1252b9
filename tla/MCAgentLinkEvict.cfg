\* One worker, so that the reconnect meets the session it replaces.
CONSTANTS
  Host = {h1}
  Worker = {w1}
  Conn = {c1, c2}
  NoConn = NoConn
  MaxToken = 2
  MaxVersion = 2
  DelayCap = 1
SPECIFICATION Spec
PROPERTIES OnlyHolderRemoved
