\* One host whose agent may reach either of two workers, with two connections
\* alive at a time and two mints or revokes that may overlap.
CONSTANTS
  Host = {h1}
  Worker = {w1, w2}
  Conn = {c1, c2}
  NoConn = NoConn
  MaxToken = 2
  MaxVersion = 2
  DelayCap = 1
SPECIFICATION FairSpec
INVARIANTS TypeOK RegistryServed OneOpenSession PendingIsNewest
PROPERTIES CommitOutdates DeadSessionLeaves AgentSettles
