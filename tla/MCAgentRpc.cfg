\* Two concurrent operations over two successive sessions of one host.
CONSTANTS
  Call = {k1, k2}
  Session = {s1, s2}
  NoSession = NoSession
SPECIFICATION FairSpec
INVARIANTS TypeOK TruthfulAnswer AgentAtMostOnce PendingMatchesCoroutine
PROPERTIES CallsEnd KeepsPromise
CHECK_DEADLOCK FALSE
