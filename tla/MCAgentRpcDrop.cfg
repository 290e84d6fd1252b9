\* One command on one session is enough.
CONSTANTS
  Call = {k1}
  Session = {s1}
  NoSession = NoSession
SPECIFICATION Spec
INVARIANTS DropFailsInFlight
CHECK_DEADLOCK FALSE
