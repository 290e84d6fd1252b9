\* Brokers and keys for a bulk edit and a rollback of either.
CONSTANTS
  Broker = {b1, b2}
  ConfigKey = {k1}
  Configured = {k1}
  ConfigValue = {v1, v2}
  Default = v1
  Absent = absent
  EditRequest = {r1, r2}
\* One cluster, two requests under way of three.
CONSTANTS
  Monitored = {c1}
  MonHost = {h1}
  AlertRule = {rule}
  Channel = {mail}
  MonRequest = {r1, r2}
  MonOps = 3
\* Two clusters on two machines, a port set for each.
CONSTANTS
  ClusterId = {c1, c2}
  Machine = {m1, m2}
  PlacedRole = {"broker_controller"}
  RowId = {1, 2}
  Slots = 2
  ProvRequest = {r1, r2}
  ProvOps = 4
\* Two registry deploys, of one cluster or two.
CONSTANTS
  SrCluster = {c1, c2}
  SrHost = {m1, m2}
  SrPort = {sp1, sp2}
  SrRequest = {r1, r2}
\* A link, two requests under way of six.
CONSTANTS
  Link = {l1}
  LinkHost = {lh1}
  Setting = {x1, x2}
  NoSetting = nosetting
  LinkRequest = {r1, r2}
  LinkOps = 6
\* A topic and the test topic.
CONSTANTS
  Topic = {t1, tt}
  TestTopic = tt
  TopicRequest = {r1, r2}
  MaxPartitions = 2
\* A user under two mechanisms, two permissions.
CONSTANTS
  UserName = {u1}
  NoPassword = nopassword
  Grant = {gr1, gr2}
  AccessRequest = {r1, r2, r3}
\* A row of five lines that keeps two from the start, and twice as many logged.
CONSTANTS
  MaxLines = 5
  HeadLines = 2
  MaxLogged = 10
  Viewer = {vw1}
SPECIFICATION ConsoleSpec
SYMMETRY RequestSymmetry
INVARIANTS
  ConsoleTypeOK
  AuditReplays
  MarksOwnEntry
  RulesInForce
  DeployedIsServed
  PortsDistinct
  RemovalKeepsEnough
  NoUnitLeft
  RegistryIsServed
  RunningLinkKeptUp
  StartAppliesSettings
  ListIsCurrent
  RowsTellCredentials
  TrailTellsAcls
  HeadAndTail
  StreamInOrder
PROPERTIES KeepsStreamPromise
CHECK_DEADLOCK FALSE
