--------------------------- MODULE ConsoleProofs ---------------------------
(***************************************************************************)
(* What is proved of the parts of the console one by one holds of all of   *)
(* them in MCConsole: a behaviour of ConsoleSpec is a behaviour of every   *)
(* part, for a part that does not move stutters.  So what the theorems say *)
(* of a part is what the run checks of it, every property of it included.  *)
(***************************************************************************)
EXTENDS MCConsole, AdminProofs, ProvisionProofs, OperationsProofs

-----------------------------------------------------------------------------
(* Each part.                                                              *)

LEMMA ConfigPart == ConsoleSpec => ConfigSpec
<1>1. ConsoleInit => ConfigInit
  BY DEF ConsoleInit
<1>2. [ConsoleNext]_consoleVars => [ConfigNext]_configVars
  BY DEF ConsoleNext, consoleVars
<1> QED BY <1>1, <1>2, PTL DEF ConsoleSpec, ConfigSpec

LEMMA MonitoringPart == ConsoleSpec => MonSpec
<1>1. ConsoleInit => MonInit
  BY DEF ConsoleInit
<1>2. [ConsoleNext]_consoleVars => [MonNext]_monVars
  BY DEF ConsoleNext, consoleVars
<1> QED BY <1>1, <1>2, PTL DEF ConsoleSpec, MonSpec

LEMMA ProvisionPart == ConsoleSpec => ProvSpec
<1>1. ConsoleInit => ProvInit
  BY DEF ConsoleInit
<1>2. [ConsoleNext]_consoleVars => [ProvNext]_provVars
  BY DEF ConsoleNext, consoleVars
<1> QED BY <1>1, <1>2, PTL DEF ConsoleSpec, ProvSpec

LEMMA RegistryPart == ConsoleSpec => SrSpec
<1>1. ConsoleInit => SrInit
  BY DEF ConsoleInit
<1>2. [ConsoleNext]_consoleVars => [SrNext]_srVars
  BY DEF ConsoleNext, consoleVars
<1> QED BY <1>1, <1>2, PTL DEF ConsoleSpec, SrSpec

LEMMA LinkingPart == ConsoleSpec => LinkSpec
<1>1. ConsoleInit => LinkInit
  BY DEF ConsoleInit
<1>2. [ConsoleNext]_consoleVars => [LinkNext]_linkVars
  BY DEF ConsoleNext, consoleVars
<1> QED BY <1>1, <1>2, PTL DEF ConsoleSpec, LinkSpec

LEMMA TopicsPart == ConsoleSpec => TopicsSpec
<1>1. ConsoleInit => TopicsInit
  BY DEF ConsoleInit
<1>2. [ConsoleNext]_consoleVars => [TopicsNext]_topicsVars
  BY DEF ConsoleNext, consoleVars
<1> QED BY <1>1, <1>2, PTL DEF ConsoleSpec, TopicsSpec

LEMMA AccessPart == ConsoleSpec => AccessSpec
<1>1. ConsoleInit => AccessInit
  BY DEF ConsoleInit
<1>2. [ConsoleNext]_consoleVars => [AccessNext]_accessVars
  BY DEF ConsoleNext, consoleVars
<1> QED BY <1>1, <1>2, PTL DEF ConsoleSpec, AccessSpec

LEMMA LogPart == ConsoleSpec => LogSpec
<1>1. ConsoleInit => LogInit
  BY DEF ConsoleInit
<1>2. [ConsoleNext]_consoleVars => [LogNext]_logVars
  BY DEF ConsoleNext, consoleVars
<1> QED BY <1>1, <1>2, PTL DEF ConsoleSpec, LogSpec

-----------------------------------------------------------------------------
(* Theorems.                                                               *)

\* Every part runs as its own specification says, whichever part moves.
THEOREM ConsoleIsItsParts ==
  ConsoleSpec => /\ ConfigSpec /\ MonSpec /\ ProvSpec /\ SrSpec
                 /\ LinkSpec /\ TopicsSpec /\ AccessSpec /\ LogSpec
BY ConfigPart, MonitoringPart, ProvisionPart, RegistryPart, LinkingPart, TopicsPart, AccessPart, LogPart

\* All the rows, requests, hosts, caches and logs of the console stay within their
\* types: of the part that moves, and of the others.
THEOREM ConsoleTyped == ConsoleSpec => []ConsoleTypeOK
<1>1. /\ ConfigTypeOK /\ MonTypeOK /\ ProvTypeOK /\ SrTypeOK
      /\ LinkTypeOK /\ TopicsTypeOK /\ AccessTypeOK /\ LogTypeOK
      => ConsoleTypeOK
  BY DEF ConsoleTypeOK
<1> QED BY <1>1, ConsoleIsItsParts, ConfigTyped, MonitoringTyped, ProvisionTyped, RegistryTyped,
           LinkTyped, TopicsTyped, AccessTyped, LogTyped, PTL

\* What the console promises its operators, all of it at once: the audit log replays
\* to the files and a rollback marks its own entry; rules are in force and what is
\* called deployed is served; ports stay distinct, no unit runs without its row
\* and a removal leaves enough brokers; a registry called running is served and a
\* link called running kept up, with the settings it was started with; no list of
\* topics outlives the change that drops it; rows and trail tell what Kafka accepts;
\* a capped log keeps what its deployer means to keep, and who follows it is promised
\* what StreamPromise says.  Each with the exceptions that its own definition names:
\* overlapping requests, lost answers, forced removals.
THEOREM ConsoleKeepsPromises ==
  ConsoleSpec => /\ [](/\ AuditReplays /\ MarksOwnEntry
                       /\ RulesInForce /\ DeployedIsServed
                       /\ PortsDistinct /\ NoUnitLeft /\ RemovalKeepsEnough
                       /\ RegistryIsServed /\ RunningLinkKeptUp /\ StartAppliesSettings
                       /\ ListIsCurrent /\ RowsTellCredentials /\ TrailTellsAcls
                       /\ HeadAndTail /\ StreamInOrder)
                 /\ KeepsStreamPromise
BY ConsoleIsItsParts, LogReplays, MarksItsOwn, RulesAreInForce, DeployedServes, PortsStayDistinct,
   UnitsHaveRows, EnoughRemain, RunningIsServed, RunningKeptUp, StartApplies, ServedListUpToRaces,
   RowsTell, TrailTells, LogKeepsEnds, StreamGoesUp, TaskLogKeepsStreamPromise, PTL

=============================================================================
