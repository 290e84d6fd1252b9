----------------------------- MODULE MCConsole -----------------------------
(***************************************************************************)
(* The other parts of the console, in one run.  Each stands alone: what it *)
(* reads of the rows and files of another is an input of its own.  "part"  *)
(* says which of them moves, so that their states add up and do not        *)
(* multiply.                                                               *)
(***************************************************************************)
EXTENDS BrokerConfig, Monitoring, Provision, Registry, Linking, Topics, Access, TaskLog, TLC

VARIABLE part

Parts == {"config", "monitoring", "provision", "registry", "linking", "topics", "access", "log"}

ConsoleInit ==
    /\ part \in Parts
    /\ ConfigInit /\ MonInit /\ ProvInit /\ SrInit /\ LinkInit /\ TopicsInit /\ AccessInit /\ LogInit
    \* Two kinds of cluster in the parts that know them, one elsewhere.
    /\ part # "topics" => kind = "managed"
    /\ part # "access" => owner = "managed"

ConsoleNext ==
    /\ part' = part
    /\ IF part = "config" THEN ConfigNext ELSE UNCHANGED configVars
    /\ IF part = "monitoring" THEN MonNext ELSE UNCHANGED monVars
    /\ IF part = "provision" THEN ProvNext ELSE UNCHANGED provVars
    /\ IF part = "registry" THEN SrNext ELSE UNCHANGED srVars
    /\ IF part = "linking" THEN LinkNext ELSE UNCHANGED linkVars
    /\ IF part = "topics" THEN TopicsNext ELSE UNCHANGED topicsVars
    /\ IF part = "access" THEN AccessNext ELSE UNCHANGED accessVars
    /\ IF part = "log" THEN LogNext ELSE UNCHANGED logVars

\* No part tells its requests r1 and r2 apart.
RequestSymmetry == Permutations(EditRequest)

consoleVars ==
    <<part, configVars, monVars, provVars, srVars, linkVars, topicsVars, accessVars, logVars>>
ConsoleSpec == ConsoleInit /\ [][ConsoleNext]_consoleVars

\* The part that moves stays within its types.
ConsoleTypeOK ==
    /\ part = "config" => ConfigTypeOK
    /\ part = "monitoring" => MonTypeOK
    /\ part = "provision" => ProvTypeOK
    /\ part = "registry" => SrTypeOK
    /\ part = "linking" => LinkTypeOK
    /\ part = "topics" => TopicsTypeOK
    /\ part = "access" => AccessTypeOK
    /\ part = "log" => LogTypeOK

=============================================================================
