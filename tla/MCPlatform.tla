------------------------------- MODULE MCPlatform -------------------------------
(* Parts of the system that share no state with one another: the messages     *)
(* table, the hooks, the operations of the adapters and the phones they know, *)
(* the schema, backups, the infrastructure, and the instances of a plugin.    *)
(* A behaviour is about one of them.                                          *)
EXTENDS MessageLog, HookManager, EngineOperations, BaileysIdentity, DataSchema, Backup, InfraConfig, PluginInstances

VARIABLE part

Everywhere == [scope |-> "all", enabled |-> TRUE, config |-> CHOOSE c \in Secrets : TRUE, key |-> 0]

\* The other parts start in one of their states.
Pinned ==
    /\ IF part = "log" THEN TRUE ELSE kind = [m \in Messages |-> "incoming"]
    /\ IF part = "operations" THEN TRUE
       ELSE /\ adapter = "wwjs" /\ status = "ready" /\ known = "none"
            /\ req = [r \in Requests |-> [op |-> "sendTextMessage", target |-> "contact", pc |-> 1, to |-> "none",
                                         tried |-> "none", answer |-> "none"]]
    /\ IF part = "schema" THEN TRUE ELSE dialect = "sqlite" /\ ledger = 0 /\ schema = Release(0)
    /\ IF part = "backup" THEN TRUE ELSE database = "sqlite" /\ db = {}
    /\ IF part = "infra" THEN TRUE ELSE file = Minimal /\ docker = TRUE
    /\ IF part = "instances" THEN TRUE ELSE rows = [i \in Instances |-> Everywhere]

PlatformInit ==
    /\ part \in {"log", "hooks", "operations", "identity", "schema", "backup", "infra", "instances"}
    /\ Pinned
    /\ LogInit /\ HookInit /\ OpInit /\ IdentityInit /\ SchemaInit /\ BackupInit /\ InfraInit /\ InstancesInit

DataRests == UNCHANGED <<schemaVars, backupVars, infraVars, instanceVars>>
TrafficRests == UNCHANGED <<logVars, hookVars, opVars, identityVars>>

PlatformNext ==
    /\ UNCHANGED part
    /\ \/ part = "log" /\ LogNext /\ DataRests /\ UNCHANGED <<hookVars, opVars, identityVars>>
       \/ part = "hooks" /\ HookNext /\ DataRests /\ UNCHANGED <<logVars, opVars, identityVars>>
       \/ part = "operations" /\ OpNext /\ DataRests /\ UNCHANGED <<logVars, hookVars, identityVars>>
       \/ part = "identity" /\ IdentityNext /\ DataRests /\ UNCHANGED <<logVars, hookVars, opVars>>
       \/ part = "schema" /\ SchemaNext /\ TrafficRests /\ UNCHANGED <<backupVars, infraVars, instanceVars>>
       \/ part = "backup" /\ BackupNext /\ TrafficRests /\ UNCHANGED <<schemaVars, infraVars, instanceVars>>
       \/ part = "infra" /\ InfraNext /\ TrafficRests /\ UNCHANGED <<schemaVars, backupVars, instanceVars>>
       \/ part = "instances" /\ InstancesNext /\ TrafficRests /\ UNCHANGED <<schemaVars, backupVars, infraVars>>

platformVars ==
    <<logVars, hookVars, opVars, identityVars, schemaVars, backupVars, infraVars, instanceVars, part>>

PlatformSpec == PlatformInit /\ [][PlatformNext]_platformVars

\* The type invariant of the part.
PlatformTypes ==
    CASE part = "log" -> LogTypeOK
      [] part = "hooks" -> HookTypeOK
      [] part = "operations" -> OpTypeOK
      [] part = "identity" -> IdentityTypeOK
      [] part = "schema" -> SchemaTypeOK
      [] part = "backup" -> BackupTypeOK
      [] part = "infra" -> InfraTypeOK
      [] part = "instances" -> InstancesTypeOK

\* An operation of an adapter does what it answers, and the phones behind LIDs are those the adapter was told.
EngineIsTrue ==
    /\ part = "operations" => OperationIsTrue
    /\ part = "identity" => IdentityIsTrue

\* What an operator asks of the infrastructure's page is done: what it saves is what the next boots run with, and a
\* restore replaces all or nothing.
InfraIsTrue ==
    /\ part = "infra" => BackendsAreUp
    /\ part = "backup" => RestoreIsAllOrNothing

\* The instances of a plugin are bound as their rows say.
IntegrationsAreSound == part = "instances" => InstancesAreSound

\* What tells two states of a behaviour apart: the other parts never move.
PartView ==
    CASE part = "log" -> <<part, logVars>>
      [] part = "hooks" -> <<part, hookVars>>
      [] part = "operations" -> <<part, opVars>>
      [] part = "identity" -> <<part, identityVars>>
      [] part = "schema" -> <<part, schemaVars>>
      [] part = "backup" -> <<part, backupVars>>
      [] part = "infra" -> <<part, infraVars>>
      [] part = "instances" -> <<part, instanceVars>>

===============================================================================
