------------------------------ MODULE DataSchema ------------------------------
(***************************************************************************)
(* The schema of the data database: the migrations, which run in order in  *)
(* one transaction at every boot, on a database that is empty, that an     *)
(* older release has migrated, or that `synchronize` built from the        *)
(* entities of an older release; and the revert of the last migration.     *)
(* Indexes that are not unique only change speed and are left out, and the *)
(* three migrations about nothing else with them.                          *)
(***************************************************************************)
EXTENDS DataTables, Naturals, Sequences, SequencesExt, TLC

CONSTANT Dialects      \* databases: a subset of {"sqlite", "postgres"}

ASSUME DialectsAssumption == Dialects \subseteq {"sqlite", "postgres"}

VARIABLES dialect, schema, ledger, boot

schemaVars == <<dialect, schema, ledger, boot>>

NoSchema == [cols |-> << >>, uuid |-> {}, default |-> {}, cascade |-> {}, unique |-> {}, twins |-> {},
             search |-> FALSE, failed |-> FALSE]

Has(s, t) == t \in DOMAIN s.cols
Fail(s) == [s EXCEPT !.failed = TRUE]
On(t, pairs) == {p \in pairs : p[1] = t}

\* A table is created with its primary key; on Postgres a foreign key must have the type of the key it refers to.
CreateTable(s, t, columns, keys, generated) ==
    IF t \in OwnedTables /\ "sessions" \in s.uuid
    THEN Fail(s)
    ELSE [s EXCEPT !.cols = (t :> columns) @@ @,
                   !.unique = @ \cup {<<t, k>> : k \in keys},
                   !.cascade = IF t \in OwnedTables THEN @ \cup {t} ELSE @,
                   !.default = IF generated /\ dialect = "postgres" THEN @ \cup {t} ELSE @]
CreateMissing(s, t, columns, keys, generated) ==
    IF Has(s, t) THEN s ELSE CreateTable(s, t, columns, keys, generated)
DropTables(s, ts) ==
    [s EXCEPT !.cols = [t \in DOMAIN @ \ ts |-> @[t]], !.uuid = @ \ ts, !.default = @ \ ts,
              !.cascade = @ \ ts, !.unique = {p \in @ : p[1] \notin ts}, !.twins = {p \in @ : p[1] \notin ts}]
\* Rows that share a key make the creation of the unique index fail.
AddKey(s, t, key) == IF <<t, key>> \in s.twins THEN Fail(s) ELSE [s EXCEPT !.unique = @ \cup {<<t, key>>}]
DropKey(s, t, key) == [s EXCEPT !.unique = @ \ {<<t, key>>}]
\* A varchar default cannot be given to a uuid column.
SetDefaults(s, ts) ==
    IF dialect # "postgres" THEN s
    ELSE IF ts \cap s.uuid # {} THEN Fail(s)
    ELSE [s EXCEPT !.default = @ \cup {t \in ts : Has(s, t)}]
DropDefaults(s, ts) == IF dialect = "postgres" THEN [s EXCEPT !.default = @ \ ts] ELSE s

BatchKey == {"batch_id"}
ScopedBatchKey == {"session_id", "batch_id"}
DedupKey == {"instanceId", "providerDeliveryId"}
WideDedupKey == {"pluginId"} \cup DedupKey
MessageKey == {"sessionId", "waMessageId"}
TemplateKey == {"sessionId", "name"}

BaselineUp(s) ==
    IF Has(s, "sessions") THEN s
    ELSE LET a == CreateTable(s, "sessions", SessionColumns, {{"name"}}, FALSE)
             b == CreateTable(a, "webhooks", WebhookColumns \ {"filters"}, {}, FALSE)
             c == CreateTable(b, "messages", MessageColumns \ {"chatName"}, {}, FALSE)
         IN  CreateTable(c, "message_batches", BatchColumns, {BatchKey}, FALSE)
BaselineDown(s) == DropTables(s, {"message_batches", "messages", "webhooks", "sessions"})

\* On Postgres, the schema that `synchronize` built has uuid ids; the chain takes them to be varchar.
NormalizeUp(s) ==
    IF dialect # "postgres" \/ "sessions" \notin s.uuid THEN s
    ELSE [s EXCEPT !.uuid = @ \ GeneratedIds,
                   !.cascade = @ \cup {t \in OwnedTables : Has(s, t)},
                   !.default = @ \cup {t \in GeneratedIds : Has(s, t)}]
NormalizeDown(s) ==
    IF dialect # "postgres" \/ "sessions" \in s.uuid THEN s
    ELSE [s EXCEPT !.uuid = @ \cup {t \in GeneratedIds : Has(s, t)},
                   !.cascade = @ \cup {t \in OwnedTables : Has(s, t)},
                   !.default = @ \cup {t \in GeneratedIds : Has(s, t)}]

BaselineTables == {"sessions", "webhooks", "messages", "message_batches"}
UuidDefaultsUp(s) == SetDefaults(s, BaselineTables)
UuidDefaultsDown(s) == DropDefaults(s, BaselineTables)

TemplatesUp(s) == CreateMissing(s, "templates", TemplateColumns, {}, TRUE)
TemplatesDown(s) == DropTables(s, {"templates"})

BaileysUp(s) == CreateMissing(s, "baileys_stored_messages", BaileysColumns, {MessageKey}, TRUE)
BaileysDown(s) == DropTables(s, {"baileys_stored_messages"})

\* Rows that share a name are renamed, rows that share a message id deleted, before the key is added.
TemplateNameUp(s) ==
    IF ~Has(s, "templates") THEN s
    ELSE AddKey([s EXCEPT !.twins = @ \ {<<"templates", TemplateKey>>}], "templates", TemplateKey)
TemplateNameDown(s) == DropKey(s, "templates", TemplateKey)

LidMappingsUp(s) == CreateMissing(s, "lid_mappings", LidColumns, {}, FALSE)
LidMappingsDown(s) == DropTables(s, {"lid_mappings"})

MutMessageIdUp(s) == IF Has(s, "messages") THEN AddKey(s, "messages", MessageKey) ELSE s
MessageIdUp(s) ==
    IF ~Has(s, "messages") THEN s
    ELSE AddKey([s EXCEPT !.twins = @ \ {<<"messages", MessageKey>>}], "messages", MessageKey)
MessageIdDown(s) == DropKey(s, "messages", MessageKey)

FiltersUp(s) == [s EXCEPT !.cols.webhooks = @ \cup {"filters"}]
FiltersDown(s) == [s EXCEPT !.cols.webhooks = @ \ {"filters"}]

WebhookFailuresUp(s) == CreateMissing(s, "webhook_delivery_failures", WebhookFailureColumns, {}, TRUE)
WebhookFailuresDown(s) == DropTables(s, {"webhook_delivery_failures"})

ScopeBatchUp(s) == AddKey(DropKey(s, "message_batches", BatchKey), "message_batches", ScopedBatchKey)
ScopeBatchDown(s) == AddKey(DropKey(s, "message_batches", ScopedBatchKey), "message_batches", BatchKey)

FabricTables == {"plugin_instances", "conversation_mappings", "ingress_events", "integration_delivery_failures"}
FabricUp(s) ==
    LET a == CreateMissing(s, "plugin_instances", InstanceColumns, {{"pluginId", "instanceId"}}, FALSE)
        b == CreateMissing(a, "conversation_mappings", MappingColumns,
                           {k[2] : k \in On("conversation_mappings", EntityKeys)}, FALSE)
        c == CreateMissing(b, "ingress_events", IngressColumns, {DedupKey}, FALSE)
    IN  CreateMissing(c, "integration_delivery_failures", IntegrationFailureColumns, {}, FALSE)
FabricDown(s) == DropTables(s, FabricTables)

ChatNameUp(s) == [s EXCEPT !.cols.messages = @ \cup {"chatName"}]
ChatNameDown(s) == [s EXCEPT !.cols.messages = @ \ {"chatName"}]

WidenUp(s) == AddKey(DropKey(s, "ingress_events", DedupKey), "ingress_events", WideDedupKey)
WidenDown(s) == AddKey(DropKey(s, "ingress_events", WideDedupKey), "ingress_events", DedupKey)

LateTables == {"conversation_mappings", "integration_delivery_failures"}
LateDefaultsUp(s) == SetDefaults(s, LateTables)
LateDefaultsDown(s) == DropDefaults(s, LateTables)

SearchUp(s) == [s EXCEPT !.search = TRUE]
SearchDown(s) == [s EXCEPT !.search = FALSE]

Migrations == <<"Baseline", "Normalize", "UuidDefaults", "Templates", "Baileys", "TemplateName", "LidMappings",
                "MessageId", "Filters", "WebhookFailures", "ScopeBatch", "Fabric", "ChatName", "Widen",
                "LateDefaults", "Search">>

Up(s, m) ==
    CASE m = "Baseline" -> BaselineUp(s)        [] m = "Normalize" -> NormalizeUp(s)
      [] m = "UuidDefaults" -> UuidDefaultsUp(s) [] m = "Templates" -> TemplatesUp(s)
      [] m = "Baileys" -> BaileysUp(s)          [] m = "TemplateName" -> TemplateNameUp(s)
      [] m = "LidMappings" -> LidMappingsUp(s)  [] m = "MessageId" -> MessageIdUp(s)
      [] m = "Filters" -> FiltersUp(s)          [] m = "WebhookFailures" -> WebhookFailuresUp(s)
      [] m = "ScopeBatch" -> ScopeBatchUp(s)    [] m = "Fabric" -> FabricUp(s)
      [] m = "ChatName" -> ChatNameUp(s)        [] m = "Widen" -> WidenUp(s)
      [] m = "LateDefaults" -> LateDefaultsUp(s) [] m = "Search" -> SearchUp(s)
Down(s, m) ==
    CASE m = "Baseline" -> BaselineDown(s)        [] m = "Normalize" -> NormalizeDown(s)
      [] m = "UuidDefaults" -> UuidDefaultsDown(s) [] m = "Templates" -> TemplatesDown(s)
      [] m = "Baileys" -> BaileysDown(s)          [] m = "TemplateName" -> TemplateNameDown(s)
      [] m = "LidMappings" -> LidMappingsDown(s)  [] m = "MessageId" -> MessageIdDown(s)
      [] m = "Filters" -> FiltersDown(s)          [] m = "WebhookFailures" -> WebhookFailuresDown(s)
      [] m = "ScopeBatch" -> ScopeBatchDown(s)    [] m = "Fabric" -> FabricDown(s)
      [] m = "ChatName" -> ChatNameDown(s)        [] m = "Widen" -> WidenDown(s)
      [] m = "LateDefaults" -> LateDefaultsDown(s) [] m = "Search" -> SearchDown(s)

\* The migrations from the given one on, up to the first that fails.
Migrated(s, from) ==
    FoldLeft(LAMBDA r, m : IF r.failed THEN r ELSE Up(r, m), s, SubSeq(Migrations, from, Len(Migrations)))

\* What an older release, of the first v migrations, has made of an empty database.
Release(v) == FoldLeft(Up, NoSchema, SubSeq(Migrations, 1, v))
\* What `synchronize` builds from the entities of that release.
Synchronized(v) ==
    [Release(v) EXCEPT !.uuid = IF dialect = "postgres" THEN {t \in GeneratedIds : Has(Release(v), t)} ELSE {},
                       !.default = IF dialect = "postgres" THEN {t \in GeneratedIds : Has(Release(v), t)} ELSE {},
                       !.search = FALSE]

SchemaInit ==
    /\ dialect \in Dialects
    /\ boot = "down"
    /\ \/ \E v \in 0 .. Len(Migrations) : ledger = v /\ schema = Release(v)
       \/ ledger = 0 /\ \E v \in 1 .. Len(Migrations) : schema = Synchronized(v)

\* The keys that once were not unique: only the tables of those releases hold rows that share one.
LooseKeys == {<<"messages", MessageKey>>, <<"templates", TemplateKey>>, <<"message_batches", BatchKey>>,
              <<"ingress_events", DedupKey>>}
RowsCollide ==
    /\ \E k \in LooseKeys :
          /\ Has(schema, k[1]) /\ k \notin schema.unique /\ k \notin schema.twins
          /\ schema' = [schema EXCEPT !.twins = @ \cup {k}]
    /\ UNCHANGED <<dialect, ledger, boot>>

\* The boot: every pending migration, or none.
BootDatabase ==
    /\ LET s == Migrated(schema, ledger + 1) IN
          IF s.failed
          THEN boot' = "crashed" /\ UNCHANGED <<schema, ledger>>
          ELSE boot' = "up" /\ schema' = s /\ ledger' = Len(Migrations)
    /\ UNCHANGED dialect

\* migration:revert: the last migration; rows that would share a restored key make it fail.
Revert ==
    /\ ledger > 0
    /\ boot' = "down"
    /\ LET s == Down(schema, Migrations[ledger]) IN
          IF s.failed THEN UNCHANGED <<schema, ledger>> ELSE schema' = s /\ ledger' = ledger - 1
    /\ UNCHANGED dialect

SchemaNext == RowsCollide \/ BootDatabase \/ Revert

SchemaSpec == SchemaInit /\ [][SchemaNext]_schemaVars

-------------------------------------------------------------------------------

SchemaTypeOK ==
    /\ dialect \in Dialects
    /\ ledger \in 0 .. Len(Migrations)
    /\ boot \in {"down", "up", "crashed"}

\* From every starting point, whatever was reverted and whatever rows an older release left behind, the boot
\* succeeds and ends at the schema the entities declare: every column, every unique key and no other, ids the
\* program and Postgres agree on, and rows that go with their session.  Before that the database has no table or
\* column the entities do not know, and no rows that break a key it has.
SchemaIsCurrent ==
    /\ boot # "crashed" /\ ~schema.failed
    /\ \A t \in DOMAIN schema.cols : t \in Tables /\ schema.cols[t] \subseteq EntityColumns[t]
    /\ schema.unique \cap schema.twins = {}
    /\ boot = "up" =>
          /\ schema.cols = EntityColumns
          /\ schema.unique = EntityKeys
          /\ schema.cascade = OwnedTables
          /\ schema.uuid = {}
          /\ dialect = "postgres" => GeneratedIds \subseteq schema.default
          /\ schema.search

===============================================================================
