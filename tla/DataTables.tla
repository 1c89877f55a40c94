------------------------------ MODULE DataTables ------------------------------
(***************************************************************************)
(* The tables of the data database as the entities declare them: the       *)
(* columns the program reads and writes, the keys it takes to be unique,   *)
(* and the tables that belong to a session.                                *)
(***************************************************************************)

SessionColumns == {"id", "name", "status", "phone", "pushName", "config", "proxyUrl", "proxyType",
                   "connectedAt", "lastActiveAt", "createdAt", "updatedAt"}
WebhookColumns == {"id", "sessionId", "url", "events", "secret", "headers", "filters", "active",
                   "retryCount", "lastTriggeredAt", "createdAt", "updatedAt"}
MessageColumns == {"id", "sessionId", "waMessageId", "chatId", "chatName", "from", "to", "body", "type",
                   "direction", "timestamp", "metadata", "status", "createdAt"}
BatchColumns == {"id", "batch_id", "session_id", "status", "messages", "options", "progress", "results",
                 "current_index", "created_at", "updated_at", "started_at", "completed_at"}
TemplateColumns == {"id", "sessionId", "name", "body", "header", "footer", "createdAt", "updatedAt"}
BaileysColumns == {"id", "sessionId", "waMessageId", "serializedMessage", "createdAt"}
LidColumns == {"lid", "phone", "sessionId", "updatedAt"}
InstanceColumns == {"id", "pluginId", "instanceId", "sessionScope", "secret", "verifyToken", "config",
                    "enabled", "createdAt", "updatedAt"}
MappingColumns == {"id", "sessionId", "chatId", "pluginId", "instanceId", "providerConversationId",
                   "handoverState", "metadata", "updatedAt"}
IngressColumns == {"id", "instanceId", "pluginId", "providerDeliveryId", "route", "payload", "sessionId",
                   "createdAt"}
WebhookFailureColumns == {"id", "webhookId", "sessionId", "event", "url", "idempotencyKey", "deliveryId",
                          "attempts", "lastStatusCode", "lastError", "createdAt"}
IntegrationFailureColumns == {"id", "direction", "pluginId", "instanceId", "sessionId", "deliveryId",
                              "attempts", "lastError", "payload", "redriven", "createdAt"}

EntityColumns ==
    [sessions |-> SessionColumns, webhooks |-> WebhookColumns, messages |-> MessageColumns,
     message_batches |-> BatchColumns, templates |-> TemplateColumns, baileys_stored_messages |-> BaileysColumns,
     lid_mappings |-> LidColumns, plugin_instances |-> InstanceColumns, conversation_mappings |-> MappingColumns,
     ingress_events |-> IngressColumns, webhook_delivery_failures |-> WebhookFailureColumns,
     integration_delivery_failures |-> IntegrationFailureColumns]

Tables == DOMAIN EntityColumns

\* The unique keys the entities declare.
EntityKeys ==
    {<<"sessions", {"name"}>>, <<"messages", {"sessionId", "waMessageId"}>>,
     <<"message_batches", {"session_id", "batch_id"}>>, <<"templates", {"sessionId", "name"}>>,
     <<"baileys_stored_messages", {"sessionId", "waMessageId"}>>, <<"plugin_instances", {"pluginId", "instanceId"}>>,
     <<"conversation_mappings", {"sessionId", "chatId", "pluginId", "instanceId"}>>,
     <<"conversation_mappings", {"pluginId", "instanceId", "providerConversationId"}>>,
     <<"ingress_events", {"pluginId", "instanceId", "providerDeliveryId"}>>}

\* Tables whose rows go with their session, and tables whose id the database generates.
OwnedTables == {"webhooks", "templates", "baileys_stored_messages"}
GeneratedIds == Tables \ {"lid_mappings", "plugin_instances", "ingress_events"}

===============================================================================
