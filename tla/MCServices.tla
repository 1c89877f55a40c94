------------------------------ MODULE MCServices ------------------------------
(***************************************************************************)
(* The parts of the program that share no state with each other, each on   *)
(* its own: the concurrency limiter, bulk batches, the sandbox of a        *)
(* plugin, the life of a plugin, and outgoing webhooks.  `part` says which *)
(* one a behaviour is about.                                               *)
(***************************************************************************)
EXTENDS ConcurrencyLimiter, BulkBatch, SandboxHost, PluginLifecycle, WebhookDelivery

VARIABLE part

Parts == {"limiter", "bulk", "sandbox", "plugins", "webhooks"}

\* What the configuration or a client chooses varies only where it is looked at.
PinnedBatch == stopOnErr = [b \in Batches |-> FALSE]
PinnedDelivery == queueEnabled = FALSE /\ retryCount = [d \in Deliveries |-> CHOOSE n \in RetryCounts : TRUE]

ServicesInit ==
    /\ part \in Parts
    /\ Init /\ BulkInit /\ HostInit /\ PluginsInit /\ DeliveryInit
    /\ part # "bulk" => PinnedBatch
    /\ part # "webhooks" => PinnedDelivery

ServicesNext ==
    /\ UNCHANGED part
    /\ \/ part = "limiter" /\ Next /\ UNCHANGED <<bulkVars, hostVars, pluginVars, deliveryVars>>
       \/ part = "bulk" /\ BulkNext /\ UNCHANGED <<vars, hostVars, pluginVars, deliveryVars>>
       \/ part = "sandbox" /\ HostNext /\ UNCHANGED <<vars, bulkVars, pluginVars, deliveryVars>>
       \/ part = "plugins" /\ PluginsNext /\ UNCHANGED <<vars, bulkVars, hostVars, deliveryVars>>
       \/ part = "webhooks" /\ DeliveryNext /\ UNCHANGED <<vars, bulkVars, hostVars, pluginVars>>

\* The fairness of each module.
ServicesFairness ==
    /\ \A c \in Calls : WF_vars(part = "limiter" /\ Continues(c))
    /\ \A b \in Batches : WF_bulkVars(part = "bulk" /\ Executes(b))
    /\ \A c \in HostCalls : WF_hostVars(part = "sandbox" /\ TimesOut(c))
    /\ \A k \in Caps : WF_hostVars(part = "sandbox" /\ (CapArrives(k) \/ CapEnds(k)))
    /\ \A p \in Plugins : WF_pluginVars(part = "plugins" /\ (EnableStep(p) \/ Progress(p)))
    /\ \A w \in Workers : WF_pluginVars(part = "plugins" /\ worker[w].state = "killed" /\ Exits(w))
    /\ \A d \in Deliveries : WF_deliveryVars(part = "webhooks" /\ Sends(d)) /\ WF_deliveryVars(part = "webhooks" /\ Works(d))

ServicesSpec ==
    ServicesInit /\ [][ServicesNext]_<<vars, bulkVars, hostVars, pluginVars, deliveryVars, part>> /\ ServicesFairness

\* The type invariants of the five modules.
ServiceTypes == TypeOK /\ BulkTypeOK /\ HostTypeOK /\ PluginsTypeOK /\ DeliveryTypeOK

\* Nothing hangs: every parked caller runs, and every batch, call, capability call, plugin operation and
\* webhook delivery ends, with workers that crash or never answer and receivers that never accept.
EverythingEnds == ParkedRuns /\ BatchEnds /\ CallEnds /\ CapsReturn /\ OperationEnds /\ DeliveryEnds

===============================================================================
