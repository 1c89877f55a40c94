---------------------------- MODULE PluginLifecycle ----------------------------
(***************************************************************************)
(* The life of an installed (sandboxed) plugin: the operations of          *)
(* src/modules/plugins/plugins.service.ts, serialised per plugin, the      *)
(* loader they drive (src/core/plugins/plugin-loader.service.ts), the      *)
(* registry file, the plugin's directory and its backup, and the worker it *)
(* runs in, which may crash at any moment.                                 *)
(*                                                                         *)
(* One action is the code between two awaits.  SandboxHost models the      *)
(* calls that go to a worker.                                              *)
(***************************************************************************)
EXTENDS Integers, FiniteSets

CONSTANTS
    Plugins,
    Versions,      \* package versions
    Settings,      \* values of config, activeSessions and sessionConfig, together
    PluginEvents,  \* hook events a worker may subscribe to
    MaxWorkers,    \* bound: workers ever spawned
    MaxRestarts    \* bound: times the process is killed

\* "none" and "builtin" name no plugin, "none" no version, and "broken" none that can be loaded.
ASSUME PluginAssumption ==
    /\ MaxWorkers \in Nat /\ MaxRestarts \in Nat
    /\ "none" \notin Plugins \cup Versions /\ "builtin" \notin Plugins /\ "broken" \notin Versions

VARIABLES
    dir,       \* per plugin: the version in its directory, or "none", or "broken"
    backup,    \* per plugin: the version in .<id>.bak
    plugin,    \* per plugin: its entry in PluginLoaderService.plugins
    entry,     \* per plugin: its entry in the registry file
    host,      \* per plugin: its worker in sandboxHosts, 0 if there is none
    worker,    \* per worker: whose it is, and its state
    shims,     \* per plugin and event: registrations with the hook manager
    provider,  \* per plugin: the worker its search provider asks, 0 if it has none
    activeProvider,    \* the active search provider: "builtin" or a plugin
    op,        \* per plugin: the operation in progress
    chosen,    \* history: per plugin, the settings an operator chose last
    refused,   \* history: plugins whose files were not written, moved, removed or read since they were loaded
    restarts

pluginVars == <<dir, backup, plugin, entry, host, worker, shims, provider, activeProvider, op, chosen, refused, restarts>>

Workers == 1 .. MaxWorkers
Files == Versions \cup {"none", "broken"}

NotLoaded == [status |-> "absent", version |-> "none", settings |-> "none"]
NoEntry == [status |-> "absent", settings |-> "none"]
Unborn == [of |-> "none", state |-> "unborn", subscribed |-> {}]
Operation(kind, was, to) == [kind |-> kind, stage |-> "none", host |-> 0, was |-> was, to |-> to]
NoOp == Operation("none", FALSE, "none")

CONSTANT DefaultSettings
ASSUME SettingsAssumption == DefaultSettings \in Settings

PluginsInit ==
    /\ dir = [p \in Plugins |-> "none"] /\ backup = [p \in Plugins |-> "none"]
    /\ plugin = [p \in Plugins |-> NotLoaded] /\ entry = [p \in Plugins |-> NoEntry]
    /\ host = [p \in Plugins |-> 0] /\ provider = [p \in Plugins |-> 0] /\ activeProvider = "builtin"
    /\ worker = [w \in Workers |-> Unborn]
    /\ shims = [p \in Plugins |-> [e \in PluginEvents |-> 0]]
    /\ op = [p \in Plugins |-> NoOp]
    /\ chosen = [p \in Plugins |-> DefaultSettings]
    /\ refused = {} /\ restarts = 0

Loaded(p) == plugin[p].status # "absent"
Enabled(p) == plugin[p].status = "ENABLED"
Alive(w) == w # 0 /\ worker[w].state \in {"up", "killed"}
Free(p) == op[p] = NoOp
SetOp(p, o) == op' = [op EXCEPT ![p] = o]
\* An operation goes on, with the worker it waits for.
At(o, stage, w) == [kind |-> o.kind, stage |-> stage, host |-> w, was |-> o.was, to |-> o.to]
AtStage(p, kinds, stage) == op[p].kind \in kinds /\ op[p].stage = stage
\* onDisable is sent to the worker that is registered now.
AsksToDisable(p, o) == SetOp(p, At(o, "onDisable", host[p]))

NoShims == [e \in PluginEvents |-> 0]
UnregisterHooks(p) == shims' = [shims EXCEPT ![p] = NoShims]
DropProvider(p) ==
    /\ provider' = [provider EXCEPT ![p] = 0]
    /\ activeProvider' = IF activeProvider = p THEN "builtin" ELSE activeProvider

\* loadPlugin() and ensureRegistryEntry(): always INSTALLED, with the settings the registry kept.
Kept(p) == IF entry[p].status = "absent" THEN DefaultSettings ELSE entry[p].settings

Loads(p, v) ==
    /\ plugin' = [plugin EXCEPT ![p] = [status |-> "INSTALLED", version |-> v, settings |-> Kept(p)]]
    /\ entry' = [entry EXCEPT ![p] = [status |-> "INSTALLED", settings |-> Kept(p)]]

SetStatus(p, s) ==
    /\ plugin' = [plugin EXCEPT ![p].status = s]
    /\ entry' = [entry EXCEPT ![p].status = IF @ = "absent" THEN @ ELSE s]

-----------------------------------------------------------------------------
(* install(), updateConfig(), updateSessions(), updateSessionConfig()       *)

\* What a removal leaves that throws.
Remains(files) == IF files = "none" THEN {} ELSE {files, "broken"}
Keeps(p) == refused' = refused \ {p}
Refuses(p) == refused' = refused \cup {p}

\* The package is written and loaded.  When that fails the directory is removed again, and what is left
\* of it when that fails too keeps a plugin of this name from being installed.  (No request is handled
\* between a swap that fails and its rollback.)
Install(p, v) ==
    /\ Free(p) /\ ~Loaded(p) /\ dir[p] = "none"
    /\ \/ dir' = [dir EXCEPT ![p] = v] /\ Loads(p, v) /\ Keeps(p)
       \/ /\ \E left \in Remains(v) : dir' = [dir EXCEPT ![p] = left]
          /\ Refuses(p)
          /\ UNCHANGED <<plugin, entry>>
    /\ UNCHANGED <<backup, host, worker, shims, provider, activeProvider, op, chosen, restarts>>

\* Not serialised: during any operation.
Configure(p, s) ==
    /\ Loaded(p)
    /\ plugin' = [plugin EXCEPT ![p].settings = s]
    /\ entry' = [entry EXCEPT ![p].settings = IF entry[p].status = "absent" THEN @ ELSE s]
    /\ chosen' = [chosen EXCEPT ![p] = s]
    /\ UNCHANGED <<dir, backup, host, worker, shims, provider, activeProvider, op, refused, restarts>>

-----------------------------------------------------------------------------
(* enablePlugin() and enableSandboxed()                                     *)

\* The worker is spawned and registered, and the load message is sent.
Spawn(p, o) ==
    \E w \in Workers :
       /\ worker[w].state = "unborn" /\ \A x \in 1 .. w - 1 : worker[x].state # "unborn"
       /\ worker' = [worker EXCEPT ![w] = [of |-> p, state |-> "up", subscribed |-> {}]]
       /\ host' = [host EXCEPT ![p] = w]
       /\ SetOp(p, At(o, "load", w))

Enable(p) ==
    /\ Free(p) /\ Loaded(p) /\ ~Enabled(p)
    /\ Spawn(p, Operation("enable", FALSE, "none"))
    /\ UNCHANGED <<dir, backup, plugin, entry, shims, provider, activeProvider, chosen, refused, restarts>>

After == [load |-> "onLoad", onLoad |-> "onEnable"]
EnableKinds == {"enable", "update", "restore"}

\* The worker reports that a step is done; after the last one the plugin is enabled.  An update then drops
\* its backup, and takes the new version down again when that fails.
EnableStep(p) ==
    LET o == op[p] IN
    /\ o.kind \in EnableKinds /\ o.stage \in {"load", "onLoad", "onEnable"}
    /\ worker[o.host].state = "up"
    /\ \/ /\ o.stage \in DOMAIN After
          /\ SetOp(p, At(o, After[o.stage], o.host)) /\ UNCHANGED <<plugin, entry, backup>>
       \/ /\ o.stage = "onEnable" /\ SetStatus(p, "ENABLED")
          /\ backup' = [backup EXCEPT ![p] = IF o.kind = "update" THEN "none" ELSE @]
          /\ SetOp(p, NoOp)
       \/ /\ o.stage = "onEnable" /\ o.kind = "update" /\ SetStatus(p, "ENABLED")
          /\ \E left \in Remains(backup[p]) : backup' = [backup EXCEPT ![p] = left]
          /\ AsksToDisable(p, [o EXCEPT !.kind = "undo"])
    /\ UNCHANGED <<dir, host, worker, shims, provider, activeProvider, chosen, refused, restarts>>

\* A step throws, times out, or the worker dies: the host is dropped and the worker killed.
EnableFails(p) ==
    LET o == op[p] IN
    /\ o.kind \in EnableKinds /\ o.stage \in {"load", "onLoad", "onEnable"}
    /\ host' = [host EXCEPT ![p] = 0]
    /\ DropProvider(p)
    /\ worker' = [worker EXCEPT ![o.host].state = IF @ = "up" THEN "killed" ELSE @]
    /\ SetOp(p, At(o, "scrap", o.host))
    /\ UNCHANGED <<dir, backup, plugin, entry, shims, chosen, refused, restarts>>

\* The catch of enablePlugin(), when the worker is gone; an update goes on to restore the old version.
EnableGivesUp(p) ==
    LET o == op[p] IN
    /\ AtStage(p, EnableKinds, "scrap") /\ ~Alive(o.host)
    /\ SetStatus(p, "ERROR") /\ UnregisterHooks(p)
    /\ SetOp(p, IF o.kind = "update" THEN At(o, "rollback", o.host) ELSE NoOp)
    /\ UNCHANGED <<dir, backup, host, worker, provider, activeProvider, chosen, refused, restarts>>

-----------------------------------------------------------------------------
(* disablePlugin(), and the operations that begin with it                   *)

Disable(p) ==
    /\ Free(p) /\ Enabled(p)
    /\ AsksToDisable(p, Operation("disable", FALSE, "none"))
    /\ UNCHANGED <<dir, backup, plugin, entry, host, worker, shims, provider, activeProvider, chosen, refused, restarts>>

\* It returned, threw, timed out, or the worker died: the worker is killed.
Kill(p) ==
    LET o == op[p] IN
    /\ o.stage = "onDisable"
    /\ worker' = [worker EXCEPT ![o.host].state = IF @ = "up" THEN "killed" ELSE @]
    /\ SetOp(p, At(o, "terminate", o.host))
    /\ UNCHANGED <<dir, backup, plugin, entry, host, shims, provider, activeProvider, chosen, refused, restarts>>

\* Then a disable is over; the others unload, or go on with the rollback they were in.
AfterDisable(o) ==
    IF o.kind = "disable" THEN NoOp ELSE At(o, IF o.kind = "undo" THEN "rollback" ELSE "unload", o.host)

MutDisabled(p) ==
    /\ op[p].stage = "terminate" /\ ~Alive(op[p].host)
    /\ host' = [host EXCEPT ![p] = 0] /\ DropProvider(p)
    /\ SetStatus(p, "DISABLED") /\ SetOp(p, AfterDisable(op[p]))
    /\ UNCHANGED <<dir, backup, worker, shims, chosen, refused, restarts>>

\* The rest of disablePlugin().  The host it removes is whichever is registered by then.
Disabled(p) ==
    /\ op[p].stage = "terminate" /\ ~Alive(op[p].host)
    /\ host' = [host EXCEPT ![p] = 0] /\ UnregisterHooks(p) /\ DropProvider(p)
    /\ SetStatus(p, "DISABLED") /\ SetOp(p, AfterDisable(op[p]))
    /\ UNCHANGED <<dir, backup, worker, chosen, refused, restarts>>

\* uninstall() and updatePackage(): unloadPlugin() disables an enabled plugin first.
Begins(p, o) ==
    /\ Free(p) /\ Loaded(p)
    /\ IF Enabled(p) THEN AsksToDisable(p, o) ELSE SetOp(p, At(o, "unload", 0))
    /\ UNCHANGED <<dir, backup, plugin, entry, host, worker, shims, provider, activeProvider, chosen, refused, restarts>>

Uninstall(p) == Begins(p, Operation("uninstall", FALSE, "none"))
\* (Bound: an update may need two workers.)
Update(p, v) ==
    /\ Enabled(p) => Cardinality({w \in Workers : worker[w].state = "unborn"}) >= 2
    /\ Begins(p, Operation("update", Enabled(p), v))

\* Out of the map and the registry, and off the disk unless the removal throws.
Uninstalled(p) ==
    /\ AtStage(p, {"uninstall"}, "unload")
    /\ plugin' = [plugin EXCEPT ![p] = NotLoaded]
    /\ entry' = [entry EXCEPT ![p] = NoEntry] /\ chosen' = [chosen EXCEPT ![p] = DefaultSettings]
    /\ \/ dir' = [dir EXCEPT ![p] = "none"] /\ Keeps(p)
       \/ /\ \E left \in Remains(dir[p]) : dir' = [dir EXCEPT ![p] = left]
          /\ Refuses(p)
    /\ SetOp(p, NoOp)
    /\ UNCHANGED <<backup, host, worker, shims, provider, activeProvider, restarts>>

\* The swap, in one go: the old directory becomes the backup, and the new version is written and loaded.
Swaps(p) ==
    LET o == op[p] IN
    /\ dir' = [dir EXCEPT ![p] = o.to]
    /\ Loads(p, o.to) /\ Keeps(p)
    /\ \/ o.was /\ backup' = [backup EXCEPT ![p] = dir[p]] /\ Spawn(p, o)
       \/ ~o.was /\ backup' = [backup EXCEPT ![p] = "none"] /\ SetOp(p, NoOp) /\ UNCHANGED <<host, worker>>

\* The old backup is not removed, or the directory not renamed: nothing catches that, and the plugin, which
\* is out of the map, stays there.
SwapRefused(p) ==
    /\ plugin' = [plugin EXCEPT ![p] = NotLoaded]
    /\ \E left \in {"none"} \cup Remains(backup[p]) : backup' = [backup EXCEPT ![p] = left]
    /\ SetOp(p, NoOp) /\ Refuses(p)
    /\ UNCHANGED <<dir, entry, host, worker>>

\* The new version is not written or not loaded, or (nothing is to be enabled) the backup is not dropped.
SwapFails(p) ==
    LET o == op[p] IN
    /\ \/ /\ \E left \in {"none", "broken", o.to} : dir' = [dir EXCEPT ![p] = left]
          /\ backup' = [backup EXCEPT ![p] = dir[p]]
          /\ plugin' = [plugin EXCEPT ![p] = NotLoaded] /\ UNCHANGED entry
       \/ /\ ~o.was /\ dir' = [dir EXCEPT ![p] = o.to]
          /\ \E left \in Remains(dir[p]) : backup' = [backup EXCEPT ![p] = left]
          /\ Loads(p, o.to)
    /\ SetOp(p, At(o, "rollback", o.host))
    /\ UNCHANGED <<host, worker, refused>>

Swap(p) ==
    /\ AtStage(p, {"update"}, "unload")
    /\ Swaps(p) \/ SwapRefused(p) \/ SwapFails(p)
    /\ UNCHANGED <<shims, provider, activeProvider, chosen, restarts>>

Undoes == {"update", "undo"}

MutRollback(p) ==
    /\ AtStage(p, Undoes, "rollback")
    /\ dir' = [dir EXCEPT ![p] = backup[p]] /\ backup' = [backup EXCEPT ![p] = "none"]
    /\ SetOp(p, NoOp)
    /\ UNCHANGED <<plugin, entry, host, worker, shims, provider, activeProvider, chosen, refused, restarts>>

\* The old version is back in its place, reloaded and enabled again.
Restores(p) ==
    LET o == op[p] IN
    /\ backup[p] \in Versions
    /\ dir' = [dir EXCEPT ![p] = backup[p]] /\ backup' = [backup EXCEPT ![p] = "none"]
    /\ Loads(p, backup[p]) /\ Keeps(p)
    /\ \/ o.was /\ Spawn(p, Operation("restore", o.was, o.to))
       \/ ~o.was /\ SetOp(p, NoOp) /\ UNCHANGED <<host, worker>>

\* The new directory is not removed, the backup not renamed, or what it holds not loaded.
RollbackRefused(p) ==
    /\ \/ /\ \E left \in {"none"} \cup Remains(dir[p]) : dir' = [dir EXCEPT ![p] = left]
          /\ UNCHANGED backup
       \/ dir' = [dir EXCEPT ![p] = backup[p]] /\ backup' = [backup EXCEPT ![p] = "none"]
    /\ plugin' = [plugin EXCEPT ![p] = NotLoaded]
    /\ SetOp(p, NoOp) /\ Refuses(p)
    /\ UNCHANGED <<entry, host, worker>>

\* The new version is dropped, from the map first.
Rollback(p) ==
    /\ AtStage(p, Undoes, "rollback")
    /\ Restores(p) \/ RollbackRefused(p)
    /\ UNCHANGED <<shims, provider, activeProvider, chosen, restarts>>

-----------------------------------------------------------------------------
(* What the worker does                                                     *)

\* onHookSubscribe(): one registration per event and enable.
Subscribe(p, w, e) ==
    /\ Alive(w) /\ worker[w].of = p /\ e \notin worker[w].subscribed
    /\ worker' = [worker EXCEPT ![w].subscribed = @ \cup {e}]
    /\ shims' = [shims EXCEPT ![p][e] = @ + 1]
    /\ UNCHANGED <<dir, backup, plugin, entry, host, provider, activeProvider, op, chosen, refused, restarts>>

\* onSearchProviderRegister(), in auto mode: the provider asks the worker that is registered.
OffersSearch(p, w) ==
    /\ Alive(w) /\ worker[w].of = p /\ host[p] # 0
    /\ provider' = [provider EXCEPT ![p] = host[p]] /\ activeProvider' = p
    /\ UNCHANGED <<dir, backup, plugin, entry, host, worker, shims, op, chosen, refused, restarts>>

\* onWorkerExit(): a crash also takes the plugin down; a deliberate kill leaves the rest to its caller.
Exits(w) ==
    LET p == worker[w].of IN
    /\ Alive(w)
    /\ worker' = [worker EXCEPT ![w] = [of |-> p, state |-> "exited", subscribed |-> {}]]
    /\ DropProvider(p)
    /\ IF worker[w].state = "killed"
       THEN UNCHANGED <<plugin, entry, shims, host>>
       ELSE /\ IF Loaded(p) THEN SetStatus(p, "ERROR") ELSE UNCHANGED <<plugin, entry>>
            /\ UnregisterHooks(p) /\ host' = [host EXCEPT ![p] = 0]
    /\ UNCHANGED <<dir, backup, op, chosen, refused, restarts>>

-----------------------------------------------------------------------------
(* The end of the process                                                   *)

\* What a boot loads: the directories that hold a package it can read.
Reads(unread) == {p \in Plugins \ unread : dir[p] \in Versions}

\* The process is killed and starts again: what is on disk is loaded, and nothing runs.  (A kill in the middle
\* of a step that writes files leaves what the step leaves when it fails there.)
Killed ==
    /\ restarts < MaxRestarts /\ restarts' = restarts + 1
    /\ \E unread \in SUBSET {p \in Plugins : dir[p] \in Versions} :
          /\ plugin' = [p \in Plugins |-> IF p \in Reads(unread)
                          THEN [status |-> "INSTALLED", version |-> dir[p], settings |-> Kept(p)] ELSE NotLoaded]
          /\ entry' = [p \in Plugins |-> IF p \in Reads(unread)
                          THEN [status |-> "INSTALLED", settings |-> Kept(p)] ELSE entry[p]]
          /\ refused' = unread
    /\ host' = [p \in Plugins |-> 0] /\ provider' = [p \in Plugins |-> 0] /\ activeProvider' = "builtin"
    /\ worker' = [w \in Workers |-> IF worker[w].state = "unborn" THEN worker[w]
                                    ELSE [of |-> worker[w].of, state |-> "exited", subscribed |-> {}]]
    /\ shims' = [p \in Plugins |-> NoShims]
    /\ op' = [p \in Plugins |-> NoOp]
    /\ UNCHANGED <<dir, backup, chosen>>

\* What an operation in progress does next, whatever the worker does.
Progress(p) ==
    \/ EnableFails(p) \/ EnableGivesUp(p) \/ Uninstalled(p) \/ Swap(p) \/ Rollback(p)
    \/ Kill(p) \/ Disabled(p)

PluginsNext ==
    \/ Killed
    \/ \E w \in Workers : Exits(w)
    \/ \E p \in Plugins :
          \/ Enable(p) \/ Disable(p) \/ Uninstall(p) \/ EnableStep(p) \/ Progress(p)
          \/ \E v \in Versions : Install(p, v) \/ Update(p, v)
          \/ \E s \in Settings : Configure(p, s)
          \/ \E w \in Workers : OffersSearch(p, w) \/ \E e \in PluginEvents : Subscribe(p, w, e)

\* Every call to a worker is timed, and a worker that was told to terminate does.
PluginFairness ==
    /\ \A p \in Plugins : WF_pluginVars(EnableStep(p) \/ Progress(p))
    /\ \A w \in Workers : WF_pluginVars(worker[w].state = "killed" /\ Exits(w))

PluginsSpec == PluginsInit /\ [][PluginsNext]_pluginVars /\ PluginFairness

-----------------------------------------------------------------------------

Statuses == {"INSTALLED", "ENABLED", "DISABLED", "ERROR"}
Stages == {"none", "load", "onLoad", "onEnable", "scrap", "onDisable", "terminate", "unload", "rollback"}

PluginsTypeOK ==
    /\ dir \in [Plugins -> Files] /\ backup \in [Plugins -> Files] /\ refused \subseteq Plugins
    /\ \A p \in Plugins : plugin[p] = NotLoaded
                          \/ plugin[p] \in [status : Statuses, version : Versions, settings : Settings]
    /\ \A p \in Plugins : entry[p] = NoEntry \/ entry[p] \in [status : Statuses, settings : Settings]
    /\ host \in [Plugins -> {0} \cup Workers] /\ provider \in [Plugins -> {0} \cup Workers]
    /\ activeProvider \in {"builtin"} \cup Plugins
    /\ worker \in [Workers -> [of : Plugins \cup {"none"}, state : {"unborn", "up", "killed", "exited"},
                               subscribed : SUBSET PluginEvents]]
    /\ shims \in [Plugins -> [PluginEvents -> Nat]]
    /\ op \in [Plugins ->
                 [kind : {"none", "enable", "disable", "uninstall", "update", "undo", "restore"}, stage : Stages,
                  host : {0} \cup Workers, was : BOOLEAN, to : Versions \cup {"none"}]]
    /\ chosen \in [Plugins -> Settings] /\ restarts \in 0 .. MaxRestarts

\* Between operations a plugin that is shown as enabled has a registered worker that runs.
EnabledIsLive == \A p \in Plugins : Free(p) /\ Enabled(p) => host[p] # 0 /\ worker[host[p]].state = "up"

\* A plugin that is not enabled gets no events, whichever way its enable failed or its worker ended.
HooksHaveOwner == \A p \in Plugins : Free(p) /\ shims[p] # NoShims => Enabled(p)

\* However often a plugin was enabled, an event reaches it once.
OneShimPerEvent == \A p \in Plugins, e \in PluginEvents : shims[p][e] <= 1

\* A worker that runs is the registered one or is being killed: none is leaked.
NoOrphanWorker ==
    \A w \in Workers : Alive(w) =>
       LET p == worker[w].of IN host[p] = w \/ (op[p].host = w /\ worker[w].state = "killed")

\* Searches are not sent to a worker that has ended, and the activeProvider provider is a registered one.
SearchGoesToTheLiving ==
    /\ \A p \in Plugins : provider[p] # 0 => Alive(provider[p])
    /\ activeProvider \in Plugins => provider[activeProvider] # 0

\* What runs is the version on disk, after every operation, failed or not; and what is on disk is loaded, up
\* to the operation or boot whose files could not be written, moved, removed or read.
RuntimeMatchesDisk ==
    \A p \in Plugins : Free(p) =>
       /\ Loaded(p) => plugin[p].version = dir[p] /\ p \notin refused
       /\ dir[p] \in Versions /\ p \notin refused => Loaded(p)

\* "a bad update never leaves the plugin broken": it ends with the plugin loaded, and enabled if it was, or
\* with the error of the old version.  (Unless the disk refused a step that nothing takes back: the removal
\* of an old backup and the renames, or the reading of the version that was restored.)
UpdateKeepsPlugin ==
    [][\A p \in Plugins :
          LET o == op[p] IN
          o.kind \in {"update", "undo", "restore"} /\ op'[p] = NoOp /\ restarts' = restarts =>
             \/ p \in refused' /\ plugin'[p] = NotLoaded
             \/ plugin'[p].status # "absent" /\ (o.was => plugin'[p].status \in {"ENABLED", "ERROR"})]_pluginVars

\* What the operator chose survives updates, failures and restarts, up to the uninstall.
SettingsSurvive == \A p \in Plugins : Loaded(p) => plugin[p].settings = chosen[p] /\ entry[p].settings = chosen[p]

\* What is in memory is what would be read from the disk.
MemoryMatchesDisk == RuntimeMatchesDisk /\ SettingsSurvive

\* Status, worker, hooks and search provider of a plugin agree, whatever failed or crashed,
\* and so do memory and disk, up to the files the disk refused to move.
RuntimeFollowsStatus ==
    /\ EnabledIsLive /\ NoOrphanWorker /\ SearchGoesToTheLiving /\ HooksHaveOwner /\ OneShimPerEvent
    /\ MemoryMatchesDisk

\* Every operation ends, with a worker that hangs or crashes, too.
OperationEnds == \A p \in Plugins : op[p] # NoOp ~> op[p] = NoOp

=============================================================================
