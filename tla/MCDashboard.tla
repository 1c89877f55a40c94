------------------------------ MODULE MCDashboard ------------------------------
(***************************************************************************)
(* The dashboard and what it talks to: the thread of a chat, the live      *)
(* events, the pages that show a list, and the settings of a plugin.  They *)
(* share no state, and a behaviour is about one of them.                   *)
(***************************************************************************)
EXTENDS LiveChat, EventsGateway, ListPages, PluginSettings

VARIABLE part

\* The rows a plugin's settings start with.
TwoRows == {<<[name |-> "a", pass |-> "s1"], [name |-> "b", pass |-> "s2"]>>}

\* The other parts start in one of their states.
Pinned ==
    /\ IF part = "events" THEN TRUE ELSE granted = {}
    /\ IF part = "lists" THEN TRUE ELSE listKind = "keys" /\ entries = [r \in Entries |-> NoText]
    /\ IF part = "settings" THEN TRUE
       ELSE /\ base = [key |-> Missing, note |-> "n1", rows |-> [there |-> TRUE, list |-> CHOOSE l \in StoredRows : TRUE]]
            /\ override = NoConfig

DashboardInit ==
    /\ part \in {"chat", "events", "lists", "settings"}
    /\ Pinned
    /\ ChatInit /\ GatewayInit /\ ListInit /\ SettingsInit
    /\ (override = NoConfig <=> base.key = Missing)

DashboardNext ==
    /\ UNCHANGED part
    /\ \/ part = "chat" /\ ChatNext /\ UNCHANGED <<gatewayVars, listVars, settingsVars>>
       \/ part = "events" /\ GatewayNext /\ UNCHANGED <<chatVars, listVars, settingsVars>>
       \/ part = "lists" /\ ListNext /\ UNCHANGED <<chatVars, gatewayVars, settingsVars>>
       \/ part = "settings" /\ SettingsNext /\ UNCHANGED <<chatVars, gatewayVars, listVars>>

dashboardVars == <<chatVars, gatewayVars, listVars, settingsVars, part>>

DashboardSpec == DashboardInit /\ [][DashboardNext]_dashboardVars

\* The type invariant of the part.
DashboardTypes ==
    CASE part = "chat" -> ChatTypeOK
      [] part = "events" -> GatewayTypeOK
      [] part = "lists" -> ListTypeOK
      [] part = "settings" -> SettingsTypeOK

\* The thread of a chat shows what happened, a page hears of what it has asked for, a list shows what there is and
\* loses nothing that was typed, and settings are stored as they were meant.
LiveIsTrue ==
    /\ part = "chat" => ChatIsTrue
    /\ part = "events" => EventsReachThePage
    /\ part = "lists" => ListsAreSound
    /\ part = "settings" => SettingsAreKept

\* What tells two states of a behaviour apart: the other parts never move.
PartView ==
    CASE part = "chat" -> <<part, chatVars>>
      [] part = "events" -> <<part, gatewayVars>>
      [] part = "lists" -> <<part, listVars>>
      [] part = "settings" -> <<part, settingsVars>>

===============================================================================
