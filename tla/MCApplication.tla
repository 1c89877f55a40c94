---------------------------- MODULE MCApplication ----------------------------
(***************************************************************************)
(* Parts that share no state: what the Baileys adapter makes of incoming   *)
(* messages, its message store, the file store, the automations, the       *)
(* conversations of an integration, and the sessions page of the           *)
(* dashboard.  A behaviour is about one of them.                           *)
(***************************************************************************)
EXTENDS BaileysInbound, BaileysStore, FileStore, Automations, Conversations, SessionsPage

VARIABLE part

\* The other parts start in one of their states.
Pinned ==
    /\ IF part = "inbound" THEN TRUE ELSE maxWaiting = 0 /\ origin = [m \in Msgs |-> "customer"]
    /\ IF part = "files" THEN TRUE
       ELSE storeType = "local" /\ reachable = FALSE /\ bucket = FALSE /\ held = [local |-> {}, s3 |-> {}]
    /\ IF part = "automations" THEN TRUE
       ELSE /\ settings = [ai |-> "off", inGroups |-> FALSE, cleanup |-> "off", requireAdmin |-> FALSE]
            /\ isPlain = [m \in Inbox |-> FALSE] /\ matches = [m \in Inbox |-> FALSE] /\ isAdmin = [g \in Groups |-> FALSE]
    /\ IF part = "conversations" THEN TRUE ELSE mappings = [k \in Relays \X TalkChats |-> Unmapped]
    /\ IF part = "page" THEN TRUE ELSE server = [s \in Cards |-> "new"]

\* Each automation on its own, the other switched off, on a message that does not concern it.
OneAutomation ==
    \/ settings.ai = "off" /\ ~settings.inGroups /\ \A m \in Inbox : ~isPlain[m]
    \/ /\ settings.cleanup = "off" /\ ~settings.requireAdmin
       /\ (\A m \in Inbox : ~matches[m]) /\ \A g \in Groups : ~isAdmin[g]

\* One of the cards is there; the other may be.
ACardIsThere == part = "page" => server[CHOOSE s \in Cards : TRUE] = "qr_ready"

ApplicationInit ==
    /\ part \in {"inbound", "store", "files", "automations", "conversations", "page"}
    /\ Pinned
    /\ InboundInit /\ StoreInit /\ FileInit /\ AutomationInit /\ ConversationsInit /\ PageInit
    /\ OneAutomation /\ ACardIsThere

AdapterRests == UNCHANGED <<inboundVars, storeVars>>
PluginsRest == UNCHANGED <<automationVars, conversationVars>>
RestRests == UNCHANGED <<fileVars, pageVars>>

ApplicationNext ==
    /\ UNCHANGED part
    /\ \/ part = "inbound" /\ InboundNext /\ PluginsRest /\ RestRests /\ UNCHANGED storeVars
       \/ part = "store" /\ StoreNext /\ PluginsRest /\ RestRests /\ UNCHANGED inboundVars
       \/ part = "automations" /\ AutomationNext /\ AdapterRests /\ RestRests /\ UNCHANGED conversationVars
       \/ part = "conversations" /\ ConversationsNext /\ AdapterRests /\ RestRests /\ UNCHANGED automationVars
       \/ part = "files" /\ FileNext /\ AdapterRests /\ PluginsRest /\ UNCHANGED pageVars
       \/ part = "page" /\ PageNext /\ AdapterRests /\ PluginsRest /\ UNCHANGED fileVars

applicationVars ==
    <<inboundVars, storeVars, fileVars, automationVars, conversationVars, pageVars, part>>

\* The fairness of each module.
ApplicationFairness ==
    /\ \A m \in Msgs : WF_inboundVars(part = "inbound" /\ Continue(m))
    /\ WF_fileVars(part = "files" /\ ProbeAnswered) /\ WF_fileVars(part = "files" /\ JobStep)
    /\ WF_automationVars(part = "automations" /\ Runs)
    /\ WF_pageVars(part = "page" /\ Poll)
    /\ \A s \in Cards : WF_pageVars(part = "page" /\ \E c \in fetches : c.of = s /\ (Serve(c) \/ Returns(c)))

ApplicationSpec ==
    /\ ApplicationInit
    /\ [][ApplicationNext]_applicationVars
    /\ ApplicationFairness

\* The type invariant of the part.
ApplicationTypes ==
    CASE part = "inbound" -> InboundTypeOK
      [] part = "store" -> StoreTypeOK
      [] part = "files" -> FileTypeOK
      [] part = "automations" -> AutomationTypeOK
      [] part = "conversations" -> ConversationTypeOK
      [] part = "page" -> PageTypeOK

\* An incoming message is announced as it is, and what the automations make of it is measured and done once.
IncomingIsHandled ==
    /\ part = "inbound" => InboundIsTrue
    /\ part = "automations" => AutomationsBehave

\* The adapter's message store keeps the newest messages, and files survive exports, imports and moves.
KeptIsKept ==
    /\ part = "store" => StoreIsExact
    /\ part = "files" => FilesAreKept

\* A conversation belongs to whoever has it.
ConversationsStand == part = "conversations" => ConversationsAreKept

\* The page shows what is.
PageIsSound == part = "page" => PageIsTrue

\* Every message the limiter of the adapter takes is settled, every export and import, every reply and every removal
\* ends, and the QR modal of a session that has settled closes by itself.
ApplicationEnds == InboundEnds /\ JobsEnd /\ AutomationsEnd /\ ModalCloses

===============================================================================
