---------------------------- MODULE EngineOperations ----------------------------
(***************************************************************************)
(* The operations of the two engine adapters.  An operation is the         *)
(* sequence of what it checks, looks up and does; the engine may go away   *)
(* before each of them, its page may be detached from the browser without  *)
(* anybody noticing, and an answer may be lost after WhatsApp has acted.   *)
(* The whatsapp-web.js adapter addresses a contact by the id it has looked *)
(* up, remembers it, and tries once more when WhatsApp no longer knows the *)
(* contact under it, which is how it learns that the contact has migrated  *)
(* from its phone number to a private id.                                  *)
(***************************************************************************)
EXTENDS Naturals, Sequences, FiniteSets

CONSTANTS
    Requests,     \* bound: operations under way at the same time
    PlainSends    \* those of them that send a text to the contact

ASSUME RequestsAssumption == PlainSends \subseteq Requests

VARIABLES
    adapter,   \* "wwjs" or "baileys"
    status,    \* "ready" or "down", as the adapter reports it
    client,    \* is there a browser page, or a socket?
    detached,  \* is the page detached from its browser?
    address,   \* how WhatsApp addresses the contact: "phone", then "lid"
    known,     \* the id remembered for it, or "none"
    req,       \* per request: operation, target, next step, where a send goes, answer
    acts,      \* history: per request: how often WhatsApp acted on it
    blurred    \* history: lookups that failed, or that the migration overtook

opVars == <<adapter, status, client, detached, address, known, req, acts, blurred>>

-------------------------------------------------------------------------------
(* The operations: in which order each checks ("ready", "channel...", "group"), looks up ("chat", "message",
   "stored", "last", "read"), loads media, resolves the recipient and acts. *)

\* Every operation of a set follows the same plan; two tables of operations are one.
Each(ops, plan) == [op \in ops |-> plan]
f ++ g == [op \in DOMAIN f \cup DOMAIN g |-> IF op \in DOMAIN f THEN f[op] ELSE g[op]]

MediaSends == {"sendImageMessage", "sendVideoMessage", "sendAudioMessage", "sendDocumentMessage"}
GroupWrites == {"addParticipants", "removeParticipants", "promoteParticipants", "demoteParticipants",
                "leaveGroup", "setGroupSubject", "setGroupDescription"}
Catalogs == {"getCatalog", "getProducts", "getProduct"}

WwjsSends ==
    Each({"sendTextMessage"}, <<"ready", "resolve", "send">>)
    ++ Each(MediaSends, <<"ready", "channelRefused", "media", "resolve", "send">>)
WwjsContacts ==
    Each({"getContacts", "getContactById", "getNumberId", "checkNumberExists", "resolveContactPhone"}, <<"ready", "read">>)
    ++ Each({"getGroups"}, <<"ready", "ready", "page">>)
WwjsExtended ==
    Each({"sendLocationMessage", "sendContactMessage", "sendPollMessage"}, <<"ready", "resolve", "send">>)
    ++ Each({"sendStickerMessage"}, <<"ready", "channelRefused", "media", "resolve", "send">>)
    ++ Each({"replyToMessage"}, <<"ready", "read", "message", "resolve", "send">>)
    ++ Each({"forwardMessage"}, <<"ready", "read", "message", "resolve", "send", "recover">>)
WwjsGroups ==
    Each({"getGroupInfo"}, <<"ready", "read">>)
    ++ Each({"createGroup"}, <<"ready", "act">>)
    ++ Each(GroupWrites, <<"ready", "read", "group", "act">>)
WwjsLabels ==
    Each({"reactToMessage"}, <<"ready", "read", "message", "act">>)
    ++ Each({"getMessageReactions"}, <<"ready", "read", "message", "read">>)
    ++ Each({"getLabels", "getLabelById"}, <<"ready", "read">>)
    ++ Each({"getChatLabels"}, <<"ready", "channelEmpty", "read", "read">>)
    ++ Each({"addLabelToChat", "removeLabelFromChat"}, <<"ready", "channelRejected", "ready", "read", "read", "act">>)
WwjsChannels ==
    Each({"getSubscribedChannels"}, <<"ready", "read">>)
    ++ Each({"getChannelById"}, <<"ready", "ready", "read">>)
    ++ Each({"subscribeToChannel", "unsubscribeFromChannel"}, <<"ready", "act">>)
    ++ Each({"getChannelMessages"}, <<"ready", "read", "message", "read">>)
WwjsHistory ==
    Each({"getChatHistory"}, <<"ready", "page">>)
    ++ Each({"deleteMessage"}, <<"ready", "read", "message", "act">>)
    ++ Each({"getProfilePicture"}, <<"ready", "read">>)
    ++ Each({"blockContact", "unblockContact"}, <<"ready", "read", "act">>)
    ++ Each({"getGroupInviteCode"}, <<"ready", "read", "group", "read">>)
    ++ Each({"revokeGroupInviteCode"}, <<"ready", "read", "group", "act">>)
WwjsStatuses ==
    Each({"getContactStatuses", "getContactStatus"}, <<"ready", "read">>)
    ++ Each({"postTextStatus", "deleteStatus"}, <<"ready", "act">>)
    ++ Each({"postImageStatus", "postVideoStatus"}, <<"ready", "media", "act">>)
WwjsCatalog ==
    Each(Catalogs, <<"ready", "stub">>) ++ Each({"sendProduct", "sendCatalog"}, <<"ready", "unsupported">>)
WwjsChats ==
    Each({"getChats"}, <<"ready", "page">>)
    ++ Each({"sendSeen"}, <<"ready", "read", "act">>)
    ++ Each({"markUnread", "deleteChat"}, <<"ready", "channelEmpty", "read", "act">>)
    ++ Each({"sendChatState"}, <<"ready", "channelEmpty", "resolve", "read", "act">>)

BaileysSends ==
    Each({"sendTextMessage", "sendLocationMessage", "sendContactMessage", "sendPollMessage", "sendChatState"}, <<"ready", "act">>)
    ++ Each(MediaSends \cup {"sendStickerMessage"}, <<"ready", "media", "act">>)
    ++ Each({"getNumberId", "checkNumberExists"}, <<"ready", "read">>)
BaileysReplies ==
    Each({"replyToMessage", "forwardMessage", "reactToMessage", "deleteMessage"}, <<"ready", "stored", "act">>)
BaileysGroups ==
    Each({"getGroups", "getGroupInfo", "getGroupInviteCode"}, <<"ready", "read">>)
    ++ Each(GroupWrites \cup {"createGroup", "revokeGroupInviteCode"}, <<"ready", "act">>)
BaileysContacts ==
    Each({"getProfilePicture"}, <<"ready", "read">>)
    ++ Each({"blockContact", "unblockContact"}, <<"ready", "act">>)
    ++ Each({"getContacts", "getContactById", "resolveContactPhone", "getChats"}, <<"ready">>)
    ++ Each({"sendSeen", "markUnread", "deleteChat"}, <<"ready", "last", "act">>)
BaileysGated ==
    Each({"getMessageReactions", "getChatHistory", "getLabels", "getLabelById", "getChatLabels",
          "getSubscribedChannels", "getChannelMessages"}, <<"unsupported">>)
    ++ Each({"addLabelToChat", "removeLabelFromChat", "unsubscribeFromChannel"}, <<"ready", "act">>)
    ++ Each({"getChannelById"}, <<"ready", "read">>)
    ++ Each({"subscribeToChannel"}, <<"ready", "read", "message", "act">>)
BaileysStatuses ==
    Each({"getContactStatuses", "getContactStatus", "sendProduct", "sendCatalog"} \cup Catalogs, <<"unsupported">>)
    ++ Each({"postTextStatus", "deleteStatus"}, <<"ready", "act">>)
    ++ Each({"postImageStatus", "postVideoStatus"}, <<"ready", "media", "ready", "act">>)

Plans ==
    [wwjs |-> WwjsSends ++ WwjsContacts ++ WwjsExtended ++ WwjsGroups ++ WwjsLabels ++ WwjsChannels
              ++ WwjsHistory ++ WwjsStatuses ++ WwjsCatalog ++ WwjsChats,
     baileys |-> BaileysSends ++ BaileysReplies ++ BaileysGroups ++ BaileysContacts ++ BaileysGated ++ BaileysStatuses]

\* Operations that turn an error, once they are ready, into an answer.
Swallowed ==
    [wwjs |-> Each({"getContactById", "resolveContactPhone", "getGroupInfo", "getProfilePicture"}, "empty")
              ++ Each({"sendSeen", "markUnread", "deleteChat", "sendChatState"}, "false"),
     baileys |-> Each({"getGroupInfo", "getProfilePicture"}, "empty") ++ Each({"sendChatState"}, "false")]

\* The operations of the engine interface, and those the capability matrix calls not available.
Operations == DOMAIN Plans.wwjs
NotAvailable ==
    [wwjs |-> Catalogs \cup {"sendProduct", "sendCatalog"},
     baileys |-> Catalogs \cup {"sendProduct", "sendCatalog", "getChannelMessages", "getChatHistory", "getChatLabels",
                                "getContactStatus", "getContactStatuses", "getLabelById", "getLabels",
                                "getMessageReactions", "getSubscribedChannels"}]

Targets == {"contact", "group", "channel"}

OpInit ==
    /\ adapter \in {"wwjs", "baileys"}
    /\ status \in {"ready", "down"} /\ client = (status = "ready") /\ detached = FALSE
    /\ address = "phone" /\ known \in {"none", "phone"} /\ (adapter = "baileys" => known = "none")
    /\ req \in [Requests -> [op : Operations, target : Targets, pc : {1}, to : {"none"}, tried : {"none"}, answer : {"none"}]]
    /\ \A r \in PlainSends : req[r].op = "sendTextMessage" /\ req[r].target = "contact"
    /\ acts = [r \in Requests |-> 0]
    /\ blurred = FALSE

Plan(r) == Plans[adapter][req[r].op]
AtStep(r, step) == req[r].answer = "none" /\ Plan(r)[req[r].pc] = step

\* The request goes on to its next step, and is done after the last.
Onward(q, plan) == IF q.pc = Len(plan) THEN [q EXCEPT !.pc = @ + 1, !.answer = "done"] ELSE [q EXCEPT !.pc = @ + 1]
Goes(r) == req' = [req EXCEPT ![r] = Onward(@, Plan(r))]
Ends(r, a) == req' = [req EXCEPT ![r].answer = a]
\* An error after the checks: some operations answer all the same.
Rejects(r) ==
    Ends(r, IF req[r].op \in DOMAIN Swallowed[adapter] THEN Swallowed[adapter][req[r].op] ELSE "failed")

engineVars == <<adapter, status, client, detached, address>>
Still == UNCHANGED <<engineVars, known, acts, blurred>>

EnsureReady(r) ==
    /\ AtStep(r, "ready")
    /\ IF status = "ready" /\ client THEN Goes(r) ELSE Ends(r, "notReady")
    /\ Still

\* What each operation does about a channel, where the engine has no such operation.
ChannelAnswer == [channelRefused |-> "notSupported", channelEmpty |-> "empty", channelRejected |-> "failed"]
CheckChannel(r) ==
    /\ \E step \in DOMAIN ChannelAnswer :
          /\ AtStep(r, step)
          /\ IF req[r].target = "channel" THEN Ends(r, ChannelAnswer[step]) ELSE Goes(r)
    /\ Still

\* Operations that the adapter leaves out: one error, and stubs that answer nothing.
Unsupported(r) ==
    /\ \/ AtStep(r, "unsupported") /\ Ends(r, "notSupported")
       \/ AtStep(r, "stub") /\ Ends(r, "empty")
    /\ Still

CheckGroup(r) ==
    /\ AtStep(r, "group")
    /\ IF req[r].target = "group" THEN Goes(r) ELSE Rejects(r)
    /\ Still

\* The message, channel or stored message that the operation is about may not be there.
FindMessage(r) ==
    /\ \/ AtStep(r, "message") \/ AtStep(r, "stored")
    /\ Goes(r) \/ Ends(r, "notFound")
    /\ Still
LastMessage(r) ==
    /\ AtStep(r, "last")
    /\ Goes(r) \/ Ends(r, "empty")
    /\ Still

\* The media of a request may come from a URL.
LoadMedia(r) ==
    /\ AtStep(r, "media")
    /\ Goes(r) \/ Rejects(r)
    /\ Still

\* Without a client the call throws; on a detached page it is rejected.
CallFails == ~client \/ detached
Reads(r) ==
    /\ AtStep(r, "read")
    /\ \/ ~CallFails /\ Goes(r)
       \/ Rejects(r)
    /\ Still

\* The two reads that recognise a detached page report the session as down.
ReadsPage(r) ==
    /\ AtStep(r, "page")
    /\ \/ ~CallFails /\ Goes(r) /\ UNCHANGED status
       \/ Rejects(r) /\ UNCHANGED status
       \/ client /\ detached /\ Ends(r, "notReady") /\ status' = "down"
    /\ UNCHANGED <<adapter, client, detached, address, known, acts, blurred>>

Acts(r) ==
    /\ AtStep(r, "act")
    /\ \/ ~CallFails /\ Goes(r) /\ acts' = [acts EXCEPT ![r] = @ + 1]
       \/ Rejects(r) /\ UNCHANGED acts
       \/ ~CallFails /\ Rejects(r) /\ acts' = [acts EXCEPT ![r] = @ + 1]
    /\ UNCHANGED <<engineVars, known, blurred>>

\* resolveSendId(): the remembered id, or a lookup that falls back to the phone number; only a confirmed id is
\* remembered.  Groups and channels are addressed as they are.
Resolved(r, id) == req' = [req EXCEPT ![r] = [Onward(@, Plan(r)) EXCEPT !.to = id]]
ResolveSendId(r) ==
    /\ AtStep(r, "resolve") /\ req[r].to = "none"
    /\ \/ req[r].target # "contact" /\ Resolved(r, "chat") /\ UNCHANGED <<known, blurred>>
       \/ req[r].target = "contact" /\ known # "none" /\ Resolved(r, known) /\ UNCHANGED <<known, blurred>>
       \/ /\ req[r].target = "contact" /\ known = "none"
          /\ \/ status = "ready" /\ ~CallFails /\ req' = [req EXCEPT ![r].to = address] /\ UNCHANGED blurred
             \/ Resolved(r, "phone") /\ blurred' = TRUE
          /\ UNCHANGED known
    /\ UNCHANGED <<engineVars, acts>>
\* The answer of the lookup arrives.
LookupAnswered(r) ==
    /\ AtStep(r, "resolve") /\ req[r].to # "none"
    /\ known' = req[r].to
    /\ Resolved(r, req[r].to)
    /\ UNCHANGED <<engineVars, acts, blurred>>

\* WhatsApp does not know a migrated contact by its number.
NoLid(r) == address = "lid" /\ req[r].to = "phone"

\* sendResolved(): the contact is looked up once more, and the send repeated if that yields another id.
SendResolved(r) ==
    /\ AtStep(r, "send") /\ (req[r].tried = "none" \/ req[r].to # req[r].tried)
    /\ \/ ~CallFails /\ ~NoLid(r) /\ Goes(r) /\ acts' = [acts EXCEPT ![r] = @ + 1] /\ UNCHANGED known
       \/ Rejects(r) /\ UNCHANGED <<acts, known>>
       \/ ~CallFails /\ ~NoLid(r) /\ Rejects(r) /\ acts' = [acts EXCEPT ![r] = @ + 1] /\ UNCHANGED known
       \/ /\ ~CallFails /\ NoLid(r) /\ req[r].tried = "none"
          /\ known' = "none"
          /\ req' = [req EXCEPT ![r].tried = req[r].to, ![r].to = "none", ![r].pc = @ - 1]
          /\ UNCHANGED acts
       \/ ~CallFails /\ NoLid(r) /\ req[r].tried # "none" /\ Ends(r, "noLid") /\ UNCHANGED <<acts, known>>
    /\ UNCHANGED <<engineVars, blurred>>
\* The second lookup yields the same id: the first error is the answer.
SameAgain(r) ==
    /\ AtStep(r, "send") /\ req[r].tried # "none" /\ req[r].to = req[r].tried
    /\ Ends(r, "noLid")
    /\ Still

\* A forward reads the id of the copy back; whatever happens to that, the forward is done.
MutRecoverId(r) == AtStep(r, "recover") /\ (Goes(r) \/ Ends(r, "notFound")) /\ Still
RecoverId(r) == AtStep(r, "recover") /\ Goes(r) /\ Still

Continue(r) ==
    \/ EnsureReady(r) \/ CheckChannel(r) \/ Unsupported(r) \/ CheckGroup(r) \/ FindMessage(r) \/ LastMessage(r)
    \/ LoadMedia(r) \/ Reads(r) \/ ReadsPage(r) \/ Acts(r) \/ ResolveSendId(r) \/ LookupAnswered(r)
    \/ SendResolved(r) \/ SameAgain(r) \/ RecoverId(r)

-------------------------------------------------------------------------------
(* The engine and WhatsApp. *)

\* disconnect(), logout(), destroy(), or a connection that closes for good.
TearsDown ==
    /\ status = "ready" \/ client
    /\ status' = "down" /\ client' = FALSE /\ detached' = FALSE
    /\ UNCHANGED <<adapter, address, known, req, acts, blurred>>

\* The Baileys adapter replaces its socket by itself.
Reconnects ==
    /\ adapter = "baileys" /\ status = "down"
    /\ status' = "ready" /\ client' = TRUE
    /\ UNCHANGED <<adapter, detached, address, known, req, acts, blurred>>

Detaches ==
    /\ adapter = "wwjs" /\ client /\ ~detached
    /\ detached' = TRUE
    /\ UNCHANGED <<adapter, status, client, address, known, req, acts, blurred>>

Migrates ==
    /\ adapter = "wwjs" /\ address = "phone"
    /\ address' = "lid"
    /\ blurred' = (blurred \/ \E r \in Requests : req[r].pc > 1 /\ req[r].answer = "none")
    /\ UNCHANGED <<adapter, status, client, detached, known, req, acts>>

OpNext ==
    \/ \E r \in Requests : Continue(r)
    \/ TearsDown \/ Reconnects \/ Detaches \/ Migrates

OpSpec == OpInit /\ [][OpNext]_opVars

-------------------------------------------------------------------------------

OpTypeOK ==
    /\ DOMAIN Plans.baileys = Operations
    /\ status \in {"ready", "down"} /\ client \in BOOLEAN /\ detached \in BOOLEAN
    /\ address \in {"phone", "lid"} /\ known \in {"none", "phone", "lid"}
    /\ \A r \in Requests : /\ req[r].pc \in 1 .. Len(Plan(r)) + 1
                           /\ req[r].to \in {"none", "phone", "lid", "chat"}
                           /\ req[r].answer \in {"none", "done", "empty", "false", "failed", "notReady", "notSupported",
                                                 "notFound", "noLid"}

HasEffect(r) == \E i \in DOMAIN Plan(r) : Plan(r)[i] \in {"act", "send"}

\* A contact that has migrated is reached, whatever id was remembered: a send fails for its id only if a lookup
\* failed, or the migration overtook a request.
SendsHeal == (\E r \in Requests : req[r].answer = "noLid") => blurred

\* Whatever fails under way, WhatsApp acts on a request at most once; once if the answer says so, and never if it
\* says that the session is not ready, or that what it is about is unknown or not supported.  What the matrix
\* calls not available has no effect and claims none; the rest is refused only for channels.
OperationIsTrue ==
    /\ SendsHeal
    /\ \A r \in Requests :
        /\ acts[r] <= 1
        /\ req[r].answer = "done" /\ HasEffect(r) => acts[r] = 1
        /\ req[r].answer \in {"empty", "notReady", "notSupported", "notFound", "noLid"} => acts[r] = 0
        /\ IF req[r].op \in NotAvailable[adapter]
           THEN acts[r] = 0 /\ req[r].answer # "done"
           ELSE req[r].answer = "notSupported" => req[r].target = "channel"

===============================================================================
