---------------------------- MODULE Conversations ----------------------------
(***************************************************************************)
(* Which chat a plugin's conversation is about, and who has it:            *)
(* src/modules/integration/conversation-mapping.service.ts, the            *)
(* capabilities and the gate of src/core/plugins/plugin-loader.service.ts  *)
(* and src/core/plugins/handover-gate.ts, for one session and one instance *)
(* of each plugin.                                                         *)
(***************************************************************************)
EXTENDS Integers, FiniteSets, FiniteSetsExt

CONSTANTS
    Relays,        \* the plugins
    TalkChats,
    Providers,     \* ids of conversations at the provider
    MaxTalks,      \* bound: calls of the plugins, and messages
    GateFaults     \* may "db" fail the lookup of the gate?

ASSUME ConversationAssumption ==
    /\ IsFiniteSet(Relays) /\ IsFiniteSet(TalkChats)
    /\ "none" \notin Providers
    /\ MaxTalks \in Nat /\ GateFaults \subseteq {"db"}

VARIABLES
    mappings,  \* conversation_mappings, by plugin and chat
    talks,     \* the calls and messages under way
    talked,    \* how many there have been; it also orders the updates
    handed,    \* history: the state each conversation was given last
    conflicts, \* history: refused upserts, and whether the conversation had another chat meanwhile
    heard      \* history: what plugins were given of a message

conversationVars == <<mappings, talks, talked, handed, conflicts, heard>>

Key(t) == <<t.plugin, t.chat>>
Unmapped == [provider |-> "none", state |-> "bot", at |-> 0]
Mapped(p, c) == mappings[<<p, c>>].provider # "none"

ConversationsInit ==
    /\ mappings \in [Relays \X TalkChats -> {Unmapped} \cup [provider : Providers, state : {"bot", "human"}, at : {0}]]
    /\ \A p \in Relays, c, d \in TalkChats : c # d /\ Mapped(p, c) => mappings[<<p, c>>].provider # mappings[<<p, d>>].provider
    /\ talks = {} /\ talked = 0
    /\ handed = [k \in Relays \X TalkChats |-> mappings[k].state]
    /\ conflicts = {} /\ heard = {}

LastUpdate == Max({mappings[k].at : k \in Relays \X TalkChats})

\* The reverse unique key: one chat per conversation of a plugin.
Taken(p, c, provider) == \E d \in TalkChats \ {c} : mappings[<<p, d>>].provider = provider

\* "human" stands for "closed", too.
Held(p, c) == mappings[<<p, c>>].state = "human"

-----------------------------------------------------------------------------

Talk(type, p, c, arg) ==
    /\ talked < MaxTalks /\ talked' = talked + 1
    /\ talks' = talks \cup {[number |-> talked + 1, type |-> type, plugin |-> p, chat |-> c, arg |-> arg, at |-> "begun",
                             clash |-> type = "upsert" /\ Taken(p, c, arg),
                             taken |-> (\E q \in Relays \ {p} : Held(q, c)) /\ ~Held(p, c)]}
    /\ UNCHANGED <<mappings, handed, conflicts, heard>>

Moves(t, next) == talks' = (talks \ {t}) \cup next
TalkGoes(t, at) == Moves(t, {[t EXCEPT !.at = at]})

\* The row as it is written, with its time; whoever waits may find the conversation, or the chat, changed.
Clashes(u, t, row) == u.clash \/ (u.plugin = t.plugin /\ u.chat # t.chat /\ u.arg = row.provider)
StaysTaken(u, t) == u.taken /\ u.chat # t.chat
Writes(t, row) ==
    /\ mappings' = [mappings EXCEPT ![Key(t)] = [row EXCEPT !.at = LastUpdate + 1]]
    /\ talks' = {[u EXCEPT !.clash = Clashes(u, t, row), !.taken = StaysTaken(u, t)] : u \in talks \ {t}}

-----------------------------------------------------------------------------
(* upsert()                                                                 *)

Find(t) ==
    /\ t.type = "upsert" /\ t.at = "begun"
    /\ TalkGoes(t, IF Mapped(t.plugin, t.chat) THEN "updating" ELSE "inserting")
    /\ UNCHANGED <<mappings, talked, handed, conflicts, heard>>

Refused(t) ==
    /\ conflicts' = conflicts \cup {[number |-> t.number, real |-> t.clash]}
    /\ Moves(t, {})
    /\ UNCHANGED <<mappings, talked, handed, heard>>

\* save(), which fails where either key is in use.
Insert(t) ==
    /\ t.type = "upsert" /\ t.at = "inserting"
    /\ IF Mapped(t.plugin, t.chat) \/ Taken(t.plugin, t.chat, t.arg)
       THEN TalkGoes(t, "refinding") /\ UNCHANGED <<mappings, handed>>
       ELSE /\ Writes(t, [Unmapped EXCEPT !.provider = t.arg])
            /\ handed' = [handed EXCEPT ![Key(t)] = "bot"]
    /\ UNCHANGED <<talked, conflicts, heard>>

\* A row another caller has made is updated; without one the conversation belongs to another chat.
Refind(t) ==
    /\ t.type = "upsert" /\ t.at = "refinding"
    /\ \/ ~Mapped(t.plugin, t.chat) /\ Refused(t)
       \/ Mapped(t.plugin, t.chat) /\ TalkGoes(t, "updating") /\ UNCHANGED <<mappings, talked, handed, conflicts, heard>>

\* updateById() sets the conversation, and leaves who has it.
Update(t) ==
    /\ t.type = "upsert" /\ t.at = "updating"
    /\ \/ Taken(t.plugin, t.chat, t.arg) /\ Refused(t)
       \/ /\ ~Taken(t.plugin, t.chat, t.arg)
          /\ Writes(t, [mappings[Key(t)] EXCEPT !.provider = t.arg])
          /\ UNCHANGED <<talked, handed, conflicts, heard>>

-----------------------------------------------------------------------------
(* handover.set()                                                           *)

GetRow(t) ==
    /\ t.type = "handover" /\ t.at = "begun"
    /\ IF Mapped(t.plugin, t.chat) THEN TalkGoes(t, "setting") ELSE Moves(t, {})
    /\ UNCHANGED <<mappings, talked, handed, conflicts, heard>>

SetState(t) ==
    /\ t.type = "handover" /\ t.at = "setting"
    /\ Writes(t, [mappings[Key(t)] EXCEPT !.state = t.arg])
    /\ handed' = [handed EXCEPT ![Key(t)] = t.arg]
    /\ UNCHANGED <<talked, conflicts, heard>>

-----------------------------------------------------------------------------
(* message:received, as a sandboxed plugin gets it                          *)

MutHandoverOf(c, p) == {k \in {<<p, c>>} : Held(p, c)}

\* findHandoverForChat(): the rows of any plugin that hold the chat; the one updated last counts.
HandoverOf(c, p) ==
    {k \in Relays \X {c} : /\ Held(k[1], c)
                           /\ \A q \in Relays : Held(q, c) => mappings[<<q, c>>].at <= mappings[k].at}

\* Who holds the conversation gets it, others do not; the lookup fails open.
Gate(t) ==
    /\ t.type = "message" /\ t.at = "begun"
    /\ \/ /\ HandoverOf(t.chat, t.plugin) = {} \/ <<t.plugin, t.chat>> \in HandoverOf(t.chat, t.plugin)
          /\ heard' = heard \cup {[number |-> t.number, rightly |-> ~t.taken]}
       \/ HandoverOf(t.chat, t.plugin) \ {<<t.plugin, t.chat>>} # {} /\ UNCHANGED heard
       \/ /\ "db" \in GateFaults
          /\ heard' = heard \cup {[number |-> t.number, rightly |-> TRUE]}
    /\ Moves(t, {})
    /\ UNCHANGED <<mappings, talked, handed, conflicts>>

ConversationsNext ==
    \/ \E p \in Relays, c \in TalkChats :
          \/ \E v \in Providers : Talk("upsert", p, c, v)
          \/ \E s \in {"bot", "human"} : Talk("handover", p, c, s)
          \/ Talk("message", p, c, "none")
    \/ \E t \in talks : Find(t) \/ Insert(t) \/ Refind(t) \/ Update(t) \/ GetRow(t) \/ SetState(t) \/ Gate(t)

ConversationsSpec == ConversationsInit /\ [][ConversationsNext]_conversationVars

-----------------------------------------------------------------------------

ConversationTypeOK ==
    /\ \A k \in Relays \X TalkChats : /\ mappings[k].provider \in Providers \cup {"none"}
                                  /\ mappings[k].state \in {"bot", "human"}
    /\ \A t \in talks : t.at \in {"begun", "inserting", "refinding", "updating", "setting"}

\* An upsert, whatever it races with, never takes a conversation away from who has it.
HandoverStands == \A k \in Relays \X TalkChats : Mapped(k[1], k[2]) => mappings[k].state = handed[k]

\* A plugin is only told of a conflict when the conversation had another chat while it was asking.
ConflictIsReal == \A r \in conflicts : r.real

\* A message of a chat another plugin has taken over before is not given to a plugin that has not.
TakenOverIsSilent == \A h \in heard : h.rightly

ConversationsAreKept == HandoverStands /\ ConflictIsReal /\ TakenOverIsSilent

===============================================================================
