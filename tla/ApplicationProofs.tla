--------------------------- MODULE ApplicationProofs ---------------------------
(***************************************************************************)
(* For any chats, plugins, files and messages, any number of calls and any *)
(* faults: conversations stay with whoever has them                        *)
(* (conversation-mapping.service.ts), exports and imports are complete     *)
(* (storage.service.ts), the message store evicts only what is old         *)
(* (baileys-message-store.service.ts), and an incoming message is announced*)
(* once and answered within the limits of the automations                  *)
(* (baileys.adapter.ts, ai-auto-reply.service.ts).                         *)
(***************************************************************************)
EXTENDS MCApplication, FiniteSetTheorems, SequenceTheorems, WellFoundedInduction, TLAPS

\* A finite set of numbers has a greatest: the least of its subsets that are closed upwards has but one element.
LEMMA Greatest ==
    ASSUME NEW S \in SUBSET Int, IsFiniteSet(S), S # {}
    PROVE  \E x \in S : \A y \in S : x >= y
  <1> DEFINE Upper == {U \in SUBSET S : U # {} /\ \A x \in U, y \in S \ U : y <= x}
  <1>1. Upper \subseteq FiniteSubsetsOf(S) /\ S \in Upper
    BY FS_Subset DEF FiniteSubsetsOf
  <1>2. PICK U \in Upper : \A V \in Upper : <<V, U>> \notin StrictSubsetOrdering(S)
    <2>1. Upper # {}
      BY <1>1
    <2> HIDE DEF Upper
    <2> QED BY <1>1, <2>1, WFMin, FS_StrictSubsetOrderingWellFounded
  <1>3. PICK x \in U : TRUE
    OBVIOUS
  <1>4. \A y \in U : x >= y
    <2> SUFFICES ASSUME NEW z \in U, ~(x >= z) PROVE FALSE
      OBVIOUS
    <2> DEFINE V == {y \in U : y > x}
    <2>1. V # {} /\ V \subseteq U
      OBVIOUS
    <2>2. \A v \in V, y \in S \ V : y <= v
      <3> SUFFICES ASSUME NEW v \in V, NEW y \in S \ V PROVE y <= v
        OBVIOUS
      <3>1. CASE y \in U
        BY <3>1
      <3>2. CASE y \notin U
        BY <3>2
      <3> QED BY <3>1, <3>2
    <2>3. V \in Upper
      BY <2>1, <2>2
    <2>4. <<V, U>> \in StrictSubsetOrdering(S)
      <3>1. V \in SUBSET S /\ U \in SUBSET S /\ V \subseteq U
        OBVIOUS
      <3>2. x \in U /\ x \notin V
        OBVIOUS
      <3> QED BY <3>1, <3>2 DEF StrictSubsetOrdering
    <2> QED BY <1>2, <2>3, <2>4
  <1> QED BY <1>3, <1>4

LEMMA MaxIsGreatest ==
    ASSUME NEW S \in SUBSET Int, IsFiniteSet(S), S # {}
    PROVE  Max(S) \in S /\ \A y \in S : Max(S) >= y
  BY Greatest DEF Max

-----------------------------------------------------------------------------
(* The conversations of an integration                                       *)

HandoverStates == {"bot", "human"}
TalkKeys == Relays \X TalkChats
MappingRows == [provider : Providers \cup {"none"}, state : HandoverStates, at : Nat]
TalkRecord ==
    [number : Nat, type : {"upsert", "handover", "message"}, plugin : Relays, chat : TalkChats,
     arg : Providers \cup HandoverStates \cup {"none"}, at : {"begun", "inserting", "refinding", "updating", "setting"},
     clash : BOOLEAN, taken : BOOLEAN]

\* What a call or message knows: what it is about, whether the conversation it asks for has had another chat, and
\* that nobody has written since to a chat that it found taken over by somebody else.
Knows(t) ==
    /\ t.type = "upsert" => t.arg \in Providers
    /\ t.type = "handover" => t.arg \in HandoverStates
    /\ t.type = "upsert" /\ Taken(t.plugin, t.chat, t.arg) => t.clash
    /\ t.at = "refinding" => Mapped(t.plugin, t.chat) \/ t.clash
    /\ t.at \in {"updating", "setting"} => Mapped(t.plugin, t.chat)
    /\ t.taken => (\E q \in Relays \ {t.plugin} : Held(q, t.chat)) /\ ~Held(t.plugin, t.chat)

ConversationInv ==
    /\ mappings \in [TalkKeys -> MappingRows] /\ handed \in [TalkKeys -> HandoverStates]
    /\ \A k \in TalkKeys : mappings[k].state = handed[k]
    /\ talks \subseteq TalkRecord /\ talked \in Nat
    /\ \A t \in talks : Knows(t)
    /\ ConflictIsReal /\ TakenOverIsSilent

LEMMA ConversationsStart == ConversationsInit => ConversationInv
  <1> SUFFICES ASSUME ConversationsInit PROVE ConversationInv
    OBVIOUS
  <1>1. mappings \in [TalkKeys -> MappingRows]
    BY DEF ConversationsInit, TalkKeys, MappingRows, HandoverStates, Unmapped
  <1> QED BY <1>1 DEF ConversationsInit, ConversationInv, ConflictIsReal, TakenOverIsSilent, TalkKeys, MappingRows, HandoverStates

LEMMA LastUpdateIsLast ==
    ASSUME ConversationInv, TalkKeys # {}
    PROVE  LastUpdate \in Nat /\ \A k \in TalkKeys : mappings[k].at <= LastUpdate
  <1> DEFINE Times == {mappings[k].at : k \in TalkKeys}
             time == [k \in TalkKeys |-> mappings[k].at]
  <1>1. IsFiniteSet(TalkKeys)
    BY ConversationAssumption, FS_Product DEF TalkKeys
  <1>2. time \in Surjection(TalkKeys, Times)
    BY DEF Surjection
  <1>3. IsFiniteSet(Times)
    BY <1>1, <1>2, FS_Surjection
  <1>4. Times \subseteq Nat /\ Times # {}
    BY DEF ConversationInv, MappingRows
  <1>5. Max(Times) \in Times /\ \A y \in Times : Max(Times) >= y
    <2> HIDE DEF Times
    <2> QED BY <1>3, <1>4, MaxIsGreatest
  <1>6. LastUpdate = Max(Times)
    BY DEF LastUpdate, TalkKeys
  <1> QED BY <1>4, <1>5, <1>6

\* A step that writes no mapping, and leaves the calls as they were but for one, whose knowledge is shown.
LEMMA UnwrittenStep ==
    ASSUME ConversationInv, UNCHANGED <<mappings, handed>>, talked' \in Nat, NEW t, NEW next,
           talks' = (talks \ {t}) \cup next, next \subseteq TalkRecord, \A u \in next : Knows(u),
           ConflictIsReal', TakenOverIsSilent'
    PROVE  ConversationInv'
  <1>1. \A u \in talks' : Knows(u)'
    BY DEF ConversationInv, Knows, Taken, Mapped, Held
  <1> QED BY <1>1 DEF ConversationInv

\* A call as it is after another's write.
Seen(u, clash, taken) == [u EXCEPT !.clash = clash, !.taken = taken]

LEMMA SeenIsCall ==
    ASSUME NEW u \in TalkRecord, NEW b \in BOOLEAN, NEW c \in BOOLEAN, NEW v, v = Seen(u, b, c)
    PROVE  /\ v \in TalkRecord
           /\ v.number = u.number /\ v.type = u.type /\ v.plugin = u.plugin /\ v.chat = u.chat /\ v.arg = u.arg
           /\ v.at = u.at /\ v.clash = b /\ v.taken = c
  BY DEF TalkRecord, Seen

\* A write of t puts on record, for everybody else, what it changes.
LEMMA WriteStep ==
    ASSUME ConversationInv, NEW t \in talks, NEW row \in MappingRows, row.provider # "none", Writes(t, row),
           handed' = [handed EXCEPT ![Key(t)] = row.state], talked' = talked, UNCHANGED <<conflicts, heard>>
    PROVE  ConversationInv'
  <1>1. t \in TalkRecord /\ Key(t) \in TalkKeys /\ Key(t) = <<t.plugin, t.chat>>
    BY DEF ConversationInv, TalkRecord, Key, TalkKeys
  <1>2. mappings' = [mappings EXCEPT ![Key(t)] = [row EXCEPT !.at = LastUpdate + 1]]
    BY DEF Writes
  <1>3. /\ mappings' \in [TalkKeys -> MappingRows]
        /\ mappings'[Key(t)].provider = row.provider /\ mappings'[Key(t)].state = row.state
        /\ \A k \in TalkKeys \ {Key(t)} : mappings'[k] = mappings[k]
    BY <1>1, <1>2, LastUpdateIsLast DEF ConversationInv, MappingRows
  <1>4. /\ handed' \in [TalkKeys -> HandoverStates]
        /\ \A k \in TalkKeys : mappings'[k].state = handed'[k]
    BY <1>1, <1>3 DEF ConversationInv, MappingRows
  <1>5. talks' = {Seen(u, Clashes(u, t, row), StaysTaken(u, t)) : u \in talks \ {t}}
    BY DEF Writes, Seen
  <1>6. ASSUME NEW u \in talks, NEW v, v = Seen(u, Clashes(u, t, row), StaysTaken(u, t)) PROVE v \in TalkRecord /\ Knows(v)'
    <2>1. u \in TalkRecord /\ Knows(u)
      BY DEF ConversationInv
    <2>2. /\ v \in TalkRecord
          /\ v.type = u.type /\ v.plugin = u.plugin /\ v.chat = u.chat /\ v.arg = u.arg /\ v.at = u.at
          /\ v.clash = Clashes(u, t, row) /\ v.taken = StaysTaken(u, t)
      <3>1. Clashes(u, t, row) \in BOOLEAN /\ StaysTaken(u, t) \in BOOLEAN
        BY DEF Clashes, StaysTaken
      <3> QED BY <1>6, <2>1, <3>1, SeenIsCall
    <2>3. Taken(v.plugin, v.chat, v.arg)' => Taken(v.plugin, v.chat, v.arg) \/ v.clash
      BY <1>1, <1>3, <2>1, <2>2 DEF Taken, TalkKeys, TalkRecord, Clashes
    <2>4. Mapped(v.plugin, v.chat) => Mapped(v.plugin, v.chat)'
      BY <1>1, <1>3, <2>1, <2>2 DEF Mapped, TalkKeys, TalkRecord
    <2>5. v.taken => \A q \in Relays : Held(q, v.chat)' <=> Held(q, v.chat)
      BY <1>1, <1>3, <2>1, <2>2 DEF Held, TalkKeys, TalkRecord, StaysTaken
    <2>6. v.plugin \in Relays /\ (v.taken => u.taken) /\ (u.clash => v.clash)
      BY <2>1, <2>2 DEF TalkRecord, Clashes, StaysTaken
    <2> QED BY <2>1, <2>2, <2>3, <2>4, <2>5, <2>6 DEF Knows
  <1>7. talks' \subseteq TalkRecord /\ \A u \in talks' : Knows(u)'
    BY <1>5, <1>6
  <1> QED BY <1>3, <1>4, <1>7 DEF ConversationInv, ConflictIsReal, TakenOverIsSilent

LEMMA CallIsKnown == ASSUME ConversationInv, NEW t \in talks PROVE t \in TalkRecord /\ Knows(t) /\ Key(t) = <<t.plugin, t.chat>> /\ Key(t) \in TalkKeys
  BY DEF ConversationInv, TalkRecord, Key, TalkKeys

LEMMA TalkStep ==
    ASSUME ConversationInv, NEW type \in {"upsert", "handover", "message"}, NEW p \in Relays, NEW c \in TalkChats, NEW arg,
           \/ type = "upsert" /\ arg \in Providers
           \/ type = "handover" /\ arg \in HandoverStates
           \/ type = "message" /\ arg = "none",
           Talk(type, p, c, arg)
    PROVE  ConversationInv'
  <1> DEFINE call == [number |-> talked + 1, type |-> type, plugin |-> p, chat |-> c, arg |-> arg, at |-> "begun",
                      clash |-> type = "upsert" /\ Taken(p, c, arg),
                      taken |-> (\E q \in Relays \ {p} : Held(q, c)) /\ ~Held(p, c)]
  <1>1. talked' \in Nat /\ talked + 1 \in Nat
    BY DEF Talk, ConversationInv
  <1>2. call \in TalkRecord
    <2>1. (type = "upsert" /\ Taken(p, c, arg)) \in BOOLEAN
      OBVIOUS
    <2>2. ((\E q \in Relays \ {p} : Held(q, c)) /\ ~Held(p, c)) \in BOOLEAN
      OBVIOUS
    <2>3. arg \in Providers \cup HandoverStates \cup {"none"}
      OBVIOUS
    <2> QED BY <1>1, <2>1, <2>2, <2>3 DEF TalkRecord
  <1>3. Knows(call)
    BY DEF Knows, HandoverStates
  <1>4. talks' = (talks \ {call}) \cup {call}
    BY DEF Talk
  <1>5. UNCHANGED <<mappings, handed>> /\ ConflictIsReal' /\ TakenOverIsSilent'
    BY DEF Talk, ConflictIsReal, TakenOverIsSilent, ConversationInv
  <1>6. {call} \subseteq TalkRecord /\ \A u \in {call} : Knows(u)
    BY <1>2, <1>3
  <1> HIDE DEF call
  <1> QED BY <1>1, <1>4, <1>5, <1>6, UnwrittenStep

\* A call that only goes on knows what it did, and what the next step needs.
LEMMA GoesStep ==
    ASSUME ConversationInv, NEW t \in talks, NEW at \in {"begun", "inserting", "refinding", "updating", "setting"},
           at = "refinding" => Mapped(t.plugin, t.chat) \/ t.clash,
           at \in {"updating", "setting"} => Mapped(t.plugin, t.chat),
           TalkGoes(t, at), UNCHANGED <<mappings, talked, handed, conflicts, heard>>
    PROVE  ConversationInv'
  <1> DEFINE next == [t EXCEPT !.at = at]
  <1>1. next \in TalkRecord /\ next.at = at /\ next.type = t.type /\ next.plugin = t.plugin /\ next.chat = t.chat
        /\ next.arg = t.arg /\ next.clash = t.clash /\ next.taken = t.taken
    BY CallIsKnown DEF TalkRecord
  <1>2. Knows(next)
    <2> HIDE DEF next
    <2> QED BY <1>1, CallIsKnown DEF Knows
  <1>3. talks' = (talks \ {t}) \cup {next}
    BY DEF TalkGoes, Moves
  <1>4. ConflictIsReal' /\ TakenOverIsSilent' /\ talked' \in Nat
    BY DEF ConversationInv, ConflictIsReal, TakenOverIsSilent
  <1> HIDE DEF next
  <1> QED BY <1>1, <1>2, <1>3, <1>4, UnwrittenStep

\* A refusal with a reason.
LEMMA RefusedStep == ASSUME ConversationInv, NEW t \in talks, t.clash, Refused(t) PROVE ConversationInv'
  <1>1. talks' = (talks \ {t}) \cup {} /\ talked' \in Nat
    BY DEF Refused, Moves, ConversationInv
  <1>2. ConflictIsReal' /\ TakenOverIsSilent'
    BY CallIsKnown DEF Refused, ConversationInv, ConflictIsReal, TakenOverIsSilent, TalkRecord
  <1> QED BY <1>1, <1>2, UnwrittenStep DEF Refused

LEMMA FindStep == ASSUME ConversationInv, NEW t \in talks, Find(t) PROVE ConversationInv'
  BY GoesStep DEF Find

LEMMA InsertStep == ASSUME ConversationInv, NEW t \in talks, Insert(t) PROVE ConversationInv'
  <1>1. CASE Mapped(t.plugin, t.chat) \/ Taken(t.plugin, t.chat, t.arg)
    BY <1>1, CallIsKnown, GoesStep DEF Insert, Knows
  <1>2. CASE ~(Mapped(t.plugin, t.chat) \/ Taken(t.plugin, t.chat, t.arg))
    <2> DEFINE row == [Unmapped EXCEPT !.provider = t.arg]
    <2>1. row \in MappingRows /\ row.provider # "none" /\ row.state = "bot"
      BY CallIsKnown, ConversationAssumption DEF Insert, Knows, Unmapped, MappingRows, HandoverStates
    <2>2. Writes(t, row) /\ handed' = [handed EXCEPT ![Key(t)] = "bot"] /\ talked' = talked /\ UNCHANGED <<conflicts, heard>>
      BY <1>2 DEF Insert
    <2> HIDE DEF row
    <2> QED BY <2>1, <2>2, WriteStep
  <1> QED BY <1>1, <1>2

LEMMA RefindStep == ASSUME ConversationInv, NEW t \in talks, Refind(t) PROVE ConversationInv'
  BY CallIsKnown, GoesStep, RefusedStep DEF Refind, Knows

LEMMA UpdateStep == ASSUME ConversationInv, NEW t \in talks, Update(t) PROVE ConversationInv'
  <1>1. CASE Taken(t.plugin, t.chat, t.arg)
    BY <1>1, CallIsKnown, RefusedStep DEF Update, Knows
  <1>2. CASE ~Taken(t.plugin, t.chat, t.arg)
    <2> DEFINE row == [mappings[Key(t)] EXCEPT !.provider = t.arg]
    <2>1. mappings[Key(t)] \in MappingRows /\ mappings[Key(t)].state = handed[Key(t)]
      BY CallIsKnown DEF ConversationInv
    <2>2. row \in MappingRows /\ row.provider # "none" /\ row.state = handed[Key(t)]
      BY <2>1, CallIsKnown, ConversationAssumption DEF Update, Knows, MappingRows
    <2>3. Writes(t, row) /\ handed' = handed /\ talked' = talked /\ UNCHANGED <<conflicts, heard>>
      BY <1>2 DEF Update
    <2> HIDE DEF row
    <2>4. handed' = [handed EXCEPT ![Key(t)] = row.state]
      BY <2>2, <2>3, CallIsKnown DEF ConversationInv
    <2> QED BY <2>2, <2>3, <2>4, WriteStep
  <1> QED BY <1>1, <1>2

LEMMA GetRowStep == ASSUME ConversationInv, NEW t \in talks, GetRow(t) PROVE ConversationInv'
  <1>1. CASE Mapped(t.plugin, t.chat)
    BY <1>1, GoesStep DEF GetRow
  <1>2. CASE ~Mapped(t.plugin, t.chat)
    <2>1. talks' = (talks \ {t}) \cup {} /\ talked' \in Nat
      BY <1>2 DEF GetRow, Moves, ConversationInv
    <2> QED BY <2>1, UnwrittenStep DEF GetRow, ConversationInv, ConflictIsReal, TakenOverIsSilent
  <1> QED BY <1>1, <1>2

LEMMA SetStateStep == ASSUME ConversationInv, NEW t \in talks, SetState(t) PROVE ConversationInv'
  <1> DEFINE row == [mappings[Key(t)] EXCEPT !.state = t.arg]
  <1>1. mappings[Key(t)] \in MappingRows /\ mappings[Key(t)].provider # "none"
    BY CallIsKnown DEF ConversationInv, SetState, Knows, Mapped
  <1>2. row \in MappingRows /\ row.provider # "none" /\ row.state = t.arg
    BY <1>1, CallIsKnown DEF SetState, Knows, MappingRows
  <1>3. Writes(t, row) /\ handed' = [handed EXCEPT ![Key(t)] = t.arg] /\ talked' = talked /\ UNCHANGED <<conflicts, heard>>
    BY DEF SetState
  <1> HIDE DEF row
  <1> QED BY <1>2, <1>3, WriteStep

\* Where a plugin holds the chat, the row that counts exists, and is that of a plugin that holds it.
LEMMA SomebodyCounts ==
    ASSUME ConversationInv, NEW c \in TalkChats, NEW p \in Relays, NEW q \in Relays, Held(q, c)
    PROVE  HandoverOf(c, p) # {}
  <1> DEFINE holders == {r \in Relays : Held(r, c)}
             times == {mappings[<<r, c>>].at : r \in holders}
             time == [r \in holders |-> mappings[<<r, c>>].at]
  <1>1. IsFiniteSet(times)
    <2>1. IsFiniteSet(holders)
      BY ConversationAssumption, FS_Subset
    <2>2. time \in Surjection(holders, times)
      BY DEF Surjection
    <2> QED BY <2>1, <2>2, FS_Surjection
  <1>2. times \in SUBSET Int /\ times # {}
    <2>1. \A r \in Relays : mappings[<<r, c>>].at \in Int
      BY DEF ConversationInv, MappingRows, TalkKeys
    <2>2. mappings[<<q, c>>].at \in times
      OBVIOUS
    <2> QED BY <2>1, <2>2
  <1>3. PICK x \in times : \A y \in times : x >= y
    <2> HIDE DEF times
    <2> QED BY <1>1, <1>2, Greatest
  <1>4. PICK r \in Relays : Held(r, c) /\ mappings[<<r, c>>].at = x
    OBVIOUS
  <1>5. \A s \in Relays : Held(s, c) => mappings[<<s, c>>].at <= mappings[<<r, c>>].at
    BY <1>2, <1>3, <1>4
  <1>6. <<r, c>> \in HandoverOf(c, p)
    BY <1>4, <1>5 DEF HandoverOf
  <1> QED BY <1>6

LEMMA GateStep == ASSUME ConversationInv, NEW t \in talks, Gate(t) PROVE ConversationInv'
  <1> DEFINE none == {}
  <1>1. talks' = (talks \ {t}) \cup none /\ talked' \in Nat /\ UNCHANGED <<mappings, handed, conflicts>>
    BY DEF Gate, Moves, ConversationInv
  <1>2. ASSUME HandoverOf(t.chat, t.plugin) = {} \/ <<t.plugin, t.chat>> \in HandoverOf(t.chat, t.plugin) PROVE ~t.taken
    <2>1. t.plugin \in Relays /\ t.chat \in TalkChats
      BY CallIsKnown DEF TalkRecord
    <2>2. <<t.plugin, t.chat>> \in HandoverOf(t.chat, t.plugin) => Held(t.plugin, t.chat)
      BY DEF HandoverOf
    <2> QED BY <1>2, <2>1, <2>2, CallIsKnown, SomebodyCounts DEF Knows
  <1>3. TakenOverIsSilent' /\ ConflictIsReal'
    <2>1. CASE UNCHANGED heard
      BY <1>1, <2>1 DEF ConversationInv, TakenOverIsSilent, ConflictIsReal
    <2>2. CASE \E h : heard' = heard \cup {h} /\ h.rightly
      BY <1>1, <2>2 DEF ConversationInv, TakenOverIsSilent, ConflictIsReal
    <2>3. UNCHANGED heard \/ \E h : heard' = heard \cup {h} /\ h.rightly
      <3> DEFINE given(b) == [number |-> t.number, rightly |-> b]
      <3>1. given(~t.taken).rightly = ~t.taken /\ given(TRUE).rightly
        OBVIOUS
      <3>2. \/ ~t.taken /\ heard' = heard \cup {given(~t.taken)}
            \/ UNCHANGED heard
            \/ heard' = heard \cup {given(TRUE)}
        BY <1>2 DEF Gate
      <3> HIDE DEF given
      <3> QED BY <3>1, <3>2
    <2> QED BY <2>1, <2>2, <2>3
  <1>4. UNCHANGED <<mappings, handed>> /\ none \subseteq TalkRecord /\ \A u \in none : Knows(u)
    BY <1>1
  <1> HIDE DEF none
  <1> QED BY <1>1, <1>3, <1>4, UnwrittenStep

LEMMA ConversationsStep == ConversationInv /\ [ConversationsNext]_conversationVars => ConversationInv'
  <1> SUFFICES ASSUME ConversationInv, [ConversationsNext]_conversationVars PROVE ConversationInv'
    OBVIOUS
  <1>1. ASSUME NEW t \in talks, Find(t) \/ Insert(t) \/ Refind(t) \/ Update(t) \/ GetRow(t) \/ SetState(t) \/ Gate(t)
        PROVE  ConversationInv'
    BY <1>1, FindStep, InsertStep, RefindStep, UpdateStep, GetRowStep, SetStateStep, GateStep
  <1>2. ASSUME NEW p \in Relays, NEW c \in TalkChats,
               \/ \E v \in Providers : Talk("upsert", p, c, v)
               \/ \E s \in {"bot", "human"} : Talk("handover", p, c, s)
               \/ Talk("message", p, c, "none")
        PROVE  ConversationInv'
    BY <1>2, TalkStep DEF HandoverStates
  <1>3. CASE UNCHANGED conversationVars
    BY <1>3 DEF conversationVars, ConversationInv, Knows, Mapped, Taken, Held, ConflictIsReal, TakenOverIsSilent
  <1> QED BY <1>1, <1>2, <1>3 DEF ConversationsNext

LEMMA ConversationsAreStanding == ConversationInv => ConversationsAreKept
  BY DEF ConversationInv, ConversationsAreKept, HandoverStands, TalkKeys

-----------------------------------------------------------------------------
(* The files                                                                 *)

FileJobs ==
    [op : {"none", "export", "import", "imported"}, todo : SUBSET Files, got : SUBSET Files, meant : SUBSET Files,
     store : Stores, steady : BOOLEAN, spoilt : BOOLEAN]
Archives == [there : BOOLEAN, files : SUBSET Files, meant : SUBSET Files, whole : BOOLEAN]

\* What an export or import has done so far, as long as nothing went wrong: it is all in the store it started with.
JobIsOnTrack ==
    fileJob.op # "none" /\ fileJob.steady /\ ~fileJob.spoilt =>
        /\ fileJob.got = fileJob.meant \ fileJob.todo
        /\ fileJob.op = "export" => fileJob.meant \subseteq held[fileJob.store]
        /\ fileJob.op \in {"import", "imported"} => fileJob.got \subseteq held[fileJob.store]

FileInv ==
    /\ storeType \in Stores /\ available \in BOOLEAN /\ bucket \in BOOLEAN
    /\ held \in [Stores -> SUBSET Files] /\ fileJob \in FileJobs /\ archive \in Archives
    /\ probe # "none" => storeType = "s3"
    /\ ~serving => fileJob.op = "none" /\ available = FALSE /\ probe = "none"
    /\ fileJob.op # "none" /\ fileJob.steady => fileJob.store = Backend
    /\ fileJob.todo \subseteq fileJob.meant /\ (fileJob.op = "imported" => fileJob.todo = {})
    /\ JobIsOnTrack /\ BucketIsReal /\ ExportIsComplete /\ ArchiveIsKept

LEMMA FilesStart == FileInit => FileInv
  <1> SUFFICES ASSUME FileInit PROVE FileInv
    OBVIOUS
  <1>1. PICK a \in SUBSET Files, b \in SUBSET Files : held = [local |-> a, s3 |-> b] /\ (b # {} => bucket)
    BY DEF FileInit
  <1>2. held \in [Stores -> SUBSET Files] /\ held["s3"] = b
    BY <1>1 DEF Stores
  <1>3. fileJob \in FileJobs /\ archive \in Archives /\ fileJob.op = "none" /\ fileJob.todo = {} /\ ~archive.there
    BY DEF FileInit, FileJobs, Archives, NoFileJob, NoArchive, Stores
  <1>4. available = FALSE /\ swept = FALSE /\ serving = TRUE /\ bucket \in BOOLEAN /\ storeType \in Stores /\ (probe # "none" => storeType = "s3")
    BY DEF FileInit
  <1> QED BY <1>1, <1>2, <1>3, <1>4 DEF FileInv, JobIsOnTrack, BucketIsReal, ExportIsComplete, ArchiveIsKept

\* The bucket is asked for: a job under way notices if its store is another now.
LEMMA ProbeStep == ASSUME FileInv, ProbeAnswered PROVE FileInv'
  <1>1. storeType = "s3" /\ storeType' = "s3" /\ available' \in BOOLEAN /\ bucket' \in BOOLEAN /\ (available' => bucket') /\ (bucket => bucket')
    BY DEF ProbeAnswered, InitAnswered, RefreshAnswered, FileInv, FileInit
  <1>2. serving /\ UNCHANGED <<held, archive, swept, serving>> /\ probe' = "none"
    BY DEF ProbeAnswered, InitAnswered, RefreshAnswered
  <1>3. Noticed /\ fileJob \in FileJobs
    BY DEF ProbeAnswered, InitAnswered, RefreshAnswered, FileInv
  <1>4. /\ fileJob' \in FileJobs
        /\ fileJob'.op = fileJob.op /\ fileJob'.todo = fileJob.todo /\ fileJob'.got = fileJob.got /\ fileJob'.meant = fileJob.meant
        /\ fileJob'.store = fileJob.store /\ fileJob'.spoilt = fileJob.spoilt
        /\ fileJob'.steady => fileJob.steady /\ (fileJob.op = "none" \/ fileJob.store = Backend')
    BY <1>3 DEF Noticed, FileJobs
  <1>5. JobIsOnTrack'
    BY <1>2, <1>4 DEF FileInv, JobIsOnTrack
  <1>6. BucketIsReal' /\ ExportIsComplete' /\ ArchiveIsKept'
    BY <1>1, <1>2 DEF FileInv, BucketIsReal, ExportIsComplete, ArchiveIsKept
  <1> QED BY <1>1, <1>2, <1>4, <1>5, <1>6 DEF FileInv, Stores

LEMMA BackendIsStore == FileInv => Backend \in Stores /\ held[Backend] \in SUBSET Files
  BY DEF FileInv, Backend, Stores

\* A job begins with everything ahead of it.
LEMMA StartsStep ==
    ASSUME FileInv, NEW op \in {"export", "import"}, NEW files \in SUBSET Files, op = "export" => files = held[Backend],
           fileJob' = [NoFileJob EXCEPT !.op = op, !.todo = files, !.meant = files, !.store = Backend],
           serving, UNCHANGED <<storeType, reachable, bucket, available, probe, held, archive, swept, serving>>
    PROVE  FileInv'
  <1>1. /\ fileJob' \in FileJobs
        /\ fileJob'.op = op /\ fileJob'.todo = files /\ fileJob'.got = {} /\ fileJob'.meant = files
        /\ fileJob'.store = Backend
    BY BackendIsStore DEF NoFileJob, FileJobs
  <1>2. Backend' = Backend
    BY DEF Backend
  <1>3. JobIsOnTrack'
    BY <1>1 DEF JobIsOnTrack
  <1>4. BucketIsReal' /\ ExportIsComplete' /\ ArchiveIsKept'
    BY DEF FileInv, BucketIsReal, ExportIsComplete, ArchiveIsKept
  <1> QED BY <1>1, <1>2, <1>3, <1>4 DEF FileInv

\* One file of a job is dealt with, or is not.
LEMMA JobFileStep ==
    ASSUME FileInv, fileJob.op \in {"export", "import"}, NEW f \in fileJob.todo, NEW spoilt \in BOOLEAN, NEW got \in SUBSET Files,
           fileJob' = [fileJob EXCEPT !.todo = fileJob.todo \ {f}, !.got = got, !.spoilt = spoilt],
           ~spoilt => ~fileJob.spoilt /\ (fileJob.op = "export" /\ f \notin held[Backend] => got = fileJob.got)
                      /\ (fileJob.op = "import" \/ f \in held[Backend] => got = fileJob.got \cup {f}),
           \/ UNCHANGED held /\ (fileJob.op = "import" => spoilt)
           \/ fileJob.op = "import" /\ held' = [held EXCEPT ![Backend] = @ \cup {f}],
           UNCHANGED <<storeType, reachable, bucket, available, probe, archive, swept, serving>>
    PROVE  FileInv'
  <1>1. fileJob \in FileJobs /\ f \in Files /\ held \in [Stores -> SUBSET Files]
    BY DEF FileInv, FileJobs
  <1>2. /\ fileJob' \in FileJobs
        /\ fileJob'.op = fileJob.op /\ fileJob'.todo = fileJob.todo \ {f} /\ fileJob'.got = got
        /\ fileJob'.meant = fileJob.meant /\ fileJob'.store = fileJob.store /\ fileJob'.spoilt = spoilt
        /\ fileJob'.steady = fileJob.steady
    BY <1>1 DEF FileJobs
  <1>3. Backend' = Backend /\ Backend \in Stores
    BY BackendIsStore DEF Backend
  <1>4. /\ held' \in [Stores -> SUBSET Files] /\ \A s \in Stores : held[s] \subseteq held'[s]
        /\ \A s \in Stores \ {Backend} : held'[s] = held[s]
        /\ fileJob.op = "import" /\ ~spoilt => f \in held'[Backend]
    BY <1>1, <1>3
  <1> QED
    <2>1. JobIsOnTrack'
      <3> SUFFICES ASSUME fileJob'.steady, ~spoilt
                   PROVE /\ got = fileJob.meant \ (fileJob.todo \ {f})
                         /\ fileJob.op = "export" => fileJob.meant \subseteq held'[fileJob.store]
                         /\ fileJob.op = "import" => got \subseteq held'[fileJob.store]
        BY <1>2 DEF JobIsOnTrack
      <3>1. fileJob.store = Backend /\ JobIsOnTrack /\ fileJob.steady /\ ~fileJob.spoilt
        BY <1>2 DEF FileInv
      <3>2. fileJob.got = fileJob.meant \ fileJob.todo /\ fileJob.todo \subseteq fileJob.meant
        BY <3>1 DEF JobIsOnTrack, FileInv
      <3> QED BY <1>1, <1>2, <1>3, <1>4, <3>1, <3>2 DEF JobIsOnTrack, FileInv, FileJobs
    <2>2. BucketIsReal' /\ ExportIsComplete' /\ ArchiveIsKept'
      <3>1. held'["s3"] # {} => bucket
        BY <1>3, <1>4 DEF FileInv, BucketIsReal, Stores, Backend
      <3> QED BY <3>1 DEF FileInv, BucketIsReal, ExportIsComplete, ArchiveIsKept
    <2> QED BY <1>1, <1>2, <1>3, <1>4, <2>1, <2>2 DEF FileInv

\* Steps of the export, the import and the process that leave both stores alone.
LEMMA ExportFileStep == ASSUME FileInv, ExportFile PROVE FileInv'
  <1>1. PICK f \in fileJob.todo :
           \/ fileJob' = [fileJob EXCEPT !.todo = @ \ {f}, !.got = IF f \in held[Backend] THEN @ \cup {f} ELSE @]
           \/ fileJob' = [fileJob EXCEPT !.todo = @ \ {f}, !.spoilt = TRUE]
    BY DEF ExportFile
  <1>2. fileJob \in FileJobs /\ fileJob.op = "export" /\ f \in Files
    BY DEF FileInv, FileJobs, ExportFile
  <1>3. UNCHANGED <<storeType, reachable, bucket, available, probe, held, archive, swept, serving>>
    BY DEF ExportFile
  <1>4. CASE fileJob' = [fileJob EXCEPT !.todo = @ \ {f}, !.got = IF f \in held[Backend] THEN @ \cup {f} ELSE @]
    <2> DEFINE got == IF f \in held[Backend] THEN fileJob.got \cup {f} ELSE fileJob.got
    <2>1. got \in SUBSET Files /\ (f \in held[Backend] => got = fileJob.got \cup {f}) /\ (f \notin held[Backend] => got = fileJob.got)
      BY <1>2 DEF FileJobs
    <2>2. fileJob' = [fileJob EXCEPT !.todo = fileJob.todo \ {f}, !.got = got]
      BY <1>4
    <2> HIDE DEF got
    <2>3. fileJob' = [fileJob EXCEPT !.todo = fileJob.todo \ {f}, !.got = got, !.spoilt = fileJob.spoilt]
      BY <1>2, <2>2 DEF FileJobs
    <2>4. fileJob.spoilt \in BOOLEAN
      BY <1>2 DEF FileJobs
    <2> QED BY <1>2, <1>3, <2>1, <2>3, <2>4, JobFileStep
  <1>5. CASE fileJob' = [fileJob EXCEPT !.todo = @ \ {f}, !.spoilt = TRUE]
    <2>1. fileJob' = [fileJob EXCEPT !.todo = fileJob.todo \ {f}, !.got = fileJob.got, !.spoilt = TRUE]
      BY <1>2, <1>5 DEF FileJobs
    <2>2. fileJob.got \in SUBSET Files
      BY <1>2 DEF FileJobs
    <2> QED BY <1>2, <1>3, <2>1, <2>2, JobFileStep
  <1> QED BY <1>1, <1>4, <1>5

LEMMA ImportEntryStep == ASSUME FileInv, ImportEntry PROVE FileInv'
  <1>1. PICK f \in fileJob.todo :
           \/ /\ held' = [held EXCEPT ![Backend] = @ \cup {f}]
              /\ fileJob' = [fileJob EXCEPT !.todo = @ \ {f}, !.got = @ \cup {f}]
           \/ fileJob' = [fileJob EXCEPT !.todo = @ \ {f}, !.spoilt = TRUE] /\ UNCHANGED held
    BY DEF ImportEntry
  <1>2. fileJob \in FileJobs /\ fileJob.op = "import" /\ f \in Files
    BY DEF FileInv, FileJobs, ImportEntry
  <1>3. UNCHANGED <<storeType, reachable, bucket, available, probe, archive, swept, serving>>
    BY DEF ImportEntry
  <1>4. fileJob.got \in SUBSET Files /\ fileJob.got \cup {f} \in SUBSET Files /\ fileJob.spoilt \in BOOLEAN
    BY <1>2 DEF FileJobs
  <1>5. CASE held' = [held EXCEPT ![Backend] = @ \cup {f}] /\ fileJob' = [fileJob EXCEPT !.todo = @ \ {f}, !.got = @ \cup {f}]
    <2>1. fileJob' = [fileJob EXCEPT !.todo = fileJob.todo \ {f}, !.got = fileJob.got \cup {f}, !.spoilt = fileJob.spoilt]
      BY <1>2, <1>5 DEF FileJobs
    <2> QED BY <1>2, <1>3, <1>4, <1>5, <2>1, JobFileStep
  <1>6. CASE fileJob' = [fileJob EXCEPT !.todo = @ \ {f}, !.spoilt = TRUE] /\ UNCHANGED held
    <2>1. fileJob' = [fileJob EXCEPT !.todo = fileJob.todo \ {f}, !.got = fileJob.got, !.spoilt = TRUE]
      BY <1>2, <1>6 DEF FileJobs
    <2> QED BY <1>2, <1>3, <1>4, <1>6, <2>1, JobFileStep
  <1> QED BY <1>1, <1>5, <1>6

LEMMA ExportedStep == ASSUME FileInv, Exported PROVE FileInv'
  <1>1. fileJob \in FileJobs /\ fileJob.op = "export" /\ fileJob.todo = {} /\ serving
    BY DEF Exported, FileInv
  <1>2. /\ archive' \in Archives /\ archive'.there /\ archive'.files = fileJob.got /\ archive'.meant = fileJob.meant
        /\ archive'.whole => fileJob.steady /\ ~fileJob.spoilt
    BY <1>1 DEF Exported, FileJobs, Archives
  <1>3. fileJob' = NoFileJob /\ NoFileJob \in FileJobs /\ NoFileJob.op = "none" /\ NoFileJob.todo = {}
    BY DEF Exported, NoFileJob, FileJobs, Stores
  <1>4. ExportIsComplete'
    BY <1>1, <1>2 DEF ExportIsComplete, FileInv, JobIsOnTrack
  <1>5. ArchiveIsKept' /\ BucketIsReal'
    BY <1>1, <1>2 DEF ArchiveIsKept, BucketIsReal, Exported, FileInv
  <1>6. JobIsOnTrack'
    BY <1>3 DEF JobIsOnTrack
  <1> QED BY <1>2, <1>3, <1>4, <1>5, <1>6 DEF FileInv, Exported

\* A job ends with nothing left behind, the answer of an import included.
LEMMA NothingIsOnTrack == fileJob' = NoFileJob => fileJob' \in FileJobs /\ fileJob'.op = "none" /\ fileJob'.todo = {} /\ JobIsOnTrack'
  BY DEF NoFileJob, FileJobs, Stores, JobIsOnTrack

LEMMA JobGoesStep ==
    ASSUME FileInv, fileJob' = NoFileJob, UNCHANGED <<storeType, bucket, available, probe, held, archive, swept, serving>>
    PROVE  FileInv'
  <1>1. BucketIsReal' /\ ExportIsComplete' /\ ArchiveIsKept'
    BY DEF FileInv, BucketIsReal, ExportIsComplete, ArchiveIsKept
  <1> QED BY <1>1, NothingIsOnTrack DEF FileInv

LEMMA FilesDownStep == ASSUME FileInv, FilesDown PROVE FileInv'
  <1>1. BucketIsReal' /\ ExportIsComplete' /\ ArchiveIsKept'
    BY DEF FilesDown, FileInv, BucketIsReal, ExportIsComplete, ArchiveIsKept
  <1> QED BY <1>1, NothingIsOnTrack DEF FilesDown, FileInv

LEMMA ImportedStep == ASSUME FileInv, Imported PROVE FileInv'
  <1>1. /\ fileJob \in FileJobs /\ fileJob' \in FileJobs /\ fileJob.op = "import" /\ fileJob.todo = {} /\ fileJob'.op = "imported"
        /\ fileJob'.todo = fileJob.todo /\ fileJob'.got = fileJob.got /\ fileJob'.meant = fileJob.meant /\ fileJob'.store = fileJob.store
        /\ fileJob'.steady = fileJob.steady /\ fileJob'.spoilt = fileJob.spoilt
    BY DEF Imported, FileInv, FileJobs
  <1>2. Backend' = Backend /\ UNCHANGED <<storeType, bucket, available, probe, held, archive, swept, serving>>
    BY DEF Imported, Backend
  <1>3. JobIsOnTrack'
    BY <1>1, <1>2 DEF FileInv, JobIsOnTrack
  <1>4. BucketIsReal' /\ ExportIsComplete' /\ ArchiveIsKept'
    BY <1>2 DEF FileInv, BucketIsReal, ExportIsComplete, ArchiveIsKept
  <1> QED BY <1>1, <1>2, <1>3, <1>4 DEF FileInv, Imported

LEMMA SweepStep == ASSUME FileInv, Sweep PROVE FileInv'
  <1>1. NoArchive \in Archives /\ ~NoArchive.there
    BY DEF NoArchive, Archives
  <1>2. Backend' = Backend
    BY DEF Sweep, Backend
  <1> QED BY <1>1, <1>2 DEF Sweep, FileInv, JobIsOnTrack, BucketIsReal, ExportIsComplete, ArchiveIsKept

LEMMA FilesUpStep == ASSUME FileInv, FilesUp PROVE FileInv'
  BY DEF FilesUp, FileInv, JobIsOnTrack, BucketIsReal, ExportIsComplete, ArchiveIsKept, Stores

\* Nothing that the job, the stores or the archive depend on changes.
LEMMA FilesRest ==
    ASSUME FileInv, UNCHANGED <<storeType, bucket, available, held, fileJob, archive, swept, serving>>,
           probe' = probe \/ (storeType = "s3" /\ serving)
    PROVE  FileInv'
  BY DEF FileInv, JobIsOnTrack, BucketIsReal, ExportIsComplete, ArchiveIsKept, Backend

LEMMA FilesStep == FileInv /\ [FileNext]_fileVars => FileInv'
  <1> SUFFICES ASSUME FileInv, [FileNext]_fileVars PROVE FileInv'
    OBVIOUS
  <1>1. CASE Export
    BY <1>1, BackendIsStore, StartsStep DEF Export, Starts
  <1>2. CASE Import
    <2>1. archive.files \in SUBSET Files
      BY DEF FileInv, Archives
    <2> QED BY <1>2, <2>1, StartsStep DEF Import, Starts
  <1>3. CASE JobStep
    <2>1. CASE AnswerRead
      BY <2>1, JobGoesStep DEF AnswerRead
    <2> QED BY <1>3, <2>1, ExportFileStep, ImportEntryStep, ExportedStep, ImportedStep DEF JobStep
  <1>4. CASE ImportAborted \/ FilesDown
    BY <1>4, JobGoesStep, FilesDownStep DEF ImportAborted
  <1>5. CASE ServerUp \/ Refresh \/ UNCHANGED fileVars
    BY <1>5, FilesRest DEF ServerUp, Refresh, fileVars
  <1> QED BY <1>1, <1>2, <1>3, <1>4, <1>5, ProbeStep, SweepStep, FilesUpStep DEF FileNext

LEMMA FilesAreThere == FileInv => FilesAreKept
  BY DEF FileInv, JobIsOnTrack, FilesAreKept, ImportIsThere, FileJobs

-----------------------------------------------------------------------------
(* The messages kept for replies                                             *)

PutRecords == [number : Nat, of : Stored, at : {"upserting", "counting", "evicting"}, cutoff : Nat]
Higher(times, c) == {n \in Stored : times[n] > c}

\* A row is that of the last upsert of its message, unless that was asked for before the last logout.
RowsAreNew ==
    /\ parent \in BOOLEAN /\ failed \in BOOLEAN /\ puts \in Nat /\ cleared \in 0..puts
    /\ created \in [Stored -> 0..puts] /\ newest \in [Stored -> 0..puts]
    /\ pending \subseteq PutRecords
    /\ \A m \in Stored : /\ newest[m] = 0 \/ newest[m] > cleared
                         /\ created[m] = 0 \/ created[m] = newest[m] \/ (newest[m] = 0 /\ created[m] <= cleared)
    /\ \A p \in pending : p.number \in 1..puts /\ p.cutoff <= puts
    /\ ~parent => \A m \in Stored : created[m] = 0 /\ newest[m] = 0

\* What a deletion is about to take is beyond the newest, or from before a logout, and stays so.
CutoffIsOld(q) == q.at = "evicting" => ~parent \/ q.cutoff <= cleared \/ Cardinality(Higher(newest, q.cutoff)) >= StoreLimit

\* Whoever finds too many rows counts them, or is about to delete all that are too many.
SomebodyEvicts ==
    ~failed => \/ Beyond(created) = {}
               \/ \E p \in pending : p.at = "counting"
               \/ \E p \in pending : p.at = "evicting" /\ \A m \in Beyond(created) : created[m] <= p.cutoff

StoreInv == RowsAreNew /\ (\A q \in pending : CutoffIsOld(q)) /\ SomebodyEvicts /\ NewestAreKept

LEMMA MoreHigher ==
    ASSUME NEW f, NEW g, NEW c, NEW d, \A n \in Stored : f[n] > c => g[n] > d
    PROVE  /\ Cardinality(Higher(f, c)) >= StoreLimit => Cardinality(Higher(g, d)) >= StoreLimit
           /\ Cardinality(Higher(f, c)) \in Nat
  <1>1. Higher(f, c) \subseteq Higher(g, d)
    BY DEF Higher
  <1>2. IsFiniteSet(Higher(g, d)) /\ IsFiniteSet(Higher(f, c))
    BY FS_Subset, StoreAssumption DEF Higher
  <1>3. Cardinality(Higher(f, c)) <= Cardinality(Higher(g, d))
    BY <1>1, <1>2, FS_Subset
  <1>4. Cardinality(Higher(f, c)) \in Nat /\ Cardinality(Higher(g, d)) \in Nat
    BY <1>2, FS_CardinalityType
  <1> QED BY <1>3, <1>4, StoreAssumption

LEMMA BeyondIsHigher ==
    ASSUME NEW times PROVE Beyond(times) = {m \in Stored : times[m] > 0 /\ Cardinality(Higher(times, times[m])) >= StoreLimit}
  BY DEF Beyond, Higher

LEMMA StoreStarts == StoreInit => StoreInv
  <1> SUFFICES ASSUME StoreInit PROVE StoreInv
    OBVIOUS
  <1>1. Beyond(created) = {}
    BY BeyondIsHigher DEF StoreInit
  <1>2. created \in [Stored -> 0..puts] /\ newest \in [Stored -> 0..puts] /\ \A m \in Stored : created[m] = 0 /\ newest[m] = 0
    BY DEF StoreInit
  <1>3. pending = {} /\ parent = TRUE /\ failed = FALSE /\ puts = 0 /\ cleared = 0
    BY DEF StoreInit
  <1>4. RowsAreNew
    <2>1. \A m \in Stored : newest[m] = 0 /\ created[m] = 0
      BY <1>2
    <2>2. \A p \in pending : FALSE
      BY <1>3
    <2>3. cleared \in 0..puts /\ puts \in Nat
      BY <1>3
    <2>4. parent \in BOOLEAN /\ failed \in BOOLEAN /\ pending \subseteq PutRecords
      BY <1>3, Zenon
    <2> QED BY <1>2, <2>1, <2>2, <2>3, <2>4 DEF RowsAreNew
  <1>5. SomebodyEvicts /\ NewestAreKept
    BY <1>1, <1>2 DEF SomebodyEvicts, NewestAreKept
  <1> QED BY <1>3, <1>4, <1>5 DEF StoreInv

\* Rows only go: what is beyond the limit afterwards was so before.
LEMMA BeyondShrinks ==
    ASSUME RowsAreNew, NEW times \in [Stored -> Nat], \A m \in Stored : times[m] = 0 \/ times[m] = created[m]
    PROVE  Beyond(times) \subseteq Beyond(created) /\ \A m \in Beyond(times) : times[m] = created[m]
  <1> SUFFICES ASSUME NEW m \in Beyond(times) PROVE m \in Beyond(created) /\ times[m] = created[m]
    BY DEF Beyond
  <1>1. m \in Stored /\ times[m] > 0 /\ Cardinality(Higher(times, times[m])) >= StoreLimit
    BY BeyondIsHigher
  <1>2. times[m] = created[m]
    BY <1>1
  <1>3. \A n \in Stored : times[n] > times[m] => created[n] > created[m]
    BY <1>1, <1>2
  <1>4. Cardinality(Higher(created, created[m])) >= StoreLimit
    BY <1>1, <1>3, MoreHigher
  <1> QED BY <1>1, <1>2, <1>4, BeyondIsHigher

LEMMA CutoffIsBeyond ==
    ASSUME RowsAreNew, Beyond(created) # {}
    PROVE  /\ \E n \in Beyond(created) : Cutoff = created[n]
           /\ \A n \in Beyond(created) : created[n] <= Cutoff
           /\ Cutoff \in 1..puts
  <1> DEFINE Times == {created[n] : n \in Beyond(created)}
             time == [n \in Beyond(created) |-> created[n]]
  <1>1. Beyond(created) \subseteq Stored /\ \A n \in Beyond(created) : created[n] \in 1..puts
    BY DEF Beyond, RowsAreNew
  <1>2. IsFiniteSet(Times)
    <2>1. IsFiniteSet(Beyond(created))
      BY <1>1, FS_Subset, StoreAssumption
    <2>2. time \in Surjection(Beyond(created), Times)
      BY DEF Surjection
    <2> QED BY <2>1, <2>2, FS_Surjection
  <1>3. Times \in SUBSET Int /\ Times # {}
    BY <1>1
  <1>4. \E c \in Times : \A n \in Beyond(created) : created[n] <= c
    <2>1. PICK c \in Times : \A d \in Times : c >= d
      <3> HIDE DEF Times
      <3> QED BY <1>2, <1>3, Greatest
    <2> QED BY <1>3, <2>1
  <1>5. Cutoff \in Times /\ \A n \in Beyond(created) : created[n] <= Cutoff
    BY <1>4 DEF Cutoff
  <1> QED BY <1>1, <1>5

\* The deletions decided on stay right as long as newer messages only come.
LEMMA CutoffStays ==
    ASSUME RowsAreNew, RowsAreNew', NEW q, q.cutoff \in Nat, CutoffIsOld(q), cleared' >= cleared, parent' => parent,
           parent' /\ cleared' = cleared => \A m \in Stored : newest[m] <= newest'[m],
           cleared' # cleared => q.cutoff <= cleared'
    PROVE  CutoffIsOld(q)'
  <1> SUFFICES ASSUME q.at = "evicting", parent', ~(q.cutoff <= cleared')
               PROVE  Cardinality(Higher(newest, q.cutoff)') >= StoreLimit
    BY DEF CutoffIsOld
  <1>1. parent /\ cleared' = cleared /\ Cardinality(Higher(newest, q.cutoff)) >= StoreLimit
    BY DEF CutoffIsOld
  <1>2. \A n \in Stored : newest[n] > q.cutoff => newest'[n] > q.cutoff
    BY <1>1 DEF RowsAreNew
  <1>3. Cardinality(Higher(newest', q.cutoff)) >= StoreLimit
    BY <1>1, <1>2, MoreHigher
  <1> QED BY <1>3 DEF Higher

\* A call that is over, or has become q, which knows what it needs to.
LEMMA PendingStep ==
    ASSUME RowsAreNew, NEW p \in pending, NEW q \in PutRecords, q.number = p.number, q.of = p.of, q.cutoff <= puts,
           pending' = pending \ {p} \/ pending' = (pending \ {p}) \cup {q}, UNCHANGED <<parent, puts, cleared, newest>>,
           failed' \in BOOLEAN, created' \in [Stored -> 0..puts], \A m \in Stored : created'[m] = 0 \/ created'[m] = created[m]
    PROVE  RowsAreNew'
  <1>1. pending' \subseteq PutRecords
    BY DEF RowsAreNew
  <1>2. \A r \in pending' : r.number \in 1..puts /\ r.cutoff <= puts
    BY DEF RowsAreNew
  <1>3. \A m \in Stored : created'[m] = 0 \/ created'[m] = newest[m] \/ (newest[m] = 0 /\ created'[m] <= cleared)
    BY DEF RowsAreNew
  <1> QED BY <1>1, <1>2, <1>3 DEF RowsAreNew

LEMMA FailsStep == ASSUME StoreInv, NEW p \in pending, Fails(p) PROVE StoreInv'
  <1> DEFINE q == [p EXCEPT !.at = "counting"]
  <1>1. p \in PutRecords /\ p.cutoff <= puts
    BY DEF StoreInv, RowsAreNew
  <1>2. q \in PutRecords /\ q.number = p.number /\ q.of = p.of /\ q.at = "counting" /\ q.cutoff = p.cutoff
    BY <1>1 DEF PutRecords
  <1>3. pending' = pending \ {p} /\ failed' = TRUE /\ UNCHANGED <<parent, created, puts, newest, cleared>>
    BY DEF Fails, TurnsInto
  <1> HIDE DEF q
  <1>4. RowsAreNew'
    BY <1>1, <1>2, <1>3, PendingStep DEF StoreInv, RowsAreNew
  <1>5. \A r \in pending' : CutoffIsOld(r)'
    BY <1>3 DEF StoreInv, CutoffIsOld, Higher
  <1>6. SomebodyEvicts' /\ NewestAreKept'
    BY <1>3 DEF StoreInv, SomebodyEvicts, NewestAreKept, Beyond
  <1> QED BY <1>4, <1>5, <1>6 DEF StoreInv

LEMMA CountedStep == ASSUME StoreInv, NEW p \in pending, Counted(p) PROVE StoreInv'
  <1> PICK c : c = Cutoff
    OBVIOUS
  <1> DEFINE q == [p EXCEPT !.at = "evicting", !.cutoff = c]
  <1>1. p \in PutRecords /\ RowsAreNew /\ UNCHANGED <<parent, created, puts, newest, cleared, failed>> /\ p.at = "counting"
    BY DEF StoreInv, RowsAreNew, Counted
  <1>2. Beyond(created)' = Beyond(created)
    BY <1>1 DEF Beyond
  <1>3. NewestAreKept'
    BY <1>1 DEF StoreInv, NewestAreKept, Beyond
  <1>4. \A r \in pending : CutoffIsOld(r)'
    BY <1>1 DEF StoreInv, CutoffIsOld, Higher
  <1>5. CASE Beyond(created) = {}
    <2>1. pending' = pending \ {p}
      BY <1>5 DEF Counted, TurnsInto
    <2>2. p.cutoff <= puts /\ failed' \in BOOLEAN /\ created' \in [Stored -> 0..puts]
      BY <1>1 DEF RowsAreNew
    <2>3. RowsAreNew'
      BY <1>1, <2>1, <2>2, PendingStep
    <2>4. SomebodyEvicts'
      BY <1>2, <1>5 DEF SomebodyEvicts
    <2> QED BY <1>3, <1>4, <2>1, <2>3, <2>4 DEF StoreInv
  <1>6. CASE Beyond(created) # {}
    <2>1. pending' = (pending \ {p}) \cup {q}
      BY <1>6 DEF Counted, TurnsInto
    <2>2. c \in 1..puts /\ puts \in Nat /\ c \in Nat /\ c <= puts
      BY <1>1, <1>6, CutoffIsBeyond DEF RowsAreNew
    <2>3. q \in PutRecords /\ q.number = p.number /\ q.of = p.of /\ q.at = "evicting" /\ q.cutoff = c
      BY <1>1, <2>2 DEF PutRecords
    <2> HIDE DEF q
    <2>4. failed' \in BOOLEAN /\ created' \in [Stored -> 0..puts]
      BY <1>1 DEF RowsAreNew
    <2>5. RowsAreNew'
      BY <1>1, <2>1, <2>2, <2>3, <2>4, PendingStep
    <2>6. CutoffIsOld(q)'
      <3> SUFFICES ASSUME parent, ~(c <= cleared) PROVE Cardinality(Higher(newest, c)) >= StoreLimit
        BY <1>1, <2>3 DEF CutoffIsOld, Higher
      <3>1. PICK n \in Beyond(created) : c = created[n]
        BY <1>1, <1>6, CutoffIsBeyond
      <3>2. Cardinality(Higher(created, c)) >= StoreLimit
        BY <3>1, BeyondIsHigher
      <3>3. \A m \in Stored : created[m] > c => newest[m] > c
        BY <1>1, <2>2 DEF RowsAreNew
      <3> QED BY <3>2, <3>3, MoreHigher
    <2>7. SomebodyEvicts'
      <3>1. \A m \in Beyond(created)' : created'[m] <= q.cutoff
        BY <1>1, <1>2, <1>6, <2>3, CutoffIsBeyond
      <3>2. q \in pending'
        BY <2>1
      <3> QED BY <2>3, <3>1, <3>2 DEF SomebodyEvicts
    <2> QED BY <1>3, <1>4, <2>1, <2>5, <2>6, <2>7 DEF StoreInv
  <1> QED BY <1>5, <1>6

LEMMA EvictedStep == ASSUME StoreInv, NEW p \in pending, Evicted(p) PROVE StoreInv'
  <1>1. p \in PutRecords /\ RowsAreNew /\ UNCHANGED <<parent, puts, newest, cleared, failed>> /\ p.at = "evicting"
        /\ pending' = pending \ {p} /\ created' = [m \in Stored |-> IF created[m] <= p.cutoff THEN 0 ELSE created[m]]
    BY DEF StoreInv, RowsAreNew, Evicted, TurnsInto
  <1>2. p.cutoff \in Nat /\ p.cutoff <= puts /\ puts \in Nat /\ cleared \in Nat
        /\ \A m \in Stored : created[m] \in Nat /\ newest[m] \in Nat
    BY <1>1 DEF RowsAreNew, PutRecords
  <1>3. /\ created' \in [Stored -> 0..puts]
        /\ \A m \in Stored : IF created[m] <= p.cutoff THEN created'[m] = 0 ELSE created'[m] = created[m]
    BY <1>1, <1>2 DEF RowsAreNew
  <1>4. RowsAreNew'
    BY <1>1, <1>2, <1>3, PendingStep DEF RowsAreNew
  <1>5. \A r \in pending' : CutoffIsOld(r)'
    BY <1>1 DEF StoreInv, CutoffIsOld, Higher
  <1>6. NewestAreKept'
    <2> SUFFICES ASSUME NEW m \in Stored, newest[m] > 0, m \notin Beyond(newest) PROVE created'[m] = newest[m]
      BY <1>1 DEF NewestAreKept, Beyond
    <2>1. created[m] = newest[m] /\ newest[m] > cleared
      BY <1>1, <1>2 DEF StoreInv, NewestAreKept, RowsAreNew
    <2>2. CASE created[m] <= p.cutoff
      <3>1. parent
        BY <1>1 DEF RowsAreNew
      <3>2. Cardinality(Higher(newest, p.cutoff)) >= StoreLimit
        BY <1>1, <1>2, <2>1, <2>2, <3>1 DEF StoreInv, CutoffIsOld
      <3>3. \A n \in Stored : newest[n] > p.cutoff => newest[n] > newest[m]
        BY <1>2, <2>1, <2>2
      <3>4. Cardinality(Higher(newest, newest[m])) >= StoreLimit
        BY <3>2, <3>3, MoreHigher
      <3> QED BY <3>4, BeyondIsHigher
    <2>3. CASE ~(created[m] <= p.cutoff)
      BY <1>3, <2>1, <2>3
    <2> QED BY <2>2, <2>3
  <1>7. SomebodyEvicts'
    <2>1. created' \in [Stored -> Nat] /\ \A m \in Stored : created'[m] = 0 \/ created'[m] = created[m]
      BY <1>2, <1>3
    <2>2. Beyond(created') \subseteq Beyond(created) /\ \A m \in Beyond(created') : created'[m] = created[m]
      BY <1>1, <2>1, BeyondShrinks
    <2>3. Beyond(created') = Beyond(created)'
      BY DEF Beyond
    <2>4. ASSUME \A m \in Beyond(created) : created[m] <= p.cutoff PROVE Beyond(created') = {}
      <3> SUFFICES ASSUME NEW m \in Beyond(created') PROVE FALSE
        OBVIOUS
      <3>1. m \in Stored /\ created'[m] > 0
        BY DEF Beyond
      <3> QED BY <1>3, <2>2, <2>4, <3>1
    <2> QED BY <1>1, <2>2, <2>3, <2>4 DEF StoreInv, SomebodyEvicts
  <1> QED BY <1>4, <1>5, <1>6, <1>7 DEF StoreInv

LEMMA PutBegins == ASSUME StoreInv, NEW m \in Stored, Put(m) PROVE StoreInv'
  <1>1. PICK q : q = [number |-> puts + 1, of |-> m, at |-> "upserting", cutoff |-> 0] /\ pending' = pending \cup {q}
    BY DEF Put
  <1>2. RowsAreNew /\ puts \in Nat /\ puts' = puts + 1 /\ UNCHANGED <<parent, created, newest, cleared, failed>>
    BY DEF StoreInv, RowsAreNew, Put
  <1>3. q \in PutRecords /\ q.number = puts + 1 /\ q.of = m /\ q.at = "upserting" /\ q.cutoff = 0
    BY <1>1, <1>2 DEF PutRecords
  <1>4. created' \in [Stored -> 0..puts'] /\ newest' \in [Stored -> 0..puts'] /\ cleared' \in 0..puts'
    BY <1>2 DEF RowsAreNew
  <1>5. \A p \in pending' : p \in PutRecords /\ p.number \in 1..puts' /\ p.cutoff <= puts'
    <2>1. \A p \in pending : p \in PutRecords /\ p.number \in 1..puts /\ p.cutoff <= puts /\ p.cutoff \in Nat
      BY <1>2 DEF RowsAreNew, PutRecords
    <2>2. \A p \in pending : p.number \in 1..puts' /\ p.cutoff <= puts'
      BY <1>2, <2>1
    <2>3. q.number \in 1..puts' /\ q.cutoff <= puts'
      BY <1>2, <1>3
    <2> QED BY <1>1, <1>3, <2>1, <2>2, <2>3
  <1>6. pending' \subseteq PutRecords
    BY <1>5
  <1>7. RowsAreNew'
    BY <1>2, <1>4, <1>5, <1>6 DEF RowsAreNew
  <1>8. \A r \in pending' : CutoffIsOld(r)'
    BY <1>1, <1>2, <1>3 DEF StoreInv, CutoffIsOld, Higher
  <1>9. SomebodyEvicts' /\ NewestAreKept'
    BY <1>1, <1>2 DEF StoreInv, SomebodyEvicts, NewestAreKept, Beyond
  <1> QED BY <1>7, <1>8, <1>9 DEF StoreInv

LEMMA UpsertedStep == ASSUME StoreInv, NEW p \in pending, Upserted(p) PROVE StoreInv'
  <1>1. p \in PutRecords /\ RowsAreNew /\ UNCHANGED <<parent, puts, failed>> /\ p.at = "upserting"
    BY DEF StoreInv, RowsAreNew, Upserted
  <1>2. /\ p.number \in 1..puts /\ p.of \in Stored /\ puts \in Nat /\ cleared \in 0..puts /\ p.cutoff <= puts /\ p.cutoff \in Nat
        /\ newest[p.of] \in Nat
    BY <1>1 DEF RowsAreNew, PutRecords
  <1>3. CASE ~parent
    <2>1. pending' = pending \ {p} /\ UNCHANGED <<created, newest, cleared>>
      BY <1>3 DEF Upserted, TurnsInto
    <2>2. PICK q : q = [p EXCEPT !.at = "counting"]
      OBVIOUS
    <2>3. q \in PutRecords /\ q.number = p.number /\ q.of = p.of /\ q.at = "counting" /\ q.cutoff = p.cutoff
      BY <1>1, <2>2 DEF PutRecords
    <2>4. RowsAreNew'
      BY <1>1, <1>2, <2>1, <2>3, PendingStep DEF RowsAreNew
    <2>5. \A r \in pending' : CutoffIsOld(r)'
      BY <1>1, <1>3 DEF CutoffIsOld
    <2>6. Beyond(created') = {} /\ Beyond(created') = Beyond(created)'
      BY <1>1, <1>3, <2>1, BeyondIsHigher DEF RowsAreNew, Beyond
    <2>7. SomebodyEvicts' /\ NewestAreKept'
      BY <1>1, <1>3, <2>1, <2>6 DEF SomebodyEvicts, NewestAreKept, RowsAreNew
    <2> QED BY <2>4, <2>5, <2>7 DEF StoreInv
  \* The row goes back: what was put so far does not count any more.
  <1>5. CASE parent /\ TooLate(p)
    <2>1. PICK q : q = [p EXCEPT !.at = "counting"] /\ pending' = (pending \ {p}) \cup {q}
      BY <1>5 DEF Upserted, TurnsInto
    <2>2. q \in PutRecords /\ q.number = p.number /\ q.of = p.of /\ q.at = "counting" /\ q.cutoff = p.cutoff
      BY <1>1, <2>1 DEF PutRecords
    <2>3. created' = [created EXCEPT ![p.of] = p.number] /\ newest' = [m \in Stored |-> 0] /\ cleared' = puts
      BY <1>5 DEF Upserted
    <2>4. /\ created' \in [Stored -> 0..puts] /\ newest' \in [Stored -> 0..puts] /\ cleared' \in 0..puts
          /\ \A m \in Stored : newest'[m] = 0 /\ created'[m] <= cleared'
      BY <1>1, <1>2, <2>3 DEF RowsAreNew
    <2>5. \A r \in pending' : r \in PutRecords /\ r.number \in 1..puts /\ r.cutoff <= puts
      BY <1>1, <1>2, <2>1, <2>2 DEF RowsAreNew
    <2>6. RowsAreNew'
      <3>1. pending' \subseteq PutRecords
        BY <2>5
      <3> QED BY <1>1, <1>5, <2>4, <2>5, <3>1 DEF RowsAreNew
    <2>7. \A r \in pending' : CutoffIsOld(r)'
      BY <2>3, <2>5 DEF CutoffIsOld
    <2>8. NewestAreKept'
      BY <2>4 DEF NewestAreKept
    <2>9. SomebodyEvicts'
      BY <2>1, <2>2 DEF SomebodyEvicts
    <2> QED BY <2>6, <2>7, <2>8, <2>9 DEF StoreInv
  <1>4. CASE parent /\ ~TooLate(p)
    <2>0. newest[p.of] <= p.number /\ cleared' = cleared
      BY <1>2, <1>4 DEF TooLate, Upserted
    <2>1. PICK q : q = [p EXCEPT !.at = "counting"] /\ pending' = (pending \ {p}) \cup {q}
      BY <1>4 DEF Upserted, TurnsInto
    <2>2. q \in PutRecords /\ q.number = p.number /\ q.of = p.of /\ q.at = "counting" /\ q.cutoff = p.cutoff
      BY <1>1, <2>1 DEF PutRecords
    <2>3. PICK n : n = IF p.number > cleared THEN p.number ELSE newest[p.of]
      OBVIOUS
    <2>4. created' = [created EXCEPT ![p.of] = p.number] /\ newest' = [newest EXCEPT ![p.of] = n]
      BY <1>4, <2>3 DEF Upserted
    <2>5. /\ n \in 0..puts /\ newest[p.of] <= n
          /\ p.number > cleared => n = p.number
          /\ ~(p.number > cleared) => n = 0
      BY <1>1, <1>2, <2>0, <2>3 DEF RowsAreNew
    <2>6. /\ created' \in [Stored -> 0..puts] /\ newest' \in [Stored -> 0..puts]
          /\ created'[p.of] = p.number /\ newest'[p.of] = n
          /\ \A m \in Stored \ {p.of} : created'[m] = created[m] /\ newest'[m] = newest[m]
      BY <1>1, <1>2, <2>4, <2>5 DEF RowsAreNew
    <2>7. \A m \in Stored : /\ newest[m] <= newest'[m]
                            /\ newest'[m] = 0 \/ newest'[m] > cleared
                            /\ created'[m] = 0 \/ created'[m] = newest'[m] \/ (newest'[m] = 0 /\ created'[m] <= cleared)
      <3>1. \A m \in Stored \ {p.of} : newest[m] \in Nat
        BY <1>1 DEF RowsAreNew
      <3> QED BY <1>1, <1>2, <2>5, <2>6, <3>1 DEF RowsAreNew
    <2>8. \A r \in pending' : r \in PutRecords /\ r.number \in 1..puts /\ r.cutoff <= puts
      BY <1>1, <1>2, <2>1, <2>2 DEF RowsAreNew
    <2>9. RowsAreNew'
      <3>1. pending' \subseteq PutRecords
        BY <2>8
      <3> QED BY <1>1, <1>4, <2>0, <2>6, <2>7, <2>8, <3>1 DEF RowsAreNew
    <2>10. ASSUME NEW r \in pending' PROVE CutoffIsOld(r)'
      <3>1. CASE r = q
        BY <2>2, <3>1 DEF CutoffIsOld
      <3>2. CASE r \in pending
        <4>1. r.cutoff \in Nat /\ CutoffIsOld(r) /\ cleared \in Nat
          BY <1>1, <1>2, <3>2 DEF StoreInv, RowsAreNew, PutRecords
        <4> QED BY <1>1, <2>0, <2>7, <2>9, <4>1, CutoffStays
      <3> QED BY <2>1, <3>1, <3>2
    <2>11. NewestAreKept'
      <3> SUFFICES ASSUME NEW m \in Stored, newest'[m] > 0, m \notin Beyond(newest') PROVE created'[m] = newest'[m]
        BY DEF NewestAreKept, Beyond
      <3>1. CASE m = p.of
        BY <1>2, <2>5, <2>6, <3>1
      <3>2. CASE m # p.of
        <4>1. newest'[m] = newest[m] /\ created'[m] = created[m]
          BY <2>6, <3>2
        <4>2. m \notin Beyond(newest)
          <5> SUFFICES ASSUME m \in Beyond(newest) PROVE FALSE
            OBVIOUS
          <5>1. Cardinality(Higher(newest, newest[m])) >= StoreLimit
            BY BeyondIsHigher
          <5>2. \A k \in Stored : newest[k] > newest[m] => newest'[k] > newest'[m]
            <6>1. \A k \in Stored : newest[k] \in Nat /\ newest'[k] \in Nat
              BY <1>1, <2>6 DEF RowsAreNew
            <6> QED BY <2>7, <4>1, <6>1
          <5>3. Cardinality(Higher(newest', newest'[m])) >= StoreLimit
            BY <5>1, <5>2, MoreHigher
          <5> QED BY <5>3, BeyondIsHigher
        <4> QED BY <4>1, <4>2 DEF StoreInv, NewestAreKept
      <3> QED BY <3>1, <3>2
    <2>12. SomebodyEvicts'
      BY <2>1, <2>2 DEF SomebodyEvicts
    <2> QED BY <2>9, <2>10, <2>11, <2>12 DEF StoreInv
  <1> QED BY <1>3, <1>4, <1>5

\* Everything goes, with the session or at a logout; the puts under way go on.
LEMMA ClearingStep ==
    ASSUME StoreInv, created' = [m \in Stored |-> 0], newest' = [m \in Stored |-> 0], UNCHANGED <<puts, pending, failed>>,
           \/ parent' = FALSE /\ cleared' = cleared
           \/ parent' = parent /\ cleared' = puts
    PROVE  StoreInv'
  <1>1. RowsAreNew /\ puts \in Nat /\ cleared \in 0..puts /\ \A m \in Stored : created'[m] = 0 /\ newest'[m] = 0
    BY DEF StoreInv, RowsAreNew
  <1>2. \A p \in pending : p \in PutRecords /\ p.number \in 1..puts /\ p.of \in Stored /\ p.cutoff <= puts
    BY <1>1 DEF RowsAreNew, PutRecords
  <1>4. created' \in [Stored -> 0..puts] /\ newest' \in [Stored -> 0..puts] /\ cleared' \in 0..puts
    BY <1>1
  <1>5. parent' \in BOOLEAN
    BY <1>1 DEF RowsAreNew
  <1>6. RowsAreNew'
    BY <1>1, <1>2, <1>4, <1>5 DEF RowsAreNew
  <1>7. \A r \in pending' : CutoffIsOld(r)'
    BY <1>2 DEF CutoffIsOld
  <1>8. Beyond(created') = {} /\ Beyond(created') = Beyond(created)'
    BY <1>1, BeyondIsHigher DEF Beyond
  <1>9. SomebodyEvicts' /\ NewestAreKept'
    BY <1>1, <1>8 DEF SomebodyEvicts, NewestAreKept
  <1> QED BY <1>6, <1>7, <1>9 DEF StoreInv

LEMMA StoreStep == StoreInv /\ [StoreNext]_storeVars => StoreInv'
  <1> SUFFICES ASSUME StoreInv, [StoreNext]_storeVars PROVE StoreInv'
    OBVIOUS
  <1>1. CASE SessionDeleted \/ ClearSession
    BY <1>1, ClearingStep DEF SessionDeleted, ClearSession
  <1>2. CASE UNCHANGED storeVars
    BY <1>2 DEF storeVars, StoreInv, RowsAreNew, CutoffIsOld, SomebodyEvicts, NewestAreKept, Beyond, Higher
  <1> QED BY <1>1, <1>2, PutBegins, UpsertedStep, CountedStep, EvictedStep, FailsStep DEF StoreNext, PutStep

LEMMA StoreIsKept == StoreInv => StoreIsExact
  BY DEF StoreInv, RowsAreNew, StoreIsExact, LimitIsKept, NoOrphans, SomebodyEvicts

-----------------------------------------------------------------------------
(* The messages of the socket                                                *)

Links == [open : BOOLEAN, since : Nat, connectedAt : Int]
Stages == {"unseen", "sent", "running", "parked", "bare", "ignored", "ended", "archived"}
InLimiter == {"running", "parked", "bare"}

\* What is sent is stamped within the skew of the clocks; what the API sends goes through no gate.
TimesHold ==
    /\ origin \in [Msgs -> {"customer", "phone", "api"}] /\ clock \in Nat /\ link \in Links
    /\ sentAt \in [Msgs -> Nat] /\ stamp \in [Msgs -> Int] /\ stage \in [Msgs -> Stages]
    /\ link.since <= clock /\ (link.open => link.connectedAt = link.since - Skew)
    /\ \A m \in Msgs : /\ stamp[m] >= sentAt[m] - Skew
                       /\ stage[m] # "unseen" => sentAt[m] > 0
                       /\ origin[m] = "api" => stage[m] \in {"unseen", "sent", "ignored"} /\ (stage[m] = "unseen" => sentAt[m] = 0)
                       /\ stage[m] = "ignored" /\ origin[m] = "customer" => sentAt[m] < link.since

\* A message is announced by the one step that ends it, or by its send.
ToldOnce ==
    /\ told \in [Msgs -> Nat] /\ dropped \subseteq Msgs
    /\ \A m \in Msgs : /\ told[m] <= 1
                       /\ origin[m] # "api" /\ stage[m] # "ended" => told[m] = 0
                       /\ stage[m] = "ended" /\ told[m] = 0 => m \in dropped

QueueHolds ==
    /\ maxWaiting \in Nat /\ waiting \in Seq(Msgs)
    /\ \A i \in 1..Len(waiting) : stage[waiting[i]] = "parked"
    /\ \A i, j \in 1..Len(waiting) : waiting[i] = waiting[j] => i = j
    /\ DownloadsAreBounded

PreviewHolds ==
    /\ recorded \subseteq Msgs /\ preview \in recorded \cup {Nothing}
    /\ \A m \in recorded : sentAt[m] > 0
    /\ PreviewIsNewest

InboundInv == TimesHold /\ ToldOnce /\ QueueHolds /\ PreviewHolds

LEMMA InboundStarts == InboundInit => InboundInv
  <1> SUFFICES ASSUME InboundInit PROVE InboundInv
    OBVIOUS
  <1>1. TimesHold
    BY InboundAssumption DEF InboundInit, TimesHold, Links, Stages
  <1>2. ToldOnce
    BY DEF InboundInit, ToldOnce
  <1>3. QueueHolds
    <2>1. waiting = <<>> /\ waiting \in Seq(Msgs) /\ Len(waiting) = 0 /\ maxWaiting \in Nat
      BY InboundAssumption, EmptySeq DEF InboundInit
    <2>2. InSlot = {} /\ Cardinality(InSlot) = 0
      BY FS_EmptySet DEF InboundInit, InSlot
    <2> QED BY <2>1, <2>2, InboundAssumption DEF QueueHolds, DownloadsAreBounded
  <1>4. PreviewHolds
    BY DEF InboundInit, PreviewHolds, PreviewIsNewest
  <1> QED BY <1>1, <1>2, <1>3, <1>4 DEF InboundInv

\* Messages get on, but none of the limiter, none is announced or recorded, and stamps stay.
LEMMA QuietStep ==
    ASSUME InboundInv, TimesHold', UNCHANGED <<origin, maxWaiting, waiting, told, dropped, preview, recorded>>,
           \A m \in Msgs : sentAt[m] > 0 => sentAt'[m] > 0 /\ stamp'[m] = stamp[m],
           \A m \in Msgs : stage'[m] = stage[m] \/ (stage[m] \notin InLimiter \cup {"ended"} /\ stage'[m] \notin InLimiter \cup {"ended"})
    PROVE  InboundInv'
  <1>1. ToldOnce'
    BY DEF InboundInv, ToldOnce, InLimiter
  <1>2. QueueHolds'
    <2>1. InSlot' = InSlot
      BY DEF InSlot, InLimiter
    <2>2. \A i \in 1..Len(waiting) : waiting[i] \in Msgs
      BY ElementOfSeq DEF InboundInv, QueueHolds
    <2>3. \A i \in 1..Len(waiting) : stage'[waiting[i]] = "parked"
      BY <2>2 DEF InboundInv, QueueHolds, InLimiter
    <2> QED BY <2>1, <2>3 DEF InboundInv, QueueHolds, DownloadsAreBounded
  <1>3. PreviewHolds'
    BY DEF InboundInv, PreviewHolds, PreviewIsNewest
  <1> QED BY <1>1, <1>2, <1>3 DEF InboundInv

LEMMA OpenedStep == ASSUME InboundInv, Opened \/ Closed PROVE InboundInv'
  <1>1. TimesHold
    BY DEF InboundInv
  <1>2. clock' \in Nat /\ clock' >= clock /\ link' \in Links /\ link'.since <= clock' /\ link'.since >= link.since
        /\ (link'.open => link'.connectedAt = link'.since - Skew)
    <2>1. CASE Opened
      BY <1>1, <2>1, InboundAssumption DEF Opened, Tick, ConnectedAt, TimesHold, Links
    <2>2. CASE Closed
      <3>1. link \in Links /\ link' = [link EXCEPT !.open = FALSE] /\ clock' = clock /\ clock \in Nat
        BY <1>1, <2>2 DEF Closed, TimesHold
      <3>2. link' \in Links /\ link'.since = link.since /\ ~link'.open
        BY <3>1 DEF Links
      <3> QED BY <1>1, <3>1, <3>2 DEF TimesHold, Links
    <2> QED BY <2>1, <2>2
  <1>3. UNCHANGED <<origin, maxWaiting, sentAt, stamp, stage, waiting, told, dropped, preview, recorded>>
    BY DEF Opened, Closed, shown
  <1>4. TimesHold'
    <2>1. \A m \in Msgs : sentAt[m] \in Nat
      BY <1>1 DEF TimesHold
    <2>2. link.since \in Nat /\ link'.since \in Nat
      BY <1>1, <1>2 DEF TimesHold, Links
    <2>3. \A m \in Msgs : stage[m] = "ignored" /\ origin[m] = "customer" => sentAt[m] < link'.since
      BY <1>1, <1>2, <2>1, <2>2 DEF TimesHold
    <2> QED BY <1>1, <1>2, <1>3, <2>3 DEF TimesHold
  <1> QED BY <1>3, <1>4, QuietStep

LEMMA ComposeStep == ASSUME InboundInv, NEW m \in Msgs, Compose(m) \/ ApiSends(m) PROVE InboundInv'
  <1>1. TimesHold
    BY DEF InboundInv
  <1>2. PICK behind \in 0..Skew : stamp' = [stamp EXCEPT ![m] = clock' - behind]
    <2>1. CASE ApiSends(m)
      <3>1. clock' - 0 = clock' /\ 0 \in 0..Skew
        BY <1>1, <2>1, InboundAssumption DEF ApiSends, Tick, TimesHold
      <3> QED BY <2>1, <3>1 DEF ApiSends
    <2> QED BY <2>1 DEF Compose
  <1>3. /\ clock' = clock + 1 /\ clock \in Nat /\ sentAt[m] = 0 /\ sentAt' = [sentAt EXCEPT ![m] = clock']
        /\ UNCHANGED <<origin, maxWaiting, link, waiting, told, dropped, preview, recorded>>
        /\ \/ stage' = stage /\ origin[m] # "api"
           \/ stage' = [stage EXCEPT ![m] = "sent"] /\ origin[m] = "api"
    BY <1>1 DEF Compose, ApiSends, Tick, TimesHold, shown
  <1>4. /\ sentAt' \in [Msgs -> Nat] /\ stamp' \in [Msgs -> Int] /\ stage' \in [Msgs -> Stages]
        /\ sentAt'[m] = clock' /\ stamp'[m] >= clock' - Skew
        /\ \A n \in Msgs \ {m} : sentAt'[n] = sentAt[n] /\ stamp'[n] = stamp[n] /\ stage'[n] = stage[n]
    BY <1>1, <1>2, <1>3, InboundAssumption DEF TimesHold, Stages
  <1>5. stage[m] = "unseen" /\ stage'[m] = IF origin[m] = "api" THEN "sent" ELSE "unseen"
    BY <1>1, <1>3 DEF TimesHold
  <1>6. TimesHold'
    <2>1. clock' \in Nat /\ link.since <= clock' /\ clock' > 0
      BY <1>1, <1>3 DEF TimesHold, Links
    <2>2. \A n \in Msgs \ {m} :
             /\ stamp'[n] >= sentAt'[n] - Skew
             /\ stage'[n] # "unseen" => sentAt'[n] > 0
             /\ origin'[n] = "api" => stage'[n] \in {"unseen", "sent", "ignored"} /\ (stage'[n] = "unseen" => sentAt'[n] = 0)
             /\ stage'[n] = "ignored" /\ origin'[n] = "customer" => sentAt'[n] < link'.since
      BY <1>1, <1>3, <1>4 DEF TimesHold
    <2> QED BY <1>1, <1>3, <1>4, <1>5, <2>1, <2>2 DEF TimesHold
  <1>7. \A n \in Msgs : sentAt[n] > 0 => sentAt'[n] > 0 /\ stamp'[n] = stamp[n]
    BY <1>1, <1>3, <1>4 DEF TimesHold
  <1>8. \A n \in Msgs : stage'[n] = stage[n] \/ (stage[n] \notin InLimiter \cup {"ended"} /\ stage'[n] \notin InLimiter \cup {"ended"})
    BY <1>4, <1>5 DEF InLimiter
  <1> QED BY <1>3, <1>6, <1>7, <1>8, QuietStep

LEMMA SlotsAreCounted ==
    InboundInv => /\ Cardinality(InSlot) \in Nat /\ IsFiniteSet(InSlot) /\ Len(waiting) \in Nat
                  /\ \A i \in 1..Len(waiting) : waiting[i] \in Msgs
  <1>1. IsFiniteSet(InSlot)
    BY FS_Subset, InboundAssumption DEF InSlot
  <1> QED BY <1>1, FS_CardinalityType, LenProperties, ElementOfSeq DEF InboundInv, QueueHolds

\* A message that is passed over, or passes the gate: it takes a slot, a place in the queue, or neither.
LEMMA UpsertStep == ASSUME InboundInv, NEW m \in Msgs, Upsert(m) PROVE InboundInv'
  <1>1. /\ TimesHold /\ link.open /\ sentAt[m] > 0 /\ stage[m] \in {"unseen", "sent"}
        /\ UNCHANGED <<origin, maxWaiting, clock, link, sentAt, stamp, told, dropped, preview, recorded>>
    BY DEF InboundInv, Upsert, shown
  <1>2. CASE stage' = [stage EXCEPT ![m] = "ignored"] /\ UNCHANGED waiting /\ (origin[m] = "customer" => stamp[m] < link.connectedAt)
    <2>1. TimesHold'
      <3>1. origin[m] = "customer" => sentAt[m] < link.since
        BY <1>1, <1>2, InboundAssumption DEF TimesHold, Links
      <3> QED BY <1>1, <1>2, <3>1 DEF TimesHold, Stages
    <2>2. \A n \in Msgs : stage'[n] = stage[n] \/ (stage[n] \notin InLimiter \cup {"ended"} /\ stage'[n] \notin InLimiter \cup {"ended"})
      BY <1>1, <1>2 DEF InLimiter, TimesHold
    <2> QED BY <1>1, <1>2, <2>1, <2>2, QuietStep
  <1>3. CASE /\ origin[m] # "api" /\ stage' = [stage EXCEPT ![m] = Admitted(m)]
             /\ waiting' = IF Admitted(m) = "parked" THEN Append(waiting, m) ELSE waiting
    <2>1. PICK to : to = Admitted(m)
      OBVIOUS
    <2>2. to \in InLimiter /\ stage' = [stage EXCEPT ![m] = to] /\ waiting' = IF to = "parked" THEN Append(waiting, m) ELSE waiting
      BY <1>3, <2>1 DEF Admitted, InLimiter
    <2>3. stage' \in [Msgs -> Stages] /\ stage'[m] = to /\ \A n \in Msgs \ {m} : stage'[n] = stage[n]
      BY <1>1, <2>2 DEF TimesHold, Stages, InLimiter
    <2>4. TimesHold'
      <3>1. \A n \in Msgs :
               /\ stage'[n] # "unseen" => sentAt[n] > 0
               /\ origin[n] = "api" => stage'[n] \in {"unseen", "sent", "ignored"} /\ (stage'[n] = "unseen" => sentAt[n] = 0)
               /\ stage'[n] = "ignored" /\ origin[n] = "customer" => sentAt[n] < link.since
        BY <1>1, <1>3, <2>2, <2>3 DEF TimesHold, InLimiter
      <3> QED BY <1>1, <2>3, <3>1 DEF TimesHold
    <2>5. ToldOnce'
      <3>1. told[m] = 0 /\ stage'[m] # "ended"
        BY <1>1, <1>3, <2>2, <2>3 DEF InboundInv, ToldOnce, InLimiter
      <3> QED BY <1>1, <2>3, <3>1 DEF InboundInv, ToldOnce
    <2>6. QueueHolds'
      <3>1. \A i \in 1..Len(waiting) : waiting[i] # m
        BY <1>1 DEF InboundInv, QueueHolds
      <3>2. CASE to = "parked"
        <4>1. ~(Cardinality(InSlot) < InboundSlots) /\ Len(waiting) < maxWaiting
          BY <2>1, <3>2 DEF Admitted
        <4>2. /\ waiting' \in Seq(Msgs) /\ waiting' # <<>> /\ Len(waiting') = Len(waiting) + 1 /\ waiting'[Len(waiting) + 1] = m
              /\ \A i \in 1..Len(waiting) : waiting'[i] = waiting[i]
          BY <2>2, <3>2, AppendProperties DEF InboundInv, QueueHolds
        <4>3. \A i \in 1..Len(waiting') : stage'[waiting'[i]] = "parked"
          BY <2>3, <3>1, <3>2, <4>2, SlotsAreCounted DEF InboundInv, QueueHolds
        <4>4. \A i, j \in 1..Len(waiting') : waiting'[i] = waiting'[j] => i = j
          BY <3>1, <4>2, SlotsAreCounted DEF InboundInv, QueueHolds
        <4>5. InSlot' = InSlot
          BY <1>1, <2>3, <3>2 DEF InSlot
        <4>6. DownloadsAreBounded'
          BY <1>1, <4>1, <4>2, <4>5, SlotsAreCounted, InboundAssumption DEF InboundInv, QueueHolds, DownloadsAreBounded
        <4> QED BY <1>1, <4>2, <4>3, <4>4, <4>6 DEF InboundInv, QueueHolds
      <3>3. CASE to # "parked"
        <4>1. waiting' = waiting
          BY <2>2, <3>3
        <4>2. \A i \in 1..Len(waiting) : stage'[waiting[i]] = "parked"
          BY <2>3, <3>1, SlotsAreCounted DEF InboundInv, QueueHolds
        <4>3. CASE to = "running"
          <5>1. Cardinality(InSlot) < InboundSlots
            BY <2>1, <4>3 DEF Admitted
          <5>2. InSlot' = InSlot \cup {m} /\ m \notin InSlot
            BY <1>1, <2>3, <4>3 DEF InSlot
          <5>3. Cardinality(InSlot)' = Cardinality(InSlot) + 1
            BY <5>2, SlotsAreCounted, FS_AddElement
          <5>4. waiting = <<>>
            BY <5>1, SlotsAreCounted, InboundAssumption DEF InboundInv, QueueHolds, DownloadsAreBounded
          <5>5. DownloadsAreBounded'
            BY <1>1, <4>1, <5>1, <5>3, <5>4, SlotsAreCounted, InboundAssumption DEF InboundInv, QueueHolds, DownloadsAreBounded
          <5> QED BY <1>1, <4>1, <4>2, <5>5 DEF InboundInv, QueueHolds
        <4>4. CASE to = "bare"
          <5>1. InSlot' = InSlot
            BY <1>1, <2>3, <4>4 DEF InSlot
          <5> QED BY <1>1, <4>1, <4>2, <5>1 DEF InboundInv, QueueHolds, DownloadsAreBounded
        <4> QED BY <2>2, <3>3, <4>3, <4>4 DEF InLimiter
      <3> QED BY <3>2, <3>3
    <2>7. PreviewHolds'
      BY <1>1 DEF InboundInv, PreviewHolds, PreviewIsNewest
    <2> QED BY <2>4, <2>5, <2>6, <2>7 DEF InboundInv
  <1>4. stamp[m] < link.connectedAt \/ stamp[m] >= link.connectedAt
    BY <1>1 DEF TimesHold, Links
  <1> QED BY <1>2, <1>3, <1>4 DEF Upsert, PassesGate

LEMMA QueueMovesOn ==
    ASSUME InboundInv, NEW m \in Msgs, stage[m] \in {"running", "bare"}, NextStage(m, "ended"), UNCHANGED maxWaiting
    PROVE  /\ QueueHolds'
           /\ stage' \in [Msgs -> Stages] /\ stage'[m] = "ended"
           /\ \A n \in Msgs \ {m} : stage'[n] = stage[n] \/ (stage[n] = "parked" /\ stage'[n] = "running")
  <1>1. stage \in [Msgs -> Stages] /\ waiting \in Seq(Msgs) /\ \A i \in 1..Len(waiting) : waiting[i] # m
    BY DEF InboundInv, TimesHold, QueueHolds
  <1>2. CASE stage[m] = "running" /\ waiting # <<>>
    <2>1. PICK h \in Msgs : h = Head(waiting) /\ h = waiting[1]
      <3>1. Head(waiting) \in Msgs
        BY <1>1, <1>2, HeadTailProperties
      <3>2. Head(waiting) = waiting[1]
        BY <1>1, <1>2
      <3> QED BY <3>1, <3>2
    <2>2. Len(waiting) \in Nat \ {0} /\ 1 \in 1..Len(waiting)
      BY <1>1, <1>2, EmptySeq
    <2>3. h # m /\ stage[h] = "parked" /\ \A i \in 1..Len(waiting) : waiting[i] = h => i = 1
      BY <1>1, <2>1, <2>2 DEF InboundInv, QueueHolds
    <2>4. /\ stage' \in [Msgs -> Stages] /\ stage'[m] = "ended" /\ stage'[h] = "running"
          /\ \A n \in Msgs \ {m, h} : stage'[n] = stage[n]
      BY <1>1, <1>2, <2>1, <2>3 DEF NextStage, Stages
    <2>5. /\ waiting' \in Seq(Msgs) /\ Len(waiting') = Len(waiting) - 1
          /\ \A i \in 1..Len(waiting') : waiting'[i] = waiting[i + 1]
      BY <1>1, <1>2, HeadTailProperties DEF NextStage
    <2>6. \A i \in 1..Len(waiting') : i + 1 \in 1..Len(waiting) /\ i + 1 # 1
      BY <2>2, <2>5
    <2>7. \A i \in 1..Len(waiting') : stage'[waiting'[i]] = "parked"
      <3> TAKE i \in 1..Len(waiting')
      <3>1. i + 1 \in 1..Len(waiting) /\ waiting'[i] = waiting[i + 1] /\ i + 1 # 1
        BY <2>5, <2>6
      <3>2. waiting[i + 1] \in Msgs \ {m, h} /\ stage[waiting[i + 1]] = "parked"
        BY <1>1, <2>3, <3>1, SlotsAreCounted DEF InboundInv, QueueHolds
      <3> QED BY <2>4, <3>1, <3>2
    <2>8. \A i, j \in 1..Len(waiting') : waiting'[i] = waiting'[j] => i = j
      <3> TAKE i, j \in 1..Len(waiting')
      <3>1. waiting'[i] = waiting'[j] => i + 1 = j + 1
        BY <2>5, <2>6 DEF InboundInv, QueueHolds
      <3> QED BY <3>1
    <2>9. InSlot' = (InSlot \ {m}) \cup {h} /\ m \in InSlot /\ h \notin InSlot
      BY <1>2, <2>3, <2>4 DEF InSlot
    <2>10. Cardinality(InSlot)' = Cardinality(InSlot)
      <3>1. IsFiniteSet(InSlot \ {m}) /\ Cardinality(InSlot \ {m}) = Cardinality(InSlot) - 1
        BY <2>9, SlotsAreCounted, FS_RemoveElement
      <3>2. Cardinality((InSlot \ {m}) \cup {h}) = Cardinality(InSlot \ {m}) + 1
        BY <2>9, <3>1, FS_AddElement
      <3> QED BY <2>9, <3>1, <3>2, SlotsAreCounted
    <2>11. DownloadsAreBounded'
      BY <1>2, <2>2, <2>5, <2>10, SlotsAreCounted DEF InboundInv, QueueHolds, DownloadsAreBounded
    <2> QED BY <2>3, <2>4, <2>5, <2>7, <2>8, <2>11 DEF InboundInv, QueueHolds
  <1>3. CASE ~(stage[m] = "running" /\ waiting # <<>>)
    <2>1. /\ waiting' = waiting /\ stage' \in [Msgs -> Stages] /\ stage'[m] = "ended"
          /\ \A n \in Msgs \ {m} : stage'[n] = stage[n]
      BY <1>1, <1>3 DEF NextStage, Stages
    <2>2. \A i \in 1..Len(waiting) : stage'[waiting[i]] = "parked"
      BY <1>1, <2>1, SlotsAreCounted DEF InboundInv, QueueHolds
    <2>3. InSlot' = InSlot \ {m} /\ (stage[m] = "bare" => m \notin InSlot)
      BY <2>1 DEF InSlot
    <2>4. Cardinality(InSlot)' = IF m \in InSlot THEN Cardinality(InSlot) - 1 ELSE Cardinality(InSlot)
      BY <2>3, SlotsAreCounted, FS_RemoveElement
    <2>5. DownloadsAreBounded'
      <3>1. CASE waiting = <<>>
        BY <2>1, <2>4, <3>1, SlotsAreCounted, InboundAssumption DEF InboundInv, QueueHolds, DownloadsAreBounded
      <3>2. CASE waiting # <<>>
        BY <1>3, <2>1, <2>3, <2>4, <3>2 DEF InboundInv, QueueHolds, DownloadsAreBounded
      <3> QED BY <3>1, <3>2
    <2> QED BY <2>1, <2>2, <2>5 DEF InboundInv, QueueHolds
  <1> QED BY <1>2, <1>3

\* The newer of the preview and a message is the newest.
LEMMA RecordedStep ==
    ASSUME InboundInv, NEW batch \in SUBSET Msgs, NEW n \in batch, \A m \in batch : sentAt[m] > 0 /\ stamp[m] <= stamp[n],
           preview' = IF IsNewer(n) THEN n ELSE preview, recorded' = recorded \cup batch, UNCHANGED <<stamp, sentAt>>
    PROVE  PreviewHolds'
  <1>1. recorded \subseteq Msgs /\ preview \in recorded \cup {Nothing} /\ (\A m \in recorded : sentAt[m] > 0) /\ PreviewIsNewest /\ Nothing \notin Msgs
    BY InboundAssumption DEF InboundInv, PreviewHolds, Nothing
  <1>2. \A m \in Msgs : stamp[m] \in Int
    BY DEF InboundInv, TimesHold
  <1>3. CASE IsNewer(n)
    <2>1. preview' = n
      BY <1>3
    <2>2. \A m \in recorded : stamp[m] <= stamp[n]
      BY <1>1, <1>2, <1>3 DEF IsNewer, PreviewIsNewest
    <2> QED BY <1>1, <2>1, <2>2 DEF PreviewHolds, PreviewIsNewest
  <1>4. CASE ~IsNewer(n)
    <2>1. preview' = preview /\ preview \in recorded /\ stamp[n] <= stamp[preview]
      BY <1>1, <1>2, <1>4 DEF IsNewer
    <2>2. \A m \in batch : stamp[m] <= stamp[preview]
      BY <1>1, <1>2, <2>1
    <2> QED BY <1>1, <2>1, <2>2 DEF PreviewHolds, PreviewIsNewest
  <1> QED BY <1>3, <1>4

LEMMA ProcessedStep == ASSUME InboundInv, NEW m \in Msgs, Processed(m) PROVE InboundInv'
  <1>1. TimesHold /\ stage[m] \in {"running", "bare"} /\ NextStage(m, "ended") /\ UNCHANGED <<origin, maxWaiting, clock, link, sentAt, stamp>>
    BY DEF InboundInv, Processed
  <1>2. /\ QueueHolds'
        /\ stage' \in [Msgs -> Stages] /\ stage'[m] = "ended"
        /\ \A n \in Msgs \ {m} : stage'[n] = stage[n] \/ (stage[n] = "parked" /\ stage'[n] = "running")
    BY <1>1, QueueMovesOn
  <1>3. TimesHold'
    <2>1. \A n \in Msgs :
             /\ stage'[n] # "unseen" => sentAt[n] > 0
             /\ origin[n] = "api" => stage'[n] \in {"unseen", "sent", "ignored"} /\ (stage'[n] = "unseen" => sentAt[n] = 0)
             /\ stage'[n] = "ignored" /\ origin[n] = "customer" => sentAt[n] < link.since
      BY <1>1, <1>2 DEF TimesHold
    <2> QED BY <1>1, <1>2, <2>1 DEF TimesHold
  <1>4. origin[m] # "api" /\ told[m] = 0
    BY <1>1 DEF TimesHold, InboundInv, ToldOnce
  <1>5. CASE MappingThrows(m) /\ UNCHANGED <<told, preview, recorded>>
    <2>1. dropped' = dropped \cup {m}
      BY <1>5 DEF MappingThrows
    <2>2. ToldOnce'
      BY <1>1, <1>2, <1>5, <2>1 DEF InboundInv, ToldOnce
    <2>3. PreviewHolds'
      BY <1>1, <1>5 DEF InboundInv, PreviewHolds, PreviewIsNewest
    <2> QED BY <1>2, <1>3, <2>2, <2>3 DEF InboundInv
  <1>6. CASE told' = [told EXCEPT ![m] = @ + 1] /\ UNCHANGED dropped
    <2>1. told' \in [Msgs -> Nat] /\ told'[m] = 1 /\ \A n \in Msgs \ {m} : told'[n] = told[n]
      BY <1>4, <1>6 DEF InboundInv, ToldOnce
    <2>2. ToldOnce'
      BY <1>1, <1>2, <1>6, <2>1 DEF InboundInv, ToldOnce
    <2>3. PreviewHolds'
      <3>1. CASE RecordMessage(m)
        <4>1. \A n \in {m} : sentAt[n] > 0 /\ stamp[n] <= stamp[m]
          BY <1>1 DEF TimesHold
        <4>2. {m} \in SUBSET Msgs /\ m \in {m} /\ UNCHANGED <<stamp, sentAt>>
          BY <1>1
        <4>3. preview' = (IF IsNewer(m) THEN m ELSE preview) /\ recorded' = recorded \cup {m}
          BY <3>1 DEF RecordMessage
        <4> QED BY <4>1, <4>2, <4>3, RecordedStep
      <3>2. CASE UNCHANGED <<preview, recorded>>
        BY <1>1, <3>2 DEF InboundInv, PreviewHolds, PreviewIsNewest
      <3>3. RecordMessage(m) \/ UNCHANGED <<preview, recorded>>
        BY DEF Processed
      <3> QED BY <3>1, <3>2, <3>3
    <2> QED BY <1>2, <1>3, <2>2, <2>3 DEF InboundInv
  <1> QED BY <1>5, <1>6 DEF Processed

LEMMA HistoryStep == ASSUME InboundInv, History PROVE InboundInv'
  <1>1. PICK batch \in SUBSET {m \in Msgs : sentAt[m] > 0 /\ sentAt[m] < link.since /\ stage[m] = "unseen"} :
           /\ recorded' = recorded \cup batch
           /\ stage' = [m \in Msgs |-> IF m \in batch THEN "archived" ELSE stage[m]]
           /\ \E n \in batch : /\ \A m \in batch : stamp[m] <= stamp[n]
                               /\ preview' = IF IsNewer(n) THEN n ELSE preview
    BY DEF History
  <1>2. TimesHold /\ UNCHANGED <<origin, maxWaiting, clock, link, sentAt, stamp, waiting, told, dropped>>
    BY DEF InboundInv, History
  <1>3. PreviewHolds'
    BY <1>1, <1>2, RecordedStep
  <1>4. stage' \in [Msgs -> Stages] /\ \A m \in Msgs : stage'[m] = IF m \in batch THEN "archived" ELSE stage[m]
    BY <1>1, <1>2 DEF TimesHold, Stages
  <1>5. TimesHold'
    BY <1>1, <1>2, <1>4 DEF TimesHold
  <1>6. ToldOnce'
    BY <1>1, <1>2, <1>4 DEF InboundInv, ToldOnce
  <1>7. QueueHolds'
    <2>1. InSlot' = InSlot
      BY <1>1, <1>4 DEF InSlot
    <2>2. \A i \in 1..Len(waiting) : stage'[waiting[i]] = "parked"
      BY <1>1, <1>4, SlotsAreCounted DEF InboundInv, QueueHolds
    <2> QED BY <1>2, <2>1, <2>2 DEF InboundInv, QueueHolds, DownloadsAreBounded
  <1> QED BY <1>3, <1>5, <1>6, <1>7 DEF InboundInv

LEMMA OwnEchoStep == ASSUME InboundInv, NEW m \in Msgs, OwnEcho(m) PROVE InboundInv'
  <1>1. /\ TimesHold /\ origin[m] = "api" /\ told[m] = 0
        /\ UNCHANGED <<origin, maxWaiting, clock, link, sentAt, stamp, stage, waiting, preview, recorded>>
    BY DEF InboundInv, OwnEcho
  <1>2. TimesHold' /\ QueueHolds' /\ PreviewHolds'
    <2>1. TimesHold'
      BY <1>1 DEF TimesHold
    <2>2. QueueHolds'
      BY <1>1 DEF InboundInv, QueueHolds, DownloadsAreBounded, InSlot
    <2>3. PreviewHolds'
      BY <1>1 DEF InboundInv, PreviewHolds, PreviewIsNewest
    <2> QED BY <2>1, <2>2, <2>3
  <1>3. ToldOnce'
    <2>1. CASE told' = [told EXCEPT ![m] = @ + 1] /\ UNCHANGED dropped
      <3>1. told' \in [Msgs -> Nat] /\ told'[m] = 1 /\ \A n \in Msgs \ {m} : told'[n] = told[n]
        BY <1>1, <2>1 DEF InboundInv, ToldOnce
      <3> QED BY <1>1, <2>1, <3>1 DEF InboundInv, ToldOnce
    <2>2. CASE dropped' = dropped \cup {m} /\ UNCHANGED told
      BY <1>1, <2>2 DEF InboundInv, ToldOnce
    <2> QED BY <2>1, <2>2 DEF OwnEcho, MappingThrows
  <1> QED BY <1>2, <1>3 DEF InboundInv

LEMMA InboundStep == InboundInv /\ [InboundNext]_inboundVars => InboundInv'
  <1> SUFFICES ASSUME InboundInv, [InboundNext]_inboundVars PROVE InboundInv'
    OBVIOUS
  <1>1. CASE UNCHANGED inboundVars
    BY <1>1 DEF inboundVars, InboundInv, TimesHold, ToldOnce, QueueHolds, DownloadsAreBounded, InSlot, PreviewHolds, PreviewIsNewest
  <1> QED BY <1>1, OpenedStep, HistoryStep, ComposeStep, UpsertStep, ProcessedStep, OwnEchoStep DEF InboundNext, Continue

LEMMA InboundHolds == InboundInv => InboundIsTrue
  BY DEF InboundInv, InboundIsTrue, LiveIsTold, TimesHold, ToldOnce, QueueHolds, PreviewHolds, PreviewIsNewest, Nothing, InboundAssumption

-----------------------------------------------------------------------------
(* The automations                                                           *)

Configured ==
    /\ settings \in [ai : {"off", "draft", "auto"}, inGroups : BOOLEAN, cleanup : {"off", "dry", "on"}, requireAdmin : BOOLEAN]
    /\ chatOf \in [Inbox -> Chats] /\ isPlain \in [Inbox -> BOOLEAN] /\ matches \in [Inbox -> BOOLEAN]
    /\ now \in Nat /\ deliveries \in [Inbox -> Nat]

ReplyRuns == [of : Inbox, number : Nat, at : {"generating", "sending"}]
RunsOf(m) == {r \in replies : r.of = m}

\* The model was asked no later than lastReplyAt says; a run under way may still send one reply.
RepliesHold ==
    /\ lastReply \in [Chats -> Int] /\ sent \in [Inbox -> Nat] /\ asked \in [Chats -> SUBSET (Int \X Inbox \X Nat)]
    /\ replies \subseteq ReplyRuns /\ IsFiniteSet(replies)
    /\ \A c \in Chats : lastReply[c] <= now /\ \A a \in asked[c] : a[1] <= lastReply[c]
    /\ \A r \in replies : Answerable(r.of) /\ (r.at = "sending" => settings.ai = "auto")
    /\ \A m \in Inbox : sent[m] + Cardinality(RunsOf(m)) <= deliveries[m]
    /\ RepliesAreSpaced

RemovalRuns == [of : Inbox, since : Int, at : {"checking", "delaying"}]
Decisions == [since : Int, at : Int, adminAt : Int]
Apart(a, b) == a - b >= DedupeFor \/ b - a >= DedupeFor

\* The runs of the removal on messages handled at the given times, and what they have decided: a run that is still
\* checking was begun long before or after every other, and before or after whatever has been decided.
RunsHold(runs, done, handled) ==
    /\ handled \in [Inbox -> Int] /\ runs \subseteq RemovalRuns /\ done \in [Inbox -> SUBSET Decisions]
    /\ \A r \in runs : chatOf[r.of] \in Groups /\ matches[r.of] /\ settings.cleanup # "off" /\ r.since <= handled[r.of]
    /\ \A m \in Inbox : \A d \in done[m] :
          /\ d.since <= handled[m] /\ chatOf[m] \in Groups /\ matches[m] /\ settings.cleanup = "on"
          /\ settings.requireAdmin => d.at - d.adminAt <= AdminTtl
    /\ \A r \in runs : r.at = "checking" => \A d \in done[r.of] : Apart(r.since, d.since)
    /\ \A q, r \in runs : q.at = "checking" /\ r.at = "checking" /\ q.of = r.of /\ q # r => Apart(q.since, r.since)
    /\ \A m \in Inbox : \A a, b \in done[m] : a # b => Apart(a.since, b.since)

\* The cache never outlives by more than its time the account's being an administrator.
AdminsHold ==
    /\ isAdmin \in [Groups -> BOOLEAN] /\ wasAdmin \in [Groups -> Int] /\ cached \in [Groups -> [admin : BOOLEAN, until : Int]]
    /\ \A g \in Groups : /\ wasAdmin[g] <= now
                         /\ isAdmin[g] => wasAdmin[g] = now
                         /\ cached[g].admin => cached[g].until <= wasAdmin[g] + AdminTtl

HandledBefore == \A m \in Inbox : handledAt[m] <= now

AutomationInv ==
    Configured /\ RepliesHold /\ AdminsHold /\ HandledBefore /\ RunsHold(removals, removed, handledAt)

LEMMA OneMore ==
    ASSUME NEW S, NEW x, IsFiniteSet(S) PROVE Cardinality(S \cup {x}) <= Cardinality(S) + 1 /\ Cardinality(S \cup {x}) \in Nat
  <1>1. Cardinality(S) \in Nat
    BY FS_CardinalityType
  <1>2. Cardinality(S \cup {x}) = Cardinality(S) \/ Cardinality(S \cup {x}) = Cardinality(S) + 1
    BY FS_AddElement
  <1> QED BY <1>1, <1>2

LEMMA AutomationsStart == AutomationInit => AutomationInv
  <1> SUFFICES ASSUME AutomationInit PROVE AutomationInv
    OBVIOUS
  <1>1. Configured
    BY DEF AutomationInit, Configured
  <1>2. RepliesHold
    <2>1. \A m \in Inbox : RunsOf(m) = {} /\ Cardinality(RunsOf(m)) = 0
      BY FS_EmptySet DEF AutomationInit, RunsOf
    <2>2. lastReply \in [Chats -> Int] /\ (\A c \in Chats : lastReply[c] <= now /\ asked[c] = {}) /\ asked \in [Chats -> SUBSET (Int \X Inbox \X Nat)]
      BY DEF AutomationInit, Never
    <2>3. sent \in [Inbox -> Nat] /\ \A m \in Inbox : sent[m] = 0 /\ deliveries[m] = 0
      BY DEF AutomationInit
    <2>4. replies = {} /\ IsFiniteSet(replies)
      BY FS_EmptySet DEF AutomationInit
    <2>5. RepliesAreSpaced
      BY <2>2, <2>3 DEF RepliesAreSpaced
    <2> QED BY <2>1, <2>2, <2>3, <2>4, <2>5 DEF RepliesHold
  <1>3. AdminsHold
    <2>1. now = 0 /\ isAdmin \in [Groups -> BOOLEAN]
      BY DEF AutomationInit
    <2>2. \A g \in Groups : wasAdmin[g] = IF isAdmin[g] THEN 0 ELSE -100
      BY DEF AutomationInit, Never
    <2>3. wasAdmin \in [Groups -> Int]
      BY DEF AutomationInit, Never
    <2>4. NotCached \in [admin : BOOLEAN, until : Int] /\ ~NotCached.admin
      BY DEF NotCached, Never
    <2>5. cached \in [Groups -> [admin : BOOLEAN, until : Int]] /\ \A g \in Groups : ~cached[g].admin
      BY <2>4 DEF AutomationInit
    <2> QED BY <2>1, <2>2, <2>3, <2>5 DEF AdminsHold
  <1>4. HandledBefore /\ RunsHold(removals, removed, handledAt)
    <2>1. handledAt \in [Inbox -> Int] /\ \A m \in Inbox : handledAt[m] <= now
      BY DEF AutomationInit, Never
    <2>2. removals = {} /\ removed \in [Inbox -> SUBSET Decisions] /\ \A m \in Inbox : removed[m] = {}
      BY DEF AutomationInit
    <2> QED BY <2>1, <2>2 DEF HandledBefore, RunsHold
  <1> QED BY <1>1, <1>2, <1>3, <1>4 DEF AutomationInv

\* Time goes on and messages come; no reply begins or ends.
LEMMA RepliesRest ==
    ASSUME RepliesHold, Configured, Configured', now' >= now, UNCHANGED facts, UNCHANGED replying,
           \A m \in Inbox : deliveries'[m] >= deliveries[m]
    PROVE  RepliesHold'
  <1>1. \A m \in Inbox : Cardinality(RunsOf(m)) \in Nat /\ RunsOf(m)' = RunsOf(m)
    <2>1. \A m \in Inbox : IsFiniteSet(RunsOf(m))
      BY FS_Subset DEF RepliesHold, RunsOf
    <2> QED BY <2>1, FS_CardinalityType DEF RunsOf, replying
  <1>2. \A m \in Inbox : sent'[m] + Cardinality(RunsOf(m))' <= deliveries'[m]
    <2>1. \A m \in Inbox : sent'[m] = sent[m] /\ sent[m] \in Nat /\ deliveries[m] \in Nat /\ deliveries'[m] \in Nat /\ sent[m] + Cardinality(RunsOf(m)) <= deliveries[m]
      BY DEF RepliesHold, Configured, replying
    <2> QED BY <1>1, <2>1
  <1>3. \A c \in Chats : lastReply'[c] <= now' /\ \A a \in asked'[c] : a[1] <= lastReply'[c]
    BY DEF RepliesHold, Configured, replying
  <1>4. \A r \in replies' : Answerable(r.of)' /\ (r.at = "sending" => settings'.ai = "auto")
    BY DEF RepliesHold, Answerable, replying, facts
  <1>5. RepliesAreSpaced'
    <2>1. \A m \in Inbox : sent'[m] <= deliveries'[m]
      BY <1>1, <1>2 DEF RepliesHold, Configured, replying
    <2> QED BY <2>1 DEF RepliesHold, RepliesAreSpaced, facts, replying
  <1> QED BY <1>2, <1>3, <1>4, <1>5 DEF RepliesHold, replying

\* A reply begins only after the interval, and is one of its delivery.
LEMMA ReplyBeginsStep ==
    ASSUME RepliesHold, Configured, Configured', NEW m \in Inbox, ReplyBegins(m), now' = now, UNCHANGED facts,
           deliveries' = [deliveries EXCEPT ![m] = @ + 1]
    PROVE  RepliesHold'
  <1>1. deliveries'[m] = deliveries[m] + 1 /\ deliveries[m] \in Nat /\ \A n \in Inbox \ {m} : deliveries'[n] = deliveries[n] /\ deliveries[n] \in Nat
    BY DEF Configured
  <1>2. CASE UNCHANGED replying
    <2>1. \A n \in Inbox : deliveries'[n] >= deliveries[n]
      BY <1>1
    <2> QED BY <1>2, <2>1, RepliesRest DEF Configured
  <1>3. CASE ~UNCHANGED replying
    <2> PICK c \in Chats : c = chatOf[m]
      BY DEF Configured
    <2>1. PICK r : r = [of |-> m, number |-> deliveries'[m], at |-> "generating"]
      OBVIOUS
    <2>2. PICK a : a = <<now, m, deliveries'[m]>>
      OBVIOUS
    <2>3. /\ Answerable(m) /\ now - lastReply[c] >= MinInterval
          /\ lastReply' = [lastReply EXCEPT ![c] = now] /\ asked' = [asked EXCEPT ![c] = @ \cup {a}]
          /\ replies' = replies \cup {r} /\ sent' = sent
      BY <1>3, <2>1, <2>2 DEF ReplyBegins, IsDue
    <2>4. r \in ReplyRuns /\ r.of = m /\ r.at = "generating"
      BY <1>1, <2>1 DEF ReplyRuns
    <2>5. a \in Int \X Inbox \X Nat /\ a[1] = now /\ now \in Nat
      BY <1>1, <2>2 DEF Configured
    <2>6. /\ lastReply' \in [Chats -> Int] /\ lastReply'[c] = now /\ lastReply[c] \in Int /\ lastReply[c] <= now
          /\ \A d \in Chats \ {c} : lastReply'[d] = lastReply[d] /\ asked'[d] = asked[d]
          /\ asked' \in [Chats -> SUBSET (Int \X Inbox \X Nat)] /\ asked'[c] = asked[c] \cup {a}
          /\ \A d \in Chats : \A b \in asked[d] : b[1] \in Int /\ b[1] <= lastReply[d]
      BY <2>3, <2>5 DEF RepliesHold
    <2>7. \A d \in Chats : lastReply'[d] <= now /\ \A b \in asked'[d] : b[1] <= lastReply'[d]
      BY <2>5, <2>6 DEF RepliesHold
    <2>8. \A d \in Chats : \A x, y \in asked'[d] : x # y => x[1] - y[1] >= MinInterval \/ y[1] - x[1] >= MinInterval
      <3>1. \A b \in asked[c] : now - b[1] >= MinInterval
        BY <2>3, <2>5, <2>6, AutomationAssumption
      <3> QED BY <2>5, <2>6, <3>1 DEF RepliesHold, RepliesAreSpaced
    <2>9. \A n \in Inbox : sent[n] + Cardinality(RunsOf(n))' <= deliveries'[n] /\ sent[n] <= deliveries'[n]
      <3> TAKE n \in Inbox
      <3>1. IsFiniteSet(RunsOf(n)) /\ Cardinality(RunsOf(n)) \in Nat /\ sent[n] \in Nat /\ sent[n] + Cardinality(RunsOf(n)) <= deliveries[n]
        BY FS_Subset, FS_CardinalityType DEF RepliesHold, RunsOf
      <3>2. CASE n = m
        <4>1. RunsOf(n)' = RunsOf(n) \cup {r}
          BY <2>3, <2>4, <3>2 DEF RunsOf
        <4>2. Cardinality(RunsOf(n))' <= Cardinality(RunsOf(n)) + 1 /\ Cardinality(RunsOf(n))' \in Nat
          BY <3>1, <4>1, OneMore
        <4> QED BY <1>1, <3>1, <3>2, <4>2
      <3>3. CASE n # m
        <4>1. RunsOf(n)' = RunsOf(n)
          BY <2>3, <2>4, <3>3 DEF RunsOf
        <4> QED BY <1>1, <3>1, <3>3, <4>1
      <3> QED BY <3>2, <3>3
    <2>10. RepliesAreSpaced'
      BY <2>3, <2>8, <2>9 DEF RepliesHold, RepliesAreSpaced, facts
    <2>11. replies' \subseteq ReplyRuns /\ IsFiniteSet(replies')
      BY <2>3, <2>4, FS_AddElement DEF RepliesHold
    <2>12. \A q \in replies' : Answerable(q.of)' /\ (q.at = "sending" => settings'.ai = "auto")
      BY <2>3, <2>4 DEF RepliesHold, Answerable, facts
    <2> QED BY <2>3, <2>6, <2>7, <2>9, <2>10, <2>11, <2>12 DEF RepliesHold
  <1> QED BY <1>2, <1>3

\* A run gets on or ends, and sends its reply at most then.
LEMMA ReplyGoesStep ==
    ASSUME RepliesHold, Configured, NEW r \in replies, Generated(r) \/ ReplySent(r)
    PROVE  RepliesHold'
  <1>1. UNCHANGED <<settings, chatOf, isPlain, matches, now, deliveries, lastReply, asked>> /\ r \in ReplyRuns /\ r.of \in Inbox
    BY DEF Generated, ReplySent, facts, outside, RepliesHold, ReplyRuns
  <1>2. PICK q : q = [r EXCEPT !.at = "sending"]
    OBVIOUS
  <1>3. q \in ReplyRuns /\ q.of = r.of
    BY <1>1, <1>2 DEF ReplyRuns
  <1>4. \/ replies' = (replies \ {r}) \cup {q} /\ settings.ai = "auto" /\ UNCHANGED sent
        \/ replies' = replies \ {r} /\ UNCHANGED sent
        \/ replies' = replies \ {r} /\ sent' = [sent EXCEPT ![r.of] = @ + 1] /\ settings.ai = "auto"
    BY <1>2 DEF Generated, ReplySent, RepliesHold
  <1>5. replies' \subseteq ReplyRuns /\ IsFiniteSet(replies')
    <2>1. IsFiniteSet(replies \ {r}) /\ IsFiniteSet((replies \ {r}) \cup {q})
      BY FS_RemoveElement, FS_AddElement DEF RepliesHold
    <2> QED BY <1>3, <1>4, <2>1 DEF RepliesHold
  <1>6. \A p \in replies' : Answerable(p.of)' /\ (p.at = "sending" => settings'.ai = "auto")
    BY <1>1, <1>3, <1>4 DEF RepliesHold, Answerable
  <1>7. /\ sent' \in [Inbox -> Nat]
        /\ \A n \in Inbox : sent'[n] + Cardinality(RunsOf(n))' <= deliveries[n] /\ Cardinality(RunsOf(n))' \in Nat
    <2>1. sent' \in [Inbox -> Nat]
      BY <1>1, <1>4 DEF RepliesHold
    <2> SUFFICES ASSUME NEW n \in Inbox PROVE sent'[n] + Cardinality(RunsOf(n))' <= deliveries[n] /\ Cardinality(RunsOf(n))' \in Nat
      BY <2>1
    <2>2. /\ IsFiniteSet(RunsOf(n)) /\ Cardinality(RunsOf(n)) \in Nat /\ sent[n] \in Nat /\ deliveries[n] \in Nat
          /\ sent[n] + Cardinality(RunsOf(n)) <= deliveries[n]
      BY FS_Subset, FS_CardinalityType DEF RepliesHold, RunsOf, Configured
    <2>3. CASE n = r.of
      <3>1. r \in RunsOf(n)
        BY <2>3 DEF RunsOf
      <3>2. IsFiniteSet(RunsOf(n) \ {r}) /\ Cardinality(RunsOf(n) \ {r}) = Cardinality(RunsOf(n)) - 1
        BY <2>2, <3>1, FS_RemoveElement
      <3>3. Cardinality(RunsOf(n) \ {r}) \in Nat
        BY <3>2, FS_CardinalityType
      <3>4. Cardinality((RunsOf(n) \ {r}) \cup {q}) \in Nat /\ Cardinality((RunsOf(n) \ {r}) \cup {q}) <= Cardinality(RunsOf(n))
        <4>1. Cardinality((RunsOf(n) \ {r}) \cup {q}) <= Cardinality(RunsOf(n) \ {r}) + 1 /\ Cardinality((RunsOf(n) \ {r}) \cup {q}) \in Nat
          BY <3>2, OneMore
        <4> QED BY <2>2, <3>2, <4>1
      <3>5. CASE replies' = (replies \ {r}) \cup {q} /\ UNCHANGED sent
        <4>1. RunsOf(n)' = (RunsOf(n) \ {r}) \cup {q}
          BY <1>3, <2>3, <3>5 DEF RunsOf
        <4> QED BY <2>2, <3>4, <3>5, <4>1
      <3>6. CASE replies' = replies \ {r}
        <4>1. RunsOf(n)' = RunsOf(n) \ {r}
          BY <3>6 DEF RunsOf
        <4>2. sent'[n] \in {sent[n], sent[n] + 1}
          BY <1>4, <2>3 DEF RepliesHold
        <4> QED BY <2>2, <3>2, <3>3, <4>1, <4>2
      <3> QED BY <1>4, <3>5, <3>6
    <2>4. CASE n # r.of
      <3>1. RunsOf(n)' = RunsOf(n) /\ sent'[n] = sent[n]
        BY <1>1, <1>3, <1>4, <2>4 DEF RunsOf, RepliesHold
      <3> QED BY <2>2, <3>1
    <2> QED BY <2>3, <2>4
  <1>8. RepliesAreSpaced'
    <2>1. \A n \in Inbox : sent'[n] <= deliveries'[n]
      BY <1>1, <1>7 DEF Configured
    <2>2. \A n \in Inbox : sent'[n] > 0 => settings.ai = "auto" /\ isPlain[n] /\ (chatOf[n] \in Groups => settings.inGroups)
      <3>1. Answerable(r.of)
        BY DEF RepliesHold
      <3> QED BY <1>1, <1>4, <3>1 DEF RepliesHold, RepliesAreSpaced, Answerable
    <2> QED BY <1>1, <2>1, <2>2 DEF RepliesHold, RepliesAreSpaced
  <1> QED BY <1>1, <1>5, <1>6, <1>7, <1>8 DEF RepliesHold

LEMMA FewerRuns ==
    ASSUME NEW runs, NEW done, NEW handled, RunsHold(runs, done, handled), NEW some \in SUBSET runs
    PROVE  RunsHold(some, done, handled)
  BY DEF RunsHold

\* A message that has not been handled for DedupeFor is begun.
LEMMA RunBegins ==
    ASSUME NEW runs, NEW done, NEW handled, RunsHold(runs, done, handled), Configured,
           NEW m \in Inbox, chatOf[m] \in Groups, matches[m], settings.cleanup # "off",
           handled[m] <= now - DedupeFor, handled[m] <= now,
           NEW r, r = [of |-> m, since |-> now, at |-> "checking"]
    PROVE  RunsHold(runs \cup {r}, done, [handled EXCEPT ![m] = now])
  <1> DEFINE later == [handled EXCEPT ![m] = now]
  <1>1. r \in RemovalRuns /\ r.of = m /\ r.since = now /\ r.at = "checking" /\ now \in Int /\ DedupeFor \in Nat
    BY AutomationAssumption DEF RemovalRuns, Configured
  <1>2. later \in [Inbox -> Int] /\ later[m] = now /\ \A n \in Inbox : n # m => later[n] = handled[n]
    BY <1>1 DEF RunsHold
  <1> HIDE DEF later
  <1>3. handled[m] \in Int /\ \A q \in runs : q \in RemovalRuns /\ q.since \in Int /\ q.of \in Inbox /\ q.since <= handled[q.of]
    BY DEF RunsHold, RemovalRuns
  <1>4. \A n \in Inbox : \A d \in done[n] : d.since \in Int /\ d.since <= handled[n]
    BY DEF RunsHold, Decisions
  <1>5. \A n \in Inbox : handled[n] \in Int
    BY DEF RunsHold
  <1>6. \A q \in runs : q.of = m => Apart(now, q.since) /\ Apart(q.since, now) /\ q.since <= now
    BY <1>1, <1>3 DEF Apart
  <1>7. \A d \in done[m] : Apart(now, d.since) /\ d.since <= now
    BY <1>1, <1>3, <1>4 DEF Apart
  <1>8. \A q \in runs \cup {r} : q.of \in Inbox /\ chatOf[q.of] \in Groups /\ matches[q.of] /\ settings.cleanup # "off" /\ q.since <= later[q.of]
    BY <1>1, <1>2, <1>3, <1>6 DEF RunsHold
  <1>9. \A n \in Inbox : \A d \in done[n] : d.since <= later[n]
    BY <1>2, <1>4, <1>7
  <1>10. \A q \in runs \cup {r} : q.at = "checking" => \A d \in done[q.of] : Apart(q.since, d.since)
    BY <1>1, <1>7 DEF RunsHold
  <1>11. \A p, q \in runs \cup {r} : p.at = "checking" /\ q.at = "checking" /\ p.of = q.of /\ p # q => Apart(p.since, q.since)
    BY <1>1, <1>6 DEF RunsHold
  <1>12. runs \cup {r} \subseteq RemovalRuns
    BY <1>1, <1>3
  <1>13. RunsHold(runs \cup {r}, done, later)
    BY <1>2, <1>8, <1>9, <1>10, <1>11, <1>12 DEF RunsHold
  <1> QED BY <1>13 DEF later

\* A run decides on its removal, as far as the account was an administrator lately.
LEMMA RunDecides ==
    ASSUME NEW runs, NEW done, NEW handled, RunsHold(runs, done, handled), Configured,
           NEW r \in runs, r.at = "checking", settings.cleanup = "on", NEW last \in Int, settings.requireAdmin => now - last <= AdminTtl,
           NEW q, q = [r EXCEPT !.at = "delaying"], NEW d, d = [since |-> r.since, at |-> now, adminAt |-> last]
    PROVE  RunsHold((runs \ {r}) \cup {q}, [done EXCEPT ![r.of] = @ \cup {d}], handled)
  <1> DEFINE next == [done EXCEPT ![r.of] = @ \cup {d}]
             left == (runs \ {r}) \cup {q}
  <1>1. r \in RemovalRuns /\ r.of \in Inbox /\ r.since \in Int /\ now \in Int /\ handled \in [Inbox -> Int] /\ runs \subseteq RemovalRuns
    BY DEF RunsHold, RemovalRuns, Configured
  <1>2. q \in RemovalRuns /\ q.of = r.of /\ q.since = r.since /\ q.at = "delaying"
    BY <1>1 DEF RemovalRuns
  <1>3. d \in Decisions /\ d.since = r.since /\ d.at = now /\ d.adminAt = last
    BY <1>1 DEF Decisions
  <1>4. /\ next \in [Inbox -> SUBSET Decisions] /\ next[r.of] = done[r.of] \cup {d}
        /\ \A m \in Inbox : m # r.of => next[m] = done[m]
    BY <1>1, <1>3 DEF RunsHold
  <1>5. \A e \in done[r.of] : Apart(r.since, e.since) /\ Apart(e.since, r.since)
    BY DEF RunsHold, Apart
  <1>6. chatOf[r.of] \in Groups /\ matches[r.of] /\ r.since <= handled[r.of]
    BY DEF RunsHold
  <1>7. left \subseteq RemovalRuns /\ \A p \in left : p \in runs \ {r} \/ p = q
    BY <1>1, <1>2
  <1> HIDE DEF next, left
  <1>8. \A p \in left : p.of \in Inbox /\ chatOf[p.of] \in Groups /\ matches[p.of] /\ settings.cleanup # "off" /\ p.since <= handled[p.of]
    BY <1>2, <1>6, <1>7 DEF RunsHold, RemovalRuns
  <1>9. \A m \in Inbox : \A e \in next[m] :
           /\ e.since <= handled[m] /\ chatOf[m] \in Groups /\ matches[m] /\ settings.cleanup = "on"
           /\ settings.requireAdmin => e.at - e.adminAt <= AdminTtl
    BY <1>3, <1>4, <1>6 DEF RunsHold
  <1>10. \A p \in left : p.at = "checking" => \A e \in next[p.of] : Apart(p.since, e.since)
    <2> SUFFICES ASSUME NEW p \in left, p.at = "checking", NEW e \in next[p.of] PROVE Apart(p.since, e.since)
      OBVIOUS
    <2>1. p \in runs /\ p # r /\ p.of \in Inbox
      BY <1>2, <1>7, <1>8
    <2>2. CASE p.of = r.of /\ e = d
      BY <1>3, <2>1, <2>2 DEF RunsHold
    <2>3. CASE e \in done[p.of]
      BY <2>1, <2>3 DEF RunsHold
    <2> QED BY <1>4, <2>1, <2>2, <2>3
  <1>11. \A o, p \in left : o.at = "checking" /\ p.at = "checking" /\ o.of = p.of /\ o # p => Apart(o.since, p.since)
    BY <1>2, <1>7 DEF RunsHold
  <1>12. \A m \in Inbox : \A a, b \in next[m] : a # b => Apart(a.since, b.since)
    BY <1>3, <1>4, <1>5 DEF RunsHold
  <1>13. RunsHold(left, next, handled)
    BY <1>1, <1>4, <1>7, <1>8, <1>9, <1>10, <1>11, <1>12 DEF RunsHold
  <1> QED BY <1>13 DEF next, left

\* The facts stay, so what holds of the next runs holds in the next state.
LEMMA RunsCarry ==
    ASSUME UNCHANGED facts, RunsHold(removals', removed', handledAt') PROVE RunsHold(removals, removed, handledAt)'
  BY DEF RunsHold, facts

\* Past the check of the account.
LEMMA PassesStep ==
    ASSUME NEW runs, NEW handled, RunsHold(runs, removed, handled), Configured,
           NEW r \in runs, r.at = "checking", removals \ {r} = runs \ {r},
           wasAdmin[chatOf[r.of]] \in Int, settings.requireAdmin => now - wasAdmin[chatOf[r.of]] <= AdminTtl,
           Passes(r)
    PROVE  RunsHold(removals', removed', handled)
  <1>1. CASE settings.cleanup = "dry"
    <2>1. removals' = runs \ {r} /\ removed' = removed
      BY <1>1 DEF Passes
    <2> QED BY <2>1, FewerRuns
  <1>2. CASE settings.cleanup # "dry"
    <2>1. settings.cleanup = "on"
      BY <1>2 DEF RunsHold, Configured
    <2>2. PICK q : q = [r EXCEPT !.at = "delaying"]
      OBVIOUS
    <2>3. PICK last \in Int : last = wasAdmin[chatOf[r.of]]
      OBVIOUS
    <2>4. PICK d : d = [since |-> r.since, at |-> now, adminAt |-> last]
      OBVIOUS
    <2>5. removals' = (runs \ {r}) \cup {q} /\ removed' = [removed EXCEPT ![r.of] = @ \cup {d}]
      BY <1>2, <2>2, <2>3, <2>4 DEF Passes, Decided
    <2>6. settings.requireAdmin => now - last <= AdminTtl
      BY <2>3
    <2>7. RunsHold((runs \ {r}) \cup {q}, [removed EXCEPT ![r.of] = @ \cup {d}], handled)
      BY <2>1, <2>2, <2>4, <2>6, RunDecides
    <2> QED BY <2>5, <2>7
  <1> QED BY <1>1, <1>2

LEMMA RemovalBeginsStep ==
    ASSUME AutomationInv, NEW m \in Inbox, RemovalBegins(m), UNCHANGED <<facts, now, isAdmin, wasAdmin>>
    PROVE  AdminsHold' /\ HandledBefore' /\ RunsHold(removals, removed, handledAt)'
  <1>1. Configured /\ AdminsHold /\ HandledBefore /\ RunsHold(removals, removed, handledAt)
    BY DEF AutomationInv
  <1>2. CASE settings.cleanup = "off" \/ chatOf[m] \notin Groups \/ ~matches[m] \/ Remembered(m)
    BY <1>1, <1>2 DEF RemovalBegins, removing, facts, AdminsHold, HandledBefore, RunsHold
  <1>3. CASE ~(settings.cleanup = "off" \/ chatOf[m] \notin Groups \/ ~matches[m] \/ Remembered(m))
    <2>1. PICK r : r = [of |-> m, since |-> now, at |-> "checking"]
      OBVIOUS
    <2> DEFINE g == chatOf[m]
               runs == removals \cup {r}
    <2>2. r.of = m /\ r.at = "checking" /\ r \in runs
      BY <2>1
    <2>3. handledAt' = [handledAt EXCEPT ![m] = now] /\ cached' = cached
      BY <1>3 DEF RemovalBegins
    <2>4. \/ removals' = runs /\ removed' = removed
          \/ UNCHANGED <<removals, removed>>
          \/ (settings.requireAdmin => IsFresh(g) /\ cached[g].admin) /\ Passes(r)
      BY <1>3, <2>1 DEF RemovalBegins
    <2>5. chatOf[m] \in Groups /\ matches[m] /\ settings.cleanup # "off" /\ handledAt[m] <= now - DedupeFor /\ handledAt[m] <= now
      BY <1>1, <1>3, AutomationAssumption DEF Remembered, HandledBefore, RunsHold, Configured
    <2>6. RunsHold(runs, removed, [handledAt EXCEPT ![m] = now])
      BY <1>1, <2>1, <2>5, RunBegins
    <2>7. RunsHold(runs, removed, handledAt')
      BY <2>3, <2>6
    <2>8. AdminsHold' /\ HandledBefore'
      <3>1. AdminsHold'
        BY <1>1, <2>3 DEF AdminsHold
      <3>2. HandledBefore'
        BY <1>1, <2>3 DEF HandledBefore, RunsHold, Configured
      <3> QED BY <3>1, <3>2
    <2>9. RunsHold(removals', removed', handledAt')
      <3>1. CASE removals' = runs /\ removed' = removed
        BY <2>7, <3>1
      <3>2. CASE UNCHANGED <<removals, removed>>
        <4>1. removals \in SUBSET runs
          OBVIOUS
        <4> QED BY <2>7, <3>2, <4>1, FewerRuns
      <3>3. CASE (settings.requireAdmin => IsFresh(g) /\ cached[g].admin) /\ Passes(r)
        <4>1. wasAdmin[g] \in Int /\ cached[g].until \in Int /\ now \in Int /\ (cached[g].admin => cached[g].until <= wasAdmin[g] + AdminTtl)
          BY <1>1, <2>5 DEF AdminsHold, Configured
        <4>2. settings.requireAdmin => now - wasAdmin[g] <= AdminTtl
          BY <3>3, <4>1, AutomationAssumption DEF IsFresh
        <4>3. removals \ {r} = runs \ {r}
          OBVIOUS
        <4> HIDE DEF runs
        <4> QED BY <1>1, <2>2, <2>7, <3>3, <4>1, <4>2, <4>3, PassesStep
      <3> QED BY <2>4, <3>1, <3>2, <3>3
    <2> QED BY <2>8, <2>9, RunsCarry
  <1> QED BY <1>2, <1>3

LEMMA AdminCheckedStep == ASSUME AutomationInv, NEW r \in removals, AdminChecked(r) PROVE AutomationInv'
  <1> DEFINE g == chatOf[r.of]
  <1>1. Configured /\ RepliesHold /\ AdminsHold /\ HandledBefore /\ RunsHold(removals, removed, handledAt)
    BY DEF AutomationInv
  <1>2. r.at = "checking" /\ UNCHANGED facts /\ UNCHANGED outside /\ UNCHANGED replying /\ handledAt' = handledAt
    BY DEF AdminChecked
  <1>3. g \in Groups /\ wasAdmin[g] \in Int /\ now \in Int /\ (isAdmin[g] => wasAdmin[g] = now) /\ {RefusedTtl, AdminTtl} \subseteq Nat
    BY <1>1, AutomationAssumption DEF RunsHold, AdminsHold, Configured
  <1>4. Configured' /\ RepliesHold' /\ HandledBefore'
    <2>1. Configured' /\ HandledBefore'
      BY <1>1, <1>2 DEF Configured, HandledBefore, facts, outside
    <2>2. \A m \in Inbox : deliveries'[m] >= deliveries[m]
      BY <1>1, <1>2 DEF Configured, outside
    <2>3. now' >= now
      BY <1>1, <1>2 DEF Configured, outside
    <2> QED BY <1>1, <1>2, <2>1, <2>2, <2>3, RepliesRest
  <1>5. AdminsHold'
    <2>1. PICK b \in BOOLEAN, ttl \in {RefusedTtl, AdminTtl} :
             /\ cached' = [cached EXCEPT ![g] = [admin |-> b, until |-> now + ttl]]
             /\ b => isAdmin[g] /\ ttl = AdminTtl
      BY <1>1, <1>3 DEF AdminChecked, AdminsHold
    <2>2. PICK e : e = [admin |-> b, until |-> now + ttl]
      OBVIOUS
    <2>3. e \in [admin : BOOLEAN, until : Int] /\ e.admin = b /\ e.until = now + ttl
      BY <1>3, <2>2
    <2>4. cached' \in [Groups -> [admin : BOOLEAN, until : Int]] /\ cached'[g] = e /\ \A h \in Groups : h # g => cached'[h] = cached[h]
      BY <1>1, <1>3, <2>1, <2>2, <2>3 DEF AdminsHold
    <2>5. e.admin => e.until <= wasAdmin[g] + AdminTtl
      BY <1>3, <2>1, <2>3
    <2>6. \A h \in Groups : cached'[h].admin => cached'[h].until <= wasAdmin[h] + AdminTtl
      BY <1>1, <2>4, <2>5 DEF AdminsHold
    <2> QED BY <1>1, <1>2, <2>4, <2>6 DEF AdminsHold, outside
  <1>6. RunsHold(removals', removed', handledAt')
    <2>1. CASE removals' = removals \ {r} /\ UNCHANGED removed
      BY <1>1, <1>2, <2>1, FewerRuns
    <2>2. CASE isAdmin[g] /\ Passes(r)
      <3>1. settings.requireAdmin => now - wasAdmin[chatOf[r.of]] <= AdminTtl
        BY <1>3, <2>2
      <3> QED BY <1>1, <1>2, <1>3, <2>2, <3>1, PassesStep
    <2> QED BY <2>1, <2>2 DEF AdminChecked
  <1>7. RunsHold(removals, removed, handledAt)'
    BY <1>2, <1>6, RunsCarry
  <1> QED BY <1>4, <1>5, <1>7 DEF AutomationInv

LEMMA DeliverStep == ASSUME AutomationInv, NEW m \in Inbox, Deliver(m) PROVE AutomationInv'
  <1>1. /\ Configured /\ RepliesHold /\ RemovalBegins(m) /\ ReplyBegins(m) /\ UNCHANGED <<facts, now, isAdmin, wasAdmin>>
        /\ deliveries' = [deliveries EXCEPT ![m] = @ + 1]
    BY DEF AutomationInv, Deliver
  <1>2. Configured'
    BY <1>1 DEF Configured, facts
  <1>3. RepliesHold'
    BY <1>1, <1>2, ReplyBeginsStep
  <1> QED BY <1>1, <1>2, <1>3, RemovalBeginsStep DEF AutomationInv

LEMMA RemovalEndsStep == ASSUME AutomationInv, NEW r \in removals, RemovalEnds(r) PROVE AutomationInv'
  <1>1. /\ Configured /\ RepliesHold /\ AdminsHold /\ HandledBefore /\ RunsHold(removals, removed, handledAt)
        /\ removals' = removals \ {r} /\ UNCHANGED facts /\ UNCHANGED outside /\ UNCHANGED replying /\ UNCHANGED <<handledAt, cached, removed>>
    BY DEF AutomationInv, RemovalEnds
  <1>2. Configured' /\ AdminsHold' /\ HandledBefore'
    BY <1>1 DEF Configured, AdminsHold, HandledBefore, facts, outside
  <1>3. RunsHold(removals', removed', handledAt')
    BY <1>1, FewerRuns
  <1>4. now' >= now /\ \A m \in Inbox : deliveries'[m] >= deliveries[m]
    BY <1>1 DEF Configured, outside
  <1> QED BY <1>1, <1>2, <1>3, <1>4, RepliesRest, RunsCarry DEF AutomationInv

\* Time goes on, or the account is promoted or demoted.
LEMMA AdminsStep == ASSUME AutomationInv, Ticks \/ AdminChanges PROVE AutomationInv'
  <1>1. /\ Configured /\ RepliesHold /\ AdminsHold /\ HandledBefore /\ RunsHold(removals, removed, handledAt)
        /\ UNCHANGED facts /\ UNCHANGED deliveries /\ UNCHANGED replying /\ UNCHANGED removing
    BY DEF AutomationInv, Ticks, AdminChanges
  <1>2. now' \in Nat /\ now' >= now /\ now \in Nat
    BY <1>1 DEF Ticks, AdminChanges, Configured
  <1>3. Configured'
    BY <1>1, <1>2 DEF Configured, facts
  <1>4. AdminsHold'
    <2>1. CASE Ticks
      <3>1. /\ wasAdmin' \in [Groups -> Int] /\ isAdmin' = isAdmin /\ cached' = cached /\ now' = now + 1
            /\ \A g \in Groups : wasAdmin'[g] = IF isAdmin[g] THEN now' ELSE wasAdmin[g]
        BY <1>1, <1>2, <2>1 DEF Ticks, removing, AdminsHold
      <3>2. \A g \in Groups : wasAdmin[g] \in Int /\ cached[g].until \in Int
        BY <1>1 DEF AdminsHold
      <3>3. \A g \in Groups : wasAdmin'[g] >= wasAdmin[g] /\ wasAdmin'[g] <= now' /\ (isAdmin[g] => wasAdmin'[g] = now')
        BY <1>1, <1>2, <3>1, <3>2 DEF AdminsHold
      <3>4. \A g \in Groups : cached[g].admin => cached[g].until <= wasAdmin'[g] + AdminTtl
        BY <1>1, <3>1, <3>2, <3>3, AutomationAssumption DEF AdminsHold
      <3> QED BY <1>1, <3>1, <3>3, <3>4 DEF AdminsHold
    <2>2. CASE AdminChanges
      <3>1. PICK g \in Groups : isAdmin' = [isAdmin EXCEPT ![g] = ~@] /\ wasAdmin' = [wasAdmin EXCEPT ![g] = now]
        BY <2>2 DEF AdminChanges
      <3>2. isAdmin' \in [Groups -> BOOLEAN] /\ \A h \in Groups : h # g => isAdmin'[h] = isAdmin[h]
        BY <1>1, <3>1 DEF AdminsHold
      <3>3. /\ wasAdmin' \in [Groups -> Int] /\ wasAdmin'[g] = now /\ now' = now /\ cached' = cached
            /\ \A h \in Groups : h # g => wasAdmin'[h] = wasAdmin[h]
        BY <1>1, <1>2, <2>2, <3>1 DEF AdminsHold, AdminChanges, removing
      <3>4. wasAdmin[g] \in Int /\ wasAdmin[g] <= now /\ cached[g].until \in Int
        BY <1>1 DEF AdminsHold
      <3>5. cached[g].admin => cached[g].until <= now + AdminTtl
        BY <1>1, <1>2, <3>4, AutomationAssumption DEF AdminsHold
      <3> QED BY <1>1, <1>2, <3>2, <3>3, <3>5 DEF AdminsHold
    <2> QED BY <2>1, <2>2
  <1>5. HandledBefore'
    BY <1>1, <1>2 DEF HandledBefore, RunsHold, removing
  <1>6. RunsHold(removals', removed', handledAt')
    BY <1>1 DEF removing
  <1>7. \A m \in Inbox : deliveries'[m] >= deliveries[m]
    BY <1>1 DEF Configured
  <1> QED BY <1>1, <1>2, <1>3, <1>4, <1>5, <1>6, <1>7, RepliesRest, RunsCarry DEF AutomationInv

LEMMA ReplyRunsStep == ASSUME AutomationInv, NEW r \in replies, Generated(r) \/ ReplySent(r) PROVE AutomationInv'
  <1>1. UNCHANGED facts /\ UNCHANGED outside /\ UNCHANGED removing
    BY DEF Generated, ReplySent
  <1>2. Configured' /\ AdminsHold' /\ HandledBefore' /\ RunsHold(removals, removed, handledAt)'
    BY <1>1 DEF AutomationInv, Configured, AdminsHold, HandledBefore, RunsHold, facts, outside, removing
  <1> QED BY <1>2, ReplyGoesStep DEF AutomationInv

LEMMA AutomationsStep == AutomationInv /\ [AutomationNext]_automationVars => AutomationInv'
  <1> SUFFICES ASSUME AutomationInv, [AutomationNext]_automationVars PROVE AutomationInv'
    OBVIOUS
  <1>1. CASE UNCHANGED automationVars
    <2>1. UNCHANGED facts /\ UNCHANGED outside /\ UNCHANGED removing /\ UNCHANGED replying /\ now' >= now /\ \A m \in Inbox : deliveries'[m] >= deliveries[m]
      BY <1>1 DEF automationVars, facts, outside, removing, replying, AutomationInv, Configured
    <2>2. Configured' /\ AdminsHold' /\ HandledBefore' /\ RunsHold(removals, removed, handledAt)'
      BY <2>1 DEF AutomationInv, Configured, AdminsHold, HandledBefore, RunsHold, facts, outside, removing
    <2> QED BY <2>1, <2>2, RepliesRest DEF AutomationInv
  <1> QED BY <1>1, DeliverStep, AdminsStep, ReplyRunsStep, AdminCheckedStep, RemovalEndsStep DEF AutomationNext, Runs

LEMMA AutomationsHold == AutomationInv => AutomationsBehave
  BY DEF AutomationInv, AutomationsBehave, RepliesHold, RunsHold, RemovedAsAdmin, RemovedOnce, Apart

-----------------------------------------------------------------------------
(* The sessions page                                                         *)

CallTypes == Reads \cup {"start", "stop", "kill", "delete", "create"}
ModalTypes == Reads \ {"list"}
CardCalls ==
    [of : Cards, type : CallTypes, snap : [Cards -> Shown], then : {"end", "show", "showUnlessReady"},
     at : {"sent", "served"}, answer : Shown \cup {"none", "ok", "refused"}, crossed : SUBSET Cards]
Tidings == [of : Cards, status : Shown \ (Absent \cup {"created", "connecting"})]
Modals == [of : Cards, name : Cards \cup {NoCard}, code : BOOLEAN] \cup {NoModal}

PageShape ==
    /\ server \in [Cards -> Shown \ {"connecting"}] /\ shownList \in [Cards -> Shown]
    /\ events \in Seq(Tidings) /\ fetches \subseteq CardCalls
    /\ modal \in Modals /\ named \in Cards \cup {NoCard} /\ pairing \in Cards \cup {NoCard}
    /\ doubt \subseteq Cards /\ muddled \in BOOLEAN

\* What a call under way knows of the list: what it read is there unless a session changed meanwhile; the list that
\* a handler saw is the one that is shown, unless somebody changed it meanwhile; and what it did is done.
CallHolds(c) ==
    /\ c.at = "sent" => c.type \notin Reads
    /\ c.type = "list" => c.answer = "ok"
    /\ c.type \notin Reads /\ c.at = "served" => c.answer \in {"ok", "refused"}
    /\ c.type \notin ModalTypes => \A s \in Cards : c.snap[s] = "gone" => server[s] = "gone"
    /\ c.type = "list" => \A s \in Cards \ c.crossed : c.snap[s] = server[s]
    /\ c.type \notin Reads => \A s \in Cards \ (c.crossed \cup {c.of}) : c.snap[s] = shownList[s]
    /\ c.type \notin Reads /\ c.at = "served" /\ c.answer = "ok" =>
          /\ c.of \notin c.crossed => server[c.of] = LeftBy(c.type)
          /\ c.type = "delete" => server[c.of] = "gone"

HasNews(s) == \E i \in 1..Len(events) : events[i].of = s
IsLatest(i) == \A j \in (i + 1)..Len(events) : events[j].of # events[i].of
HasChange(s) == \E c \in fetches : c.type \notin Reads /\ c.of = s

\* The last that was told of a session is true, unless it has been deleted.
NewsIsTrue ==
    /\ \A i \in 1..Len(events) : IsLatest(i) => server[events[i].of] \in {events[i].status, "gone"}
    /\ \A i \in 1..Len(events) : server[events[i].of] \notin {"new", "created"}
    /\ room \/ events = <<>>

\* The list shows the status of a session, or will when the events have been heard, or a handler is about to write it.
StatusIsKnown(s) ==
    \/ shownList[s] = server[s]
    \/ shownList[s] \notin Absent /\ server[s] # "gone" /\ HasNews(s)
    \/ HasChange(s)

ListHolds ==
    /\ \A c \in fetches : CallHolds(c)
    /\ \A s \in Cards : shownList[s] = "gone" => server[s] = "gone"
    /\ NewsIsTrue
    /\ \A s \in Cards \ doubt : StatusIsKnown(s)

ModalCalls == {c \in fetches : c.type \in ModalTypes}

\* Calls for the modal are for one session, the one the modal and its title are about.
ModalHolds ==
    ~muddled =>
        /\ \A c, d \in ModalCalls : c.of = d.of
        /\ \A c, d \in ModalCalls : c.type \in {"poll", "get"} /\ d.type \in {"poll", "get"} => c = d
        /\ \A c \in ModalCalls : /\ pairing \in {NoCard, c.of}
                                 /\ c.type \in {"poll", "get"} => named = c.of
                                 /\ modal # NoModal => modal.of = c.of
        /\ modal # NoModal => modal.name = modal.of /\ named = modal.of /\ pairing \in {NoCard, modal.of}

PageInv == PageShape /\ ListHolds /\ ModalHolds

LEMMA PageStarts == PageInit => PageInv
  <1> SUFFICES ASSUME PageInit PROVE PageInv
    OBVIOUS
  <1>1. PageShape
    <2>1. server \in [Cards -> Shown \ {"connecting"}] /\ shownList \in [Cards -> Shown]
      BY PageAssumption DEF PageInit, Shown
    <2>2. events \in Seq(Tidings) /\ fetches \subseteq CardCalls /\ modal \in Modals
      BY DEF PageInit, Modals
    <2> QED BY <2>1, <2>2 DEF PageInit, PageShape
  <1>2. ListHolds
    BY DEF PageInit, ListHolds, NewsIsTrue, StatusIsKnown
  <1>3. ModalHolds
    BY DEF PageInit, ModalHolds, ModalCalls, NoModal
  <1> QED BY <1>1, <1>2, <1>3 DEF PageInv

-----------------------------------------------------------------------------
(* What a step makes of the calls under way                                  *)

LEMMA InquiryHolds ==
    ASSUME PageShape, NEW s \in Cards, NEW type \in Reads, NEW then \in {"end", "show", "showUnlessReady"},
           NEW CONSTANT c, c = Inquiry(s, type, then)
    PROVE  c \in CardCalls /\ c.of = s /\ c.type = type /\ CallHolds(c) /\ (server' = server => CallHolds(c)')
  <1> DEFINE snap == IF type = "list" THEN server ELSE Blank
  <1>1. Blank \in [Cards -> Shown]
    BY DEF Blank, Shown
  <1>2. server \in [Cards -> Shown]
    BY DEF PageShape
  <1>3. Reply(s, type) \in Shown \cup {"ok", "refused"} /\ (type = "list" => Reply(s, type) = "ok")
    BY <1>2 DEF Reply
  <1>4. PICK b : b = Change(s, type, snap)
    OBVIOUS
  <1>5. c \in CardCalls /\ c.of = s /\ c.type = type /\ c.at = "served" /\ c.answer = Reply(s, type) /\ c.snap = snap /\ c.crossed = {}
    <2>1. snap \in [Cards -> Shown]
      BY <1>1, <1>2
    <2>2. b \in CardCalls /\ b.of = s /\ b.type = type /\ b.snap = snap /\ b.crossed = {}
      BY <1>4, <2>1 DEF Change, CardCalls, CallTypes
    <2>3. PICK reply \in Shown \cup {"ok", "refused"} : reply = Reply(s, type)
      BY <1>3
    <2>4. c = [b EXCEPT !.then = then, !.at = "served", !.answer = reply]
      BY <1>4, <2>3 DEF Inquiry
    <2> QED BY <2>2, <2>3, <2>4 DEF CardCalls
  <1>6. CallHolds(c)
    BY <1>3, <1>5 DEF CallHolds, ModalTypes
  <1>7. ASSUME server' = server PROVE CallHolds(c)'
    BY <1>3, <1>5, <1>7 DEF CallHolds, ModalTypes
  <1> QED BY <1>5, <1>6, <1>7

\* A call that a change of a session crosses.
LEMMA CrossedIs ==
    ASSUME NEW calls \in SUBSET CardCalls, NEW s \in Cards, NEW d \in Crossed(s, calls)
    PROVE  \E c \in calls :
             /\ d \in CardCalls /\ d.of = c.of /\ d.type = c.type /\ d.snap = c.snap /\ d.at = c.at /\ d.answer = c.answer
             /\ c.type \in ModalTypes => d = c
             /\ c.type \notin ModalTypes => d.crossed = c.crossed \cup {s}
  <1>1. PICK c \in calls : d = IF c.type \in Reads \ {"list"} THEN c ELSE [c EXCEPT !.crossed = @ \cup {s}]
    BY DEF Crossed
  <1>2. c \in CardCalls
    OBVIOUS
  <1>3. CASE c.type \in ModalTypes
    BY <1>1, <1>2, <1>3 DEF ModalTypes
  <1>4. CASE c.type \notin ModalTypes
    <2> DEFINE crossed == c.crossed \cup {s}
    <2>1. crossed \in SUBSET Cards
      BY <1>2 DEF CardCalls
    <2>2. d = [c EXCEPT !.crossed = crossed]
      BY <1>1, <1>4 DEF ModalTypes
    <2> HIDE DEF crossed
    <2>3. d \in CardCalls /\ d.of = c.of /\ d.type = c.type /\ d.snap = c.snap /\ d.at = c.at /\ d.answer = c.answer /\ d.crossed = crossed
      BY <1>2, <2>1, <2>2 DEF CardCalls
    <2> QED BY <1>4, <2>3 DEF crossed
  <1> QED BY <1>3, <1>4

\* A handler that a change of the list overtakes.
LEMMA OvertakenIs ==
    ASSUME NEW calls \in SUBSET CardCalls, NEW seen \in [Cards -> Shown], NEW d \in Overtaken(seen, calls)
    PROVE  \E c \in calls :
             /\ d \in CardCalls /\ d.of = c.of /\ d.type = c.type /\ d.snap = c.snap /\ d.at = c.at /\ d.answer = c.answer
             /\ c.type \in Reads => d = c
             /\ c.type \notin Reads => d.crossed = c.crossed \cup {s \in Cards \ {c.of} : seen[s] # c.snap[s]}
  <1>1. PICK c \in calls :
           d = IF c.type \in Reads THEN c ELSE [c EXCEPT !.crossed = @ \cup {s \in Cards \ {c.of} : seen[s] # c.snap[s]}]
    BY DEF Overtaken
  <1>2. c \in CardCalls
    OBVIOUS
  <1>3. CASE c.type \in Reads
    BY <1>1, <1>2, <1>3
  <1>4. CASE c.type \notin Reads
    <2> DEFINE crossed == c.crossed \cup {s \in Cards \ {c.of} : seen[s] # c.snap[s]}
    <2>1. crossed \in SUBSET Cards
      BY <1>2 DEF CardCalls
    <2>2. d = [c EXCEPT !.crossed = crossed]
      BY <1>1, <1>4
    <2> HIDE DEF crossed
    <2>3. d \in CardCalls /\ d.of = c.of /\ d.type = c.type /\ d.snap = c.snap /\ d.at = c.at /\ d.answer = c.answer /\ d.crossed = crossed
      BY <1>2, <2>1, <2>2 DEF CardCalls
    <2> QED BY <1>4, <2>3 DEF crossed
  <1> QED BY <1>3, <1>4

\* No call for a session is forgotten by either.
LEMMA CallsRemain ==
    ASSUME NEW calls \in SUBSET CardCalls, NEW seen \in [Cards -> Shown], NEW c \in calls
    PROVE  \E d \in Overtaken(seen, calls) : d.of = c.of /\ d.type = c.type
  <1> DEFINE d == IF c.type \in Reads THEN c ELSE [c EXCEPT !.crossed = @ \cup {x \in Cards \ {c.of} : seen[x] # c.snap[x]}]
  <1>1. d \in Overtaken(seen, calls)
    BY DEF Overtaken
  <1>2. c \in CardCalls
    OBVIOUS
  <1>3. d.of = c.of /\ d.type = c.type
    BY <1>2 DEF CardCalls
  <1> QED BY <1>1, <1>3

\* After a session has changed, the calls it crosses still know what they know.
LEMMA ServerMoves ==
    ASSUME PageShape, NEW calls \in SUBSET fetches, \A c \in calls : CallHolds(c), NEW s \in Cards, NEW v,
           server' = [server EXCEPT ![s] = v], server[s] # "gone", UNCHANGED shownList,
           NEW d \in Crossed(s, calls)
    PROVE  CallHolds(d)'
  <1>1. PICK c \in calls :
             /\ d \in CardCalls /\ d.of = c.of /\ d.type = c.type /\ d.snap = c.snap /\ d.at = c.at /\ d.answer = c.answer
             /\ c.type \in ModalTypes => d = c
             /\ c.type \notin ModalTypes => d.crossed = c.crossed \cup {s}
    <2>1. calls \in SUBSET CardCalls /\ s \in Cards /\ d \in Crossed(s, calls)
      BY DEF PageShape
    <2> QED BY ONLY <2>1, CrossedIs
  <1>2. \A x \in Cards \ {s} : server'[x] = server[x]
    BY DEF PageShape
  <1>3. \A x \in Cards : server[x] = "gone" => server'[x] = "gone"
    BY <1>2
  <1>4. CallHolds(c) /\ c \in CardCalls /\ c.of \in Cards
    BY DEF PageShape, CardCalls
  <1>5. CASE c.type \in ModalTypes
    BY <1>1, <1>4, <1>5 DEF CallHolds, ModalTypes
  <1>6. CASE c.type \notin ModalTypes
    <2>1. d.type \notin ModalTypes => \A x \in Cards : d.snap[x] = "gone" => server'[x] = "gone"
      BY <1>1, <1>3, <1>4, <1>6 DEF CallHolds
    <2>2. d.type = "list" => \A x \in Cards \ d.crossed : d.snap[x] = server'[x]
      BY <1>1, <1>2, <1>4, <1>6 DEF CallHolds
    <2>3. d.type \notin Reads => \A x \in Cards \ (d.crossed \cup {d.of}) : d.snap[x] = shownList'[x]
      BY <1>1, <1>4, <1>6 DEF CallHolds
    <2>4. d.type \notin Reads /\ d.at = "served" /\ d.answer = "ok" =>
             /\ d.of \notin d.crossed => server'[d.of] = LeftBy(d.type)
             /\ d.type = "delete" => server'[d.of] = "gone"
      BY <1>1, <1>2, <1>3, <1>4, <1>6 DEF CallHolds
    <2> QED BY <1>1, <1>4, <1>6, <2>1, <2>2, <2>3, <2>4 DEF CallHolds
  <1> QED BY <1>5, <1>6

\* And so do those that a new list overtakes.
LEMMA ListMoves ==
    ASSUME PageShape, NEW calls \in SUBSET fetches, \A c \in calls : CallHolds(c),
           shownList' \in [Cards -> Shown], UNCHANGED server, NEW d \in Overtaken(shownList', calls)
    PROVE  CallHolds(d)'
  <1>1. PICK c \in calls :
             /\ d \in CardCalls /\ d.of = c.of /\ d.type = c.type /\ d.snap = c.snap /\ d.at = c.at /\ d.answer = c.answer
             /\ c.type \in Reads => d = c
             /\ c.type \notin Reads => d.crossed = c.crossed \cup {s \in Cards \ {c.of} : shownList'[s] # c.snap[s]}
    <2>1. calls \in SUBSET CardCalls
      BY DEF PageShape
    <2> QED BY <2>1, OvertakenIs
  <1>2. CallHolds(c)
    OBVIOUS
  <1>3. CASE c.type \in Reads
    BY <1>1, <1>2, <1>3 DEF CallHolds
  <1>4. CASE c.type \notin Reads
    <2>1. \A x \in Cards \ (d.crossed \cup {d.of}) : d.snap[x] = shownList'[x]
      BY <1>1, <1>4
    <2> QED BY <1>1, <1>2, <1>4, <2>1 DEF CallHolds, Reads
  <1> QED BY <1>3, <1>4

-----------------------------------------------------------------------------
(* What a step makes of the events                                           *)

EventStatus == Shown \ (Absent \cup {"created", "connecting"})

LEMMA EventsAre == ASSUME PageShape, NEW i \in 1..Len(events) PROVE events[i].of \in Cards /\ events[i].status \in EventStatus
  <1>1. events[i] \in Tidings
    BY DEF PageShape
  <1> QED BY <1>1 DEF Tidings, EventStatus

\* Those in the room are told; who is not there may be wrong.
LEMMA Telling ==
    ASSUME PageShape, NewsIsTrue, NEW s \in Cards, NEW v \in EventStatus, server' = [server EXCEPT ![s] = v], Tells(s, v),
           UNCHANGED room
    PROVE  /\ NewsIsTrue' /\ events' \in Seq(Tidings) /\ doubt \subseteq doubt' /\ doubt' \subseteq Cards
           /\ s \notin doubt' => HasNews(s)'
           /\ \A x \in Cards : HasNews(x) => HasNews(x)'
  <1>1. CASE room
    <2> DEFINE e == [of |-> s, status |-> v]
    <2>1. e \in Tidings /\ e.of = s /\ e.status = v
      BY DEF Tidings, EventStatus
    <2>2. events' = Append(events, e) /\ doubt' = doubt
      BY <1>1 DEF Tells
    <2> HIDE DEF e
    <2>3. /\ events' \in Seq(Tidings) /\ Len(events') = Len(events) + 1 /\ events'[Len(events) + 1] = e
          /\ (\A i \in 1..Len(events) : events'[i] = events[i]) /\ Len(events) \in Nat
      BY <2>1, <2>2 DEF PageShape
    <2>4. server'[s] = v /\ \A x \in Cards \ {s} : server'[x] = server[x]
      BY DEF PageShape
    <2>5. \A i \in 1..Len(events) : events[i].of \in Cards
      BY EventsAre
    <2>6. ASSUME NEW i \in 1..Len(events') PROVE IsLatest(i)' => server'[events'[i].of] \in {events'[i].status, "gone"}
      <3>1. CASE i = Len(events) + 1
        BY <2>1, <2>3, <2>4, <3>1
      <3>2. CASE i # Len(events) + 1
        <4>1. i \in 1..Len(events) /\ events'[i] = events[i]
          BY <2>3, <3>2
        <4>2. IsLatest(i)' => events[i].of # s /\ IsLatest(i)
          <5> SUFFICES ASSUME IsLatest(i)' PROVE events[i].of # s /\ IsLatest(i)
            OBVIOUS
          <5>1. \A j \in (i + 1)..(Len(events) + 1) : events'[j].of # events[i].of
            BY <2>3, <4>1 DEF IsLatest
          <5>2. events[i].of # s
            BY <2>1, <2>3, <4>1, <5>1
          <5>3. \A j \in (i + 1)..Len(events) : events[j].of # events[i].of
            BY <2>3, <4>1, <5>1
          <5> QED BY <5>2, <5>3 DEF IsLatest
        <4> QED BY <2>4, <2>5, <4>1, <4>2 DEF NewsIsTrue
      <3> QED BY <3>1, <3>2
    <2>7. ASSUME NEW i \in 1..Len(events') PROVE server'[events'[i].of] \notin {"new", "created"}
      <3>1. CASE i = Len(events) + 1
        BY <2>1, <2>3, <2>4, <3>1 DEF EventStatus, Absent
      <3>2. CASE i # Len(events) + 1
        <4>1. i \in 1..Len(events) /\ events'[i] = events[i]
          BY <2>3, <3>2
        <4>2. v \notin {"new", "created"}
          BY DEF EventStatus, Absent
        <4> QED BY <2>4, <2>5, <4>1, <4>2 DEF NewsIsTrue
      <3> QED BY <3>1, <3>2
    <2>8. HasNews(s)'
      BY <2>1, <2>3 DEF HasNews
    <2>9. \A x \in Cards : HasNews(x) => HasNews(x)'
      BY <2>3 DEF HasNews
    <2> QED BY <1>1, <2>2, <2>3, <2>6, <2>7, <2>8, <2>9 DEF NewsIsTrue, PageShape
  <1>2. CASE ~room
    <2>1. events = <<>> /\ events' = <<>> /\ doubt' = doubt \cup {s}
      BY <1>2 DEF Tells, NewsIsTrue
    <2> QED BY <2>1 DEF NewsIsTrue, PageShape, HasNews
  <1> QED BY <1>1, <1>2

\* A session that is created or deleted is told by the answer of its call only.
LEMMA Silence ==
    ASSUME PageShape, NewsIsTrue, NEW s \in Cards, NEW v \in {"created", "gone", server[s]}, server' = [server EXCEPT ![s] = v],
           v = "created" => server[s] = "new", UNCHANGED <<events, room>>
    PROVE  NewsIsTrue'
  <1>1. server'[s] = v /\ \A x \in Cards \ {s} : server'[x] = server[x]
    BY DEF PageShape
  <1>2. \A i \in 1..Len(events) : events[i].of \in Cards
    BY EventsAre
  <1>3. \A i \in 1..Len(events) : events[i].of = s => v \in {"gone", server[s]}
    BY DEF NewsIsTrue
  <1>4. \A i \in 1..Len(events) : IsLatest(i) => server'[events[i].of] \in {events[i].status, "gone"}
    BY <1>1, <1>2, <1>3 DEF NewsIsTrue
  <1>5. \A i \in 1..Len(events) : server'[events[i].of] \notin {"new", "created"}
    BY <1>1, <1>2, <1>3 DEF NewsIsTrue
  <1> QED BY <1>4, <1>5 DEF NewsIsTrue, IsLatest

\* The first event is heard.
LEMMA Hearing ==
    ASSUME PageShape, NewsIsTrue, events # <<>>, events' = Tail(events), UNCHANGED <<server, room>>,
           NEW CONSTANT e, e = Head(events)
    PROVE  /\ NewsIsTrue' /\ events' \in Seq(Tidings) /\ e.of \in Cards /\ e.status \in EventStatus
           /\ \A x \in Cards \ {e.of} : HasNews(x) => HasNews(x)'
           /\ HasNews(e.of)' \/ server[e.of] \in {e.status, "gone"}
  <1>1. /\ Len(events) \in Nat \ {0} /\ events' \in Seq(Tidings) /\ Len(events') = Len(events) - 1 /\ e = events[1]
        /\ (\A i \in 1..Len(events') : events'[i] = events[i + 1])
    BY DEF PageShape
  <1>8. e.of \in Cards /\ e.status \in EventStatus
    BY <1>1, EventsAre
  <1>2. \A i \in 1..Len(events') : IsLatest(i)' => IsLatest(i + 1)
    <2> SUFFICES ASSUME NEW i \in 1..Len(events'), IsLatest(i)', NEW j \in (i + 2)..Len(events) PROVE events[j].of # events[i + 1].of
      BY <1>1 DEF IsLatest
    <2>1. j - 1 \in (i + 1)..Len(events') /\ events'[j - 1] = events[j] /\ events'[i] = events[i + 1]
      BY <1>1
    <2> QED BY <2>1 DEF IsLatest
  <1>3. \A i \in 1..Len(events') : i + 1 \in 1..Len(events)
    BY <1>1
  <1>4. NewsIsTrue'
    <2>1. \A i \in 1..Len(events') : IsLatest(i)' => server'[events'[i].of] \in {events'[i].status, "gone"}
      BY <1>1, <1>2, <1>3 DEF NewsIsTrue
    <2>2. \A i \in 1..Len(events') : server'[events'[i].of] \notin {"new", "created"}
      BY <1>1, <1>3 DEF NewsIsTrue
    <2>3. room'
      BY DEF NewsIsTrue
    <2> QED BY <2>1, <2>2, <2>3 DEF NewsIsTrue
  <1>5. ASSUME NEW x \in Cards, NEW i \in 2..Len(events), events[i].of = x PROVE HasNews(x)'
    <2>1. i - 1 \in 1..Len(events') /\ events'[i - 1] = events[i]
      BY <1>1
    <2> QED BY <1>5, <2>1 DEF HasNews
  <1>6. ASSUME NEW x \in Cards \ {e.of}, HasNews(x) PROVE HasNews(x)'
    <2>1. PICK i \in 1..Len(events) : events[i].of = x
      BY <1>6 DEF HasNews
    <2>2. i \in 2..Len(events)
      BY <1>1, <1>6, <2>1
    <2> QED BY <1>5, <2>1, <2>2
  <1>7. HasNews(e.of)' \/ server[e.of] \in {e.status, "gone"}
    <2>1. CASE IsLatest(1)
      BY <1>1, <2>1 DEF NewsIsTrue
    <2>2. CASE ~IsLatest(1)
      <3>1. PICK j \in 2..Len(events) : events[j].of = e.of
        BY <2>2 DEF IsLatest
      <3> QED BY <1>1, <1>5, <1>8, <3>1
    <2> QED BY <2>1, <2>2
  <1> QED BY <1>1, <1>4, <1>6, <1>7, <1>8

-----------------------------------------------------------------------------
(* The modal                                                                 *)

ModalOf(calls) == {c \in calls : c.type \in ModalTypes}

LEMMA ModalUntouched ==
    ASSUME NEW calls \in SUBSET CardCalls, NEW s \in Cards, NEW seen \in [Cards -> Shown]
    PROVE  ModalOf(Crossed(s, calls)) = ModalOf(calls) /\ ModalOf(Overtaken(seen, calls)) = ModalOf(calls)
  <1>1. ASSUME NEW c \in ModalOf(calls) PROVE c \in ModalOf(Crossed(s, calls)) /\ c \in ModalOf(Overtaken(seen, calls))
    <2>1. c \in calls /\ c.type \in ModalTypes /\ c.type \in Reads /\ c.type \in Reads \ {"list"}
      BY DEF ModalOf, ModalTypes
    <2>2. c \in Crossed(s, calls)
      BY <2>1 DEF Crossed
    <2>3. c \in Overtaken(seen, calls)
      BY <2>1 DEF Overtaken
    <2> QED BY <2>1, <2>2, <2>3 DEF ModalOf
  <1>2. ASSUME NEW d \in ModalOf(Crossed(s, calls)) PROVE d \in ModalOf(calls)
    <2>1. d \in Crossed(s, calls) /\ d.type \in ModalTypes
      BY DEF ModalOf
    <2>2. \E c \in calls : d.type = c.type /\ (c.type \in ModalTypes => d = c)
      <3>1. PICK c \in calls : d = IF c.type \in Reads \ {"list"} THEN c ELSE [c EXCEPT !.crossed = @ \cup {s}]
        BY <2>1 DEF Crossed
      <3>2. d.type = c.type
        BY <3>1 DEF CardCalls
      <3> QED BY <3>1, <3>2 DEF ModalTypes
    <2> QED BY <2>1, <2>2 DEF ModalOf
  <1>3. ASSUME NEW d \in ModalOf(Overtaken(seen, calls)) PROVE d \in ModalOf(calls)
    <2>1. d \in Overtaken(seen, calls) /\ d.type \in ModalTypes
      BY DEF ModalOf
    <2>2. \E c \in calls : d.type = c.type /\ (c.type \in Reads => d = c)
      BY <2>1, OvertakenIs
    <2> QED BY <2>1, <2>2 DEF ModalOf, ModalTypes
  <1> QED BY <1>1, <1>2, <1>3

LEMMA ModalRests ==
    ASSUME ModalHolds, ModalOf(fetches') \subseteq ModalCalls, UNCHANGED <<modal, named, pairing, muddled>>
    PROVE  ModalHolds'
  <1>1. ModalCalls' \subseteq ModalCalls
    BY DEF ModalCalls, ModalOf
  <1> QED BY <1>1 DEF ModalHolds

LEMMA OpensStep ==
    ASSUME PageShape, ModalHolds, NEW s \in Cards, NEW calls \in SUBSET CardCalls, ModalOf(calls) \subseteq ModalCalls,
           Opens(s, calls), UNCHANGED server
    PROVE  /\ ModalHolds' /\ modal' \in Modals /\ named' = s /\ pairing' = NoCard /\ muddled' \in BOOLEAN
           /\ \E c \in CardCalls : c = Inquiry(s, "show", "end") /\ c.type = "show" /\ fetches' = calls \cup {c}
  <1>1. PICK c : c = Inquiry(s, "show", "end")
    OBVIOUS
  <1>2. c \in CardCalls /\ c.of = s /\ c.type = "show"
    BY <1>1, InquiryHolds DEF Reads
  <1>3. /\ modal' = [of |-> s, name |-> s, code |-> FALSE] /\ named' = s /\ pairing' = NoCard
        /\ fetches' = calls \cup {c} /\ muddled' = (muddled \/ Meddles(s, calls))
    BY <1>1 DEF Opens
  <1>4. ~muddled' => \A d \in ModalCalls' : d.of = s
    BY <1>2, <1>3 DEF Meddles, ModalCalls, ModalTypes, Reads
  <1>5. modal' \in Modals /\ modal'.of = s /\ modal'.name = s
    BY <1>3 DEF Modals
  <1>6. muddled' \in BOOLEAN
    BY <1>3 DEF PageShape
  <1>7. ~muddled' => ~muddled
    BY <1>3
  <1>8. ~muddled' => \A d1, d2 \in ModalCalls' : d1.type \in {"poll", "get"} /\ d2.type \in {"poll", "get"} => d1 = d2
    <2> SUFFICES ASSUME ~muddled', NEW d1 \in ModalCalls', NEW d2 \in ModalCalls', d1.type \in {"poll", "get"}, d2.type \in {"poll", "get"}
                 PROVE d1 = d2
      OBVIOUS
    <2>1. d1 \in ModalOf(calls) /\ d2 \in ModalOf(calls)
      BY <1>2, <1>3 DEF ModalCalls, ModalOf
    <2> QED BY <1>7, <2>1 DEF ModalHolds
  <1>9. ModalHolds'
    BY <1>3, <1>4, <1>5, <1>8 DEF ModalHolds
  <1> QED BY <1>1, <1>2, <1>3, <1>5, <1>6, <1>9

-----------------------------------------------------------------------------
(* The steps of the page                                                     *)

IsInquiry(c) == \E s \in Cards, type \in Reads, then \in {"end", "show", "showUnlessReady"} : c = Inquiry(s, type, then)

LEMMA InquiryKnows == ASSUME PageShape, NEW CONSTANT c, IsInquiry(c) PROVE c \in CardCalls /\ c.type \in Reads /\ CallHolds(c) /\ (server' = server => CallHolds(c)')
  BY InquiryHolds DEF IsInquiry

\* Calls that end, are added, or are overtaken by what is written to the list.
LEMMA CallsHold ==
    ASSUME PageShape, \A c \in fetches : CallHolds(c), NEW calls \in SUBSET fetches, NEW CONSTANT X, \A x \in X : IsInquiry(x),
           UNCHANGED server, shownList' \in [Cards -> Shown],
           \/ fetches' \subseteq Overtaken(shownList', calls) \cup X
           \/ UNCHANGED shownList /\ fetches' \subseteq calls \cup X
    PROVE  fetches' \subseteq CardCalls /\ \A d \in fetches' : CallHolds(d)'
  <1> SUFFICES ASSUME NEW d \in fetches' PROVE d \in CardCalls /\ CallHolds(d)'
    OBVIOUS
  <1>1. CASE d \in X
    BY <1>1, InquiryKnows
  <1>2. CASE d \in calls /\ UNCHANGED shownList
    BY <1>2 DEF CallHolds, PageShape
  <1>3. CASE d \in Overtaken(shownList', calls)
    <2>1. calls \in SUBSET CardCalls
      BY DEF PageShape
    <2>2. d \in CardCalls
      BY <1>3, <2>1, OvertakenIs
    <2>3. CallHolds(d)'
      BY <1>3, ListMoves
    <2> QED BY <2>2, <2>3
  <1> QED BY <1>1, <1>2, <1>3

\* Steps of the page that leave the server, the events and the list alone.
LEMMA PageOnly ==
    ASSUME PageInv, UNCHANGED <<server, shownList, events, room, doubt>>, NEW calls \in SUBSET fetches, NEW CONSTANT X,
           fetches' = calls \cup X, \A x \in X : IsInquiry(x), \A c \in fetches \ calls : c.type \in Reads,
           ModalHolds', modal' \in Modals, named' \in Cards \cup {NoCard}, pairing' \in Cards \cup {NoCard}, muddled' \in BOOLEAN
    PROVE  PageInv'
  <1>1. fetches' \subseteq CardCalls /\ \A d \in fetches' : CallHolds(d)'
    <2>1. shownList' \in [Cards -> Shown] /\ PageShape /\ \A c \in fetches : CallHolds(c)
      BY DEF PageInv, PageShape, ListHolds
    <2> QED BY <2>1, CallsHold
  <1>2. PageShape'
    BY <1>1 DEF PageInv, PageShape
  <1>3. NewsIsTrue'
    BY DEF PageInv, ListHolds, NewsIsTrue, IsLatest
  <1>4. ASSUME NEW s \in Cards \ doubt PROVE StatusIsKnown(s)'
    <2>1. HasChange(s) => HasChange(s)'
      BY DEF HasChange
    <2>2. HasNews(s) => HasNews(s)'
      BY DEF HasNews
    <2> QED BY <2>1, <2>2 DEF PageInv, ListHolds, StatusIsKnown
  <1>5. ListHolds'
    BY <1>1, <1>3, <1>4 DEF PageInv, ListHolds
  <1> QED BY <1>2, <1>5 DEF PageInv

LEMMA ChangesCross ==
    ASSUME NEW calls \in SUBSET CardCalls, NEW s \in Cards, Crossed(s, calls) \subseteq fetches', NEW x \in Cards,
           \E c \in calls : c.type \notin Reads /\ c.of = x
    PROVE  HasChange(x)'
  <1>1. PICK c \in calls : c.type \notin Reads /\ c.of = x
    OBVIOUS
  <1>2. PICK d \in Crossed(s, calls) : d.of = c.of /\ d.type = c.type
    <2>1. c \in CardCalls /\ [c EXCEPT !.crossed = @ \cup {s}] \in Crossed(s, calls)
      BY <1>1 DEF Crossed
    <2> QED BY <2>1 DEF CardCalls
  <1> QED BY <1>1, <1>2 DEF HasChange

LEMMA ChangesAreOvertaken ==
    ASSUME NEW calls \in SUBSET CardCalls, NEW seen \in [Cards -> Shown], Overtaken(seen, calls) \subseteq fetches', NEW x \in Cards,
           \E c \in calls : c.type \notin Reads /\ c.of = x
    PROVE  HasChange(x)'
  <1>1. PICK c \in calls : c.type \notin Reads /\ c.of = x
    OBVIOUS
  <1>2. PICK d \in Overtaken(seen, calls) : d.of = c.of /\ d.type = c.type
    BY CallsRemain
  <1> QED BY <1>1, <1>2 DEF HasChange

LEMMA EngineStep == ASSUME PageInv, NEW s \in Cards, EngineChanges(s) PROVE PageInv'
  <1>1. PICK v \in EventStatus : server' = [server EXCEPT ![s] = v] /\ Tells(s, v)
    BY DEF EngineChanges, EventStatus, Shown, Absent
  <1>2. /\ fetches' = Crossed(s, fetches) /\ server[s] \in Running
        /\ UNCHANGED <<shownList, modal, named, pairing, room, muddled>>
    BY DEF EngineChanges, PageRests
  <1>3. PageShape /\ NewsIsTrue /\ fetches \in SUBSET CardCalls /\ (\A c \in fetches : CallHolds(c)) /\ server[s] # "gone"
    BY <1>2 DEF PageInv, ListHolds, PageShape, Running
  <1>4. /\ NewsIsTrue' /\ events' \in Seq(Tidings) /\ doubt \subseteq doubt' /\ doubt' \subseteq Cards
        /\ s \notin doubt' => HasNews(s)'
        /\ \A x \in Cards : HasNews(x) => HasNews(x)'
    BY <1>1, <1>2, <1>3, Telling
  <1>5. \A d \in fetches' : d \in CardCalls /\ CallHolds(d)'
    <2> SUFFICES ASSUME NEW d \in fetches' PROVE d \in CardCalls /\ CallHolds(d)'
      OBVIOUS
    <2>1. d \in Crossed(s, fetches)
      BY <1>2
    <2>2. d \in CardCalls
      BY <1>3, <2>1, CrossedIs
    <2>3. CallHolds(d)'
      BY <1>1, <1>2, <1>3, <2>1, ServerMoves
    <2> QED BY <2>2, <2>3
  <1>6. server' \in [Cards -> Shown \ {"connecting"}] /\ server'[s] = v /\ \A x \in Cards \ {s} : server'[x] = server[x]
    BY <1>1, <1>3 DEF PageShape, EventStatus
  <1>7. PageShape'
    BY <1>2, <1>3, <1>4, <1>5, <1>6 DEF PageShape
  <1>8. \A x \in Cards : HasChange(x) => HasChange(x)'
    BY <1>2, <1>3, ChangesCross DEF HasChange
  <1>9. ASSUME NEW x \in Cards \ doubt' PROVE StatusIsKnown(x)'
    <2>1. StatusIsKnown(x)
      BY <1>4 DEF PageInv, ListHolds
    <2>2. CASE x # s
      BY <1>2, <1>4, <1>6, <1>8, <2>1, <2>2 DEF StatusIsKnown
    <2>3. CASE x = s
      <3>1. HasNews(s)' /\ server'[s] # "gone"
        BY <1>4, <1>6, <2>3 DEF EventStatus, Absent
      <3>2. shownList[s] \notin Absent \/ HasChange(s)
        BY <1>2, <2>1, <2>3 DEF StatusIsKnown, Running, Absent
      <3> QED BY <1>2, <1>8, <2>3, <3>1, <3>2 DEF StatusIsKnown
    <2> QED BY <2>2, <2>3
  <1>10. \A x \in Cards : shownList'[x] = "gone" => server'[x] = "gone"
    BY <1>2, <1>3, <1>6 DEF PageInv, ListHolds
  <1>11. ModalHolds'
    <2>1. ModalOf(fetches') \subseteq ModalCalls
      BY <1>2, <1>3, ModalUntouched DEF ModalCalls, ModalOf, PageShape
    <2> QED BY <1>2, <2>1, ModalRests DEF PageInv
  <1> QED BY <1>4, <1>5, <1>7, <1>9, <1>10, <1>11 DEF PageInv, ListHolds

LEMMA ServeStep == ASSUME PageInv, NEW c \in fetches, Serve(c) PROVE PageInv'
  <1>1. /\ PageShape /\ NewsIsTrue /\ fetches \in SUBSET CardCalls /\ (\A d \in fetches : CallHolds(d)) /\ c \in CardCalls
        /\ c.of \in Cards /\ c.at = "sent" /\ c.type \in CallTypes \ Reads
    BY DEF PageInv, ListHolds, PageShape, CardCalls, Serve, CallHolds
  <1>2. UNCHANGED <<shownList, modal, named, pairing, room, muddled>>
    BY DEF Serve, PageRests
  <1>3. CASE ~Allowed(c)
    <2>1. PICK d : d = [c EXCEPT !.at = "served", !.answer = "refused"]
      OBVIOUS
    <2>2. fetches' = (fetches \ {c}) \cup {d} /\ UNCHANGED <<server, events, doubt>>
      BY <1>3, <2>1 DEF Serve
    <2>3. d \in CardCalls /\ d.of = c.of /\ d.type = c.type /\ d.snap = c.snap /\ d.crossed = c.crossed /\ d.at = "served" /\ d.answer = "refused"
      BY <1>1, <2>1 DEF CardCalls
    <2>4. CallHolds(c) /\ (\A x \in fetches : CallHolds(x)')
      BY <1>1, <1>2, <2>2 DEF CallHolds
    <2>5. CallHolds(d)'
      BY <1>1, <1>2, <2>2, <2>3, <2>4 DEF CallHolds, Reads
    <2>6. PageShape'
      BY <1>1, <1>2, <2>2, <2>3 DEF PageShape
    <2>7. NewsIsTrue'
      BY <1>1, <1>2, <2>2 DEF NewsIsTrue, IsLatest
    <2>8. ASSUME NEW s \in Cards \ doubt PROVE StatusIsKnown(s)'
      <3>1. HasChange(s) => HasChange(s)'
        BY <2>2, <2>3 DEF HasChange
      <3>2. HasNews(s) => HasNews(s)'
        BY <2>2 DEF HasNews
      <3> QED BY <1>2, <2>2, <3>1, <3>2 DEF PageInv, ListHolds, StatusIsKnown
    <2>9. ModalHolds'
      <3>1. ModalOf(fetches') \subseteq ModalCalls
        BY <1>1, <2>2, <2>3 DEF ModalOf, ModalCalls, ModalTypes
      <3> QED BY <1>2, <3>1, ModalRests DEF PageInv
    <2> QED BY <1>2, <2>2, <2>4, <2>5, <2>6, <2>7, <2>8, <2>9 DEF PageInv, ListHolds
  <1>4. CASE Allowed(c)
    <2>1. PICK d : d = [c EXCEPT !.at = "served", !.answer = "ok"]
      OBVIOUS
    <2>2. PICK v : v = LeftBy(c.type)
      OBVIOUS
    <2>3. /\ fetches' = Crossed(c.of, fetches \ {c}) \cup {d} /\ server' = [server EXCEPT ![c.of] = v]
          /\ IF c.type \in {"create", "delete"} \/ server[c.of] = v THEN UNCHANGED <<events, doubt>> ELSE Tells(c.of, v)
      BY <1>4, <2>1, <2>2 DEF Serve
    <2>4. d \in CardCalls /\ d.of = c.of /\ d.type = c.type /\ d.snap = c.snap /\ d.crossed = c.crossed /\ d.at = "served" /\ d.answer = "ok"
      BY <1>1, <2>1 DEF CardCalls
    <2>5. server[c.of] # "gone" /\ (c.type = "create" => server[c.of] = "new")
      BY <1>4 DEF Allowed, Absent
    <2>6. /\ v \in Shown \ {"connecting"} /\ (c.type = "create" => v = "created") /\ (c.type = "delete" => v = "gone")
          /\ c.type \notin {"create", "delete"} => v \in EventStatus
      BY <2>2 DEF LeftBy, Shown, EventStatus, Absent
    <2>7. /\ NewsIsTrue' /\ events' \in Seq(Tidings) /\ doubt \subseteq doubt' /\ doubt' \subseteq Cards
          /\ \A x \in Cards : HasNews(x) => HasNews(x)'
      <3>1. CASE c.type \in {"create", "delete"} \/ server[c.of] = v
        <4>1. v \in {"created", "gone", server[c.of]} /\ (v = "created" => server[c.of] = "new") /\ UNCHANGED <<events, doubt, room>>
          BY <1>2, <2>3, <2>5, <2>6, <3>1 DEF EventStatus
        <4>2. NewsIsTrue'
          BY <1>1, <2>3, <4>1, Silence
        <4> QED BY <1>1, <4>1, <4>2 DEF PageShape, HasNews
      <3>2. CASE ~(c.type \in {"create", "delete"} \/ server[c.of] = v)
        <4>1. v \in EventStatus /\ Tells(c.of, v) /\ UNCHANGED room
          BY <1>2, <2>3, <2>6, <3>2
        <4> QED BY <1>1, <2>3, <4>1, Telling
      <3> QED BY <3>1, <3>2
    <2>8. fetches \ {c} \in SUBSET CardCalls /\ fetches \ {c} \in SUBSET fetches /\ \A x \in fetches \ {c} : CallHolds(x)
      BY <1>1
    <2>9. /\ server' \in [Cards -> Shown \ {"connecting"}] /\ server'[c.of] = v
          /\ \A x \in Cards \ {c.of} : server'[x] = server[x]
      BY <1>1, <2>3, <2>6 DEF PageShape
    <2>10. CallHolds(d)'
      <3>1. CallHolds(c) /\ (\A x \in Cards : server[x] = "gone" => server'[x] = "gone")
        BY <1>1, <2>5, <2>9
      <3> QED BY <1>1, <1>2, <2>2, <2>4, <2>6, <2>9, <3>1 DEF CallHolds, Reads, ModalTypes
    <2>11. ASSUME NEW x \in fetches' PROVE x \in CardCalls /\ CallHolds(x)'
      <3>1. CASE x = d
        BY <2>4, <2>10, <3>1
      <3>2. CASE x \in Crossed(c.of, fetches \ {c})
        <4>1. x \in CardCalls
          BY <1>1, <2>8, <3>2, CrossedIs
        <4>2. CallHolds(x)'
          BY <1>1, <1>2, <2>3, <2>5, <2>8, <3>2, ServerMoves
        <4> QED BY <4>1, <4>2
      <3> QED BY <2>3, <3>1, <3>2
    <2>12. PageShape'
      BY <1>1, <1>2, <2>7, <2>9, <2>11 DEF PageShape
    <2>13. HasChange(c.of)'
      BY <1>1, <2>3, <2>4 DEF HasChange
    <2>14. ASSUME NEW x \in Cards \ doubt' PROVE StatusIsKnown(x)'
      <3>1. CASE x = c.of
        BY <2>3, <2>4, <1>1, <3>1 DEF StatusIsKnown, HasChange
      <3>2. CASE x # c.of
        <4>1. StatusIsKnown(x)
          BY <2>7 DEF PageInv, ListHolds
        <4>2. HasChange(x) => HasChange(x)'
          <5>1. HasChange(x) => \E y \in fetches \ {c} : y.type \notin Reads /\ y.of = x
            BY <3>2 DEF HasChange
          <5> QED BY <1>1, <2>3, <2>8, <5>1, ChangesCross
        <4> QED BY <1>2, <2>7, <2>9, <3>2, <4>1, <4>2 DEF StatusIsKnown
      <3> QED BY <3>1, <3>2
    <2>15. \A x \in Cards : shownList'[x] = "gone" => server'[x] = "gone"
      BY <1>2, <2>5, <2>9 DEF PageInv, ListHolds
    <2>16. ModalHolds'
      <3>1. ModalOf(fetches') \subseteq ModalOf(Crossed(c.of, fetches \ {c}))
        BY <1>1, <2>3, <2>4 DEF ModalOf, ModalTypes
      <3>2. ModalOf(Crossed(c.of, fetches \ {c})) \subseteq ModalCalls
        <4>1. ModalOf(Crossed(c.of, fetches \ {c})) = ModalOf(fetches \ {c})
          BY <1>1, <2>8, ModalUntouched DEF PageShape
        <4> QED BY <4>1 DEF ModalOf, ModalCalls
      <3>3. ModalOf(fetches') \subseteq ModalCalls
        BY <3>1, <3>2
      <3> QED BY <1>2, <3>3, ModalRests DEF PageInv
    <2> QED BY <2>7, <2>11, <2>12, <2>14, <2>15, <2>16 DEF PageInv, ListHolds
  <1> QED BY <1>3, <1>4

\* Steps of the page that may write the list or hear of an event: the calls that go on, what is known of the list after
\* the step, and the modal are the step's own.
LEMMA PageMoves ==
    ASSUME PageInv, UNCHANGED server, NEW calls \in SUBSET fetches, NEW CONSTANT X, \A x \in X : IsInquiry(x),
           \/ fetches' = Overtaken(shownList', calls) \cup X
           \/ UNCHANGED shownList /\ fetches' = calls \cup X,
           shownList' \in [Cards -> Shown], \A s \in Cards : shownList'[s] = "gone" => server[s] = "gone",
           NewsIsTrue', events' \in Seq(Tidings), doubt' \subseteq Cards,
           \A s \in Cards \ doubt' :
              \/ shownList'[s] = server[s]
              \/ shownList'[s] \notin Absent /\ server[s] # "gone" /\ HasNews(s)'
              \/ \E y \in calls : y.type \notin Reads /\ y.of = s,
           ModalHolds', modal' \in Modals, named' \in Cards \cup {NoCard}, pairing' \in Cards \cup {NoCard}, muddled' \in BOOLEAN
    PROVE  PageInv'
  <1>1. fetches' \subseteq CardCalls /\ \A d \in fetches' : CallHolds(d)'
    <2>1. PageShape /\ \A c \in fetches : CallHolds(c)
      BY DEF PageInv, ListHolds
    <2> QED BY <2>1, CallsHold
  <1>2. PageShape'
    BY <1>1 DEF PageInv, PageShape
  <1>3. calls \in SUBSET CardCalls
    BY DEF PageInv, PageShape
  <1>4. ASSUME NEW s \in Cards, NEW y \in calls, y.type \notin Reads, y.of = s PROVE HasChange(s)'
    <2>1. CASE fetches' = Overtaken(shownList', calls) \cup X
      <3>1. Overtaken(shownList', calls) \subseteq fetches'
        BY <2>1
      <3>2. \E z \in calls : z.type \notin Reads /\ z.of = s
        BY <1>4
      <3> QED BY <1>3, <3>1, <3>2, ChangesAreOvertaken
    <2>2. CASE fetches' = calls \cup X
      BY <1>4, <2>2 DEF HasChange
    <2> QED BY <2>1, <2>2
  <1>5. ASSUME NEW s \in Cards \ doubt' PROVE StatusIsKnown(s)'
    BY <1>4 DEF StatusIsKnown
  <1>6. ListHolds'
    BY <1>1, <1>5 DEF ListHolds
  <1> QED BY <1>2, <1>6 DEF PageInv

\* The button of a change: the handler sees the list that is shown.
LEMMA PressStep == ASSUME PageInv, NEW s \in Cards, NEW type \in CallTypes \ Reads, Press(Change(s, type, shownList)) PROVE PageInv'
  <1>1. PICK c : c = Change(s, type, shownList)
    OBVIOUS
  <1>2. /\ fetches' = fetches \cup {c}
        /\ UNCHANGED <<server, shownList, loading, room, events, modal, named, pairing, doubt, muddled>>
    BY <1>1 DEF Press
  <1>3. PageShape /\ ListHolds /\ ModalHolds /\ shownList \in [Cards -> Shown]
    BY DEF PageInv, PageShape
  <1>4. c \in CardCalls /\ c.of = s /\ c.type = type /\ c.at = "sent" /\ c.snap = shownList
    BY <1>1, <1>3 DEF Change, CardCalls, CallTypes, Reads
  <1>5. CallHolds(c)'
    BY <1>2, <1>3, <1>4 DEF CallHolds, ListHolds, Reads
  <1>6. \A d \in fetches : CallHolds(d)'
    BY <1>2, <1>3 DEF CallHolds, ListHolds
  <1>7. PageShape'
    BY <1>2, <1>3, <1>4 DEF PageShape
  <1>8. ASSUME NEW x \in Cards \ doubt PROVE StatusIsKnown(x)'
    <2>1. HasChange(x) => HasChange(x)'
      BY <1>2 DEF HasChange
    <2>2. HasNews(x) => HasNews(x)'
      BY <1>2 DEF HasNews
    <2> QED BY <1>2, <1>3, <2>1, <2>2 DEF ListHolds, StatusIsKnown
  <1>9. NewsIsTrue'
    BY <1>2, <1>3 DEF ListHolds, NewsIsTrue, IsLatest
  <1>10. ListHolds'
    BY <1>2, <1>3, <1>5, <1>6, <1>8, <1>9 DEF ListHolds
  <1>11. ModalHolds'
    <2>1. ModalOf(fetches') \subseteq ModalCalls
      BY <1>2, <1>4 DEF ModalOf, ModalCalls, ModalTypes
    <2> QED BY <1>2, <1>3, <2>1, ModalRests
  <1> QED BY <1>7, <1>10, <1>11 DEF PageInv

LEMMA ShowStep == ASSUME PageInv, NEW s \in Cards, ClickShow(s) PROVE PageInv'
  <1>1. Opens(s, fetches) /\ UNCHANGED <<server, shownList, loading, room, events, doubt>>
    BY DEF ClickShow
  <1>2. PageShape /\ ModalHolds /\ fetches \in SUBSET CardCalls /\ ModalOf(fetches) \subseteq ModalCalls
    BY DEF PageInv, PageShape, ModalOf, ModalCalls
  <1>3. /\ ModalHolds' /\ modal' \in Modals /\ named' = s /\ pairing' = NoCard /\ muddled' \in BOOLEAN
        /\ \E c \in CardCalls : c = Inquiry(s, "show", "end") /\ c.type = "show" /\ fetches' = fetches \cup {c}
    BY <1>1, <1>2, OpensStep
  <1>4. PICK c : c = Inquiry(s, "show", "end") /\ fetches' = fetches \cup {c}
    BY <1>3
  <1>5. \A x \in {c} : IsInquiry(x)
    BY <1>4 DEF IsInquiry, Reads
  <1> QED BY <1>1, <1>3, <1>4, <1>5, PageOnly

\* A modal that is there is about a session.
LEMMA ModalIs == ASSUME PageShape, modal # NoModal PROVE modal.of \in Cards /\ modal.name \in Cards \cup {NoCard}
  BY DEF PageShape, Modals

LEMMA PairStep == ASSUME PageInv, ClickPair PROVE PageInv'
  <1>1. PICK c : c = Inquiry(modal.of, "pair", "end")
    OBVIOUS
  <1>2. /\ modal # NoModal /\ pairing = NoCard /\ fetches' = fetches \cup {c}
        /\ UNCHANGED <<server, shownList, loading, room, events, modal, named, pairing, doubt, muddled>>
    BY <1>1 DEF ClickPair, Press
  <1>3. PageShape /\ ModalHolds /\ modal.of \in Cards
    BY <1>2, ModalIs DEF PageInv
  <1>4. c.of = modal.of /\ c.type = "pair"
    BY <1>1, <1>3, InquiryHolds DEF Reads
  <1>5. ModalCalls' = ModalCalls \cup {c}
    BY <1>2, <1>4 DEF ModalCalls, ModalTypes, Reads
  <1>6. ModalHolds'
    BY <1>2, <1>3, <1>4, <1>5 DEF ModalHolds
  <1>7. \A x \in {c} : IsInquiry(x)
    BY <1>1, <1>3 DEF IsInquiry, Reads
  <1>8. modal' \in Modals /\ named' \in Cards \cup {NoCard} /\ pairing' \in Cards \cup {NoCard} /\ muddled' \in BOOLEAN
    BY <1>2, <1>3 DEF PageShape
  <1>9. PICK X : X = {c}
    OBVIOUS
  <1>10. /\ UNCHANGED <<server, shownList, events, room, doubt>>
         /\ fetches \in SUBSET fetches /\ fetches' = fetches \cup X /\ \A x \in X : IsInquiry(x)
    BY <1>2, <1>7, <1>9
  <1> QED BY ONLY PageInv, <1>6, <1>8, <1>10, PageOnly

LEMMA PollStep == ASSUME PageInv, Poll PROVE PageInv'
  <1>1. /\ modal # NoModal /\ ~\E c \in fetches : c.type \in {"poll", "get"} /\ c.of = modal.of
        /\ UNCHANGED <<server, shownList, loading, room, events, pairing, steps, doubt, muddled>>
    BY DEF Poll
  <1>2. PageShape /\ ModalHolds /\ modal.of \in Cards /\ NoCard \in Cards \cup {NoCard}
    BY <1>1, ModalIs DEF PageInv
  <1>3. ~muddled => \A c \in ModalCalls : c.type \notin {"poll", "get"}
    BY <1>1, <1>2 DEF ModalHolds, ModalCalls
  <1>4. pairing' \in Cards \cup {NoCard} /\ muddled' \in BOOLEAN
    BY <1>1, <1>2 DEF PageShape
  <1>7. UNCHANGED <<server, shownList, events, room, doubt>> /\ fetches \in SUBSET fetches
    BY <1>1
  <1>5. CASE Shuts /\ UNCHANGED fetches
    <2>1. ModalCalls' = ModalCalls
      BY <1>5 DEF ModalCalls
    <2>2. ModalHolds'
      BY <1>1, <1>2, <1>3, <1>5, <2>1 DEF ModalHolds, Shuts
    <2>3. modal' \in Modals /\ named' \in Cards \cup {NoCard}
      BY <1>5 DEF Shuts, Modals
    <2>4. PICK X : X = {}
      OBVIOUS
    <2>5. fetches' = fetches \cup X /\ \A x \in X : IsInquiry(x)
      BY <1>5, <2>4
    <2> QED BY ONLY PageInv, <1>4, <1>7, <2>2, <2>3, <2>5, PageOnly
  <1>6. CASE fetches' = fetches \cup {Inquiry(modal.of, "poll", "end")} /\ UNCHANGED <<modal, named>>
    <2>1. PICK c : c = Inquiry(modal.of, "poll", "end")
      OBVIOUS
    <2>2. c.of = modal.of /\ c.type = "poll"
      BY <1>2, <2>1, InquiryHolds DEF Reads
    <2>3. fetches' = fetches \cup {c}
      BY <1>6, <2>1
    <2>4. ModalCalls' = ModalCalls \cup {c}
      BY <2>2, <2>3 DEF ModalCalls, ModalTypes, Reads
    <2>5. ModalHolds'
      BY <1>1, <1>2, <1>3, <1>6, <2>2, <2>4 DEF ModalHolds
    <2>6. \A x \in {c} : IsInquiry(x)
      BY <1>2, <2>1 DEF IsInquiry, Reads
    <2>7. modal' \in Modals /\ named' \in Cards \cup {NoCard}
      BY <1>2, <1>6 DEF PageShape
    <2>8. PICK X : X = {c}
      OBVIOUS
    <2>9. fetches' = fetches \cup X /\ \A x \in X : IsInquiry(x)
      BY <2>3, <2>6, <2>8
    <2> QED BY ONLY PageInv, <1>4, <1>7, <2>5, <2>7, <2>9, PageOnly
  <1> QED BY <1>5, <1>6 DEF Poll

LEMMA CloseStep == ASSUME PageInv, CloseModal PROVE PageInv'
  <1>1. /\ modal' = NoModal /\ pairing' = NoCard
        /\ UNCHANGED <<server, shownList, loading, room, events, fetches, named, steps, doubt, muddled>>
    BY DEF CloseModal
  <1>2. ModalHolds'
    BY <1>1 DEF PageInv, ModalHolds, ModalCalls
  <1>3. modal' \in Modals /\ named' \in Cards \cup {NoCard} /\ pairing' \in Cards \cup {NoCard} /\ muddled' \in BOOLEAN
    BY <1>1 DEF PageInv, PageShape, Modals
  <1>4. PICK X : X = {}
    OBVIOUS
  <1>5. /\ UNCHANGED <<server, shownList, events, room, doubt>> /\ fetches \in SUBSET fetches
        /\ fetches' = fetches \cup X /\ \A x \in X : IsInquiry(x)
    BY <1>1, <1>4
  <1> QED BY ONLY PageInv, <1>2, <1>3, <1>5, PageOnly

\* All that is shown and asked is of one session.
LEMMA ModalFits ==
    ASSUME NEW s,
           ~muddled' => /\ \A d \in ModalCalls' : d.of = s
                        /\ \A d1, d2 \in ModalCalls' : d1.type \in {"poll", "get"} /\ d2.type \in {"poll", "get"} => d1 = d2
                        /\ pairing' \in {NoCard, s} /\ named' = s
                        /\ modal' # NoModal => modal'.of = s /\ modal'.name = s
    PROVE  ModalHolds'
  BY DEF ModalHolds

\* The calls of the modal are for its session: what they show is of that session.
LEMMA ModalAnswerStep ==
    ASSUME PageInv, NEW CONSTANT c, c \in fetches, NEW answer, ModalAnswer(c, answer), UNCHANGED <<server, room, events>>
    PROVE  PageInv'
  <1>1. PICK rest : rest = fetches \ {c}
    OBVIOUS
  <1>2. PageShape /\ ModalHolds /\ c \in CardCalls /\ c.of \in Cards /\ rest \in SUBSET fetches
    BY <1>1 DEF PageInv, PageShape, CardCalls
  <1>3. UNCHANGED <<server, shownList, events, room, doubt>> /\ muddled' = (muddled \/ (modal # NoModal /\ modal.of # c.of))
    BY DEF ModalAnswer
  <1>4. c.type \in ModalTypes
    BY DEF ModalAnswer, ModalTypes, Reads
  <1>5. c \in ModalCalls /\ \A d \in fetches \ rest : d.type \in Reads
    BY <1>1, <1>4 DEF ModalCalls, ModalTypes
  <1>6. muddled' \in BOOLEAN /\ (~muddled' => ~muddled /\ (modal # NoModal => modal.of = c.of))
    BY <1>2, <1>3 DEF PageShape
  <1>7. modal \in Modals /\ named \in Cards \cup {NoCard} /\ pairing \in Cards \cup {NoCard} /\ NoCard \in Cards \cup {NoCard}
    BY <1>2 DEF PageShape
  <1>8. ASSUME fetches' = rest, modal' \in Modals, named' \in Cards \cup {NoCard}, pairing' \in Cards \cup {NoCard}, ModalHolds'
        PROVE  PageInv'
    <2>1. PICK X : X = {}
      OBVIOUS
    <2>2. fetches' = rest \cup X /\ \A x \in X : IsInquiry(x)
      BY <1>8, <2>1
    <2> QED BY ONLY PageInv, <1>2, <1>3, <1>5, <1>6, <1>8, <2>2, PageOnly
  <1>9. ASSUME NEW d, IsInquiry(d), fetches' = rest \cup {d}, modal' \in Modals, named' \in Cards \cup {NoCard},
               pairing' \in Cards \cup {NoCard}, ModalHolds'
        PROVE  PageInv'
    <2>1. PICK X : X = {d}
      OBVIOUS
    <2>2. fetches' = rest \cup X /\ \A x \in X : IsInquiry(x)
      BY <1>9, <2>1
    <2> QED BY ONLY PageInv, <1>2, <1>3, <1>5, <1>6, <1>9, <2>2, PageOnly
  <1>10. ~muddled => /\ \A d \in ModalCalls : d.of = c.of /\ pairing \in {NoCard, c.of}
                     /\ c.type \in {"poll", "get"} => named = c.of /\ \A d \in ModalCalls \ {c} : d.type \notin {"poll", "get"}
    BY <1>2, <1>5 DEF ModalHolds
  <1>11. fetches' = rest => ModalCalls' = ModalCalls \ {c}
    BY <1>1 DEF ModalCalls
  <1>12. CASE c.type = "poll" /\ answer = "ok" /\ Shows(c.of, named) /\ fetches' = rest /\ UNCHANGED pairing
    <2>1. PICK m : m = [of |-> c.of, name |-> named, code |-> TRUE]
      OBVIOUS
    <2>2. m \in Modals /\ m.of = c.of /\ m.name = named
      BY <1>2, <1>7, <2>1 DEF Modals
    <2>3. modal' = m /\ named' = named
      BY <1>12, <2>1 DEF Shows
    <2>4. ~muddled' => /\ \A d \in ModalCalls' : d.of = c.of
                       /\ \A d1, d2 \in ModalCalls' : d1.type \in {"poll", "get"} /\ d2.type \in {"poll", "get"} => d1 = d2
      BY <1>6, <1>10, <1>11, <1>12
    <2>5. ~muddled' => pairing' \in {NoCard, c.of} /\ named' = c.of /\ (modal' # NoModal => modal'.of = c.of /\ modal'.name = c.of)
      BY <1>5, <1>6, <1>10, <1>12, <2>2, <2>3
    <2>6. ModalHolds'
      BY <2>4, <2>5, ModalFits
    <2> QED BY <1>7, <1>8, <1>12, <2>2, <2>3, <2>6
  <1>13. CASE c.type = "poll" /\ UNCHANGED <<modal, named, pairing>> /\ fetches' = rest \cup {Inquiry(c.of, "get", "end")}
    <2>1. PICK d : d = Inquiry(c.of, "get", "end")
      OBVIOUS
    <2>2. IsInquiry(d) /\ d.of = c.of /\ d.type = "get"
      BY <1>2, <2>1, InquiryHolds DEF IsInquiry, Reads
    <2>3. ModalCalls' = (ModalCalls \ {c}) \cup {d}
      BY <1>1, <1>13, <2>1, <2>2 DEF ModalCalls, ModalTypes, Reads
    <2>4. ~muddled' => /\ \A d1 \in ModalCalls' : d1.of = c.of
                       /\ \A d1, d2 \in ModalCalls' : d1.type \in {"poll", "get"} /\ d2.type \in {"poll", "get"} => d1 = d2
      BY <1>6, <1>10, <1>13, <2>2, <2>3
    <2>5. ~muddled' => pairing' \in {NoCard, c.of} /\ named' = c.of /\ (modal' # NoModal => modal'.of = c.of /\ modal'.name = c.of)
      BY <1>2, <1>5, <1>6, <1>10, <1>13 DEF ModalHolds
    <2>6. ModalHolds'
      BY <2>4, <2>5, ModalFits
    <2> QED BY <1>7, <1>9, <1>13, <2>1, <2>2, <2>6
  <1>14. CASE UNCHANGED <<modal, named, pairing>> /\ fetches' = rest
    <2>1. ModalHolds'
      BY <1>2, <1>6, <1>11, <1>14 DEF ModalHolds
    <2> QED BY <1>7, <1>8, <1>14, <2>1
  <1>15. CASE c.type = "get" /\ Shuts /\ Fetch(c.of, rest, "end") /\ UNCHANGED pairing
    <2>1. PICK d : d = Inquiry(c.of, "list", "end")
      OBVIOUS
    <2>2. IsInquiry(d) /\ d.type = "list" /\ fetches' = rest \cup {d}
      BY <1>2, <1>15, <2>1, InquiryHolds DEF IsInquiry, Reads, Fetch
    <2>3. ModalCalls' = ModalCalls \ {c}
      BY <1>1, <2>2 DEF ModalCalls, ModalTypes
    <2>4. modal' = NoModal /\ named' = NoCard /\ NoModal \in Modals
      BY <1>15 DEF Shuts, Modals
    <2>5. ModalHolds'
      BY <1>2, <1>6, <1>10, <1>15, <2>3, <2>4 DEF ModalHolds
    <2> QED BY <1>7, <1>9, <1>15, <2>2, <2>4, <2>5
  <1>16. CASE Shows(c.of, c.of) /\ fetches' = rest /\ UNCHANGED pairing
    <2>1. PICK m : m = [of |-> c.of, name |-> c.of, code |-> TRUE]
      OBVIOUS
    <2>2. m \in Modals /\ m.of = c.of /\ m.name = c.of
      BY <1>2, <2>1 DEF Modals
    <2>3. modal' = m /\ named' = c.of
      BY <1>16, <2>1 DEF Shows
    <2>4. ~muddled' => /\ \A d \in ModalCalls' : d.of = c.of
                       /\ \A d1, d2 \in ModalCalls' : d1.type \in {"poll", "get"} /\ d2.type \in {"poll", "get"} => d1 = d2
      BY <1>2, <1>6, <1>10, <1>11, <1>16 DEF ModalHolds
    <2>5. ~muddled' => pairing' \in {NoCard, c.of} /\ named' = c.of /\ (modal' # NoModal => modal'.of = c.of /\ modal'.name = c.of)
      BY <1>5, <1>6, <1>10, <1>16, <2>2, <2>3
    <2>6. ModalHolds'
      BY <2>4, <2>5, ModalFits
    <2> QED BY <1>2, <1>7, <1>8, <1>16, <2>2, <2>3, <2>6
  <1>17. CASE pairing' \in {pairing, c.of} /\ UNCHANGED <<modal, named>> /\ fetches' = rest
    <2>1. ModalHolds'
      BY <1>2, <1>6, <1>10, <1>11, <1>17 DEF ModalHolds
    <2> QED BY <1>2, <1>7, <1>8, <1>17, <2>1
  <1> QED BY <1>1, <1>12, <1>13, <1>14, <1>15, <1>16, <1>17 DEF ModalAnswer

\* The list that was read is written, off what has changed since.
LEMMA ListAnswerStep ==
    ASSUME PageInv, NEW CONSTANT c, c \in fetches, NEW answer \in {"ok", "refused"}, ListAnswer(c, answer),
           UNCHANGED <<server, room, events>>
    PROVE  PageInv'
  <1>1. PICK calls : calls = fetches \ {c}
    OBVIOUS
  <1>2. PICK rest : rest = IF answer = "ok" THEN Overtaken(c.snap, calls) ELSE calls
    OBVIOUS
  <1>3. /\ c.type = "list"
        /\ IF answer = "refused" THEN UNCHANGED <<shownList, doubt>> ELSE shownList' = c.snap /\ doubt' = c.crossed
        /\ Opens(c.of, rest) \/ NotOpened(rest)
    BY <1>1, <1>2 DEF ListAnswer
  <1>4. /\ PageShape /\ ListHolds /\ ModalHolds /\ NewsIsTrue /\ CallHolds(c) /\ c \in CardCalls
        /\ c.of \in Cards /\ c.snap \in [Cards -> Shown] /\ c.crossed \subseteq Cards /\ calls \in SUBSET fetches /\ calls \in SUBSET CardCalls
    BY <1>1 DEF PageInv, ListHolds, PageShape, CardCalls
  <1>5. rest \in SUBSET CardCalls /\ ModalOf(rest) \subseteq ModalCalls
    <2>1. CASE answer = "ok"
      <3>1. rest = Overtaken(c.snap, calls)
        BY <1>2, <2>1
      <3>2. rest \subseteq CardCalls
        BY <1>4, <3>1, OvertakenIs
      <3>3. ModalOf(rest) = ModalOf(calls)
        BY <1>4, <3>1, ModalUntouched
      <3> QED BY <1>4, <3>2, <3>3 DEF ModalOf, ModalCalls
    <2>2. CASE answer = "refused"
      BY <1>2, <1>4, <2>2 DEF ModalOf, ModalCalls
    <2> QED BY <2>1, <2>2
  <1>6. /\ \E X \in SUBSET {Inquiry(c.of, "show", "end")} : fetches' = rest \cup X
        /\ ModalHolds' /\ modal' \in Modals /\ named' \in Cards \cup {NoCard} /\ pairing' \in Cards \cup {NoCard} /\ muddled' \in BOOLEAN
    <2>1. CASE Opens(c.of, rest)
      <3>1. /\ ModalHolds' /\ modal' \in Modals /\ named' = c.of /\ pairing' = NoCard /\ muddled' \in BOOLEAN
            /\ \E d \in CardCalls : d = Inquiry(c.of, "show", "end") /\ d.type = "show" /\ fetches' = rest \cup {d}
        BY <1>4, <1>5, <2>1, OpensStep
      <3>2. PICK d : d = Inquiry(c.of, "show", "end") /\ fetches' = rest \cup {d}
        BY <3>1
      <3>3. \E X \in SUBSET {Inquiry(c.of, "show", "end")} : fetches' = rest \cup X
        BY <3>2
      <3> QED BY <1>4, <3>1, <3>3
    <2>2. CASE NotOpened(rest)
      <3>1. fetches' = rest /\ UNCHANGED <<modal, named, pairing, muddled>>
        BY <2>2 DEF NotOpened
      <3>2. ModalHolds'
        BY <1>4, <1>5, <3>1, ModalRests
      <3>3. \E X \in SUBSET {Inquiry(c.of, "show", "end")} : fetches' = rest \cup X
        <4>1. {} \in SUBSET {Inquiry(c.of, "show", "end")} /\ fetches' = rest \cup {}
          BY <3>1
        <4> QED BY <4>1
      <3> QED BY <1>4, <3>1, <3>2, <3>3 DEF PageShape
    <2> QED BY <1>3, <2>1, <2>2
  <1>7. PICK X : fetches' = rest \cup X /\ \A x \in X : IsInquiry(x)
    <2>1. IsInquiry(Inquiry(c.of, "show", "end"))
      BY <1>4 DEF IsInquiry, Reads
    <2> QED BY <1>6, <2>1
  <1>8. \/ fetches' = Overtaken(shownList', calls) \cup X
        \/ UNCHANGED shownList /\ fetches' = calls \cup X
    BY <1>2, <1>3, <1>7
  <1>9. /\ shownList' \in [Cards -> Shown] /\ (\A s \in Cards : shownList'[s] = "gone" => server[s] = "gone")
        /\ NewsIsTrue' /\ events' \in Seq(Tidings) /\ doubt' \subseteq Cards
    <2>1. shownList' \in [Cards -> Shown] /\ doubt' \subseteq Cards /\ events' \in Seq(Tidings)
      BY <1>3, <1>4 DEF PageShape
    <2>2. \A s \in Cards : shownList'[s] = "gone" => server[s] = "gone"
      BY <1>3, <1>4 DEF ListHolds, CallHolds, ModalTypes
    <2>3. NewsIsTrue'
      BY <1>4 DEF NewsIsTrue, IsLatest
    <2> QED BY <2>1, <2>2, <2>3
  <1>10. ASSUME NEW s \in Cards \ doubt'
         PROVE  \/ shownList'[s] = server[s]
                \/ shownList'[s] \notin Absent /\ server[s] # "gone" /\ HasNews(s)'
                \/ \E y \in calls : y.type \notin Reads /\ y.of = s
    <2>1. CASE answer = "ok"
      BY <1>3, <1>4, <2>1 DEF CallHolds
    <2>2. CASE answer = "refused"
      <3>1. StatusIsKnown(s)
        BY <1>3, <1>4, <2>2 DEF ListHolds
      <3>2. HasNews(s) => HasNews(s)'
        BY DEF HasNews
      <3>3. HasChange(s) => \E y \in calls : y.type \notin Reads /\ y.of = s
        BY <1>1, <1>3 DEF HasChange, Reads
      <3> QED BY <1>3, <2>2, <3>1, <3>2, <3>3 DEF StatusIsKnown
    <2> QED BY <2>1, <2>2
  <1>11. UNCHANGED server
    OBVIOUS
  <1> QED BY ONLY PageInv, <1>4, <1>6, <1>7, <1>8, <1>9, <1>10, <1>11, PageMoves

\* A handler goes on: what it writes is the list it saw, but for its own session.
LEMMA ChangeAnswerStep ==
    ASSUME PageInv, NEW CONSTANT c, c \in fetches, NEW answer \in {c.answer, "refused"}, ChangeAnswer(c, answer), c.at = "served",
           UNCHANGED <<server, room, events>>
    PROVE  PageInv'
  <1>1. PICK calls : calls = fetches \ {c}
    OBVIOUS
  <1>2. /\ PageShape /\ ListHolds /\ ModalHolds /\ NewsIsTrue /\ CallHolds(c) /\ c \in CardCalls /\ c.type \in CallTypes \ Reads
        /\ c.of \in Cards /\ c.snap \in [Cards -> Shown] /\ c.crossed \subseteq Cards /\ calls \in SUBSET fetches /\ calls \in SUBSET CardCalls
    BY <1>1 DEF PageInv, ListHolds, PageShape, CardCalls, ChangeAnswer
  <1>3. UNCHANGED <<modal, named, pairing, muddled>>
    BY DEF ChangeAnswer
  <1>4. modal' \in Modals /\ named' \in Cards \cup {NoCard} /\ pairing' \in Cards \cup {NoCard} /\ muddled' \in BOOLEAN
    BY <1>2, <1>3 DEF PageShape
  <1>5. NewsIsTrue' /\ events' \in Seq(Tidings) /\ UNCHANGED server /\ (\A s \in Cards : HasNews(s) => HasNews(s)')
    BY <1>2 DEF NewsIsTrue, IsLatest, PageShape, HasNews
  <1>6. \A s \in Cards \ {c.of} : HasChange(s) => \E y \in calls : y.type \notin Reads /\ y.of = s
    BY <1>1 DEF HasChange
  <1>7. ASSUME NEW then \in {"end", "show", "showUnlessReady"} PROVE {Inquiry(c.of, "list", then)} \in SUBSET {d \in CardCalls : d.type = "list" /\ IsInquiry(d)}
    <2>1. PICK d : d = Inquiry(c.of, "list", then)
      OBVIOUS
    <2>2. d \in CardCalls /\ d.type = "list"
      BY <1>2, <2>1, InquiryHolds DEF Reads
    <2>3. IsInquiry(d)
      BY <1>2, <2>1 DEF IsInquiry, Reads
    <2> QED BY <2>1, <2>2, <2>3
  <1>8. CASE answer = "ok"
    <2>1. PICK v : v = IF c.type = "start" THEN "connecting" ELSE LeftBy(c.type)
      OBVIOUS
    <2>2. shownList' = [c.snap EXCEPT ![c.of] = v] /\ v \in Shown
      <3>1. shownList' = Patched(c)
        BY <1>8 DEF ChangeAnswer
      <3> QED BY <2>1, <3>1 DEF Patched, LeftBy, Shown
    <2>3. shownList' \in [Cards -> Shown] /\ shownList'[c.of] = v /\ \A s \in Cards \ {c.of} : shownList'[s] = c.snap[s]
      BY <1>2, <2>2
    <2>4. doubt' = doubt \cup c.crossed \cup (IF c.type = "start" THEN {c.of} ELSE {})
      BY <1>8 DEF ChangeAnswer
    <2>5. \E X \in SUBSET {d \in CardCalls : d.type = "list" /\ IsInquiry(d)} : fetches' = Overtaken(shownList', calls) \cup X
      <3>1. shownList' = Patched(c)
        BY <1>8 DEF ChangeAnswer
      <3>2. fetches' = Overtaken(shownList', calls) \cup {Inquiry(c.of, "list", "show")} \/ fetches' = Overtaken(shownList', calls) \cup {}
        BY <1>1, <1>8, <3>1 DEF ChangeAnswer, Fetch
      <3> QED BY <1>7, <3>2
    <2>6. PICK X \in SUBSET {d \in CardCalls : d.type = "list" /\ IsInquiry(d)} : fetches' = Overtaken(shownList', calls) \cup X
      BY <2>5
    <2>7. \A x \in X : IsInquiry(x)
      BY <2>6
    <2>8. ModalHolds'
      <3>1. ModalOf(fetches') \subseteq ModalOf(Overtaken(shownList', calls))
        BY <2>6 DEF ModalOf, ModalTypes
      <3>2. ModalOf(Overtaken(shownList', calls)) = ModalOf(calls)
        BY <1>2, <2>3, ModalUntouched
      <3>3. ModalOf(fetches') \subseteq ModalCalls
        BY <1>2, <3>1, <3>2 DEF ModalOf, ModalCalls
      <3> QED BY <1>2, <1>3, <3>3, ModalRests
    <2>9. c.answer = "ok"
      BY <1>8
    <2>10. \A s \in Cards : shownList'[s] = "gone" => server[s] = "gone"
      <3>1. v = "gone" => c.type = "delete"
        BY <2>1 DEF LeftBy
      <3> QED BY <1>2, <2>3, <2>9, <3>1 DEF CallHolds, ModalTypes
    <2>11. ASSUME NEW s \in Cards \ doubt'
           PROVE  \/ shownList'[s] = server[s]
                  \/ shownList'[s] \notin Absent /\ server[s] # "gone" /\ HasNews(s)'
                  \/ \E y \in calls : y.type \notin Reads /\ y.of = s
      <3>1. CASE s = c.of
        <4>1. c.type # "start" /\ c.of \notin c.crossed
          BY <2>4, <3>1
        <4> QED BY <1>2, <2>1, <2>3, <2>9, <3>1, <4>1 DEF CallHolds
      <3>2. CASE s # c.of
        <4>1. s \in Cards \ (c.crossed \cup {c.of}) /\ s \notin doubt
          BY <2>4, <3>2
        <4>2. shownList'[s] = shownList[s]
          BY <1>2, <2>3, <3>2, <4>1 DEF CallHolds
        <4>3. StatusIsKnown(s)
          BY <1>2, <4>1 DEF ListHolds
        <4> QED BY <1>5, <1>6, <3>2, <4>2, <4>3 DEF StatusIsKnown
      <3> QED BY <3>1, <3>2
    <2>12. doubt' \subseteq Cards
      BY <1>2, <2>4 DEF PageShape
    <2> QED BY ONLY PageInv, <1>2, <1>4, <1>5, <2>3, <2>6, <2>7, <2>8, <2>10, <2>11, <2>12, PageMoves
  <1>9. CASE answer = "refused"
    <2>1. UNCHANGED shownList /\ doubt' = doubt \cup c.crossed \cup {c.of}
      BY <1>9 DEF ChangeAnswer
    <2>2. \E X \in SUBSET {d \in CardCalls : d.type = "list" /\ IsInquiry(d)} : fetches' = calls \cup X
      <3>1. \/ fetches' = calls \cup {Inquiry(c.of, "list", "showUnlessReady")} \/ fetches' = calls \cup {Inquiry(c.of, "list", "end")}
            \/ fetches' = calls \cup {}
        BY <1>1, <1>9 DEF ChangeAnswer, Fetch
      <3> QED BY <1>7, <3>1
    <2>3. PICK X \in SUBSET {d \in CardCalls : d.type = "list" /\ IsInquiry(d)} : fetches' = calls \cup X
      BY <2>2
    <2>4. \A x \in X : IsInquiry(x)
      BY <2>3
    <2>5. ModalHolds'
      <3>1. ModalOf(fetches') \subseteq ModalCalls
        BY <1>2, <2>3 DEF ModalOf, ModalCalls, ModalTypes
      <3> QED BY <1>2, <1>3, <3>1, ModalRests
    <2>6. ASSUME NEW s \in Cards \ doubt'
          PROVE  \/ shownList'[s] = server[s]
                 \/ shownList'[s] \notin Absent /\ server[s] # "gone" /\ HasNews(s)'
                 \/ \E y \in calls : y.type \notin Reads /\ y.of = s
      <3>1. StatusIsKnown(s) /\ s # c.of
        BY <1>2, <2>1 DEF ListHolds
      <3> QED BY <1>5, <1>6, <2>1, <3>1 DEF StatusIsKnown
    <2>7. /\ shownList' \in [Cards -> Shown] /\ (\A s \in Cards : shownList'[s] = "gone" => server[s] = "gone") /\ doubt' \subseteq Cards
          /\ UNCHANGED shownList /\ fetches' = calls \cup X
      BY <1>2, <2>1, <2>3 DEF PageShape, ListHolds
    <2> QED BY ONLY PageInv, <1>2, <1>4, <1>5, <2>4, <2>5, <2>6, <2>7, PageMoves
  <1> QED BY <1>8, <1>9 DEF ChangeAnswer


\* An event is heard: the last one of a session tells its status.
LEMMA HearsStep == ASSUME PageInv, HearsStatus PROVE PageInv'
  <1>1. PICK e : e = Head(events)
    OBVIOUS
  <1>2. events # <<>> /\ events' = Tail(events) /\ UNCHANGED <<server, room, modal, named, pairing, steps, muddled>>
    BY DEF HearsStatus
  <1>3. PageShape /\ ListHolds /\ ModalHolds /\ NewsIsTrue /\ fetches \in SUBSET CardCalls /\ fetches \in SUBSET fetches
    BY DEF PageInv, ListHolds, PageShape
  <1>4. /\ NewsIsTrue' /\ events' \in Seq(Tidings) /\ e.of \in Cards /\ e.status \in EventStatus
        /\ \A x \in Cards \ {e.of} : HasNews(x) => HasNews(x)'
        /\ HasNews(e.of)' \/ server[e.of] \in {e.status, "gone"}
    BY <1>1, <1>2, <1>3, Hearing
  <1>5. e.status \in Shown /\ e.status \notin Absent
    BY <1>4 DEF EventStatus
  <1>6. modal' \in Modals /\ named' \in Cards \cup {NoCard} /\ pairing' \in Cards \cup {NoCard} /\ muddled' \in BOOLEAN /\ UNCHANGED server
    BY <1>2, <1>3 DEF PageShape
  <1>7. CASE shownList[e.of] \in Absent \cup {e.status}
    <2>1. UNCHANGED <<shownList, fetches, doubt>>
      BY <1>1, <1>7 DEF HearsStatus
    <2>2. ASSUME NEW s \in Cards \ doubt'
          PROVE  \/ shownList'[s] = server[s]
                 \/ shownList'[s] \notin Absent /\ server[s] # "gone" /\ HasNews(s)'
                 \/ \E y \in fetches : y.type \notin Reads /\ y.of = s
      <3>1. StatusIsKnown(s)
        BY <1>3, <2>1 DEF ListHolds
      <3> QED BY <1>4, <1>7, <2>1, <3>1 DEF StatusIsKnown, HasChange
    <2>3. PICK X : X = {}
      OBVIOUS
    <2>4. UNCHANGED shownList /\ fetches' = fetches \cup X /\ \A x \in X : IsInquiry(x)
      BY <2>1, <2>3
    <2>5. /\ shownList' \in [Cards -> Shown] /\ (\A s \in Cards : shownList'[s] = "gone" => server[s] = "gone") /\ doubt' \subseteq Cards
      BY <1>3, <2>1 DEF PageShape, ListHolds
    <2>6. ModalHolds'
      <3>1. ModalOf(fetches') \subseteq ModalCalls
        BY <2>1 DEF ModalOf, ModalCalls
      <3> QED BY <1>2, <1>3, <3>1, ModalRests
    <2> QED BY ONLY PageInv, <1>3, <1>4, <1>6, <2>2, <2>4, <2>5, <2>6, PageMoves
  <1>8. CASE shownList[e.of] \notin Absent \cup {e.status}
    <2>1. shownList' = [shownList EXCEPT ![e.of] = e.status]
      BY <1>1, <1>8 DEF HearsStatus
    <2>2. doubt' = doubt \/ (doubt' = doubt \ {e.of} /\ e.status = server[e.of])
      <3>1. doubt' = IF fetches = {} /\ e.status = server[e.of] THEN doubt \ {e.of} ELSE doubt
        BY <1>1, <1>8 DEF HearsStatus
      <3> QED BY <3>1
    <2>3. fetches' = Overtaken(shownList', fetches) \cup {Inquiry(e.of, "list", "end")} \/ fetches' = Overtaken(shownList', fetches) \cup {}
      <3>1. PICK calls : calls = Overtaken([shownList EXCEPT ![e.of] = e.status], fetches)
        OBVIOUS
      <3>2. fetches' = calls \cup {Inquiry(e.of, "list", "end")} \/ fetches' = calls
        BY <1>1, <1>8, <3>1 DEF HearsStatus, Fetch
      <3>3. calls = Overtaken(shownList', fetches)
        BY <2>1, <3>1
      <3> QED BY <3>2, <3>3
    <2>4. PICK X \in SUBSET {Inquiry(e.of, "list", "end")} : fetches' = Overtaken(shownList', fetches) \cup X
      BY <2>3
    <2>5. \A x \in X : IsInquiry(x) /\ x.type = "list"
      <3>1. PICK d : d = Inquiry(e.of, "list", "end")
        OBVIOUS
      <3>2. d.type = "list"
        BY <1>3, <1>4, <3>1, InquiryHolds DEF Reads
      <3>3. IsInquiry(d)
        BY <1>4, <3>1 DEF IsInquiry, Reads
      <3> QED BY <3>1, <3>2, <3>3
    <2>6. \A x \in X : IsInquiry(x)
      BY <2>5
    <2>7. shownList' \in [Cards -> Shown] /\ shownList'[e.of] = e.status /\ \A s \in Cards \ {e.of} : shownList'[s] = shownList[s]
      BY <1>3, <1>4, <1>5, <2>1 DEF PageShape
    <2>8. (\A s \in Cards : shownList'[s] = "gone" => server[s] = "gone") /\ doubt' \subseteq Cards
      BY <1>3, <1>5, <2>2, <2>7 DEF ListHolds, Absent, PageShape
    <2>9. ASSUME NEW s \in Cards \ doubt'
          PROVE  \/ shownList'[s] = server[s]
                 \/ shownList'[s] \notin Absent /\ server[s] # "gone" /\ HasNews(s)'
                 \/ \E y \in fetches : y.type \notin Reads /\ y.of = s
      <3>1. CASE s = e.of /\ s \in doubt
        BY <2>2, <2>7, <3>1
      <3>2. CASE s = e.of /\ s \notin doubt
        <4>1. StatusIsKnown(s)
          BY <1>3, <3>2 DEF ListHolds
        <4>2. server[s] # "gone" \/ HasChange(s)
          BY <1>8, <3>2, <4>1 DEF StatusIsKnown, Absent
        <4> QED BY <1>4, <1>5, <2>7, <3>2, <4>2 DEF HasChange
      <3>3. CASE s # e.of
        <4>1. StatusIsKnown(s)
          BY <1>3, <2>2, <3>3 DEF ListHolds
        <4> QED BY <1>4, <2>7, <3>3, <4>1 DEF StatusIsKnown, HasChange
      <3> QED BY <3>1, <3>2, <3>3
    <2>10. ModalHolds'
      <3>1. ModalOf(fetches') \subseteq ModalOf(Overtaken(shownList', fetches))
        BY <2>4, <2>5 DEF ModalOf, ModalTypes
      <3>2. ModalOf(Overtaken(shownList', fetches)) = ModalOf(fetches)
        BY <1>3, <1>4, <2>7, ModalUntouched
      <3>3. ModalOf(fetches') \subseteq ModalCalls
        BY <3>1, <3>2 DEF ModalOf, ModalCalls
      <3> QED BY <1>2, <1>3, <3>3, ModalRests
    <2> QED BY ONLY PageInv, <1>3, <1>4, <1>6, <2>4, <2>6, <2>7, <2>8, <2>9, <2>10, PageMoves
  <1> QED BY <1>7, <1>8

LEMMA SocketStep == ASSUME PageInv, SocketDrops \/ SocketJoins PROVE PageInv'
  <1>1. UNCHANGED <<server, shownList, fetches, modal, named, pairing, muddled>>
    BY DEF SocketDrops, SocketJoins, PageRests
  <1>2. PageShape /\ ListHolds /\ ModalHolds /\ NewsIsTrue /\ fetches \in SUBSET fetches
    BY DEF PageInv, ListHolds
  <1>3. modal' \in Modals /\ named' \in Cards \cup {NoCard} /\ pairing' \in Cards \cup {NoCard} /\ muddled' \in BOOLEAN
    BY <1>1, <1>2 DEF PageShape
  <1>4. /\ NewsIsTrue' /\ events' \in Seq(Tidings) /\ doubt' \subseteq Cards
        /\ \A s \in Cards \ doubt' : s \notin doubt /\ (HasNews(s) => HasNews(s)')
    <2>1. CASE SocketDrops
      <3>1. room' = FALSE /\ events' = <<>> /\ doubt' = doubt \cup {events[i].of : i \in DOMAIN events}
        BY <2>1 DEF SocketDrops
      <3>2. DOMAIN events = 1..Len(events)
        BY <1>2 DEF PageShape
      <3>3. \A i \in 1..Len(events) : events[i].of \in Cards
        BY <1>2, EventsAre
      <3>4. NewsIsTrue' /\ events' \in Seq(Tidings)
        BY <3>1 DEF NewsIsTrue
      <3>5. \A s \in Cards \ doubt' : s \notin doubt /\ ~HasNews(s)
        BY <3>1, <3>2 DEF HasNews
      <3> QED BY <1>2, <3>1, <3>2, <3>3, <3>4, <3>5 DEF PageShape
    <2>2. CASE SocketJoins
      BY <1>1, <1>2, <2>2 DEF SocketJoins, NewsIsTrue, IsLatest, HasNews, PageShape
    <2> QED BY <2>1, <2>2
  <1>5. PICK X : X = {}
    OBVIOUS
  <1>6. UNCHANGED <<server, shownList>> /\ fetches' = fetches \cup X /\ \A x \in X : IsInquiry(x)
    BY <1>1, <1>5
  <1>7. shownList' \in [Cards -> Shown] /\ \A s \in Cards : shownList'[s] = "gone" => server[s] = "gone"
    BY <1>1, <1>2 DEF PageShape, ListHolds
  <1>8. ASSUME NEW s \in Cards \ doubt'
        PROVE  \/ shownList'[s] = server[s]
               \/ shownList'[s] \notin Absent /\ server[s] # "gone" /\ HasNews(s)'
               \/ \E y \in fetches : y.type \notin Reads /\ y.of = s
    <2>1. StatusIsKnown(s)
      BY <1>2, <1>4 DEF ListHolds
    <2> QED BY <1>1, <1>4, <2>1 DEF StatusIsKnown, HasChange
  <1>9. ModalHolds'
    <2>1. ModalOf(fetches') \subseteq ModalCalls
      BY <1>1 DEF ModalOf, ModalCalls
    <2> QED BY <1>1, <1>2, <2>1, ModalRests
  <1> QED BY ONLY PageInv, <1>2, <1>3, <1>4, <1>6, <1>7, <1>8, <1>9, PageMoves

LEMMA ReturnsStep == ASSUME PageInv, NEW CONSTANT c, c \in fetches, Returns(c) PROVE PageInv'
  <1>1. PICK due : due = IF c.type = "start" /\ server[c.of] \notin Running THEN "refused" ELSE c.answer
    OBVIOUS
  <1>2. c.at = "served" /\ UNCHANGED <<server, room, events>>
    BY DEF Returns
  <1>3. PICK answer \in {due, "refused"} : ModalAnswer(c, answer) \/ ListAnswer(c, answer) \/ ChangeAnswer(c, answer)
    BY <1>1 DEF Returns
  <1>4. CASE ModalAnswer(c, answer)
    BY <1>2, <1>4, ModalAnswerStep
  <1>5. CASE ListAnswer(c, answer)
    <2>1. c.type = "list" /\ CallHolds(c)
      BY <1>5 DEF ListAnswer, PageInv, ListHolds
    <2>2. answer \in {"ok", "refused"}
      BY <1>1, <1>3, <2>1 DEF CallHolds
    <2> QED BY <1>2, <1>5, <2>2, ListAnswerStep
  <1>6. CASE ChangeAnswer(c, answer)
    <2>1. answer \in {c.answer, "refused"}
      BY <1>1, <1>3
    <2> QED BY <1>2, <1>6, <2>1, ChangeAnswerStep
  <1> QED BY <1>3, <1>4, <1>5, <1>6

LEMMA PageStep == PageInv /\ [PageNext]_pageVars => PageInv'
  <1> SUFFICES ASSUME PageInv, [PageNext]_pageVars PROVE PageInv'
    OBVIOUS
  <1>1. ASSUME NEW s \in Cards, EngineChanges(s) \/ ClickCard(s) \/ ClickCreate(s) \/ ClickShow(s) PROVE PageInv'
    <2>1. CASE EngineChanges(s)
      BY <2>1, EngineStep
    <2>2. CASE ClickCard(s)
      <3>1. PICK type \in Buttons(shownList[s]) : Press(Change(s, type, shownList))
        BY <2>2 DEF ClickCard
      <3>2. type \in CallTypes \ Reads
        BY DEF Buttons, CallTypes, Reads
      <3> QED BY <3>1, <3>2, PressStep
    <2>3. CASE ClickCreate(s)
      <3>1. Press(Change(s, "create", shownList)) /\ "create" \in CallTypes \ Reads
        BY <2>3 DEF ClickCreate, CallTypes, Reads
      <3> QED BY <3>1, PressStep
    <2>4. CASE ClickShow(s)
      BY <2>4, ShowStep
    <2> QED BY <1>1, <2>1, <2>2, <2>3, <2>4
  <1>2. ASSUME NEW c \in fetches, Serve(c) \/ Returns(c) PROVE PageInv'
    <2>1. CASE Serve(c)
      BY <2>1, ServeStep
    <2>2. CASE Returns(c)
      BY <2>2, ReturnsStep
    <2> QED BY <1>2, <2>1, <2>2
  <1>3. CASE UNCHANGED pageVars
    <2>1. UNCHANGED <<server, shownList, room, events, fetches, modal, named, pairing, doubt, muddled>>
      BY <1>3 DEF pageVars
    <2>2. PageShape'
      BY <2>1 DEF PageInv, PageShape
    <2>3. ListHolds'
      BY <2>1 DEF PageInv, ListHolds, CallHolds, NewsIsTrue, IsLatest, StatusIsKnown, HasNews, HasChange
    <2>4. ModalHolds'
      BY <2>1 DEF PageInv, ModalHolds, ModalCalls
    <2> QED BY <2>2, <2>3, <2>4 DEF PageInv
  <1> QED BY <1>1, <1>2, <1>3, PollStep, CloseStep, PairStep, HearsStep, SocketStep DEF PageNext

LEMMA PageHolds == PageInv => PageIsTrue
  <1> SUFFICES ASSUME PageInv PROVE PageIsTrue
    OBVIOUS
  <1>1. ListIsTrue
    <2>1. ASSUME events = <<>>, fetches = {}, NEW s \in Cards \ doubt PROVE shownList[s] = server[s]
      <3>1. ~HasNews(s) /\ ~HasChange(s)
        BY <2>1 DEF HasNews, HasChange
      <3> QED BY <3>1 DEF PageInv, ListHolds, StatusIsKnown
    <2> QED BY <2>1 DEF ListIsTrue
  <1>2. ModalIsOfOneSession
    BY DEF PageInv, ModalHolds, ModalIsOfOneSession
  <1> QED BY <1>1, <1>2 DEF PageIsTrue

LEMMA PageIsOfType == PageInv => PageTypeOK
  <1> SUFFICES ASSUME PageInv PROVE PageTypeOK
    OBVIOUS
  <1>1. modal.of \in Cards \cup {NoCard}
    BY DEF PageInv, PageShape, Modals, NoModal
  <1>2. \A c \in fetches : c.of \in Cards /\ c.at \in {"sent", "served"} /\ c.crossed \subseteq Cards
    BY DEF PageInv, PageShape, CardCalls
  <1> QED BY <1>1, <1>2 DEF PageInv, PageShape, PageTypeOK

-----------------------------------------------------------------------------
(* What the types need beyond that                                           *)

\* Who is parked is in the queue.
ParkedWait == \A m \in Msgs : stage[m] = "parked" => \E i \in 1..Len(waiting) : waiting[i] = m

LEMMA ParkedStay ==
    ASSUME ParkedWait, UNCHANGED waiting, \A m \in Msgs : stage'[m] = "parked" => stage[m] = "parked" PROVE ParkedWait'
  BY DEF ParkedWait

LEMMA ParkedStep == ASSUME InboundInv, ParkedWait, [InboundNext]_inboundVars PROVE ParkedWait'
  <1>1. stage \in [Msgs -> Stages] /\ waiting \in Seq(Msgs) /\ Len(waiting) \in Nat
    BY SlotsAreCounted DEF InboundInv, TimesHold, QueueHolds
  <1>2. CASE UNCHANGED <<stage, waiting>>
    BY <1>2, ParkedStay
  <1>3. ASSUME NEW m \in Msgs, NEW to, to # "parked", UNCHANGED waiting, stage' = [stage EXCEPT ![m] = to] PROVE ParkedWait'
    BY <1>1, <1>3, ParkedStay
  <1>4. CASE History
    <2>1. PICK batch : stage' = [m \in Msgs |-> IF m \in batch THEN "archived" ELSE stage[m]]
      BY <1>4 DEF History
    <2>2. UNCHANGED waiting
      BY <1>4 DEF History
    <2> QED BY <2>1, <2>2, ParkedStay
  <1>5. ASSUME NEW m \in Msgs, Upsert(m) PROVE ParkedWait'
    <2>1. PICK to : to = Admitted(m)
      OBVIOUS
    <2>2. CASE stage' = [stage EXCEPT ![m] = "ignored"] /\ UNCHANGED waiting
      BY <1>3, <2>2
    <2>3. CASE stage' = [stage EXCEPT ![m] = to] /\ waiting' = IF to = "parked" THEN Append(waiting, m) ELSE waiting
      <3>1. CASE to # "parked"
        BY <1>3, <2>3, <3>1
      <3>2. CASE to = "parked"
        <4>1. /\ Len(waiting') = Len(waiting) + 1 /\ waiting'[Len(waiting) + 1] = m
              /\ \A i \in 1..Len(waiting) : waiting'[i] = waiting[i]
          BY <1>1, <2>3, <3>2
        <4>2. \A n \in Msgs \ {m} : stage'[n] = stage[n]
          BY <1>1, <2>3
        <4>3. 1..Len(waiting) \subseteq 1..Len(waiting') /\ Len(waiting) + 1 \in 1..Len(waiting')
          BY <1>1, <4>1
        <4>4. ASSUME NEW n \in Msgs, stage'[n] = "parked" PROVE \E i \in 1..Len(waiting') : waiting'[i] = n
          BY <4>1, <4>2, <4>3, <4>4 DEF ParkedWait
        <4> QED BY <4>4 DEF ParkedWait
      <3> QED BY <3>1, <3>2
    <2> QED BY <1>5, <2>1, <2>2, <2>3 DEF Upsert
  <1>6. ASSUME NEW m \in Msgs, Processed(m) PROVE ParkedWait'
    <2>1. stage[m] \in {"running", "bare"} /\ NextStage(m, "ended")
      BY <1>6 DEF Processed
    <2>2. CASE stage' = [stage EXCEPT ![m] = "ended"] /\ UNCHANGED waiting
      BY <1>3, <2>2
    <2>3. CASE waiting # <<>> /\ stage' = [stage EXCEPT ![m] = "ended", ![Head(waiting)] = "running"] /\ waiting' = Tail(waiting)
      <3>1. /\ Len(waiting') = Len(waiting) - 1 /\ Head(waiting) = waiting[1] /\ Head(waiting) \in Msgs
            /\ \A i \in 1..Len(waiting') : waiting'[i] = waiting[i + 1]
        BY <1>1, <2>3, HeadTailProperties
      <3>2. \A n \in Msgs : stage'[n] = "parked" => stage[n] = "parked" /\ n # waiting[1]
        BY <1>1, <2>3, <3>1
      <3>3. ASSUME NEW n \in Msgs, stage'[n] = "parked" PROVE \E i \in 1..Len(waiting') : waiting'[i] = n
        <4>1. PICK i \in 1..Len(waiting) : waiting[i] = n
          BY <3>2, <3>3 DEF ParkedWait
        <4>2. i # 1
          BY <3>2, <3>3, <4>1
        <4>3. i - 1 \in 1..Len(waiting') /\ (i - 1) + 1 = i
          BY <1>1, <3>1, <4>1, <4>2
        <4> QED BY <3>1, <4>1, <4>3
      <3> QED BY <3>3 DEF ParkedWait
    <2> QED BY <2>1, <2>2, <2>3 DEF NextStage
  <1>7. ASSUME NEW m \in Msgs, ApiSends(m) PROVE ParkedWait'
    <2>1. stage' = [stage EXCEPT ![m] = "sent"] /\ UNCHANGED waiting
      BY <1>7 DEF ApiSends
    <2> QED BY <1>3, <2>1
  <1>8. ASSUME NEW m \in Msgs, Compose(m) \/ OwnEcho(m) PROVE ParkedWait'
    BY <1>2, <1>8 DEF Compose, OwnEcho
  <1>9. CASE Opened \/ Closed
    BY <1>2, <1>9 DEF Opened, Closed
  <1>10. CASE UNCHANGED inboundVars
    BY <1>2, <1>10 DEF inboundVars
  <1> QED BY <1>4, <1>5, <1>6, <1>7, <1>8, <1>9, <1>10 DEF InboundNext, Continue

LEMMA InboundIsOfType == ASSUME InboundInv, ParkedWait PROVE InboundTypeOK
  <1>1. stage \in [Msgs -> {"unseen", "sent", "running", "parked", "bare", "ignored", "ended", "archived"}]
    BY DEF InboundInv, TimesHold, Stages
  <1>2. told \in [Msgs -> 0..Cardinality(Msgs)]
    <2>1. ASSUME NEW m \in Msgs PROVE told[m] \in 0..Cardinality(Msgs)
      <3>1. Cardinality(Msgs) \in Nat \ {0}
        BY InboundAssumption, FS_CardinalityType, FS_EmptySet
      <3> QED BY <3>1 DEF InboundInv, ToldOnce
    <2> QED BY <2>1 DEF InboundInv, ToldOnce
  <1>3. ToSet(waiting) = {m \in Msgs : stage[m] = "parked"}
    <2>1. ToSet(waiting) = {waiting[i] : i \in 1..Len(waiting)}
      BY DEF ToSet, InboundInv, QueueHolds
    <2>2. \A i \in 1..Len(waiting) : waiting[i] \in Msgs /\ stage[waiting[i]] = "parked"
      BY SlotsAreCounted DEF InboundInv, QueueHolds
    <2> QED BY <2>1, <2>2 DEF ParkedWait
  <1> QED BY <1>1, <1>2, <1>3 DEF InboundTypeOK

LEMMA PutsStep == ASSUME StoreInv, puts <= MaxPuts, [StoreNext]_storeVars PROVE (puts <= MaxPuts)'
  <1>1. ASSUME NEW m \in Stored, Put(m) PROVE puts < MaxPuts /\ puts' = puts + 1
    BY <1>1 DEF Put
  <1>2. SessionDeleted \/ ClearSession => puts' = puts
    BY DEF SessionDeleted, ClearSession
  <1>3. ASSUME NEW p \in pending, PutStep(p) PROVE puts' = puts
    BY <1>3 DEF PutStep, Upserted, Counted, Evicted, Fails
  <1>4. puts' = puts \/ (puts < MaxPuts /\ puts' = puts + 1)
    BY <1>1, <1>2, <1>3 DEF StoreNext, storeVars
  <1> QED BY <1>4, StoreAssumption DEF StoreInv, RowsAreNew

LEMMA StoreIsOfType == ASSUME StoreInv, puts <= MaxPuts PROVE StoreTypeOK
  <1>1. 0..puts \subseteq 0..MaxPuts /\ 1..puts \subseteq 1..MaxPuts
    BY StoreAssumption DEF StoreInv, RowsAreNew
  <1>2. created \in [Stored -> 0..MaxPuts] /\ newest \in [Stored -> 0..MaxPuts]
    BY <1>1 DEF StoreInv, RowsAreNew
  <1>3. \A p \in pending : p.of \in Stored /\ p.number \in 1..MaxPuts /\ p.at \in {"upserting", "counting", "evicting"}
    BY <1>1 DEF StoreInv, RowsAreNew, PutRecords
  <1> QED BY <1>2, <1>3 DEF StoreTypeOK, StoreInv, RowsAreNew

\* An archive holds files that were to be in it.
ArchiveIsOfFiles ==
    /\ probe \in {"none", "init", "refresh"}
    /\ fileJob.got \subseteq fileJob.meant
    /\ archive.files \subseteq archive.meant

LEMMA ArchiveStarts == FileInit => ArchiveIsOfFiles
  BY DEF FileInit, ArchiveIsOfFiles, NoFileJob, NoArchive

LEMMA ArchiveStep == ASSUME FileInv, ArchiveIsOfFiles, [FileNext]_fileVars PROVE ArchiveIsOfFiles'
  <1>1. fileJob \in FileJobs /\ fileJob.todo \subseteq fileJob.meant
    BY DEF FileInv
  <1>2. probe' \in {"none", "init", "refresh"}
    BY DEF ArchiveIsOfFiles, FileNext, fileVars, ProbeAnswered, InitAnswered, RefreshAnswered, JobStep, ExportFile, Exported, ImportEntry, Imported,
           AnswerRead, ServerUp, Refresh, Export, Import, ImportAborted, Sweep, FilesDown, FilesUp
  <1>3. archive' = archive \/ archive' = NoArchive \/ (archive'.files = fileJob.got /\ archive'.meant = fileJob.meant)
    <2>1. CASE Exported
      <3>1. PICK whole : archive' = [there |-> TRUE, files |-> fileJob.got, meant |-> fileJob.meant, whole |-> whole]
        BY <2>1 DEF Exported
      <3> QED BY <3>1
    <2>2. CASE ~Exported
      BY <2>2 DEF FileNext, fileVars, ProbeAnswered, InitAnswered, RefreshAnswered, JobStep, ExportFile, ImportEntry, Imported,
                  AnswerRead, ServerUp, Refresh, Export, Import, ImportAborted, Sweep, FilesDown, FilesUp
    <2> QED BY <2>1, <2>2
  <1>4. archive'.files \subseteq archive'.meant
    BY <1>3 DEF ArchiveIsOfFiles, NoArchive
  <1>5. fileJob'.got \subseteq fileJob'.meant
    <2>1. NoFileJob.got = {}
      BY DEF NoFileJob
    <2>2. CASE UNCHANGED fileJob \/ fileJob' = NoFileJob
      BY <2>1, <2>2 DEF ArchiveIsOfFiles
    <2>3. ASSUME NEW files, NEW op, NEW store, fileJob' = [NoFileJob EXCEPT !.op = op, !.todo = files, !.meant = files, !.store = store]
          PROVE  fileJob'.got \subseteq fileJob'.meant
      BY <2>3 DEF NoFileJob
    <2>4. CASE Noticed
      <3>1. PICK steady : fileJob' = [fileJob EXCEPT !.steady = steady]
        BY <2>4 DEF Noticed
      <3> QED BY <1>1, <3>1 DEF ArchiveIsOfFiles, FileJobs
    <2>5. CASE ExportFile \/ ImportEntry
      <3>1. PICK f \in fileJob.todo :
               \/ fileJob' = [fileJob EXCEPT !.todo = @ \ {f}, !.got = IF f \in held[Backend] THEN @ \cup {f} ELSE @]
               \/ fileJob' = [fileJob EXCEPT !.todo = @ \ {f}, !.got = @ \cup {f}]
               \/ fileJob' = [fileJob EXCEPT !.todo = @ \ {f}, !.spoilt = TRUE]
        BY <2>5 DEF ExportFile, ImportEntry
      <3>2. PICK todo, got : todo = fileJob.todo \ {f} /\ got \in {fileJob.got, fileJob.got \cup {f}} /\
               \/ fileJob' = [fileJob EXCEPT !.todo = todo, !.got = got]
               \/ fileJob' = [fileJob EXCEPT !.todo = todo, !.spoilt = TRUE]
        BY <3>1
      <3>3. fileJob'.got \in {fileJob.got, fileJob.got \cup {f}} /\ fileJob'.meant = fileJob.meant
        BY <1>1, <3>2 DEF FileJobs
      <3> QED BY <1>1, <3>3 DEF ArchiveIsOfFiles
    <2>6. CASE Imported
      <3>1. fileJob' = [fileJob EXCEPT !.op = "imported"]
        BY <2>6 DEF Imported
      <3> QED BY <1>1, <3>1 DEF ArchiveIsOfFiles, FileJobs
    <2>7. CASE Export
      BY <2>3, <2>7 DEF Export, Starts
    <2>8. CASE Import
      BY <2>3, <2>8 DEF Import, Starts
    <2>9. CASE ProbeAnswered
      BY <2>4, <2>9 DEF ProbeAnswered, InitAnswered, RefreshAnswered
    <2>10. CASE Exported \/ AnswerRead \/ ServerUp \/ Refresh \/ ImportAborted \/ Sweep \/ FilesDown \/ FilesUp \/ UNCHANGED fileVars
      BY <2>2, <2>10 DEF Exported, AnswerRead, ServerUp, Refresh, ImportAborted, Sweep, FilesDown, FilesUp, fileVars
    <2> QED BY <2>5, <2>6, <2>7, <2>8, <2>9, <2>10 DEF FileNext, JobStep
  <1> QED BY <1>2, <1>4, <1>5 DEF ArchiveIsOfFiles

LEMMA FilesAreOfType == ASSUME FileInv, ArchiveIsOfFiles PROVE FileTypeOK
  <1>1. fileJob.op \in {"none", "export", "import", "imported"} /\ fileJob.todo \subseteq Files
    BY DEF FileInv, FileJobs
  <1> QED BY <1>1 DEF FileInv, ArchiveIsOfFiles, FileTypeOK

\* Nothing is delivered more often than the bound says.
DeliveriesAreBounded == \A m \in Inbox : deliveries[m] <= MaxDeliveries

LEMMA DeliveriesStep == ASSUME AutomationInv, DeliveriesAreBounded, [AutomationNext]_automationVars PROVE DeliveriesAreBounded'
  <1>1. deliveries \in [Inbox -> Nat]
    BY DEF AutomationInv, Configured
  <1>2. ASSUME NEW m \in Inbox, Deliver(m) PROVE DeliveriesAreBounded'
    BY <1>1, <1>2, AutomationAssumption DEF Deliver, DeliveriesAreBounded
  <1>3. CASE UNCHANGED deliveries
    BY <1>3 DEF DeliveriesAreBounded
  <1>4. Runs \/ Ticks \/ AdminChanges \/ UNCHANGED automationVars => UNCHANGED deliveries
    BY DEF Runs, Generated, ReplySent, AdminChecked, RemovalEnds, Ticks, AdminChanges, automationVars, outside
  <1> QED BY <1>2, <1>3, <1>4 DEF AutomationNext

LEMMA AutomationsAreOfType == ASSUME AutomationInv, DeliveriesAreBounded PROVE AutomationTypeOK
  <1>1. \A r \in replies : r.of \in Inbox /\ r.at \in {"generating", "sending"}
    BY DEF AutomationInv, RepliesHold, ReplyRuns
  <1>2. \A r \in removals : r.of \in Inbox /\ r.at \in {"checking", "delaying"}
    BY DEF AutomationInv, RunsHold, RemovalRuns
  <1>3. \A g \in Groups : cached[g].admin \in BOOLEAN
    BY DEF AutomationInv, AdminsHold
  <1>4. deliveries \in [Inbox -> 0..MaxDeliveries]
    BY AutomationAssumption DEF AutomationInv, Configured, DeliveriesAreBounded
  <1> QED BY <1>1, <1>2, <1>3, <1>4 DEF AutomationTypeOK

LEMMA ConversationsAreOfType == ConversationInv => ConversationTypeOK
  <1> SUFFICES ASSUME ConversationInv PROVE ConversationTypeOK
    OBVIOUS
  <1>1. ASSUME NEW k \in Relays \X TalkChats
        PROVE  mappings[k].provider \in Providers \cup {"none"} /\ mappings[k].state \in {"bot", "human"}
    BY DEF ConversationInv, TalkKeys, MappingRows, HandoverStates
  <1>2. \A t \in talks : t.at \in {"begun", "inserting", "refinding", "updating", "setting"}
    BY DEF ConversationInv, TalkRecord
  <1> QED BY <1>1, <1>2 DEF ConversationTypeOK

-----------------------------------------------------------------------------
(* The parts together                                                        *)

PartsInv ==
    /\ part \in {"inbound", "store", "files", "automations", "conversations", "page"}
    /\ part = "inbound" => InboundInv /\ ParkedWait
    /\ part = "store" => StoreInv /\ puts <= MaxPuts
    /\ part = "files" => FileInv /\ ArchiveIsOfFiles
    /\ part = "automations" => AutomationInv /\ DeliveriesAreBounded
    /\ part = "conversations" => ConversationInv
    /\ part = "page" => PageInv

LEMMA PartsHold == ApplicationSpec => []PartsInv
  <1>1. ApplicationInit => PartsInv
    <2> SUFFICES ASSUME ApplicationInit PROVE PartsInv
      OBVIOUS
    <2>1. /\ part \in {"inbound", "store", "files", "automations", "conversations", "page"}
          /\ InboundInit /\ StoreInit /\ FileInit /\ AutomationInit /\ ConversationsInit /\ PageInit
      BY DEF ApplicationInit
    <2>2. ParkedWait
      BY <2>1 DEF InboundInit, ParkedWait
    <2>3. puts <= MaxPuts
      BY <2>1, StoreAssumption DEF StoreInit
    <2>4. DeliveriesAreBounded
      BY <2>1, AutomationAssumption DEF AutomationInit, DeliveriesAreBounded
    <2>5. InboundInv /\ StoreInv /\ FileInv /\ ArchiveIsOfFiles /\ AutomationInv /\ ConversationInv /\ PageInv
      BY <2>1, InboundStarts, StoreStarts, FilesStart, ArchiveStarts, AutomationsStart, ConversationsStart, PageStarts
    <2> QED BY <2>1, <2>2, <2>3, <2>4, <2>5 DEF PartsInv
  <1>2. PartsInv /\ [ApplicationNext]_applicationVars => PartsInv'
    <2> SUFFICES ASSUME PartsInv, [ApplicationNext]_applicationVars PROVE PartsInv'
      OBVIOUS
    <2>1. part' = part
      BY DEF ApplicationNext, applicationVars
    <2>2. part = "inbound" => (InboundInv /\ ParkedWait)'
      <3>1. part = "inbound" => [InboundNext]_inboundVars
        BY DEF ApplicationNext, applicationVars
      <3> QED BY <3>1, InboundStep, ParkedStep DEF PartsInv
    <2>3. part = "store" => (StoreInv /\ puts <= MaxPuts)'
      <3>1. part = "store" => [StoreNext]_storeVars
        BY DEF ApplicationNext, applicationVars
      <3> QED BY <3>1, StoreStep, PutsStep DEF PartsInv
    <2>4. part = "files" => (FileInv /\ ArchiveIsOfFiles)'
      <3>1. part = "files" => [FileNext]_fileVars
        BY DEF ApplicationNext, applicationVars
      <3> QED BY <3>1, FilesStep, ArchiveStep DEF PartsInv
    <2>5. part = "automations" => (AutomationInv /\ DeliveriesAreBounded)'
      <3>1. part = "automations" => [AutomationNext]_automationVars
        BY DEF ApplicationNext, applicationVars
      <3> QED BY <3>1, AutomationsStep, DeliveriesStep DEF PartsInv
    <2>6. part = "conversations" => ConversationInv'
      <3>1. part = "conversations" => [ConversationsNext]_conversationVars
        BY DEF ApplicationNext, applicationVars
      <3> QED BY <3>1, ConversationsStep DEF PartsInv
    <2>7. part = "page" => PageInv'
      <3>1. part = "page" => [PageNext]_pageVars
        BY DEF ApplicationNext, applicationVars
      <3> QED BY <3>1, PageStep DEF PartsInv
    <2> QED BY <2>1, <2>2, <2>3, <2>4, <2>5, <2>6, <2>7 DEF PartsInv
  <1> QED BY <1>1, <1>2, PTL DEF ApplicationSpec

\* However many calls overlap: an upsert never takes a conversation away from whoever took it over, a plugin is told of a
\* conflict only when the conversation had another chat while it was asking, and a message of a chat that was taken over
\* before it came is not given to another plugin (conversation-mapping.service.ts, handover-gate.ts).
THEOREM ConversationsStayWithTheirOwner == ApplicationSpec => []ConversationsStand
  <1>1. PartsInv => ConversationsStand
    BY ConversationsAreStanding DEF PartsInv, ConversationsStand
  <1> QED BY <1>1, PartsHold, PTL

\* Nothing is put in a bucket that is not there, an export or import whose reads or writes worked on one store is complete,
\* and only a running process sweeps the archive (storage.service.ts); the message store never evicts a message among the
\* newest, is within its limit when it rests, and keeps nothing of a session deleted (baileys-message-store.service.ts).
THEOREM WhatIsKeptStays == ApplicationSpec => []KeptIsKept
  <1>1. PartsInv => KeptIsKept
    BY StoreIsKept, FilesAreThere DEF PartsInv, KeptIsKept
  <1> QED BY <1>1, PartsHold, PTL

\* An incoming live message is announced once unless its mapping throws, downloads keep to their slots and their queue,
\* and the preview of a chat is its newest message (baileys.adapter.ts); replies are spaced by the interval, and a message
\* is removed once a minute and as an administrator only (ai-auto-reply.service.ts, group-cleanup.service.ts).
THEOREM IncomingStaysHandled == ApplicationSpec => []IncomingIsHandled
  <1>1. PartsInv => IncomingIsHandled
    BY InboundHolds, AutomationsHold DEF PartsInv, IncomingIsHandled
  <1> QED BY <1>1, PartsHold, PTL

\* The sessions page (dashboard/src/pages/Sessions.tsx, hooks/useWebSocket.ts), for any calls, events, clicks and losses:
\* when nothing is on its way it shows the status of every session but those that changed while a call was under way that
\* wrote an older list, or while the socket was away; and a modal into which no call for another session reached shows
\* the name and the codes of one session.  A code that comes late is shown in whatever modal is open then: that modal is
\* muddled, and nothing is said of it.
THEOREM PageStaysSound == ApplicationSpec => []PageIsSound
  <1>1. PartsInv => PageIsSound
    BY PageHolds DEF PartsInv, PageIsSound
  <1> QED BY <1>1, PartsHold, PTL

\* Every part keeps to its types: the queue of the limiter is the messages that are parked, rows are numbered by the puts
\* there were, an archive holds files that were to be in it, and the page's modal is about sessions there are.
THEOREM ApplicationTypeCorrect == ApplicationSpec => []ApplicationTypes
  <1>1. PartsInv => ApplicationTypes
    <2> SUFFICES ASSUME PartsInv PROVE ApplicationTypes
      OBVIOUS
    <2>1. /\ part = "inbound" => InboundTypeOK
          /\ part = "store" => StoreTypeOK
          /\ part = "files" => FileTypeOK
          /\ part = "automations" => AutomationTypeOK
          /\ part = "conversations" => ConversationTypeOK
          /\ part = "page" => PageTypeOK
      BY InboundIsOfType, StoreIsOfType, FilesAreOfType, AutomationsAreOfType, ConversationsAreOfType, PageIsOfType DEF PartsInv
    <2>2. part \in {"inbound", "store", "files", "automations", "conversations", "page"}
      BY DEF PartsInv
    <2> QED BY <2>1, <2>2 DEF ApplicationTypes
  <1> QED BY <1>1, PartsHold, PTL

===============================================================================
