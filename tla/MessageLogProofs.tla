--------------------------- MODULE MessageLogProofs ---------------------------
(***************************************************************************)
(* For any messages, senders, contacts and faults: what happens to a       *)
(* message ends up in its row, whatever order it arrives in                *)
(* (message.service.ts, session.service.ts).                               *)
(***************************************************************************)
EXTENDS MessageLog, TLAPS

HeadOf(m) == Head(reactionChains[m])
Undisturbed(m) == "db" \notin note[m] /\ "slow" \notin note[m]

\* Who has written the row, and what else is true since.
Origin(m) ==
    /\ Stored(m) => row[m].status # "none"
    /\ row[m].by = "send" => send[m] = "answered" /\ ~deleted
    /\ row[m].by = "live" => kind[m] = "incoming" /\ ~deleted
    /\ row[m].by = "history" => "history" \in note[m]
    /\ send[m] # "idle" => kind[m] \in DOMAIN Senders
    /\ deleted => ~live

\* Nothing is known of a message before the engine has it.
Unheard(m) ==
    ~Known(m) =>
       /\ acks[m] = {} /\ acked[m] = {} /\ reactionChains[m] = <<>> /\ hist[m] = "idle" /\ ~Stored(m)
       /\ send[m] # "rejected" => "db" \notin note[m]
       /\ wanted[m] = [c \in Reactors |-> "none"]

\* The row without an id.
Drafted(m) ==
    /\ draft[m] = "failed" => send[m] = "rejected"
    /\ draft[m] = "pending" => \/ send[m] \in {"sending", "accepted", "acceptedNoId", "failing"}
                               \/ "db" \in note[m] \/ "history" \in note[m]
    /\ send[m] \in {"idle", "gated"} => draft[m] = "none"
    /\ send[m] = "gated" \/ draft[m] # "none" => Senders[kind[m]].drafts
    /\ deleted => draft[m] = "none"

\* The row shows an acknowledgement, or is failed.
Shows(m, t) == Stored(m) /\ (row[m].status = "failed" \/ Ranks[row[m].status] >= Ranks[t])

\* An acknowledgement is shown by the row, still under way, or about a row that is not the send's.
Acknowledged(m) ==
    /\ \A a \in acks[m] : a.to \in acked[m] /\ (a.try = 2 /\ Undisturbed(m) => send[m] # "accepted")
    /\ row[m].status = "failed" => "failed" \in acked[m]
    /\ Undisturbed(m) =>
          \A t \in acked[m] : \/ t = "failed" \/ \E a \in acks[m] : a.to = t
                              \/ deleted \/ (row[m].by # "send" /\ send[m] # "accepted") \/ Shows(m, t)

\* Only the head of a chain has read; its write is the last reaction of each contact.
Reacted(m) ==
    /\ \A i \in DOMAIN reactionChains[m] : i > 1 => reactionChains[m][i].stage = "waits"
    /\ ~deleted /\ "db" \notin note[m] =>
          /\ ~Stored(m) => /\ wanted[m] = [c \in Reactors |-> "none"]
                           /\ reactionChains[m] # <<>> => HeadOf(m).stage = "waits"
          /\ Stored(m) =>
               /\ reactionChains[m] = <<>> \/ HeadOf(m).stage = "waits" => row[m].reactions = wanted[m]
               /\ reactionChains[m] # <<>> /\ HeadOf(m).stage = "read" =>
                     [HeadOf(m).read.reactions EXCEPT ![HeadOf(m).who] = HeadOf(m).emoji] = wanted[m]

\* A message is announced by the insert that stores it.
Announced(m) ==
    /\ \A k \in 1 .. Firings : /\ recv[m][k] # "idle" => kind[m] = "incoming"
                               /\ recv[m][k] = "insert" => ~deleted
                               /\ recv[m][k] = "done" => \/ told[m] > 0 \/ "stopped" \in note[m]
                                                         \/ "retired" \in note[m] \/ "history" \in note[m]
    /\ row[m].by = "live" => told[m] > 0
    /\ told[m] > 0 /\ "db" \notin note[m] => told[m] = 1 /\ (Stored(m) \/ deleted)

\* The inductive invariant.
Kept(m) == Origin(m) /\ Unheard(m) /\ Drafted(m) /\ Acknowledged(m) /\ Reacted(m) /\ Announced(m)
LogInv == LogTypeOK /\ \A m \in Messages : Kept(m)

\* A step about message m touches no other message, and not the session.
Elsewhere(m) ==
    /\ live' = live /\ deleted' = deleted /\ kind' = kind
    /\ \A o \in Messages \ {m} : 
          /\ send'[o] = send[o] /\ draft'[o] = draft[o] /\ row'[o] = row[o] /\ acks'[o] = acks[o]
          /\ acked'[o] = acked[o] /\ reactionChains'[o] = reactionChains[o] /\ recv'[o] = recv[o]
          /\ hist'[o] = hist[o] /\ told'[o] = told[o] /\ wanted'[o] = wanted[o] /\ note'[o] = note[o]

-----------------------------------------------------------------------------
LEMMA InitLog == LogInit => LogInv
  <1> SUFFICES ASSUME LogInit PROVE LogInv
    OBVIOUS
  <1> USE DEF LogInit
  <1>1. NoRow \in LogRows
    BY DEF NoRow, LogRows, Statuses
  <1>2. LogTypeOK
    <2>1. row \in [Messages -> LogRows]
      BY <1>1
    <2>2. reactionChains \in [Messages -> Seq(Reaction)]
      OBVIOUS
    <2>3. recv \in [Messages -> [1 .. Firings -> {"idle", "hook", "insert", "done"}]]
      OBVIOUS
    <2>4. send \in [Messages -> SendStages] /\ wanted \in [Messages -> [Reactors -> {"none", "up"}]]
      BY DEF SendStages
    <2> QED BY <2>1, <2>2, <2>3, <2>4 DEF LogTypeOK
  <1>3. ASSUME NEW m \in Messages PROVE Kept(m)
    <2>1. row[m].by = "none" /\ row[m].status = "none" /\ row[m].reactions = [c \in Reactors |-> "none"]
      BY DEF NoRow
    <2>2. Origin(m) /\ Unheard(m) /\ Drafted(m)
      BY <2>1 DEF Origin, Unheard, Drafted, Stored
    <2>3. Acknowledged(m) /\ Reacted(m) /\ Announced(m)
      BY <2>1 DEF Acknowledged, Reacted, Announced, Stored
    <2> QED BY <2>2, <2>3 DEF Kept
  <1> QED BY <1>2, <1>3 DEF LogInv

\* What stays the same stays kept.
LEMMA OthersStayKept ==
    ASSUME NEW m \in Messages, Kept(m), deleted' = deleted, live' => live, kind' = kind,
           send'[m] = send[m], draft'[m] = draft[m], row'[m] = row[m], acks'[m] = acks[m], acked'[m] = acked[m],
           reactionChains'[m] = reactionChains[m], recv'[m] = recv[m], hist'[m] = hist[m], told'[m] = told[m],
           wanted'[m] = wanted[m], note'[m] = note[m]
    PROVE  Kept(m)'
  <1> USE DEF Kept, Stored
  <1>1. Origin(m)'
    BY DEF Origin
  <1>2. Unheard(m)'
    BY DEF Unheard, Known
  <1>3. Drafted(m)'
    BY DEF Drafted
  <1>4. Acknowledged(m)'
    BY DEF Acknowledged, Undisturbed, Shows
  <1>5. Reacted(m)'
    BY DEF Reacted, HeadOf
  <1>6. Announced(m)'
    BY DEF Announced
  <1> QED BY <1>1, <1>2, <1>3, <1>4, <1>5, <1>6

\* What the environment did is not forgotten.
Marks(m) == note' = note \/ \E w \in Notes : note' = [note EXCEPT ![m] = @ \cup {w}]
LEMMA NotesGrow ==
    ASSUME note \in [Messages -> SUBSET Notes], NEW m \in Messages, Marks(m)
    PROVE  /\ note' \in [Messages -> SUBSET Notes] /\ note[m] \subseteq note'[m]
           /\ \A o \in Messages \ {m} : note'[o] = note[o]
  <1>1. ASSUME NEW w \in Notes, note' = [note EXCEPT ![m] = @ \cup {w}] PROVE note' \in [Messages -> SUBSET Notes]
    <2>1. note[m] \cup {w} \in SUBSET Notes
      OBVIOUS
    <2> QED BY <1>1, <2>1
  <1>2. \A o \in Messages \ {m} : note'[o] = note[o]
    BY DEF Marks
  <1>3. note[m] \subseteq note'[m]
    BY DEF Marks
  <1> QED BY <1>1, <1>2, <1>3 DEF Marks

LEMMA IncomingSendsNothing == "incoming" \notin DOMAIN Senders
  BY DEF Senders

LEMMA RowsTyped ==
    /\ NewRow("send") \in LogRows /\ NewRow("live") \in LogRows /\ NewRow("history") \in LogRows
    /\ \A by : NewRow(by).by = by /\ NewRow(by).status = "sent" /\ NewRow(by).reactions = [c \in Reactors |-> "none"]
    /\ \A r \in LogRows : /\ r.by \in {"none", "send", "live", "history"} /\ r.status \in Statuses
                         /\ r.reactions \in [Reactors -> {"none", "up"}]
  <1>1. \A by \in {"send", "live", "history"} : NewRow(by) \in LogRows
    BY DEF NewRow, LogRows, Statuses
  <1>2. ASSUME NEW by PROVE NewRow(by).by = by /\ NewRow(by).status = "sent" /\ NewRow(by).reactions = [c \in Reactors |-> "none"]
    BY DEF NewRow
  <1>3. ASSUME NEW r \in LogRows
        PROVE  /\ r.by \in {"none", "send", "live", "history"} /\ r.status \in Statuses
               /\ r.reactions \in [Reactors -> {"none", "up"}]
    BY DEF LogRows
  <1> QED BY <1>1, <1>2, <1>3

-----------------------------------------------------------------------------
(* Sends                                                                    *)

LEMMA GateStep ==
    ASSUME LogInv, NEW m \in Messages, Gate(m) PROVE LogTypeOK' /\ Elsewhere(m) /\ Kept(m)'
  <1>0. LogTypeOK /\ Kept(m)
    BY DEF LogInv
  <1>1. send' \in [Messages -> SendStages]
    BY <1>0 DEF LogTypeOK, Gate, At, SendStages
  <1>2. Marks(m)
    BY DEF Gate, Remember, DbFails, Marks, Notes
  <1>3. /\ note' \in [Messages -> SUBSET Notes] /\ note[m] \subseteq note'[m]
         /\ \A o \in Messages \ {m} : note'[o] = note[o]
    BY <1>0, <1>2, NotesGrow DEF LogTypeOK
  <1>4. UNCHANGED <<live, deleted, kind, draft, row, acks, acked, reactionChains, recv, hist, told, wanted>>
    BY DEF Gate, session, following, receiving
  <1>5. LogTypeOK' /\ Elsewhere(m)
    <2>1. LogTypeOK'
      BY <1>0, <1>1, <1>2, <1>3, <1>4 DEF LogTypeOK
    <2>2. Elsewhere(m)
      BY <1>0, <1>1, <1>2, <1>3, <1>4 DEF LogTypeOK, Elsewhere, Gate, At
    <2> QED BY <2>1, <2>2
  <1>6. /\ send[m] = "idle" /\ kind[m] \in DOMAIN Senders
        /\ send'[m] \in {"rejected", "gated", "sending"}
        /\ send'[m] = "gated" => Senders[kind[m]].drafts
        /\ "db" \in note'[m] <=> "db" \in note[m]
        /\ "slow" \in note'[m] <=> "slow" \in note[m]
    BY <1>0 DEF LogTypeOK, Gate, At, Remember, Outgoing
  <1> USE <1>0, <1>4, <1>6, <1>3 DEF Kept, Stored
  <1>7. Origin(m)'
    BY DEF Origin
  <1>8. Unheard(m)'
    BY DEF Unheard, Known
  <1>9. Drafted(m)'
    BY DEF Drafted
  <1>10. Acknowledged(m)'
    BY DEF Acknowledged, Undisturbed, Shows
  <1>11. Reacted(m)'
    BY DEF Reacted, HeadOf
  <1>12. Announced(m)'
    BY DEF Announced
  <1> QED BY <1>5, <1>7, <1>8, <1>9, <1>10, <1>11, <1>12

LEMMA SaveDraftStep ==
    ASSUME LogInv, NEW m \in Messages, SaveDraft(m) PROVE LogTypeOK' /\ Elsewhere(m) /\ Kept(m)'
  <1>0. LogTypeOK /\ Kept(m)
    BY DEF LogInv
  <1>1. send' \in [Messages -> SendStages]
    BY <1>0 DEF LogTypeOK, SaveDraft, At, SendStages
  <1>2. draft' \in [Messages -> {"none", "pending", "failed", "sent"}]
    BY <1>0 DEF LogTypeOK, SaveDraft, At, SendStages
  <1>3. Marks(m)
    BY DEF SaveDraft, Remember, DbFails, Marks, Notes
  <1>4. /\ note' \in [Messages -> SUBSET Notes] /\ note[m] \subseteq note'[m]
         /\ \A o \in Messages \ {m} : note'[o] = note[o]
    BY <1>0, <1>3, NotesGrow DEF LogTypeOK
  <1>5. UNCHANGED <<live, deleted, kind, row, acks, acked, reactionChains, recv, hist, told, wanted>>
    BY DEF SaveDraft, session, following, receiving
  <1>6. LogTypeOK' /\ Elsewhere(m)
    <2>1. LogTypeOK'
      BY <1>0, <1>1, <1>2, <1>3, <1>4, <1>5 DEF LogTypeOK
    <2>2. Elsewhere(m)
      BY <1>0, <1>1, <1>2, <1>3, <1>4, <1>5 DEF LogTypeOK, Elsewhere, SaveDraft, At
    <2> QED BY <2>1, <2>2
  <1>7. /\ send[m] = "gated"
        /\ note'[m] = note[m] \/ note'[m] = note[m] \cup {"db"}
        /\ \/ ~deleted /\ send'[m] = "sending" /\ draft'[m] = "pending" /\ note'[m] = note[m]
           \/ send'[m] = "rejected" /\ draft'[m] = draft[m]
    BY <1>0 DEF LogTypeOK, SaveDraft, At, Remember, DbFails
  <1> USE <1>0, <1>5, <1>7, <1>4 DEF Kept, Stored
  <1>8. Origin(m)'
    BY DEF Origin
  <1>9. Unheard(m)'
    BY DEF Unheard, Known
  <1>10. Drafted(m)'
    BY DEF Drafted
  <1>11. Acknowledged(m)'
    BY DEF Acknowledged, Undisturbed, Shows
  <1>12. Reacted(m)'
    BY DEF Reacted, HeadOf
  <1>13. Announced(m)'
    BY DEF Announced
  <1> QED BY <1>6, <1>8, <1>9, <1>10, <1>11, <1>12, <1>13

LEMMA EngineAcceptsStep ==
    ASSUME LogInv, NEW m \in Messages, EngineAccepts(m) PROVE LogTypeOK' /\ Elsewhere(m) /\ Kept(m)'
  <1>0. LogTypeOK /\ Kept(m)
    BY DEF LogInv
  <1>1. send' \in [Messages -> SendStages]
    BY <1>0 DEF LogTypeOK, EngineAccepts, At, SendStages
  <1>2. UNCHANGED <<live, deleted, kind, draft, row, acks, acked, reactionChains, recv, hist, told, wanted, note>>
    BY DEF EngineAccepts, session, following, receiving
  <1>3. LogTypeOK' /\ Elsewhere(m)
    <2>1. LogTypeOK'
      BY <1>0, <1>1, <1>2 DEF LogTypeOK
    <2>2. Elsewhere(m)
      BY <1>0, <1>1, <1>2 DEF LogTypeOK, Elsewhere, EngineAccepts, At
    <2> QED BY <2>1, <2>2
  <1>4. /\ send[m] = "sending"
        /\ send'[m] \in {"accepted", "acceptedNoId"}
    BY <1>0 DEF LogTypeOK, EngineAccepts, At
  <1> USE <1>0, <1>2, <1>4 DEF Kept, Stored
  <1>5. Origin(m)'
    BY DEF Origin
  <1>6. Unheard(m)'
    BY DEF Unheard, Known
  <1>7. Drafted(m)'
    BY DEF Drafted
  <1>8. Acknowledged(m)'
    <2>1. acks[m] = {} /\ acked[m] = {}
      BY IncomingSendsNothing DEF Unheard, Known, Origin
    <2> QED BY <2>1 DEF Acknowledged
  <1>9. Reacted(m)'
    BY DEF Reacted, HeadOf
  <1>10. Announced(m)'
    BY DEF Announced
  <1> QED BY <1>3, <1>5, <1>6, <1>7, <1>8, <1>9, <1>10

LEMMA EngineRejectsStep ==
    ASSUME LogInv, NEW m \in Messages, EngineRejects(m) PROVE LogTypeOK' /\ Elsewhere(m) /\ Kept(m)'
  <1>0. LogTypeOK /\ Kept(m)
    BY DEF LogInv
  <1>1. send' \in [Messages -> SendStages]
    BY <1>0 DEF LogTypeOK, EngineRejects, At, SendStages
  <1>2. UNCHANGED <<live, deleted, kind, draft, row, acks, acked, reactionChains, recv, hist, told, wanted, note>>
    BY DEF EngineRejects, session, following, receiving
  <1>3. LogTypeOK' /\ Elsewhere(m)
    <2>1. LogTypeOK'
      BY <1>0, <1>1, <1>2 DEF LogTypeOK
    <2>2. Elsewhere(m)
      BY <1>0, <1>1, <1>2 DEF LogTypeOK, Elsewhere, EngineRejects, At
    <2> QED BY <2>1, <2>2
  <1>4. /\ send[m] = "sending"
        /\ \/ Senders[kind[m]].drafts /\ send'[m] = "failing"
           \/ ~Senders[kind[m]].drafts /\ send'[m] = "rejected"
    BY <1>0 DEF LogTypeOK, EngineRejects, At
  <1> USE <1>0, <1>2, <1>4 DEF Kept, Stored
  <1>5. Origin(m)'
    BY DEF Origin
  <1>6. Unheard(m)'
    BY DEF Unheard, Known
  <1>7. Drafted(m)'
    BY DEF Drafted
  <1>8. Acknowledged(m)'
    BY DEF Acknowledged, Undisturbed, Shows
  <1>9. Reacted(m)'
    BY DEF Reacted, HeadOf
  <1>10. Announced(m)'
    BY DEF Announced
  <1> QED BY <1>3, <1>5, <1>6, <1>7, <1>8, <1>9, <1>10

LEMMA FailSendStep ==
    ASSUME LogInv, NEW m \in Messages, FailSend(m) PROVE LogTypeOK' /\ Elsewhere(m) /\ Kept(m)'
  <1>0. LogTypeOK /\ Kept(m)
    BY DEF LogInv
  <1>1. send' \in [Messages -> SendStages]
    BY <1>0 DEF LogTypeOK, FailSend, At, SendStages
  <1>2. draft' \in [Messages -> {"none", "pending", "failed", "sent"}]
    BY <1>0 DEF LogTypeOK, FailSend, At, SendStages
  <1>3. Marks(m)
    BY DEF FailSend, Remember, DbFails, Marks, Notes
  <1>4. /\ note' \in [Messages -> SUBSET Notes] /\ note[m] \subseteq note'[m]
         /\ \A o \in Messages \ {m} : note'[o] = note[o]
    BY <1>0, <1>3, NotesGrow DEF LogTypeOK
  <1>5. UNCHANGED <<live, deleted, kind, row, acks, acked, reactionChains, recv, hist, told, wanted>>
    BY DEF FailSend, session, following, receiving
  <1>6. LogTypeOK' /\ Elsewhere(m)
    <2>1. LogTypeOK'
      BY <1>0, <1>1, <1>2, <1>3, <1>4, <1>5 DEF LogTypeOK
    <2>2. Elsewhere(m)
      BY <1>0, <1>1, <1>2, <1>3, <1>4, <1>5 DEF LogTypeOK, Elsewhere, FailSend, At
    <2> QED BY <2>1, <2>2
  <1>7. /\ send[m] = "failing" /\ send'[m] = "rejected"
        /\ note'[m] = note[m] \/ note'[m] = note[m] \cup {"db"}
        /\ \/ draft'[m] \in {"none", "failed"} /\ (draft'[m] = "failed" => draft[m] # "none")
           \/ draft'[m] = draft[m] /\ "db" \in note'[m]
    BY <1>0 DEF LogTypeOK, FailSend, At, Remember, DbFails
  <1> USE <1>0, <1>5, <1>7, <1>4 DEF Kept, Stored
  <1>8. Origin(m)'
    BY DEF Origin
  <1>9. Unheard(m)'
    BY DEF Unheard, Known
  <1>10. Drafted(m)'
    BY DEF Drafted
  <1>11. Acknowledged(m)'
    BY DEF Acknowledged, Undisturbed, Shows
  <1>12. Reacted(m)'
    BY DEF Reacted, HeadOf
  <1>13. Announced(m)'
    BY DEF Announced
  <1> QED BY <1>6, <1>8, <1>9, <1>10, <1>11, <1>12, <1>13

LEMMA PersistSentStep ==
    ASSUME LogInv, NEW m \in Messages, PersistSent(m) PROVE LogTypeOK' /\ Elsewhere(m) /\ Kept(m)'
  <1>0. LogTypeOK /\ Kept(m)
    BY DEF LogInv
  <1>1. send' \in [Messages -> SendStages]
    BY <1>0 DEF LogTypeOK, PersistSent, At, SendStages
  <1>2. draft' \in [Messages -> {"none", "pending", "failed", "sent"}]
    BY <1>0 DEF LogTypeOK, PersistSent, At, SendStages
  <1>3. row' \in [Messages -> LogRows]
    <2>1. row' = row \/ row' = [row EXCEPT ![m] = NewRow("send")]
      BY DEF PersistSent
    <2> QED BY <1>0, <2>1, RowsTyped DEF LogTypeOK
  <1>4. Marks(m)
    BY DEF PersistSent, Remember, DbFails, Marks, Notes
  <1>5. /\ note' \in [Messages -> SUBSET Notes] /\ note[m] \subseteq note'[m]
         /\ \A o \in Messages \ {m} : note'[o] = note[o]
    BY <1>0, <1>4, NotesGrow DEF LogTypeOK
  <1>6. UNCHANGED <<live, deleted, kind, acks, acked, reactionChains, recv, hist, told, wanted>>
    BY DEF PersistSent, session, following, receiving
  <1>7. LogTypeOK' /\ Elsewhere(m)
    <2>1. LogTypeOK'
      BY <1>0, <1>1, <1>2, <1>3, <1>4, <1>5, <1>6 DEF LogTypeOK
    <2>2. Elsewhere(m)
      BY <1>0, <1>1, <1>2, <1>3, <1>4, <1>5, <1>6 DEF LogTypeOK, Elsewhere, PersistSent, At
    <2> QED BY <2>1, <2>2
  <1>8. /\ send[m] \in {"accepted", "acceptedNoId"} /\ send'[m] = "answered"
        /\ note'[m] = note[m] \/ note'[m] = note[m] \cup {"db"}
        /\ \/ /\ ~deleted /\ ~Stored(m) /\ send[m] = "accepted" /\ row'[m] = NewRow("send") /\ draft'[m] = "none"
           \/ /\ row'[m] = row[m] /\ (send[m] = "accepted" => deleted \/ Stored(m) \/ "db" \in note'[m])
              /\ draft'[m] = draft[m] \/ (draft'[m] = "sent" /\ draft[m] # "none")
              /\ send[m] = "acceptedNoId" => draft'[m] # "pending" \/ "db" \in note'[m]
    BY <1>0, RowsTyped DEF LogTypeOK, PersistSent, At, Remember, DbFails
  <1> USE <1>0, <1>6, <1>8, <1>5, RowsTyped DEF Kept, Stored
  <1>9. Origin(m)'
    BY DEF Origin
  <1>10. Unheard(m)'
    BY DEF Unheard, Known
  <1>11. Drafted(m)'
    BY IncomingSendsNothing DEF Drafted, Origin, LogTypeOK
  <1>12. Acknowledged(m)'
    BY DEF Acknowledged, Undisturbed, Shows
  <1>13. Reacted(m)'
    BY DEF Reacted, HeadOf
  <1>14. Announced(m)'
    BY DEF Announced
  <1> QED BY <1>7, <1>9, <1>10, <1>11, <1>12, <1>13, <1>14

-----------------------------------------------------------------------------
(* Acknowledgements, revocations and reactions                              *)

LEMMA AckTyped ==
    /\ \A t \in Upgrades : \A n \in 0 .. 2 : [to |-> t, try |-> n] \in [to : Upgrades, try : 0 .. 2]
    /\ Upgrades = {"delivered", "read", "failed"}
  BY DEF Upgrades

LEMMA AckArrivesStep ==
    ASSUME LogInv, NEW m \in Messages, NEW t \in Upgrades, AckArrives(m, t) PROVE LogTypeOK' /\ Elsewhere(m) /\ Kept(m)'
  <1>0. LogTypeOK /\ Kept(m)
    BY DEF LogInv
  <1>1. acks' \in [Messages -> SUBSET [to : Upgrades, try : 0 .. 2]]
    <2>1. acks[m] \cup {[to |-> t, try |-> 1]} \in SUBSET [to : Upgrades, try : 0 .. 2]
      BY <1>0, AckTyped DEF LogTypeOK
    <2> QED BY <1>0, <2>1 DEF LogTypeOK, AckArrives
  <1>2. acked' \in [Messages -> SUBSET Upgrades]
    <2>1. acked[m] \cup {t} \in SUBSET Upgrades
      BY <1>0 DEF LogTypeOK
    <2> QED BY <1>0, <2>1 DEF LogTypeOK, AckArrives
  <1>3. UNCHANGED <<live, deleted, kind, send, draft, row, reactionChains, recv, hist, told, wanted, note>>
    BY DEF AckArrives, session, following, receiving
  <1>4. LogTypeOK' /\ Elsewhere(m)
    <2>1. LogTypeOK'
      BY <1>0, <1>1, <1>2, <1>3 DEF LogTypeOK
    <2>2. Elsewhere(m)
      BY <1>0, <1>1, <1>2, <1>3 DEF LogTypeOK, Elsewhere, AckArrives
    <2> QED BY <2>1, <2>2
  <1>5. /\ acks'[m] = acks[m] \cup {[to |-> t, try |-> 1]}
        /\ acked'[m] = acked[m] \cup {t}
        /\ Known(m)
    BY <1>0 DEF LogTypeOK, AckArrives, At
  <1> USE <1>0, <1>3, <1>5 DEF Kept, Stored
  <1>6. Origin(m)'
    BY DEF Origin
  <1>7. Unheard(m)'
    BY DEF Unheard, Known
  <1>8. Drafted(m)'
    BY DEF Drafted
  <1>9. Acknowledged(m)'
    <2>1. \A a \in acks'[m] : a \in acks[m] \/ (a.to = t /\ a.try = 1)
      OBVIOUS
    <2>2. \E a \in acks'[m] : a.to = t
      <3>1. [to |-> t, try |-> 1] \in acks'[m] /\ [to |-> t, try |-> 1].to = t
        OBVIOUS
      <3> QED BY <3>1
    <2>3. \A a \in acks[m] : a \in acks'[m]
      OBVIOUS
    <2> QED BY <2>1, <2>2, <2>3 DEF Acknowledged, Undisturbed, Shows
  <1>10. Reacted(m)'
    BY DEF Reacted, HeadOf
  <1>11. Announced(m)'
    BY DEF Announced
  <1> QED BY <1>4, <1>6, <1>7, <1>8, <1>9, <1>10, <1>11

LEMMA AckRetriesStep ==
    ASSUME LogInv, NEW m \in Messages, NEW a \in acks[m], AckRetries(m, a) PROVE LogTypeOK' /\ Elsewhere(m) /\ Kept(m)'
  <1>0. LogTypeOK /\ Kept(m)
    BY DEF LogInv
  <1>1. acks' \in [Messages -> SUBSET [to : Upgrades, try : 0 .. 2]]
    <2>1. (acks[m] \ {a}) \cup {[to |-> a.to, try |-> 2]} \in SUBSET [to : Upgrades, try : 0 .. 2]
      BY <1>0, AckTyped DEF LogTypeOK
    <2> QED BY <1>0, <2>1 DEF LogTypeOK, AckRetries
  <1>2. Marks(m)
    BY DEF AckRetries, Remember, DbFails, Marks, Notes
  <1>3. /\ note' \in [Messages -> SUBSET Notes] /\ note[m] \subseteq note'[m]
         /\ \A o \in Messages \ {m} : note'[o] = note[o]
    BY <1>0, <1>2, NotesGrow DEF LogTypeOK
  <1>4. UNCHANGED <<live, deleted, kind, send, draft, row, acked, reactionChains, recv, hist, told, wanted>>
    BY DEF AckRetries, session, following, receiving
  <1>5. LogTypeOK' /\ Elsewhere(m)
    <2>1. LogTypeOK'
      BY <1>0, <1>1, <1>2, <1>3, <1>4 DEF LogTypeOK
    <2>2. Elsewhere(m)
      BY <1>0, <1>1, <1>2, <1>3, <1>4 DEF LogTypeOK, Elsewhere, AckRetries
    <2> QED BY <2>1, <2>2
  <1>6. /\ acks'[m] = (acks[m] \ {a}) \cup {[to |-> a.to, try |-> 2]}
        /\ \/ note'[m] = note[m] /\ send[m] # "accepted"
           \/ note'[m] = note[m] \cup {"slow"}
    BY <1>0 DEF LogTypeOK, AckRetries, Remember
  <1> USE <1>0, <1>4, <1>6, <1>3 DEF Kept, Stored
  <1>7. Origin(m)'
    BY DEF Origin
  <1>8. Unheard(m)'
    BY DEF Unheard, Known
  <1>9. Drafted(m)'
    BY DEF Drafted
  <1>10. Acknowledged(m)'
    <2>1. \A b \in acks'[m] : b \in acks[m] \/ (b.to = a.to /\ b.try = 2)
      OBVIOUS
    <2>2. \A b \in acks[m] : \E c \in acks'[m] : c.to = b.to
      <3>1. [to |-> a.to, try |-> 2] \in acks'[m] /\ [to |-> a.to, try |-> 2].to = a.to
        OBVIOUS
      <3> QED BY <3>1
    <2> QED BY <2>1, <2>2 DEF Acknowledged, Undisturbed, Shows
  <1>11. Reacted(m)'
    BY DEF Reacted, HeadOf
  <1>12. Announced(m)'
    BY DEF Announced
  <1> QED BY <1>5, <1>7, <1>8, <1>9, <1>10, <1>11, <1>12

\* Transitions only go up, and a report that finds no transition is one the row already shows.
LEMMA TransitionsClimb ==
    /\ \A t \in Upgrades : /\ TransitionFrom(t) \subseteq Statuses \cup {"pending"} /\ Ranks[t] \in Nat
                          /\ \A u \in TransitionFrom(t) \cap Statuses : Ranks[u] \in Nat /\ Ranks[u] < Ranks[t] /\ u \notin {"none", "failed"}
    /\ \A t \in Upgrades, u \in Statuses \ {"none", "failed"} : t # "failed" /\ u \notin TransitionFrom(t) => Ranks[u] >= Ranks[t]
    /\ \A u \in Statuses \ {"none"} : Ranks[u] \in Nat
  BY DEF Upgrades, Statuses, TransitionFrom, Ranks

LEMMA RowChanges ==
    ASSUME NEW r \in LogRows
    PROVE  /\ [r EXCEPT !.revoked = TRUE] \in LogRows
           /\ \A u \in Statuses : [r EXCEPT !.status = u] \in LogRows
           /\ \A f \in [Reactors -> {"none", "up"}] : [r EXCEPT !.reactions = f] \in LogRows
  BY DEF LogRows

LEMMA AckAppliedStep ==
    ASSUME LogInv, NEW m \in Messages, NEW a \in acks[m], AckApplied(m, a) PROVE LogTypeOK' /\ Elsewhere(m) /\ Kept(m)'
  <1>0. LogTypeOK /\ Kept(m)
    BY DEF LogInv
  <1>1. acks' \in [Messages -> SUBSET [to : Upgrades, try : 0 .. 2]]
    <2>1. /\ (acks[m] \ {a}) \in SUBSET [to : Upgrades, try : 0 .. 2]
          /\ (acks[m] \ {a}) \cup {[to |-> a.to, try |-> 0]} \in SUBSET [to : Upgrades, try : 0 .. 2]
      BY <1>0, AckTyped DEF LogTypeOK
    <2>2. \/ acks' = [acks EXCEPT ![m] = acks[m] \ {a}]
          \/ acks' = [acks EXCEPT ![m] = (acks[m] \ {a}) \cup {[to |-> a.to, try |-> 0]}]
      BY DEF AckApplied
    <2> QED BY <1>0, <2>1, <2>2 DEF LogTypeOK
  <1>2. row' \in [Messages -> LogRows]
    <2>1. row' = row \/ row' = [row EXCEPT ![m] = [row[m] EXCEPT !.status = a.to]]
      BY DEF AckApplied
    <2>2. a.to \in Statuses
      BY <1>0 DEF LogTypeOK, Upgrades, Statuses
    <2>3. [row[m] EXCEPT !.status = a.to] \in LogRows
      BY <1>0, <2>2, RowChanges DEF LogTypeOK
    <2> QED BY <1>0, <2>1, <2>3 DEF LogTypeOK
  <1>3. Marks(m)
    BY DEF AckApplied, Remember, DbFails, Marks, Notes
  <1>4. /\ note' \in [Messages -> SUBSET Notes] /\ note[m] \subseteq note'[m]
         /\ \A o \in Messages \ {m} : note'[o] = note[o]
    BY <1>0, <1>3, NotesGrow DEF LogTypeOK
  <1>5. UNCHANGED <<live, deleted, kind, send, draft, acked, reactionChains, recv, hist, told, wanted>>
    BY DEF AckApplied, session, following, receiving
  <1>6. LogTypeOK' /\ Elsewhere(m)
    <2>1. LogTypeOK'
      BY <1>0, <1>1, <1>2, <1>3, <1>4, <1>5 DEF LogTypeOK
    <2>2. Elsewhere(m)
      BY <1>0, <1>1, <1>2, <1>3, <1>4, <1>5 DEF LogTypeOK, Elsewhere, AckApplied
    <2> QED BY <2>1, <2>2
  <1>7. /\ row'[m].by = row[m].by /\ row'[m].reactions = row[m].reactions /\ a.to \in Upgrades
        /\ note'[m] = note[m] \/ note'[m] = note[m] \cup {"db"}
        /\ \/ "db" \in note'[m] /\ acks'[m] = acks[m] \ {a} /\ row'[m] = row[m]
           \/ /\ Stored(m) /\ row[m].status \in TransitionFrom(a.to) /\ row'[m].status = a.to
              /\ acks'[m] = acks[m] \ {a}
           \/ /\ ~(Stored(m) /\ row[m].status \in TransitionFrom(a.to)) /\ row'[m] = row[m]
              /\ \/ a.try = 2 /\ acks'[m] = acks[m] \ {a}
                 \/ acks'[m] = (acks[m] \ {a}) \cup {[to |-> a.to, try |-> 0]}
    <2>1. row' = row \/ row' = [row EXCEPT ![m] = [row[m] EXCEPT !.status = a.to]]
      BY DEF AckApplied
    <2>2. row[m] \in LogRows /\ a.to \in Upgrades
      BY <1>0 DEF LogTypeOK
    <2>3. row'[m].by = row[m].by /\ row'[m].reactions = row[m].reactions
      BY <1>0, <2>1, <2>2 DEF LogTypeOK, LogRows
    <2>4. CASE DbFails(m) /\ acks' = [acks EXCEPT ![m] = @ \ {a}] /\ UNCHANGED row
      BY <1>0, <2>2, <2>3, <2>4 DEF LogTypeOK, DbFails, Remember
    <2>5. CASE ~DbFails(m)
      <3>1. note' = note
        BY <2>5 DEF AckApplied
      <3>2. CASE Stored(m) /\ row[m].status \in TransitionFrom(a.to)
        <4>1. row' = [row EXCEPT ![m] = [row[m] EXCEPT !.status = a.to]] /\ acks' = [acks EXCEPT ![m] = @ \ {a}]
          BY <2>5, <3>2 DEF AckApplied
        <4>2. row'[m].status = a.to
          BY <1>0, <2>2, <4>1 DEF LogTypeOK, LogRows
        <4> QED BY <1>0, <2>2, <2>3, <3>1, <3>2, <4>1, <4>2 DEF LogTypeOK
      <3>3. CASE ~(Stored(m) /\ row[m].status \in TransitionFrom(a.to))
        <4>1. row' = row /\ acks' = [acks EXCEPT ![m] = (@ \ {a}) \cup IF a.try = 2 THEN {} ELSE {[to |-> a.to, try |-> 0]}]
          BY <2>5, <3>3 DEF AckApplied
        <4>2. \/ a.try = 2 /\ acks'[m] = acks[m] \ {a}
              \/ acks'[m] = (acks[m] \ {a}) \cup {[to |-> a.to, try |-> 0]}
          BY <1>0, <4>1 DEF LogTypeOK
        <4> QED BY <2>2, <2>3, <3>1, <3>3, <4>1, <4>2
      <3> QED BY <3>2, <3>3
    <2>6. DbFails(m) => note' # note
      BY <1>0 DEF DbFails, Remember, LogTypeOK
    <2> QED BY <2>4, <2>5, <2>6 DEF AckApplied
  <1> USE <1>0, <1>5, <1>7, <1>4, RowsTyped DEF Kept, Stored
  <1>8. Origin(m)'
    BY AckTyped DEF Origin
  <1>9. Unheard(m)'
    BY DEF Unheard, Known
  <1>10. Drafted(m)'
    BY DEF Drafted
  <1>11. Acknowledged(m)'
    <2>1. \A b \in acks'[m] : b \in acks[m] \/ (b.to = a.to /\ b.try = 0)
      OBVIOUS
    <2>2. row'[m].status = "failed" => "failed" \in acked[m]
      BY DEF Acknowledged
    <2>3. ASSUME Undisturbed(m)', NEW t \in acked[m], t # "failed"
          PROVE  \/ \E b \in acks'[m] : b.to = t
                 \/ deleted \/ (row'[m].by # "send" /\ send[m] # "accepted") \/ Shows(m, t)'
      <3>1. "db" \notin note[m] /\ Undisturbed(m) /\ t \in Upgrades
        BY <2>3 DEF Undisturbed, LogTypeOK
      <3>2. \/ (\E b \in acks[m] : b.to = t /\ b # a) \/ a.to = t
            \/ deleted \/ (row[m].by # "send" /\ send[m] # "accepted") \/ Shows(m, t)
        BY <2>3, <3>1 DEF Acknowledged
      <3>3. ASSUME NEW b \in acks[m], b.to = t, b # a PROVE b \in acks'[m]
        BY <3>3
      <3>4. CASE Shows(m, t)
        <4>1. CASE row'[m] = row[m]
          BY <3>4, <4>1 DEF Shows
        <4>2. CASE Stored(m) /\ row[m].status \in TransitionFrom(a.to) /\ row'[m].status = a.to
          <5>1. /\ row[m].status \in Statuses /\ Ranks[a.to] \in Nat /\ Ranks[t] \in Nat /\ Ranks[row[m].status] \in Nat
                /\ Ranks[row[m].status] < Ranks[a.to] /\ row[m].status # "failed"
            BY <3>1, <4>2, TransitionsClimb, RowsTyped DEF LogTypeOK
          <5>2. Ranks[row[m].status] >= Ranks[t]
            BY <3>4, <5>1 DEF Shows
          <5>3. Ranks[a.to] >= Ranks[t]
            BY <5>1, <5>2
          <5> QED BY <4>2, <5>3 DEF Shows
        <4> QED BY <4>1, <4>2
      <3>5. CASE a.to = t /\ Stored(m) /\ row'[m].status = t
        BY <3>5, TransitionsClimb, <3>1 DEF Shows
      <3>6. CASE a.to = t /\ ~(Stored(m) /\ row[m].status \in TransitionFrom(a.to)) /\ a.try = 2 /\ row'[m] = row[m]
        <4>1. send[m] # "accepted"
          BY <3>1, <3>6 DEF Acknowledged
        <4>2. CASE Stored(m)
          <5>1. row[m].status \in Statuses \ {"none"} /\ row[m].status \notin TransitionFrom(t)
            BY <3>6, <4>2, RowsTyped DEF LogTypeOK, Origin
          <5> QED BY <2>3, <3>1, <3>6, <4>2, <5>1, TransitionsClimb DEF Shows
        <4> QED BY <3>6, <4>1, <4>2
      <3>7. CASE a.to = t /\ [to |-> a.to, try |-> 0] \in acks'[m]
        <4>1. [to |-> a.to, try |-> 0].to = t
          BY <3>7
        <4> QED BY <3>7, <4>1
      <3> QED BY <2>3, <3>2, <3>3, <3>4, <3>5, <3>6, <3>7 DEF Undisturbed
    <2>4. Undisturbed(m)' => Undisturbed(m)
      BY DEF Undisturbed
    <2> QED BY <2>1, <2>2, <2>3, <2>4 DEF Acknowledged
  <1>12. Reacted(m)'
    BY DEF Reacted, HeadOf
  <1>13. Announced(m)'
    BY DEF Announced
  <1> QED BY <1>6, <1>8, <1>9, <1>10, <1>11, <1>12, <1>13

LEMMA RevokeStep ==
    ASSUME LogInv, NEW m \in Messages, Revoke(m) PROVE LogTypeOK' /\ Elsewhere(m) /\ Kept(m)'
  <1>0. LogTypeOK /\ Kept(m)
    BY DEF LogInv
  <1>1. row' \in [Messages -> LogRows]
    <2>1. [row[m] EXCEPT !.revoked = TRUE] \in LogRows
      BY <1>0, RowChanges DEF LogTypeOK
    <2>2. row' = [row EXCEPT ![m] = [row[m] EXCEPT !.revoked = TRUE]]
      BY DEF Revoke
    <2> QED BY <1>0, <2>1, <2>2 DEF LogTypeOK
  <1>2. UNCHANGED <<live, deleted, kind, send, draft, acks, acked, reactionChains, recv, hist, told, wanted, note>>
    BY DEF Revoke, session, following, receiving
  <1>3. LogTypeOK' /\ Elsewhere(m)
    <2>1. LogTypeOK'
      BY <1>0, <1>1, <1>2 DEF LogTypeOK
    <2>2. Elsewhere(m)
      BY <1>0, <1>1, <1>2 DEF LogTypeOK, Elsewhere, Revoke
    <2> QED BY <2>1, <2>2
  <1>4. row'[m].by = row[m].by /\ row'[m].status = row[m].status /\ row'[m].reactions = row[m].reactions
    <2>1. row' = [row EXCEPT ![m] = [row[m] EXCEPT !.revoked = TRUE]] /\ row[m] \in LogRows
      BY <1>0 DEF Revoke, LogTypeOK
    <2> QED BY <1>0, <2>1 DEF LogTypeOK, LogRows
  <1> USE <1>0, <1>2, <1>4, RowsTyped DEF Kept, Stored
  <1>5. Origin(m)'
    BY DEF Origin
  <1>6. Unheard(m)'
    BY DEF Unheard, Known
  <1>7. Drafted(m)'
    BY DEF Drafted
  <1>8. Acknowledged(m)'
    BY DEF Acknowledged, Undisturbed, Shows
  <1>9. Reacted(m)'
    BY DEF Reacted, HeadOf
  <1>10. Announced(m)'
    BY DEF Announced
  <1> QED BY <1>3, <1>5, <1>6, <1>7, <1>8, <1>9, <1>10

\* Chains: what joins comes last, what is done leaves the head.
LEMMA Joining ==
    ASSUME NEW S, NEW q \in Seq(S), NEW e \in S
    PROVE  /\ Append(q, e) \in Seq(S) /\ Append(q, e) # <<>>
           /\ Head(Append(q, e)) = IF q = <<>> THEN e ELSE Head(q)
           /\ \A i \in DOMAIN Append(q, e) : Append(q, e)[i] = e \/ (i \in DOMAIN q /\ Append(q, e)[i] = q[i])
  <1>1. Append(q, e) \in Seq(S) /\ Len(Append(q, e)) = Len(q) + 1 /\ Len(q) \in Nat
    OBVIOUS
  <1>2. \A i \in 1 .. Len(q) + 1 : Append(q, e)[i] = IF i = Len(q) + 1 THEN e ELSE q[i]
    OBVIOUS
  <1>3. DOMAIN q = 1 .. Len(q) /\ DOMAIN Append(q, e) = 1 .. Len(q) + 1
    BY <1>1
  <1>4. Append(q, e) # <<>> /\ Head(Append(q, e)) = Append(q, e)[1]
    BY <1>1
  <1>5. q = <<>> <=> Len(q) = 0
    OBVIOUS
  <1>6. q # <<>> => Head(q) = q[1]
    OBVIOUS
  <1> QED BY <1>1, <1>2, <1>3, <1>4, <1>5, <1>6
LEMMA Leaving ==
    ASSUME NEW S, NEW q \in Seq(S), q # <<>>
    PROVE  /\ Tail(q) \in Seq(S) /\ Head(q) \in S /\ Head(q) = q[1]
           /\ \A i \in DOMAIN Tail(q) : i + 1 \in DOMAIN q /\ Tail(q)[i] = q[i + 1] /\ i \in Nat \ {0}
           /\ Tail(q) # <<>> => 2 \in DOMAIN q /\ Head(Tail(q)) = q[2]
  <1>1. Tail(q) \in Seq(S) /\ Head(q) \in S /\ Head(q) = q[1]
    OBVIOUS
  <1>2. Len(q) \in Nat \ {0} /\ DOMAIN q = 1 .. Len(q) /\ Len(Tail(q)) = Len(q) - 1 /\ DOMAIN Tail(q) = 1 .. Len(q) - 1
    OBVIOUS
  <1>3. \A i \in 1 .. Len(q) - 1 : Tail(q)[i] = q[i + 1]
    OBVIOUS
  <1>4. Tail(q) # <<>> => Len(q) - 1 > 0 /\ Head(Tail(q)) = Tail(q)[1]
    BY <1>1, <1>2
  <1> QED BY <1>1, <1>2, <1>3, <1>4
LEMMA Reading ==
    ASSUME NEW S, NEW q \in Seq(S), q # <<>>, NEW e \in S
    PROVE  /\ (<<e>> \o Tail(q)) \in Seq(S) /\ <<e>> \o Tail(q) # <<>> /\ Head(<<e>> \o Tail(q)) = e
           /\ \A i \in DOMAIN (<<e>> \o Tail(q)) : i > 1 => i \in DOMAIN q /\ (<<e>> \o Tail(q))[i] = q[i]
  <1> DEFINE r == <<e>> \o Tail(q)
  <1>1. Tail(q) \in Seq(S) /\ Len(Tail(q)) = Len(q) - 1 /\ Len(q) \in Nat \ {0} /\ <<e>> \in Seq(S) /\ Len(<<e>>) = 1
    OBVIOUS
  <1>2. r \in Seq(S) /\ Len(r) = Len(q) /\ r[1] = e
    BY <1>1
  <1>3. \A i \in 2 .. Len(q) : r[i] = Tail(q)[i - 1]
    BY <1>1
  <1>4. \A i \in 1 .. Len(q) - 1 : Tail(q)[i] = q[i + 1]
    OBVIOUS
  <1>5. \A i \in 2 .. Len(q) : r[i] = q[i]
    <2>1. ASSUME NEW i \in 2 .. Len(q) PROVE r[i] = q[i]
      <3>1. i - 1 \in 1 .. Len(q) - 1 /\ (i - 1) + 1 = i
        BY <1>1
      <3> QED BY <1>3, <1>4, <3>1
    <2> QED BY <2>1
  <1> HIDE DEF r
  <1>6. DOMAIN r = 1 .. Len(r) /\ DOMAIN q = 1 .. Len(q) /\ r # <<>> /\ Head(r) = r[1]
    BY <1>1, <1>2
  <1>7. r \in Seq(S) /\ r # <<>> /\ Head(r) = e /\ \A i \in DOMAIN r : i > 1 => i \in DOMAIN q /\ r[i] = q[i]
    BY <1>1, <1>2, <1>5, <1>6
  <1> QED BY <1>7 DEF r

LEMMA ReactionArrivesStep ==
    ASSUME LogInv, NEW m \in Messages, NEW c \in Reactors, ReactionArrives(m, c) PROVE LogTypeOK' /\ Elsewhere(m) /\ Kept(m)'
  <1>0. LogTypeOK /\ Kept(m)
    BY DEF LogInv
  <1>1. reactionChains' \in [Messages -> Seq(Reaction)]
    <2>1. \E e \in Reaction : e.stage = "waits" /\ reactionChains' = [reactionChains EXCEPT ![m] = Append(@, e)]
      <3> DEFINE e == [who |-> c, emoji |-> IF wanted[m][c] = "none" THEN "up" ELSE "none", stage |-> "waits", read |-> NoRow]
      <3>1. NoRow \in LogRows
        BY DEF NoRow, LogRows, Statuses
      <3>2. e \in Reaction /\ e.stage = "waits"
        BY <3>1 DEF Reaction
      <3>3. reactionChains' = [reactionChains EXCEPT ![m] = Append(@, e)]
        BY DEF ReactionArrives
      <3> QED BY <3>2, <3>3
    <2>2. PICK e \in Reaction : reactionChains' = [reactionChains EXCEPT ![m] = Append(@, e)]
      BY <2>1
    <2>3. Append(reactionChains[m], e) \in Seq(Reaction)
      BY <1>0 DEF LogTypeOK
    <2> QED BY <1>0, <2>2, <2>3 DEF LogTypeOK
  <1>2. UNCHANGED <<live, deleted, kind, send, draft, row, acks, acked, recv, hist, told, wanted, note>>
    BY DEF ReactionArrives, session, following, receiving
  <1>3. LogTypeOK' /\ Elsewhere(m)
    <2>1. LogTypeOK'
      BY <1>0, <1>1, <1>2 DEF LogTypeOK
    <2>2. Elsewhere(m)
      BY <1>0, <1>1, <1>2 DEF LogTypeOK, Elsewhere, ReactionArrives
    <2> QED BY <2>1, <2>2
  <1>4. \E e \in Reaction : e.stage = "waits" /\ reactionChains'[m] = Append(reactionChains[m], e)
    <2> DEFINE e == [who |-> c, emoji |-> IF wanted[m][c] = "none" THEN "up" ELSE "none", stage |-> "waits", read |-> NoRow]
    <2>1. NoRow \in LogRows
      BY DEF NoRow, LogRows, Statuses
    <2>2. e \in Reaction /\ e.stage = "waits"
      BY <2>1 DEF Reaction
    <2>3. reactionChains'[m] = Append(reactionChains[m], e)
      BY <1>0 DEF ReactionArrives, LogTypeOK
    <2> QED BY <2>2, <2>3
  <1> USE <1>0, <1>2, <1>4 DEF Kept, Stored
  <1>5. Origin(m)'
    BY DEF Origin
  <1>6. Unheard(m)'
    BY DEF Unheard, Known, ReactionArrives
  <1>7. Drafted(m)'
    BY DEF Drafted
  <1>8. Acknowledged(m)'
    BY DEF Acknowledged, Undisturbed, Shows
  <1>9. Reacted(m)'
    <2>1. PICK e \in Reaction : e.stage = "waits" /\ reactionChains'[m] = Append(reactionChains[m], e)
      OBVIOUS
    <2>2. reactionChains[m] \in Seq(Reaction)
      BY DEF LogTypeOK
    <2>3. /\ \A i \in DOMAIN reactionChains'[m] : \/ reactionChains'[m][i].stage = "waits"
                                                  \/ i \in DOMAIN reactionChains[m] /\ reactionChains'[m][i] = reactionChains[m][i]
          /\ reactionChains'[m] # <<>> /\ HeadOf(m)' = IF reactionChains[m] = <<>> THEN e ELSE HeadOf(m)
      BY <2>1, <2>2, Joining DEF HeadOf
    <2> QED BY <2>1, <2>3 DEF Reacted
  <1>10. Announced(m)'
    BY DEF Announced
  <1> QED BY <1>3, <1>5, <1>6, <1>7, <1>8, <1>9, <1>10

LEMMA ReactionReadsStep ==
    ASSUME LogInv, NEW m \in Messages, ReactionReads(m) PROVE LogTypeOK' /\ Elsewhere(m) /\ Kept(m)'
  <1>0. LogTypeOK /\ Kept(m)
    BY DEF LogInv
  <1>1. reactionChains' \in [Messages -> Seq(Reaction)]
    <2> DEFINE e == HeadOf(m)
               r == [who |-> e.who, emoji |-> e.emoji, stage |-> "read", read |-> row[m]]
    <2>1. /\ reactionChains[m] \in Seq(Reaction) /\ reactionChains[m] # <<>> /\ row[m] \in LogRows
          /\ e \in Reaction
      BY <1>0, Leaving DEF LogTypeOK, ReactionReads, HeadOf
    <2>2. r \in Reaction
      BY <2>1 DEF Reaction
    <2>3. <<r>> \o Tail(reactionChains[m]) \in Seq(Reaction) /\ Tail(reactionChains[m]) \in Seq(Reaction)
      BY <2>1, <2>2, Reading, Leaving
    <2>4. \/ reactionChains' = [reactionChains EXCEPT ![m] = <<r>> \o Tail(reactionChains[m])]
          \/ reactionChains' = [reactionChains EXCEPT ![m] = Tail(reactionChains[m])]
      BY DEF ReactionReads, HeadOf
    <2> HIDE DEF r
    <2> QED BY <1>0, <2>3, <2>4 DEF LogTypeOK
  <1>2. wanted' \in [Messages -> [Reactors -> {"none", "up"}]]
    <2>1. /\ reactionChains[m] \in Seq(Reaction) /\ reactionChains[m] # <<>> /\ HeadOf(m) \in Reaction
      BY <1>0, Leaving DEF LogTypeOK, ReactionReads, HeadOf
    <2>2. HeadOf(m).who \in Reactors /\ HeadOf(m).emoji \in {"none", "up"}
      BY <2>1 DEF Reaction
    <2>3. wanted' = wanted \/ wanted' = [wanted EXCEPT ![m] = [wanted[m] EXCEPT ![HeadOf(m).who] = HeadOf(m).emoji]]
      BY DEF ReactionReads, HeadOf
    <2>4. [wanted[m] EXCEPT ![HeadOf(m).who] = HeadOf(m).emoji] \in [Reactors -> {"none", "up"}]
      BY <1>0, <2>2 DEF LogTypeOK
    <2> QED BY <1>0, <2>3, <2>4 DEF LogTypeOK
  <1>3. UNCHANGED <<live, deleted, kind, send, draft, row, acks, acked, recv, hist, told, note>>
    BY DEF ReactionReads, session, following, receiving
  <1>4. LogTypeOK' /\ Elsewhere(m)
    <2>1. LogTypeOK'
      BY <1>0, <1>1, <1>2, <1>3 DEF LogTypeOK
    <2>2. Elsewhere(m)
      BY <1>0, <1>1, <1>2, <1>3 DEF LogTypeOK, Elsewhere, ReactionReads
    <2> QED BY <2>1, <2>2
  <1>5. /\ reactionChains[m] \in Seq(Reaction) /\ reactionChains[m] # <<>> /\ HeadOf(m).stage = "waits"
        /\ \/ /\ ~Stored(m) /\ reactionChains'[m] = Tail(reactionChains[m]) /\ wanted'[m] = wanted[m]
              /\ HeadOf(m)' = Head(Tail(reactionChains[m]))
           \/ \E e \in Reaction :
                 /\ Stored(m) /\ e.stage = "read" /\ e.read = row[m]
                 /\ reactionChains'[m] = <<e>> \o Tail(reactionChains[m])
                 /\ wanted'[m] = [wanted[m] EXCEPT ![e.who] = e.emoji]
    <2> DEFINE e == HeadOf(m)
               r == [who |-> e.who, emoji |-> e.emoji, stage |-> "read", read |-> row[m]]
    <2>1. /\ reactionChains[m] \in Seq(Reaction) /\ reactionChains[m] # <<>> /\ row[m] \in LogRows /\ e \in Reaction
      BY <1>0, Leaving DEF LogTypeOK, ReactionReads, HeadOf
    <2>2. r \in Reaction /\ r.stage = "read" /\ r.read = row[m] /\ r.who = e.who /\ r.emoji = e.emoji
      BY <2>1 DEF Reaction
    <2>3. CASE Stored(m)
      <3>1. /\ reactionChains' = [reactionChains EXCEPT ![m] = <<r>> \o Tail(reactionChains[m])]
            /\ wanted' = [wanted EXCEPT ![m] = [wanted[m] EXCEPT ![e.who] = e.emoji]]
            /\ e.stage = "waits"
        BY <2>3 DEF ReactionReads, HeadOf
      <3> HIDE DEF r
      <3>2. /\ reactionChains'[m] = <<r>> \o Tail(reactionChains[m])
            /\ wanted'[m] = [wanted[m] EXCEPT ![r.who] = r.emoji]
        BY <1>0, <2>2, <3>1 DEF LogTypeOK
      <3> QED BY <2>1, <2>2, <2>3, <3>1, <3>2
    <2>4. CASE ~Stored(m)
      <3>1. reactionChains' = [reactionChains EXCEPT ![m] = Tail(reactionChains[m])] /\ wanted' = wanted /\ e.stage = "waits"
        BY <2>4 DEF ReactionReads, HeadOf
      <3>2. reactionChains'[m] = Tail(reactionChains[m])
        BY <1>0, <3>1 DEF LogTypeOK
      <3> QED BY <2>1, <2>4, <3>1, <3>2 DEF HeadOf
    <2> QED BY <2>3, <2>4
  <1> USE <1>0, <1>3, <1>5 DEF Kept, Stored
  <1>6. Origin(m)'
    BY DEF Origin
  <1>7. Unheard(m)'
    BY DEF Unheard, Known
  <1>8. Drafted(m)'
    BY DEF Drafted
  <1>9. Acknowledged(m)'
    BY DEF Acknowledged, Undisturbed, Shows
  <1>10. Reacted(m)'
    <2>1. CASE ~Stored(m) /\ reactionChains'[m] = Tail(reactionChains[m]) /\ wanted'[m] = wanted[m]
      <3>1. \A i \in DOMAIN reactionChains'[m] : reactionChains'[m][i].stage = "waits"
        <4>1. ASSUME NEW i \in DOMAIN reactionChains'[m] PROVE reactionChains'[m][i].stage = "waits"
          <5>1. i + 1 \in DOMAIN reactionChains[m] /\ reactionChains'[m][i] = reactionChains[m][i + 1] /\ i + 1 > 1
            BY <2>1, <4>1, Leaving
          <5> QED BY <5>1 DEF Reacted
        <4> QED BY <4>1
      <3>2. reactionChains'[m] # <<>> => HeadOf(m)'.stage = "waits"
        <4>1. ASSUME reactionChains'[m] # <<>> PROVE HeadOf(m)'.stage = "waits"
          <5>1. 2 \in DOMAIN reactionChains[m] /\ HeadOf(m)' = reactionChains[m][2]
            BY <2>1, <4>1, Leaving DEF HeadOf
          <5> QED BY <5>1 DEF Reacted
        <4> QED BY <4>1
      <3> QED BY <2>1, <3>1, <3>2 DEF Reacted
    <2>2. ASSUME NEW e \in Reaction, Stored(m), e.stage = "read", e.read = row[m],
                 reactionChains'[m] = <<e>> \o Tail(reactionChains[m]),
                 wanted'[m] = [wanted[m] EXCEPT ![e.who] = e.emoji]
          PROVE  Reacted(m)'
      <3>1. /\ reactionChains'[m] # <<>> /\ HeadOf(m)' = e
            /\ \A i \in DOMAIN reactionChains'[m] : i > 1 => i \in DOMAIN reactionChains[m] /\ reactionChains'[m][i] = reactionChains[m][i]
        BY <2>2, Reading DEF HeadOf
      <3> QED BY <2>2, <3>1 DEF Reacted
    <2> QED BY <2>1, <2>2
  <1>11. Announced(m)'
    BY DEF Announced
  <1> QED BY <1>4, <1>6, <1>7, <1>8, <1>9, <1>10, <1>11

LEMMA ReactionWritesStep ==
    ASSUME LogInv, NEW m \in Messages, ReactionWrites(m) PROVE LogTypeOK' /\ Elsewhere(m) /\ Kept(m)'
  <1>0. LogTypeOK /\ Kept(m)
    BY DEF LogInv
  <1>1. reactionChains' \in [Messages -> Seq(Reaction)]
    <2>1. reactionChains[m] \in Seq(Reaction) /\ reactionChains[m] # <<>>
      BY <1>0 DEF LogTypeOK, ReactionWrites
    <2>2. Tail(reactionChains[m]) \in Seq(Reaction)
      BY <2>1, Leaving
    <2>3. reactionChains' = [reactionChains EXCEPT ![m] = Tail(reactionChains[m])]
      BY DEF ReactionWrites
    <2> QED BY <1>0, <2>2, <2>3 DEF LogTypeOK
  <1>2. row' \in [Messages -> LogRows]
    <2> DEFINE e == HeadOf(m)
               f == [e.read.reactions EXCEPT ![e.who] = e.emoji]
    <2>1. e \in Reaction /\ row[m] \in LogRows
      BY <1>0, Leaving DEF LogTypeOK, ReactionWrites, HeadOf
    <2>2. e.read \in LogRows /\ e.who \in Reactors /\ e.emoji \in {"none", "up"}
      BY <2>1 DEF Reaction
    <2>3. f \in [Reactors -> {"none", "up"}]
      BY <2>2 DEF LogRows
    <2>4. row' = row \/ row' = [row EXCEPT ![m] = [row[m] EXCEPT !.reactions = f]]
      BY DEF ReactionWrites, HeadOf, Rewritten
    <2> HIDE DEF f
    <2>5. [row[m] EXCEPT !.reactions = f] \in LogRows
      BY <2>1, <2>3, RowChanges
    <2> QED BY <1>0, <2>4, <2>5 DEF LogTypeOK
  <1>3. Marks(m)
    BY DEF ReactionWrites, Remember, DbFails, Marks, Notes
  <1>4. /\ note' \in [Messages -> SUBSET Notes] /\ note[m] \subseteq note'[m]
         /\ \A o \in Messages \ {m} : note'[o] = note[o]
    BY <1>0, <1>3, NotesGrow DEF LogTypeOK
  <1>5. UNCHANGED <<live, deleted, kind, send, draft, acks, acked, recv, hist, told, wanted>>
    BY DEF ReactionWrites, session, following, receiving
  <1>6. LogTypeOK' /\ Elsewhere(m)
    <2>1. LogTypeOK'
      BY <1>0, <1>1, <1>2, <1>3, <1>4, <1>5 DEF LogTypeOK
    <2>2. Elsewhere(m)
      BY <1>0, <1>1, <1>2, <1>3, <1>4, <1>5 DEF LogTypeOK, Elsewhere, ReactionWrites
    <2> QED BY <2>1, <2>2
  <1>7. /\ reactionChains[m] \in Seq(Reaction) /\ reactionChains[m] # <<>> /\ HeadOf(m).stage = "read"
        /\ reactionChains'[m] = Tail(reactionChains[m])
        /\ row'[m].by = row[m].by /\ row'[m].status = row[m].status
        /\ note'[m] = note[m] \/ note'[m] = note[m] \cup {"db"}
        /\ \/ Stored(m) /\ row'[m].reactions = [HeadOf(m).read.reactions EXCEPT ![HeadOf(m).who] = HeadOf(m).emoji]
           \/ ~Stored(m) /\ row'[m] = row[m]
           \/ "db" \in note'[m]
    <2> DEFINE e == HeadOf(m)
               f == [e.read.reactions EXCEPT ![e.who] = e.emoji]
    <2>1. /\ reactionChains[m] \in Seq(Reaction) /\ reactionChains[m] # <<>> /\ e.stage = "read"
          /\ reactionChains'[m] = Tail(reactionChains[m]) /\ row[m] \in LogRows
      BY <1>0 DEF LogTypeOK, ReactionWrites, HeadOf
    <2>2. \/ Stored(m) /\ row' = [row EXCEPT ![m] = [row[m] EXCEPT !.reactions = f]] /\ note' = note
          \/ ~Stored(m) /\ row' = row /\ note' = note
          \/ row' = row /\ DbFails(m)
      BY DEF ReactionWrites, HeadOf, Rewritten
    <2>3. DbFails(m) => note'[m] = note[m] \cup {"db"}
      BY <1>0 DEF DbFails, Remember, LogTypeOK
    <2> HIDE DEF f
    <2>4. ASSUME row' = [row EXCEPT ![m] = [row[m] EXCEPT !.reactions = f]]
          PROVE  row'[m].by = row[m].by /\ row'[m].status = row[m].status /\ row'[m].reactions = f
      BY <1>0, <2>1, <2>4 DEF LogTypeOK, LogRows
    <2>5. row'[m].by = row[m].by /\ row'[m].status = row[m].status
      BY <2>2, <2>4
    <2> QED BY <2>1, <2>2, <2>3, <2>4, <2>5 DEF f
  <1> USE <1>0, <1>5, <1>7, <1>4, RowsTyped DEF Kept, Stored
  <1>8. Origin(m)'
    BY DEF Origin
  <1>9. Unheard(m)'
    BY DEF Unheard, Known
  <1>10. Drafted(m)'
    BY DEF Drafted
  <1>11. Acknowledged(m)'
    BY DEF Acknowledged, Undisturbed, Shows
  <1>12. Reacted(m)'
    <2>1. \A i \in DOMAIN reactionChains'[m] : reactionChains'[m][i].stage = "waits"
      <3>1. ASSUME NEW i \in DOMAIN reactionChains'[m] PROVE reactionChains'[m][i].stage = "waits"
        <4>1. i + 1 \in DOMAIN reactionChains[m] /\ reactionChains'[m][i] = reactionChains[m][i + 1] /\ i + 1 > 1
          BY <3>1, Leaving
        <4> QED BY <4>1 DEF Reacted
      <3> QED BY <3>1
    <2>2. reactionChains'[m] # <<>> => HeadOf(m)'.stage = "waits"
      <3>1. ASSUME reactionChains'[m] # <<>> PROVE HeadOf(m)'.stage = "waits"
        <4>1. 2 \in DOMAIN reactionChains[m] /\ HeadOf(m)' = reactionChains[m][2]
          BY <3>1, Leaving DEF HeadOf
        <4> QED BY <4>1 DEF Reacted
      <3> QED BY <3>1
    <2> QED BY <2>1, <2>2 DEF Reacted
  <1>13. Announced(m)'
    BY DEF Announced
  <1> QED BY <1>6, <1>8, <1>9, <1>10, <1>11, <1>12, <1>13

-----------------------------------------------------------------------------
(* Inbound messages and history                                             *)

LEMMA FiresStep ==
    ASSUME LogInv, NEW m \in Messages, NEW k \in 1 .. Firings, Fires(m, k) PROVE LogTypeOK' /\ Elsewhere(m) /\ Kept(m)'
  <1>0. LogTypeOK /\ Kept(m)
    BY DEF LogInv
  <1>1. recv' \in [Messages -> [1 .. Firings -> {"idle", "hook", "insert", "done"}]]
    <2>1. \E w \in {"hook", "insert", "done"} : recv' = [recv EXCEPT ![m] = [recv[m] EXCEPT ![k] = w]]
      BY DEF Fires
    <2>2. PICK w \in {"hook", "insert", "done"} : recv' = [recv EXCEPT ![m] = [recv[m] EXCEPT ![k] = w]]
      BY <2>1
    <2>3. [recv[m] EXCEPT ![k] = w] \in [1 .. Firings -> {"idle", "hook", "insert", "done"}]
      BY <1>0 DEF LogTypeOK
    <2> QED BY <1>0, <2>2, <2>3 DEF LogTypeOK
  <1>2. UNCHANGED <<live, deleted, kind, send, draft, row, acks, acked, reactionChains, hist, told, wanted, note>>
    BY DEF Fires, session, following, receiving
  <1>3. LogTypeOK' /\ Elsewhere(m)
    <2>1. LogTypeOK'
      BY <1>0, <1>1, <1>2 DEF LogTypeOK
    <2>2. Elsewhere(m)
      BY <1>0, <1>1, <1>2 DEF LogTypeOK, Elsewhere, Fires
    <2> QED BY <2>1, <2>2
  <1>4. /\ recv[m] \in [1 .. Firings -> {"idle", "hook", "insert", "done"}] /\ kind[m] = "incoming"
        /\ \A j \in 1 .. Firings : j # k => recv'[m][j] = recv[m][j]
        /\ recv'[m][k] = "hook"
    <2>1. recv[m] \in [1 .. Firings -> {"idle", "hook", "insert", "done"}]
      BY <1>0 DEF LogTypeOK
    <2>2. \E w \in {"hook"} : recv'[m] = [recv[m] EXCEPT ![k] = w]
      BY <1>0 DEF LogTypeOK, Fires
    <2>3. \A j \in 1 .. Firings : j # k => recv'[m][j] = recv[m][j]
      BY <2>1, <2>2
    <2>4. recv'[m][k] = "hook" /\ kind[m] = "incoming"
      BY <1>0, <2>1, <2>2 DEF Fires
    <2> QED BY <2>1, <2>3, <2>4
  <1> USE <1>0, <1>2, <1>4 DEF Kept, Stored
  <1>5. Origin(m)'
    BY DEF Origin
  <1>6. Unheard(m)'
    BY DEF Unheard, Known
  <1>7. Drafted(m)'
    BY DEF Drafted
  <1>8. Acknowledged(m)'
    BY DEF Acknowledged, Undisturbed, Shows
  <1>9. Reacted(m)'
    BY DEF Reacted, HeadOf
  <1>10. Announced(m)'
    BY DEF Announced
  <1> QED BY <1>3, <1>5, <1>6, <1>7, <1>8, <1>9, <1>10

LEMMA HookAnsweredStep ==
    ASSUME LogInv, NEW m \in Messages, NEW k \in 1 .. Firings, HookAnswered(m, k) PROVE LogTypeOK' /\ Elsewhere(m) /\ Kept(m)'
  <1>0. LogTypeOK /\ Kept(m)
    BY DEF LogInv
  <1>1. recv' \in [Messages -> [1 .. Firings -> {"idle", "hook", "insert", "done"}]]
    <2>1. \E w \in {"hook", "insert", "done"} : recv' = [recv EXCEPT ![m] = [recv[m] EXCEPT ![k] = w]]
      BY DEF HookAnswered
    <2>2. PICK w \in {"hook", "insert", "done"} : recv' = [recv EXCEPT ![m] = [recv[m] EXCEPT ![k] = w]]
      BY <2>1
    <2>3. [recv[m] EXCEPT ![k] = w] \in [1 .. Firings -> {"idle", "hook", "insert", "done"}]
      BY <1>0 DEF LogTypeOK
    <2> QED BY <1>0, <2>2, <2>3 DEF LogTypeOK
  <1>2. Marks(m)
    BY DEF HookAnswered, Remember, DbFails, Marks, Notes
  <1>3. /\ note' \in [Messages -> SUBSET Notes] /\ note[m] \subseteq note'[m]
         /\ \A o \in Messages \ {m} : note'[o] = note[o]
    BY <1>0, <1>2, NotesGrow DEF LogTypeOK
  <1>4. UNCHANGED <<live, deleted, kind, send, draft, row, acks, acked, reactionChains, hist, told, wanted>>
    BY DEF HookAnswered, session, following, receiving
  <1>5. LogTypeOK' /\ Elsewhere(m)
    <2>1. LogTypeOK'
      BY <1>0, <1>1, <1>2, <1>3, <1>4 DEF LogTypeOK
    <2>2. Elsewhere(m)
      BY <1>0, <1>1, <1>2, <1>3, <1>4 DEF LogTypeOK, Elsewhere, HookAnswered
    <2> QED BY <2>1, <2>2
  <1>6. /\ recv[m] \in [1 .. Firings -> {"idle", "hook", "insert", "done"}] /\ kind[m] = "incoming"
        /\ \A j \in 1 .. Firings : j # k => recv'[m][j] = recv[m][j]
        /\ "db" \in note'[m] <=> "db" \in note[m]
        /\ "slow" \in note'[m] <=> "slow" \in note[m]
        /\ \/ recv'[m][k] = "done" /\ ("stopped" \in note'[m] \/ "retired" \in note'[m])
           \/ recv'[m][k] = "insert" /\ live
    <2>1. recv[m] \in [1 .. Firings -> {"idle", "hook", "insert", "done"}]
      BY <1>0 DEF LogTypeOK
    <2>2. \E w \in {"insert", "done"} : recv'[m] = [recv[m] EXCEPT ![k] = w]
      BY <1>0 DEF LogTypeOK, HookAnswered
    <2>3. \A j \in 1 .. Firings : j # k => recv'[m][j] = recv[m][j]
      BY <2>1, <2>2
    <2>4. recv[m][k] = "hook" /\ kind[m] = "incoming"
      BY <1>0, <2>1 DEF HookAnswered, Announced, Kept
    <2>5. /\ "db" \in note'[m] <=> "db" \in note[m]
          /\ "slow" \in note'[m] <=> "slow" \in note[m]
      BY <1>0 DEF HookAnswered, Remember, LogTypeOK
    <2>6. \/ recv'[m][k] = "done" /\ ("stopped" \in note'[m] \/ "retired" \in note'[m])
          \/ recv'[m][k] = "insert" /\ live
      <3>1. \A w : recv' = [recv EXCEPT ![m][k] = w] => recv'[m][k] = w
        <4>1. ASSUME NEW w, recv' = [recv EXCEPT ![m][k] = w] PROVE recv'[m][k] = w
          <5>1. recv'[m] = [recv[m] EXCEPT ![k] = w]
            BY <1>0, <4>1 DEF LogTypeOK
          <5> QED BY <2>1, <5>1
        <4> QED BY <4>1
      <3>2. \A w : Remember(m, w) => w \in note'[m]
        BY <1>0 DEF Remember, LogTypeOK
      <3> QED BY <3>1, <3>2 DEF HookAnswered, Proceeds
    <2> QED BY <2>1, <2>3, <2>4, <2>5, <2>6
  <1> USE <1>0, <1>4, <1>6, <1>3 DEF Kept, Stored
  <1>7. Origin(m)'
    BY DEF Origin
  <1>8. Unheard(m)'
    BY DEF Unheard, Known
  <1>9. Drafted(m)'
    BY DEF Drafted
  <1>10. Acknowledged(m)'
    BY DEF Acknowledged, Undisturbed, Shows
  <1>11. Reacted(m)'
    BY DEF Reacted, HeadOf
  <1>12. Announced(m)'
    BY DEF Announced, Origin
  <1> QED BY <1>5, <1>7, <1>8, <1>9, <1>10, <1>11, <1>12

LEMMA InsertedStep ==
    ASSUME LogInv, NEW m \in Messages, NEW k \in 1 .. Firings, Inserted(m, k) PROVE LogTypeOK' /\ Elsewhere(m) /\ Kept(m)'
  <1>0. LogTypeOK /\ Kept(m)
    BY DEF LogInv
  <1>1. recv' \in [Messages -> [1 .. Firings -> {"idle", "hook", "insert", "done"}]]
    <2>1. \E w \in {"hook", "insert", "done"} : recv' = [recv EXCEPT ![m] = [recv[m] EXCEPT ![k] = w]]
      BY DEF Inserted
    <2>2. PICK w \in {"hook", "insert", "done"} : recv' = [recv EXCEPT ![m] = [recv[m] EXCEPT ![k] = w]]
      BY <2>1
    <2>3. [recv[m] EXCEPT ![k] = w] \in [1 .. Firings -> {"idle", "hook", "insert", "done"}]
      BY <1>0 DEF LogTypeOK
    <2> QED BY <1>0, <2>2, <2>3 DEF LogTypeOK
  <1>2. row' \in [Messages -> LogRows]
    <2>1. row' = row \/ row' = [row EXCEPT ![m] = NewRow("live")]
      BY DEF Inserted
    <2> QED BY <1>0, <2>1, RowsTyped DEF LogTypeOK
  <1>3. told' \in [Messages -> Nat]
    <2>1. told' = told \/ told' = [told EXCEPT ![m] = @ + 1]
      BY DEF Inserted
    <2> QED BY <1>0, <2>1 DEF LogTypeOK
  <1>4. Marks(m)
    BY DEF Inserted, Remember, DbFails, Marks, Notes
  <1>5. /\ note' \in [Messages -> SUBSET Notes] /\ note[m] \subseteq note'[m]
         /\ \A o \in Messages \ {m} : note'[o] = note[o]
    BY <1>0, <1>4, NotesGrow DEF LogTypeOK
  <1>6. UNCHANGED <<live, deleted, kind, send, draft, acks, acked, reactionChains, hist, wanted>>
    BY DEF Inserted, session, following, receiving
  <1>7. LogTypeOK' /\ Elsewhere(m)
    <2>1. LogTypeOK'
      BY <1>0, <1>1, <1>2, <1>3, <1>4, <1>5, <1>6 DEF LogTypeOK
    <2>2. Elsewhere(m)
      BY <1>0, <1>1, <1>2, <1>3, <1>4, <1>5, <1>6 DEF LogTypeOK, Elsewhere, Inserted
    <2> QED BY <2>1, <2>2
  <1>8. /\ recv[m] \in [1 .. Firings -> {"idle", "hook", "insert", "done"}] /\ kind[m] = "incoming"
        /\ \A j \in 1 .. Firings : j # k => recv'[m][j] = recv[m][j]
        /\ recv'[m][k] = "done" /\ recv[m][k] = "insert" /\ ~deleted
        /\ note'[m] = note[m] \/ note'[m] = note[m] \cup {"db"}
        /\ told[m] \in Nat /\ told'[m] \in Nat
        /\ \/ Stored(m) /\ row'[m] = row[m] /\ told'[m] = told[m]
           \/ ~Stored(m) /\ row'[m] = NewRow("live") /\ told'[m] = told[m] + 1
           \/ row'[m] = row[m] /\ told'[m] = told[m] + 1 /\ "db" \in note'[m]
    <2>1. recv[m] \in [1 .. Firings -> {"idle", "hook", "insert", "done"}]
      BY <1>0 DEF LogTypeOK
    <2>2. \E w \in {"done"} : recv'[m] = [recv[m] EXCEPT ![k] = w]
      BY <1>0 DEF LogTypeOK, Inserted
    <2>3. \A j \in 1 .. Firings : j # k => recv'[m][j] = recv[m][j]
      BY <2>1, <2>2
    <2>4. recv[m][k] = "insert" /\ kind[m] = "incoming" /\ ~deleted /\ recv'[m][k] = "done"
      BY <1>0, <2>1, <2>2 DEF Inserted, Announced, Kept
    <2>5. /\ note'[m] = note[m] \/ note'[m] = note[m] \cup {"db"}
          /\ told[m] \in Nat /\ told'[m] \in Nat
          /\ \/ Stored(m) /\ row'[m] = row[m] /\ told'[m] = told[m]
             \/ ~Stored(m) /\ row'[m] = NewRow("live") /\ told'[m] = told[m] + 1
             \/ row'[m] = row[m] /\ told'[m] = told[m] + 1 /\ "db" \in note'[m]
      BY <1>0 DEF Inserted, LogTypeOK, DbFails, Remember
    <2> QED BY <2>1, <2>3, <2>4, <2>5
  <1> USE <1>0, <1>6, <1>8, <1>5, RowsTyped DEF Kept, Stored
  <1>9. Origin(m)'
    BY DEF Origin
  <1>10. Unheard(m)'
    BY DEF Unheard, Known
  <1>11. Drafted(m)'
    BY DEF Drafted
  <1>12. Acknowledged(m)'
    BY DEF Acknowledged, Undisturbed, Shows
  <1>13. Reacted(m)'
    BY DEF Reacted, HeadOf
  <1>14. Announced(m)'
    BY IncomingSendsNothing DEF Announced, Origin, LogTypeOK
  <1> QED BY <1>7, <1>9, <1>10, <1>11, <1>12, <1>13, <1>14

LEMMA HistoryReadsStep ==
    ASSUME LogInv, NEW m \in Messages, HistoryReads(m) PROVE LogTypeOK' /\ Elsewhere(m) /\ Kept(m)'
  <1>0. LogTypeOK /\ Kept(m)
    BY DEF LogInv
  <1>1. hist' \in [Messages -> {"idle", "insert"}]
    BY <1>0 DEF LogTypeOK, HistoryReads, At, SendStages
  <1>2. UNCHANGED <<live, deleted, kind, send, draft, row, acks, acked, reactionChains, recv, told, wanted, note>>
    BY DEF HistoryReads, session, following, receiving
  <1>3. LogTypeOK' /\ Elsewhere(m)
    <2>1. LogTypeOK'
      BY <1>0, <1>1, <1>2 DEF LogTypeOK
    <2>2. Elsewhere(m)
      BY <1>0, <1>1, <1>2 DEF LogTypeOK, Elsewhere, HistoryReads
    <2> QED BY <2>1, <2>2
  <1>4. /\ Known(m)
    BY <1>0 DEF LogTypeOK, HistoryReads, At
  <1> USE <1>0, <1>2, <1>4 DEF Kept, Stored
  <1>5. Origin(m)'
    BY DEF Origin
  <1>6. Unheard(m)'
    BY DEF Unheard, Known
  <1>7. Drafted(m)'
    BY DEF Drafted
  <1>8. Acknowledged(m)'
    BY DEF Acknowledged, Undisturbed, Shows
  <1>9. Reacted(m)'
    BY DEF Reacted, HeadOf
  <1>10. Announced(m)'
    BY DEF Announced
  <1> QED BY <1>3, <1>5, <1>6, <1>7, <1>8, <1>9, <1>10

LEMMA HistoryInsertsStep ==
    ASSUME LogInv, NEW m \in Messages, HistoryInserts(m) PROVE LogTypeOK' /\ Elsewhere(m) /\ Kept(m)'
  <1>0. LogTypeOK /\ Kept(m)
    BY DEF LogInv
  <1>1. row' \in [Messages -> LogRows]
    <2>1. row' = row \/ row' = [row EXCEPT ![m] = NewRow("history")]
      BY DEF HistoryInserts
    <2> QED BY <1>0, <2>1, RowsTyped DEF LogTypeOK
  <1>2. hist' \in [Messages -> {"idle", "insert"}]
    BY <1>0 DEF LogTypeOK, HistoryInserts, At, SendStages
  <1>3. Marks(m)
    BY DEF HistoryInserts, Remember, DbFails, Marks, Notes
  <1>4. /\ note' \in [Messages -> SUBSET Notes] /\ note[m] \subseteq note'[m]
         /\ \A o \in Messages \ {m} : note'[o] = note[o]
    BY <1>0, <1>3, NotesGrow DEF LogTypeOK
  <1>5. UNCHANGED <<live, deleted, kind, send, draft, acks, acked, reactionChains, recv, told, wanted>>
    BY DEF HistoryInserts, session, following, receiving
  <1>6. LogTypeOK' /\ Elsewhere(m)
    <2>1. LogTypeOK'
      BY <1>0, <1>1, <1>2, <1>3, <1>4, <1>5 DEF LogTypeOK
    <2>2. Elsewhere(m)
      BY <1>0, <1>1, <1>2, <1>3, <1>4, <1>5 DEF LogTypeOK, Elsewhere, HistoryInserts
    <2> QED BY <2>1, <2>2
  <1>7. /\ hist[m] = "insert"
        /\ \/ ~Stored(m) /\ row'[m] = NewRow("history") /\ note'[m] = note[m] \cup {"history"}
           \/ row'[m] = row[m] /\ (note'[m] = note[m] \/ note'[m] = note[m] \cup {"db"})
    BY <1>0, RowsTyped DEF LogTypeOK, HistoryInserts, DbFails, Remember
  <1> USE <1>0, <1>5, <1>7, <1>4, RowsTyped DEF Kept, Stored
  <1>8. Origin(m)'
    BY DEF Origin
  <1>9. Unheard(m)'
    BY DEF Unheard, Known
  <1>10. Drafted(m)'
    BY DEF Drafted
  <1>11. Acknowledged(m)'
    BY DEF Acknowledged, Undisturbed, Shows
  <1>12. Reacted(m)'
    BY DEF Reacted, HeadOf
  <1>13. Announced(m)'
    BY DEF Announced
  <1> QED BY <1>6, <1>8, <1>9, <1>10, <1>11, <1>12, <1>13

-----------------------------------------------------------------------------
(* The session                                                              *)

LEMMA RetireStep == ASSUME LogInv, Retire PROVE LogInv'
  <1>1. live' = FALSE /\ UNCHANGED <<deleted, kind, send, draft, row, acks, acked, reactionChains, recv, hist, told, wanted, note>>
    BY DEF Retire, following, receiving
  <1>2. LogTypeOK'
    BY <1>1 DEF LogInv, LogTypeOK
  <1>3. ASSUME NEW m \in Messages PROVE Kept(m)'
    BY <1>1, OthersStayKept DEF LogInv
  <1> QED BY <1>2, <1>3 DEF LogInv

\* The rows go, and nothing is about to be inserted.
LEMMA DropStep == ASSUME LogInv, DropMessages PROVE LogInv'
  <1>0. LogTypeOK
    BY DEF LogInv
  <1>1. /\ deleted' /\ ~live /\ UNCHANGED <<live, kind, send, acks, acked, reactionChains, recv, hist, told, wanted, note>>
        /\ \A m \in Messages : row'[m] = NoRow /\ draft'[m] = "none" /\ \A k \in 1 .. Firings : recv[m][k] # "insert"
    BY DEF DropMessages, following, receiving
  <1>2. NoRow \in LogRows /\ NoRow.by = "none" /\ NoRow.status = "none" /\ NoRow.reactions = [c \in Reactors |-> "none"]
    BY DEF NoRow, LogRows, Statuses
  <1>3. LogTypeOK'
    <2>1. row' \in [Messages -> LogRows] /\ draft' \in [Messages -> {"none", "pending", "failed", "sent"}]
      BY <1>2 DEF DropMessages
    <2>2. deleted' \in BOOLEAN
      BY DEF DropMessages
    <2> QED BY <1>0, <1>1, <2>1, <2>2 DEF LogTypeOK
  <1>4. ASSUME NEW m \in Messages PROVE Kept(m)'
    <2>1. Kept(m) /\ row'[m].by = "none" /\ row'[m].status = "none" /\ draft'[m] = "none"
      BY <1>1, <1>2 DEF LogInv
    <2> USE <1>1, <2>1 DEF Kept, Stored
    <2>2. Origin(m)'
      BY DEF Origin
    <2>3. Unheard(m)'
      BY DEF Unheard, Known
    <2>4. Drafted(m)'
      BY DEF Drafted
    <2>5. Acknowledged(m)'
      BY DEF Acknowledged, Undisturbed, Shows
    <2>6. Reacted(m)'
      BY DEF Reacted, HeadOf
    <2>7. Announced(m)'
      BY DEF Announced
    <2> QED BY <2>2, <2>3, <2>4, <2>5, <2>6, <2>7
  <1> QED BY <1>3, <1>4 DEF LogInv

\* A step about one message.
About(m) ==
    \/ Gate(m) \/ SaveDraft(m) \/ EngineAccepts(m) \/ EngineRejects(m) \/ FailSend(m) \/ PersistSent(m)
    \/ \E t \in Upgrades : AckArrives(m, t)
    \/ \E a \in acks[m] : AckApplied(m, a) \/ AckRetries(m, a)
    \/ Revoke(m)
    \/ \E c \in Reactors : ReactionArrives(m, c)
    \/ ReactionReads(m) \/ ReactionWrites(m)
    \/ \E k \in 1 .. Firings : Fires(m, k) \/ HookAnswered(m, k) \/ Inserted(m, k)
    \/ HistoryReads(m) \/ HistoryInserts(m)

\* Every step keeps the invariant.
LEMMA LogStep == ASSUME LogInv, [LogNext]_logVars PROVE LogInv'
  <1>1. ASSUME NEW m \in Messages, About(m) PROVE LogInv'
    <2>1. LogTypeOK' /\ Elsewhere(m) /\ Kept(m)'
      BY <1>1, GateStep, SaveDraftStep, EngineAcceptsStep, EngineRejectsStep, FailSendStep, PersistSentStep,
         AckArrivesStep, AckAppliedStep, AckRetriesStep, RevokeStep, ReactionArrivesStep, ReactionReadsStep,
         ReactionWritesStep, FiresStep, HookAnsweredStep, InsertedStep, HistoryReadsStep, HistoryInsertsStep
      DEF About
    <2>2. ASSUME NEW o \in Messages, o # m PROVE Kept(o)'
      BY <2>1, <2>2, OthersStayKept DEF LogInv, Elsewhere
    <2> QED BY <2>1, <2>2 DEF LogInv
  <1>2. CASE Retire
    BY <1>2, RetireStep
  <1>3. CASE DropMessages
    BY <1>3, DropStep
  <1>4. CASE UNCHANGED logVars
    <2>1. LogTypeOK'
      BY <1>4 DEF LogInv, LogTypeOK, logVars
    <2>2. ASSUME NEW m \in Messages PROVE Kept(m)'
      BY <1>4, OthersStayKept DEF LogInv, logVars
    <2> QED BY <2>1, <2>2 DEF LogInv
  <1> QED BY <1>1, <1>2, <1>3, <1>4 DEF LogNext, About

\* What the invariant says of the rows once all is quiet.
LEMMA KeptIsTrue == LogInv => LogIsTrue
  <1> SUFFICES ASSUME LogInv PROVE LogIsTrue
    OBVIOUS
  <1> USE DEF LogInv, Kept
  <1>1. ASSUME NEW m \in Messages, send[m] = "answered", acks[m] = {}, row[m].by = "send", Undisturbed(m)
        PROVE  \/ row[m].status = "failed" /\ "failed" \in acked[m]
               \/ \A t \in acked[m] \ {"failed"} : Ranks[row[m].status] >= Ranks[t]
    BY <1>1 DEF Acknowledged, Shows, Origin
  <1>2. AckReflected
    BY <1>1 DEF AckReflected, Undisturbed
  <1>3. ReactionsKept
    BY DEF ReactionsKept, Reacted
  <1>4. ToldOnce
    <2>1. ASSUME NEW m \in Messages, "db" \notin note[m] PROVE ~(told[m] > 1)
      <3>1. told[m] \in Nat
        BY DEF LogTypeOK
      <3>2. told[m] > 0 => told[m] = 1
        BY <2>1 DEF Announced
      <3> QED BY <3>1, <3>2
    <2> QED BY <2>1 DEF ToldOnce
  <1>5. NeverUntold
    <2>1. ASSUME NEW m \in Messages, note[m] \cap {"stopped", "retired", "history"} = {}, Firings > 0, recv[m][1] = "done"
          PROVE  told[m] > 0
      <3>1. 1 \in 1 .. Firings
        BY <2>1, LogAssumption
      <3> QED BY <2>1, <3>1 DEF Announced
    <2>2. Firings = 0 \/ Firings > 0
      BY LogAssumption
    <2> QED BY <2>1, <2>2 DEF NeverUntold
  <1>6. AcceptedNeverFails
    <2>1. ASSUME NEW m \in Messages, send[m] = "failing" PROVE "db" \notin note[m]
      BY <2>1, IncomingSendsNothing DEF Unheard, Known, Origin
    <2>2. ASSUME NEW m \in Messages
          PROVE  /\ draft[m] = "failed" => send[m] = "rejected"
                 /\ send[m] \in {"failing", "rejected"} => ~Stored(m) \/ row[m].by # "send"
                 /\ row[m].status = "failed" => "failed" \in acked[m]
      BY DEF Drafted, Origin, Acknowledged
    <2> QED BY <2>1, <2>2 DEF AcceptedNeverFails
  <1>7. PendingIsExplained
    BY DEF PendingIsExplained, Drafted
  <1>8. NoOrphanRow
    BY DEF NoOrphanRow, Origin
  <1> QED BY <1>2, <1>3, <1>4, <1>5, <1>6, <1>7, <1>8 DEF LogIsTrue, EventsReachTheRow, AnnouncedOnce, RowsTellTheTruth

-----------------------------------------------------------------------------

\* Whatever fails, the invariant holds in every state.
THEOREM LogStaysKept == LogSpec => []LogInv
  BY InitLog, LogStep, PTL DEF LogSpec

\* For any messages, contacts and faults: acknowledgements and reactions reach the row in whatever order they
\* arrive, a message reported twice is announced once, and the rows tell what became of the sends.
THEOREM LogStaysTrue == LogSpec => []LogIsTrue
  BY LogStaysKept, KeptIsTrue, PTL

\* What a step may do to a stored row.
Advances(m) ==
    Stored(m) /\ Stored(m)' =>
       /\ row'[m].status \in {row[m].status} \cup {t \in Upgrades : row[m].status \in TransitionFrom(t)}
       /\ Ranks[row[m].status] <= Ranks[row'[m].status]
       /\ row[m].revoked => row'[m].revoked

LEMMA SameAdvances ==
    ASSUME LogInv, NEW m \in Messages, row'[m].status = row[m].status, row[m].revoked => row'[m].revoked
    PROVE  Advances(m)
  <1>1. Stored(m) => Ranks[row[m].status] \in Nat
    BY TransitionsClimb DEF LogInv, LogTypeOK, LogRows, Kept, Origin
  <1> QED BY <1>1 DEF Advances

LEMMA AdvanceStep == ASSUME LogInv, [LogNext]_logVars, NEW m \in Messages PROVE Advances(m)
  <1>0. LogTypeOK /\ row[m] \in LogRows
    BY DEF LogInv, LogTypeOK
  <1>1. CASE row'[m] = row[m]
    BY <1>1, SameAdvances
  <1>2. ASSUME NEW a \in acks[m], AckApplied(m, a) PROVE Advances(m)
    <2>1. CASE ~(Stored(m) /\ row[m].status \in TransitionFrom(a.to))
      <3>1. row' = row
        BY <1>2, <2>1 DEF AckApplied
      <3> QED BY <3>1, <1>1
    <2>2. CASE row' = [row EXCEPT ![m] = [row[m] EXCEPT !.status = a.to]] /\ row[m].status \in TransitionFrom(a.to)
      <3>1. row'[m].status = a.to /\ row'[m].revoked = row[m].revoked
        BY <1>0, <2>2 DEF LogTypeOK, LogRows
      <3>2. a.to \in Upgrades /\ row[m].status \in Statuses
        BY <1>0 DEF LogTypeOK, LogRows
      <3>3. Ranks[a.to] \in Nat /\ Ranks[row[m].status] \in Nat /\ Ranks[row[m].status] < Ranks[a.to]
        BY <2>2, <3>2, TransitionsClimb
      <3> QED BY <2>2, <3>1, <3>2, <3>3 DEF Advances
    <2>3. CASE row' = row
      BY <2>3, <1>1
    <2> QED BY <1>2, <2>1, <2>2, <2>3 DEF AckApplied
  <1>3. CASE Revoke(m)
    <2>1. row'[m] = [row[m] EXCEPT !.revoked = TRUE]
      BY <1>0, <1>3 DEF Revoke, LogTypeOK
    <2>2. row'[m].status = row[m].status /\ row'[m].revoked
      BY <1>0, <2>1 DEF LogRows
    <2> QED BY <2>2, SameAdvances
  <1>4. CASE ReactionWrites(m)
    <2>1. \/ row' = row
          \/ \E f : row' = [row EXCEPT ![m] = [row[m] EXCEPT !.reactions = f]]
      BY <1>4 DEF ReactionWrites, Rewritten
    <2>2. ASSUME NEW f, row' = [row EXCEPT ![m] = [row[m] EXCEPT !.reactions = f]]
          PROVE  row'[m].status = row[m].status /\ row'[m].revoked = row[m].revoked
      BY <1>0, <2>2 DEF LogTypeOK, LogRows
    <2>3. row'[m].status = row[m].status /\ row'[m].revoked = row[m].revoked
      BY <2>1, <2>2
    <2> QED BY <2>3, SameAdvances
  <1>5. CASE PersistSent(m) \/ HistoryInserts(m) \/ \E k \in 1 .. Firings : Inserted(m, k)
    <2>1. ~Stored(m) \/ row' = row
      BY <1>5 DEF PersistSent, HistoryInserts, Inserted
    <2> QED BY <2>1, <1>1 DEF Advances
  <1>6. CASE DropMessages
    <2>1. ~Stored(m)'
      BY <1>6 DEF DropMessages, NoRow, Stored
    <2> QED BY <2>1 DEF Advances
  <1>7. ASSUME NEW o \in Messages, o # m, About(o) PROVE Advances(m)
    <2>1. Elsewhere(o)
      BY <1>7, GateStep, SaveDraftStep, EngineAcceptsStep, EngineRejectsStep, FailSendStep, PersistSentStep,
         AckArrivesStep, AckAppliedStep, AckRetriesStep, RevokeStep, ReactionArrivesStep, ReactionReadsStep,
         ReactionWritesStep, FiresStep, HookAnsweredStep, InsertedStep, HistoryReadsStep, HistoryInsertsStep
      DEF About
    <2>2. row'[m] = row[m]
      BY <1>7, <2>1 DEF Elsewhere
    <2> QED BY <2>2, <1>1
  <1>8. ASSUME About(m), row'[m] # row[m] PROVE Advances(m)
    <2>1. \/ (\E a \in acks[m] : AckApplied(m, a)) \/ Revoke(m) \/ ReactionWrites(m)
          \/ PersistSent(m) \/ HistoryInserts(m) \/ \E k \in 1 .. Firings : Inserted(m, k)
      BY <1>8 DEF About, Gate, SaveDraft, EngineAccepts, EngineRejects, FailSend, AckArrives, AckRetries,
                  ReactionArrives, ReactionReads, Fires, HookAnswered, HistoryReads
    <2> QED BY <2>1, <1>2, <1>3, <1>4, <1>5
  <1>9. CASE Retire \/ UNCHANGED logVars
    <2>1. row' = row
      BY <1>9 DEF Retire, logVars
    <2> QED BY <2>1, <1>1
  <1> QED BY <1>1, <1>6, <1>7, <1>8, <1>9 DEF LogNext, About

\* For any messages and faults: the status of a stored row follows a transition, its rank never falls, and what
\* was revoked stays revoked, although acknowledgements, reactions and revocations write without waiting.
THEOREM DeliveryOnlyAdvances == LogSpec => DeliveryAdvances
  <1>1. LogInv /\ [LogNext]_logVars =>
          [\A m \in Messages :
             Stored(m) /\ Stored(m)' =>
                /\ row'[m].status \in {row[m].status} \cup {t \in Upgrades : row[m].status \in TransitionFrom(t)}
                /\ Ranks[row[m].status] <= Ranks[row'[m].status]
                /\ row[m].revoked => row'[m].revoked]_logVars
    BY AdvanceStep DEF Advances
  <1> QED BY <1>1, InitLog, LogStep, PTL DEF LogSpec, DeliveryAdvances

====
