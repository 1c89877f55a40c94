------------------------------ MODULE MessageLog ------------------------------
(***************************************************************************)
(* The messages table: src/modules/message/message.service (sends) and the *)
(* message callbacks of src/modules/session/session.service (live and      *)
(* historic messages, acknowledgements, revocations, reactions).           *)
(*                                                                         *)
(* One action is the code between two awaits.  A message is a WhatsApp id: *)
(* row[m] is the row stored under it, which UNIQUE(sessionId, waMessageId) *)
(* makes the only one; draft[m] is the row of a send that has no id yet.   *)
(***************************************************************************)
EXTENDS Integers, Sequences, FiniteSets

CONSTANTS
    Messages,
    Kinds,        \* which of the senders, and "incoming", the messages come from
    Reactors,     \* contacts that react to a message
    MaxReactions, \* bound: reactions of a message that wait
    MaxAcks,      \* bound: acknowledgements reported per message
    Firings,      \* bound: how often the engine reports one inbound message
    LogFaults     \* which of "db" (a statement about a message fails, once), "slow" (the save of an id outlasts the retry of an ack) may happen

ASSUME LogAssumption ==
    /\ IsFiniteSet(Messages)
    /\ Firings \in Nat /\ MaxReactions \in Nat /\ MaxAcks \in Nat
    /\ LogFaults \subseteq {"db", "slow"}

\* What the senders do differently: refuse their input after the gate (media), and end with an engine
\* result that may lack an id (forward).  A bulk item has no draft: its row is written after the send.
Sender(drafts, validates, idless) == [drafts |-> drafts, validates |-> validates, idless |-> idless]
SendText     == Sender(TRUE, FALSE, FALSE)
SendTemplate == SendText
SendImage    == Sender(TRUE, TRUE, FALSE)
SendVideo    == Sender(TRUE, TRUE, FALSE)
SendAudio    == Sender(TRUE, TRUE, FALSE)
SendDocument == Sender(TRUE, TRUE, FALSE)
SendSticker  == Sender(TRUE, TRUE, FALSE)
SendLocation == Sender(TRUE, FALSE, FALSE)
SendContact  == Sender(TRUE, FALSE, FALSE)
SendPoll     == Sender(TRUE, FALSE, FALSE)
Reply        == Sender(TRUE, FALSE, FALSE)
Forward      == Sender(TRUE, FALSE, TRUE)
BulkItem     == Sender(FALSE, FALSE, FALSE)

Senders == [text |-> SendText, template |-> SendTemplate, image |-> SendImage, video |-> SendVideo,
            audio |-> SendAudio, document |-> SendDocument, sticker |-> SendSticker,
            location |-> SendLocation, contact |-> SendContact, poll |-> SendPoll,
            reply |-> Reply, forward |-> Forward, bulk |-> BulkItem]

VARIABLES
    live,     \* is the engine of the callbacks the registered one?
    deleted,  \* has delete() dropped the rows of the session?
    kind,     \* per message: its sender, or "incoming"
    send,     \* per message: where its send waits
    draft,    \* per message: status of the row without an id, "none" if there is none
    row,      \* per message: the row stored under its id
    acks,     \* per message: acknowledgements whose update is in flight
    acked,    \* history: the acknowledgements the engine has reported
    reactionChains, \* per message: reactions waiting for their turn; the head may have read the row
    recv,     \* per message and report of the engine: where onMessage() waits
    hist,     \* per message: where the history batch that contains it waits
    told,     \* history: how often webhooks and sockets were told of an inbound message
    wanted,   \* history: per message and contact, the last reaction its chain has begun to apply
    note      \* history: per message, what the environment did: "db", "slow", "stopped", "retired", "history", "blocked", "invalid"

logVars == <<live, deleted, kind, send, draft, row, acks, acked, reactionChains, recv, hist, told, wanted, note>>

Ranks == [sent |-> 1, delivered |-> 2, read |-> 3, failed |-> 4]
NoRow == [by |-> "none", status |-> "none", revoked |-> FALSE, reactions |-> [c \in Reactors |-> "none"]]
NewRow(by) == [by |-> by, status |-> "sent", revoked |-> FALSE, reactions |-> [c \in Reactors |-> "none"]]
Stored(m) == row[m].by # "none"

LogInit ==
    /\ live = TRUE /\ deleted = FALSE
    /\ kind \in [Messages -> Kinds]
    /\ send = [m \in Messages |-> "idle"]
    /\ draft = [m \in Messages |-> "none"]
    /\ row = [m \in Messages |-> NoRow]
    /\ acks = [m \in Messages |-> {}]
    /\ acked = [m \in Messages |-> {}]
    /\ reactionChains = [m \in Messages |-> <<>>]
    /\ recv = [m \in Messages |-> [k \in 1 .. Firings |-> "idle"]]
    /\ hist = [m \in Messages |-> "idle"]
    /\ told = [m \in Messages |-> 0]
    /\ wanted = [m \in Messages |-> [c \in Reactors |-> "none"]]
    /\ note = [m \in Messages |-> {}]

Outgoing(m) == kind[m] \in DOMAIN Senders
Remember(m, what) == note' = [note EXCEPT ![m] = @ \cup {what}]
\* A statement about message m fails, once.
DbFails(m) == "db" \in LogFaults /\ "db" \notin note[m] /\ Remember(m, "db")
At(m, from, to) == send[m] = from /\ send' = [send EXCEPT ![m] = to]

receiving == <<recv, hist, told>>
following == <<acks, acked, reactionChains, wanted>>
session   == <<live, deleted, kind>>

-----------------------------------------------------------------------------
(* Sends                                                                    *)

\* The message:sending hook has let the message pass; the engine is looked up and the input checked
\* before anything is stored.
Gate(m) ==
    /\ Outgoing(m)
    /\ \/ live /\ At(m, "idle", IF Senders[kind[m]].drafts THEN "gated" ELSE "sending") /\ UNCHANGED note
       \/ At(m, "idle", "rejected") /\ Remember(m, "blocked")
       \/ ~live /\ At(m, "idle", "rejected") /\ UNCHANGED note
       \/ Senders[kind[m]].validates /\ At(m, "idle", "rejected") /\ Remember(m, "invalid")
    /\ UNCHANGED <<session, draft, row, following, receiving>>

\* saveOutgoingMessage(): the PENDING row, or no session any more.
SaveDraft(m) ==
    /\ \/ ~deleted /\ At(m, "gated", "sending") /\ draft' = [draft EXCEPT ![m] = "pending"] /\ UNCHANGED note
       \/ deleted /\ At(m, "gated", "rejected") /\ UNCHANGED <<draft, note>>
       \/ DbFails(m) /\ At(m, "gated", "rejected") /\ UNCHANGED draft
    /\ UNCHANGED <<session, row, following, receiving>>

\* The engine has taken the message; only now may acknowledgements of it arrive.
EngineAccepts(m) ==
    /\ live
    /\ \/ At(m, "sending", "accepted")
       \/ At(m, "sending", "acceptedNoId") /\ Senders[kind[m]].idless
    /\ UNCHANGED <<session, draft, row, following, receiving, note>>

EngineRejects(m) ==
    /\ At(m, "sending", IF Senders[kind[m]].drafts THEN "failing" ELSE "rejected")
    /\ UNCHANGED <<session, draft, row, following, receiving, note>>

\* failSend(): the draft becomes FAILED; the caller gets the error either way.
FailSend(m) ==
    /\ At(m, "failing", "rejected")
    /\ \/ draft' = [draft EXCEPT ![m] = IF @ = "none" THEN @ ELSE "failed"] /\ UNCHANGED note
       \/ DbFails(m) /\ UNCHANGED draft
    /\ UNCHANGED <<session, row, following, receiving>>

\* persistSentState(), and saveOutgoingMessage() of a bulk item: the row takes the id and SENT.  A
\* failing save (a history batch may have stored the id first) is only logged.
PersistSent(m) ==
    /\ \/ /\ At(m, "accepted", "answered")
          /\ \/ ~deleted /\ ~Stored(m) /\ row' = [row EXCEPT ![m] = NewRow("send")]
                /\ draft' = [draft EXCEPT ![m] = "none"] /\ UNCHANGED note
             \/ (deleted \/ Stored(m)) /\ UNCHANGED <<draft, row, note>>
             \/ DbFails(m) /\ UNCHANGED <<draft, row>>
       \/ /\ At(m, "acceptedNoId", "answered")
          /\ \/ draft' = [draft EXCEPT ![m] = IF @ = "none" THEN @ ELSE "sent"] /\ UNCHANGED note
             \/ DbFails(m) /\ UNCHANGED draft
          /\ UNCHANGED row
    /\ UNCHANGED <<session, following, receiving>>

-----------------------------------------------------------------------------
(* Acknowledgements, revocations and reactions                              *)

Known(m) == kind[m] = "incoming" \/ send[m] \in {"accepted", "acceptedNoId", "answered"}

\* deliveryStatusToMessageStatus(): the reports that change the stored status.
Upgrades == {"delivered", "read", "failed"}

\* ackStatusTransitionFrom(): a stored row is past PENDING.
TransitionFrom(t) ==
    CASE t = "delivered" -> {"pending", "sent"}
      [] t = "read"      -> {"pending", "sent", "delivered"}
      [] t = "failed"    -> {"pending", "sent"}

AckArrives(m, t) ==
    /\ live /\ Outgoing(m) /\ Known(m) /\ t \notin acked[m] /\ Cardinality(acked[m]) < MaxAcks
    /\ acked' = [acked EXCEPT ![m] = @ \cup {t}]
    /\ acks' = [acks EXCEPT ![m] = @ \cup {[to |-> t, try |-> 1]}]
    /\ UNCHANGED <<session, send, draft, row, reactionChains, wanted, receiving, note>>

\* The guarded UPDATE: it finds the row or not; an update that finds none is tried once more.
AckApplied(m, a) ==
    /\ a \in acks[m] /\ a.try \in 1 .. 2
    /\ LET hits == Stored(m) /\ row[m].status \in TransitionFrom(a.to) IN
       \/ /\ row' = IF hits THEN [row EXCEPT ![m].status = a.to] ELSE row
          /\ acks' = [acks EXCEPT ![m] = (@ \ {a}) \cup IF hits \/ a.try = 2 THEN {} ELSE {[to |-> a.to, try |-> 0]}]
          /\ UNCHANGED note
       \/ DbFails(m) /\ acks' = [acks EXCEPT ![m] = @ \ {a}] /\ UNCHANGED row
    /\ UNCHANGED <<session, send, draft, acked, reactionChains, wanted, receiving>>

\* 750 ms later.  The save of the id is over by then, or it is a slow one.
AckRetries(m, a) ==
    /\ a \in acks[m] /\ a.try = 0
    /\ acks' = [acks EXCEPT ![m] = (@ \ {a}) \cup {[to |-> a.to, try |-> 2]}]
    /\ \/ send[m] # "accepted" /\ UNCHANGED note
       \/ send[m] = "accepted" /\ "slow" \in LogFaults /\ Remember(m, "slow")
    /\ UNCHANGED <<session, send, draft, row, acked, reactionChains, wanted, receiving>>

\* onMessageRevoked(), and deleteMessage() after the engine has deleted: best effort on the stored row.
Revoke(m) ==
    /\ live /\ Known(m)
    /\ Stored(m) /\ ~row[m].revoked
    /\ row' = [row EXCEPT ![m].revoked = TRUE]
    /\ UNCHANGED <<session, send, draft, following, receiving, note>>

\* onMessageReaction(): the event joins the chain of its message.  A contact reacts, or takes it back.
ReactionArrives(m, c) ==
    /\ live /\ Known(m) /\ Len(reactionChains[m]) < MaxReactions
    /\ \A i \in DOMAIN reactionChains[m] : reactionChains[m][i].who # c
    /\ LET emoji == IF wanted[m][c] = "none" THEN "up" ELSE "none" IN
       reactionChains' = [reactionChains EXCEPT ![m] =
          Append(@, [who |-> c, emoji |-> emoji, stage |-> "waits", read |-> NoRow])]
    /\ UNCHANGED <<session, send, draft, row, acks, acked, wanted, receiving, note>>

\* applyReaction(), by the head of the chain only: read the row; without one there is nothing to do.
ReactionReads(m) ==
    /\ reactionChains[m] # <<>>
    /\ LET e == Head(reactionChains[m]) IN
       /\ e.stage = "waits"
       /\ IF Stored(m)
          THEN /\ reactionChains' = [reactionChains EXCEPT ![m] =
                     <<[who |-> e.who, emoji |-> e.emoji, stage |-> "read", read |-> row[m]]>> \o Tail(@)]
               /\ wanted' = [wanted EXCEPT ![m][e.who] = e.emoji]
          ELSE /\ reactionChains' = [reactionChains EXCEPT ![m] = Tail(@)]
               /\ UNCHANGED wanted
    /\ UNCHANGED <<session, send, draft, row, acks, acked, receiving, note>>

MutRewritten(now, e) == [e.read EXCEPT !.reactions = [e.read.reactions EXCEPT ![e.who] = e.emoji]]

\* The write touches the reactions only: what else was read may be stale.
Rewritten(now, e) == [now EXCEPT !.reactions = [e.read.reactions EXCEPT ![e.who] = e.emoji]]

ReactionWrites(m) ==
    /\ reactionChains[m] # <<>> /\ Head(reactionChains[m]).stage = "read"
    /\ reactionChains' = [reactionChains EXCEPT ![m] = Tail(@)]
    /\ \/ /\ row' = IF Stored(m) THEN [row EXCEPT ![m] = Rewritten(@, Head(reactionChains[m]))] ELSE row
          /\ UNCHANGED note
       \/ DbFails(m) /\ UNCHANGED row
    /\ UNCHANGED <<session, send, draft, acks, acked, wanted, receiving>>

-----------------------------------------------------------------------------
(* Inbound messages                                                         *)

\* onMessage(): status posts and ephemeral messages the operator does not keep end here.
Fires(m, k) ==
    /\ live /\ kind[m] = "incoming" /\ recv[m][k] = "idle"
    /\ \A j \in 1 .. k - 1 : recv[m][j] # "idle"
    /\ recv' = [recv EXCEPT ![m][k] = "hook"]
    /\ UNCHANGED <<session, send, draft, row, following, hist, told, note>>

\* The message:received chain is over: a plugin stopped it, the engine was retired meanwhile, or the
\* insert is issued.
Proceeds == live
HookAnswered(m, k) ==
    /\ recv[m][k] = "hook"
    /\ \/ recv' = [recv EXCEPT ![m][k] = "done"] /\ Remember(m, "stopped")
       \/ ~Proceeds /\ recv' = [recv EXCEPT ![m][k] = "done"] /\ Remember(m, "retired")
       \/ Proceeds /\ recv' = [recv EXCEPT ![m][k] = "insert"] /\ UNCHANGED note
    /\ UNCHANGED <<session, send, draft, row, following, hist, told>>

\* The insert: a row of that id makes it a duplicate; any other failure still tells the consumers.
MutInserted(m, k) ==
    /\ recv[m][k] = "insert"
    /\ recv' = [recv EXCEPT ![m][k] = "done"]
    /\ row' = IF Stored(m) THEN row ELSE [row EXCEPT ![m] = NewRow("live")]
    /\ told' = [told EXCEPT ![m] = @ + 1]
    /\ UNCHANGED <<session, send, draft, following, hist, note>>

Inserted(m, k) ==
    /\ recv[m][k] = "insert"
    /\ recv' = [recv EXCEPT ![m][k] = "done"]
    /\ \/ Stored(m) /\ UNCHANGED <<row, told, note>>
       \/ /\ ~Stored(m)
          /\ row' = [row EXCEPT ![m] = NewRow("live")]
          /\ told' = [told EXCEPT ![m] = @ + 1]
          /\ UNCHANGED note
       \/ DbFails(m) /\ told' = [told EXCEPT ![m] = @ + 1] /\ UNCHANGED row
    /\ UNCHANGED <<session, send, draft, following, hist>>

\* persistHistoryMessages(): which messages of the batch are new ...
HistoryReads(m) ==
    /\ live /\ Known(m) /\ hist[m] = "idle" /\ ~Stored(m)
    /\ hist' = [hist EXCEPT ![m] = "insert"]
    /\ UNCHANGED <<session, send, draft, row, following, recv, told, note>>

\* ... and INSERT OR IGNORE of those, chunk after chunk, without a look at the engine.
HistoryInserts(m) ==
    /\ hist[m] = "insert"
    /\ hist' = [hist EXCEPT ![m] = "idle"]
    /\ \/ ~Stored(m) /\ row' = [row EXCEPT ![m] = NewRow("history")] /\ Remember(m, "history")
       \/ Stored(m) /\ UNCHANGED <<row, note>>
       \/ DbFails(m) /\ UNCHANGED row
    /\ UNCHANGED <<session, send, draft, following, recv, told>>

-----------------------------------------------------------------------------
(* The session                                                              *)

\* stop(), delete(), a replacement: the callbacks of this engine no longer count.
Retire ==
    /\ live /\ live' = FALSE
    /\ UNCHANGED <<deleted, kind, send, draft, row, following, receiving, note>>

\* The transaction of delete().  A statement issued before the teardown began is over by then.
DropMessages ==
    /\ ~live /\ ~deleted
    /\ \A m \in Messages : \A k \in 1 .. Firings : recv[m][k] # "insert"
    /\ deleted' = TRUE
    /\ draft' = [m \in Messages |-> "none"]
    /\ row' = [m \in Messages |-> NoRow]
    /\ UNCHANGED <<live, kind, send, following, receiving, note>>

LogNext ==
    \/ \E m \in Messages :
          \/ Gate(m) \/ SaveDraft(m) \/ EngineAccepts(m) \/ EngineRejects(m) \/ FailSend(m) \/ PersistSent(m)
          \/ \E t \in Upgrades : AckArrives(m, t)
          \/ \E a \in acks[m] : AckApplied(m, a) \/ AckRetries(m, a)
          \/ Revoke(m)
          \/ \E c \in Reactors : ReactionArrives(m, c)
          \/ ReactionReads(m) \/ ReactionWrites(m)
          \/ \E k \in 1 .. Firings : Fires(m, k) \/ HookAnswered(m, k) \/ Inserted(m, k)
          \/ HistoryReads(m) \/ HistoryInserts(m)
    \/ Retire \/ DropMessages

LogSpec == LogInit /\ [][LogNext]_logVars

-----------------------------------------------------------------------------

SendStages == {"idle", "gated", "sending", "accepted", "acceptedNoId", "failing", "answered", "rejected"}
Statuses == {"none", "sent", "delivered", "read", "failed"}
LogRows == [by : {"none", "send", "live", "history"}, status : Statuses, revoked : BOOLEAN,
         reactions : [Reactors -> {"none", "up"}]]

Notes == {"db", "slow", "stopped", "retired", "history", "blocked", "invalid"}
Reaction == [who : Reactors, emoji : {"none", "up"}, stage : {"waits", "read"}, read : LogRows]

LogTypeOK ==
    /\ live \in BOOLEAN /\ deleted \in BOOLEAN
    /\ kind \in [Messages -> Kinds]
    /\ send \in [Messages -> SendStages]
    /\ draft \in [Messages -> {"none", "pending", "failed", "sent"}]
    /\ row \in [Messages -> LogRows]
    /\ acks \in [Messages -> SUBSET [to : Upgrades, try : 0 .. 2]]
    /\ acked \in [Messages -> SUBSET Upgrades]
    /\ reactionChains \in [Messages -> Seq(Reaction)]
    /\ recv \in [Messages -> [1 .. Firings -> {"idle", "hook", "insert", "done"}]]
    /\ hist \in [Messages -> {"idle", "insert"}]
    /\ told \in [Messages -> Nat]
    /\ wanted \in [Messages -> [Reactors -> {"none", "up"}]]
    /\ note \in [Messages -> SUBSET Notes]

\* Delivery state only advances and a revoked message stays revoked, although acknowledgements,
\* reactions and revocations write the same row without waiting for each other (#220).
DeliveryAdvances ==
    [][\A m \in Messages :
         Stored(m) /\ Stored(m)' =>
            /\ row'[m].status \in {row[m].status} \cup {t \in Upgrades : row[m].status \in TransitionFrom(t)}
            /\ Ranks[row[m].status] <= Ranks[row'[m].status]
            /\ row[m].revoked => row'[m].revoked]_logVars

\* An acknowledgement that overtakes the save of the id is not lost: once all is quiet the row shows it,
\* unless the save outlasted the retry.
AckReflected ==
    \A m \in Messages :
       (send[m] = "answered" /\ acks[m] = {} /\ row[m].by = "send" /\ note[m] \cap {"db", "slow"} = {}) =>
          \/ row[m].status = "failed" /\ "failed" \in acked[m]
          \/ \A t \in acked[m] \ {"failed"} : Ranks[row[m].status] >= Ranks[t]

\* Reactions of several contacts are all kept, each the last one its contact sent.
ReactionsKept ==
    \A m \in Messages :
       ~deleted /\ Stored(m) /\ reactionChains[m] = <<>> /\ "db" \notin note[m] => row[m].reactions = wanted[m]

\* What arrives about a message in whatever order, acknowledgements and reactions, ends up in its row.
EventsReachTheRow == AckReflected /\ ReactionsKept

\* An inbound message reported twice is announced once (#464) ...
ToldOnce == \A m \in Messages : told[m] > 1 => "db" \in note[m]

\* ... and at least once, unless a plugin stopped it, the engine was retired, or a history batch had
\* stored it.
NeverUntold ==
    \A m \in Messages :
       /\ kind[m] = "incoming" /\ note[m] \cap {"stopped", "retired", "history"} = {}
       /\ \A k \in 1 .. Firings : recv[m][k] \in {"idle", "done"}
       /\ Firings > 0 => recv[m][1] = "done"
       => Firings = 0 \/ told[m] > 0

\* Every inbound message is announced, and once.
AnnouncedOnce == ToldOnce /\ NeverUntold

\* A live message whose hook outlasts the session leaves no row behind (rows have no foreign key).
NoOrphanRow == deleted => \A m \in Messages : row[m].by # "live"

\* A message the engine has taken is never reported as failed.
AcceptedNeverFails ==
    \A m \in Messages :
       /\ draft[m] = "failed" => send[m] = "rejected"
       /\ send[m] \in {"failing", "rejected"} => ~Stored(m) \/ row[m].by # "send"
       /\ row[m].status = "failed" => "failed" \in acked[m]
       /\ send[m] = "failing" => "db" \notin note[m]

\* A send that is over leaves a PENDING row only if the database failed or its id was already stored.
PendingIsExplained ==
    \A m \in Messages :
       draft[m] = "pending" /\ send[m] \in {"answered", "rejected"} => note[m] \cap {"db", "history"} # {}

\* The rows tell the truth: nothing the engine took is called failed, nothing it answered stays PENDING,
\* and nothing of a deleted session is left.
RowsTellTheTruth == AcceptedNeverFails /\ PendingIsExplained /\ NoOrphanRow

\* The rows of the messages table lose nothing they were told, announce a message once and tell what became of it.
LogIsTrue == EventsReachTheRow /\ AnnouncedOnce /\ RowsTellTheTruth

=============================================================================
