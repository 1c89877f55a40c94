---------------------------- MODULE BaileysInbound ----------------------------
(***************************************************************************)
(* What the Baileys adapter does with the messages of its socket           *)
(* (src/engine/adapters/baileys.adapter.ts): the gate in front of live     *)
(* messages, the limiter around their media, the announcement to the       *)
(* session service and the preview of the chat.                            *)
(*                                                                         *)
(* A message is sent once, at some time of WhatsApp's clock, and reaches   *)
(* the socket once: in a batch tagged "notify" or "append", or in the      *)
(* history of the connection.  The clock moves with the messages and the   *)
(* connections.                                                            *)
(***************************************************************************)
EXTENDS Integers, Sequences, FiniteSets, SequencesExt

CONSTANTS
    Msgs,
    Skew,         \* the buffer of the gate (10 seconds), and the most the two clocks differ by
    InboundSlots, \* slots of the media limiter
    InboundQueues, \* how many callers may wait for one: the values to try
    MaxClock,     \* bound: ticks of the clock
    MapFails      \* may the mapping of a message throw?

ASSUME InboundAssumption ==
    /\ IsFiniteSet(Msgs) /\ "nothing" \notin Msgs
    /\ {Skew, MaxClock} \subseteq Nat /\ InboundQueues \subseteq Nat
    /\ InboundSlots \in Nat \ {0}
    /\ MapFails \in BOOLEAN

VARIABLES
    maxWaiting, \* the queue bound of the limiter
    origin,    \* per message: "customer", "phone" (composed on the phone of the account) or "api"
    clock,
    link,      \* the socket: open or not, when it opened, and connectedAt
    sentAt,    \* per message: when it was sent; 0 before that
    stamp,     \* per message: messageTimestamp
    stage,     \* per message: where its processing stands
    waiting,   \* the queue of the limiter
    told,      \* history: announcements (onMessage, onMessageCreate, or of a revocation or reaction) of a message
    archived,  \* history: handed over with onHistoryMessages
    preview,   \* lastMessages: the message shown under the chat
    recorded,  \* history: messages recordMessage() was called with
    dropped    \* history: messages whose mapping threw

inboundVars == <<origin, maxWaiting, clock, link, sentAt, stamp, stage, waiting, told, archived, preview,
                 recorded, dropped>>

Nothing == "nothing"

InboundInit ==
    /\ origin \in [Msgs -> {"customer", "phone", "api"}]
    /\ maxWaiting \in InboundQueues
    /\ clock = 1
    /\ link = [open |-> FALSE, since |-> 0, connectedAt |-> 0]
    /\ sentAt = [m \in Msgs |-> 0]
    /\ stamp = [m \in Msgs |-> 0]
    /\ stage = [m \in Msgs |-> "unseen"]
    /\ waiting = <<>>
    /\ told = [m \in Msgs |-> 0]
    /\ archived = {}
    /\ preview = Nothing
    /\ recorded = {}
    /\ dropped = {}

shown == <<told, archived, preview, recorded>>

Tick == clock < MaxClock /\ clock' = clock + 1
MappingThrows(m) == MapFails /\ dropped' = dropped \cup {m}

-----------------------------------------------------------------------------
(* The connection and the other ends                                        *)

ConnectedAt(now) == now - Skew

Opened ==
    /\ ~link.open /\ Tick
    /\ link' = [open |-> TRUE, since |-> clock', connectedAt |-> ConnectedAt(clock')]
    /\ UNCHANGED <<origin, maxWaiting, sentAt, stamp, stage, waiting, shown, dropped>>

\* A dropped socket: what it has handed over goes on being processed.
Closed ==
    /\ link.open
    /\ link' = [link EXCEPT !.open = FALSE]
    /\ UNCHANGED <<origin, maxWaiting, clock, sentAt, stamp, stage, waiting, shown, dropped>>

\* A customer, or the account's own phone, sends a message; the clocks differ by up to Skew.
Compose(m) ==
    /\ origin[m] # "api" /\ sentAt[m] = 0 /\ Tick
    /\ sentAt' = [sentAt EXCEPT ![m] = clock']
    /\ \E behind \in 0..Skew : stamp' = [stamp EXCEPT ![m] = clock' - behind]
    /\ UNCHANGED <<origin, maxWaiting, link, stage, waiting, shown, dropped>>

-----------------------------------------------------------------------------
(* Messages of the socket                                                   *)

IsNewer(m) == preview = Nothing \/ stamp[preview] < stamp[m]

\* recordMessage(): the newest message is the preview of the chat.
RecordMessage(m) ==
    /\ preview' = IF IsNewer(m) THEN m ELSE preview
    /\ recorded' = recorded \cup {m}

InSlot == {m \in Msgs : stage[m] = "running"}

\* limiter.run(): a slot, a place in the queue, or neither; then the message is processed without media.
Admitted(m) ==
    IF Cardinality(InSlot) < InboundSlots THEN "running"
    ELSE IF Len(waiting) < maxWaiting THEN "parked" ELSE "bare"

MutPassesGate(m, type) == type = "notify" \/ stamp[m] >= link.connectedAt

\* Own messages come back in "append" batches and were announced by their send; others pass by their time.
PassesGate(m, type) ==
    \/ type = "notify"
    \/ origin[m] = "customer" /\ stamp[m] >= link.connectedAt

\* A batch of the socket.  What the API sends comes back as "append", to be ignored.
Upsert(m) ==
    /\ link.open /\ sentAt[m] > 0 /\ stage[m] \in {"unseen", "sent"}
    /\ \E type \in IF origin[m] = "api" THEN {"append"} ELSE {"notify", "append"} :
          IF PassesGate(m, type)
          THEN /\ stage' = [stage EXCEPT ![m] = Admitted(m)]
               /\ waiting' = IF Admitted(m) = "parked" THEN Append(waiting, m) ELSE waiting
          ELSE stage' = [stage EXCEPT ![m] = "ignored"] /\ UNCHANGED waiting
    /\ UNCHANGED <<origin, maxWaiting, clock, link, sentAt, stamp, shown, dropped>>

MutNextStageKeeps(m, to) ==
    /\ stage' = IF waiting # <<>> THEN [stage EXCEPT ![m] = to, ![Head(waiting)] = "running"] ELSE [stage EXCEPT ![m] = to]
    /\ UNCHANGED waiting

MutNextStage(m, to) == stage' = [stage EXCEPT ![m] = to] /\ UNCHANGED waiting

\* The slot of m goes to the first caller in the queue.
NextStage(m, to) ==
    IF stage[m] = "running" /\ waiting # <<>>
    THEN /\ stage' = [stage EXCEPT ![m] = to, ![Head(waiting)] = "running"]
         /\ waiting' = Tail(waiting)
    ELSE stage' = [stage EXCEPT ![m] = to] /\ UNCHANGED waiting

\* processInboundMessage(): a revocation or a reaction is announced as what it is (the other notes of the
\* protocol are no messages).  For others mapMessage()
\* returns, with the media or, when the download fails, exceeds the size or takes too long, without; the
\* announcement and the preview follow in one go.  Or it throws, and the message is dropped.
Processed(m) ==
    /\ stage[m] \in {"running", "bare"}
    /\ NextStage(m, "ended")
    /\ \/ told' = [told EXCEPT ![m] = @ + 1] /\ RecordMessage(m) /\ UNCHANGED dropped
       \/ told' = [told EXCEPT ![m] = @ + 1] /\ UNCHANGED <<preview, recorded, dropped>>
       \/ MappingThrows(m) /\ UNCHANGED <<told, preview, recorded>>
    /\ UNCHANGED <<origin, maxWaiting, clock, link, sentAt, stamp, archived>>

\* captureHistoryMessages(): what was sent before comes in the history of the connection, is handed over in
\* one batch without media, and may become the preview.
History ==
    /\ link.open
    /\ \E batch \in SUBSET {m \in Msgs : sentAt[m] > 0 /\ sentAt[m] < link.since /\ stage[m] = "unseen"} :
          /\ batch # {}
          /\ archived' = archived \cup batch
          /\ recorded' = recorded \cup batch
          /\ stage' = [m \in Msgs |-> IF m \in batch THEN "archived" ELSE stage[m]]
          /\ \E newest \in batch :
                /\ \A m \in batch : stamp[m] <= stamp[newest]
                /\ preview' = IF IsNewer(newest) THEN newest ELSE preview
    /\ UNCHANGED <<origin, maxWaiting, clock, link, sentAt, stamp, waiting, told, dropped>>

-----------------------------------------------------------------------------
(* sendContent(): the API sends                                             *)

\* The socket takes the message: the put and the echo go their ways without being awaited.
ApiSends(m) ==
    /\ link.open /\ origin[m] = "api" /\ sentAt[m] = 0 /\ Tick
    /\ sentAt' = [sentAt EXCEPT ![m] = clock']
    /\ stamp' = [stamp EXCEPT ![m] = clock']
    /\ stage' = [stage EXCEPT ![m] = "sent"]
    /\ UNCHANGED <<origin, maxWaiting, link, waiting, shown, dropped>>

\* emitOwnSendEcho(), without media; a failure to map it is logged.
OwnEcho(m) ==
    /\ origin[m] = "api" /\ sentAt[m] > 0 /\ told[m] = 0 /\ m \notin dropped
    /\ \/ told' = [told EXCEPT ![m] = @ + 1] /\ UNCHANGED dropped
       \/ MappingThrows(m) /\ UNCHANGED told
    /\ UNCHANGED <<origin, maxWaiting, clock, link, sentAt, stamp, stage, waiting, archived, preview, recorded>>

Continue(m) == Processed(m) \/ OwnEcho(m)

InboundNext ==
    \/ Opened \/ Closed \/ History
    \/ \E m \in Msgs : Compose(m) \/ Upsert(m) \/ ApiSends(m) \/ Continue(m)

\* Downloads have a deadline, statements return, and the library settles what it is asked.
InboundFairness == \A m \in Msgs : WF_inboundVars(Continue(m))

InboundSpec == InboundInit /\ [][InboundNext]_inboundVars /\ InboundFairness

-----------------------------------------------------------------------------

InboundTypeOK ==
    /\ stage \in [Msgs -> {"unseen", "sent", "running", "parked", "bare", "ignored", "ended", "archived"}]
    /\ told \in [Msgs -> 0..Cardinality(Msgs)]
    /\ ToSet(waiting) = {m \in Msgs : stage[m] = "parked"}

\* A message a customer sends after the connection has opened is announced, once, whichever tag its batch
\* carries, however full the limiter is and whatever becomes of its media; only a mapping that throws loses it.
LiveIsTold ==
    \A m \in Msgs :
        /\ told[m] <= 1
        /\ stage[m] = "ignored" /\ origin[m] = "customer" => sentAt[m] < link.since
        /\ stage[m] = "ended" /\ told[m] = 0 => m \in dropped

\* Downloads never exceed the slots, nobody waits while one is free and no queue grows beyond its bound.
DownloadsAreBounded ==
    /\ Cardinality(InSlot) <= InboundSlots
    /\ Len(waiting) <= maxWaiting
    /\ waiting # <<>> => Cardinality(InSlot) = InboundSlots

\* The preview of a chat is the newest message the adapter was shown, in whatever order downloads and
\* history finish.
PreviewIsNewest == \A m \in recorded : preview # Nothing /\ stamp[m] <= stamp[preview]

InboundIsTrue == LiveIsTold /\ DownloadsAreBounded /\ PreviewIsNewest

\* Every message the limiter takes is settled.
InboundEnds == \A m \in Msgs : stage[m] \in {"running", "parked", "bare"} ~> stage[m] = "ended"

===============================================================================
