------------------------------- MODULE BulkBatch -------------------------------
(***************************************************************************)
(* src/modules/message/bulk-message.service.ts: a batch is stored, executed*)
(* in the background item by item, saved now and then, cancelled by other  *)
(* requests, and closed by the next boot when the process dies.            *)
(*                                                                         *)
(* One action is the code between two awaits.  Executor and cancellation   *)
(* each work on a copy of the row and save all of it.                      *)
(***************************************************************************)
EXTENDS Integers, FiniteSets

CONSTANTS
    Batches,
    Items,        \* messages per batch
    Cadence,      \* the progress is saved at every Cadence-th item: 10 in the code
    MaxBatches,   \* BULK_MAX_CONCURRENT_BATCHES, 0: no cap
    BulkFaults    \* which of "crash", "db" may happen

ASSUME BulkAssumption ==
    /\ IsFiniteSet(Batches)
    /\ Items \in Nat \ {0} /\ Cadence \in Nat \ {0} /\ MaxBatches \in Nat
    /\ BulkFaults \subseteq {"crash", "db"}

VARIABLES
    batch,     \* message_batches: the row of each batch
    stopOnErr, \* options.stopOnError
    exec,      \* per batch: its executor and the copy it works on
    going,     \* processingBatches: "none", "on", or "off" once cancelled
    inFlight,  \* inFlightBatches
    creator,   \* per batch: where createBatch() waits
    canceller, \* per batch: where cancelBatch() waits, and its copy
    sends,     \* history: how often each item was handed to the engine
    late,      \* history: sends since a cancellation of a running batch
    heeded,    \* history: batches cancelled inside the loop of their executor
    early,     \* history: batches cancelled before that loop began
    mishap     \* history: batches a failing statement has hit

bulkVars == <<batch, stopOnErr, exec, going, inFlight, creator, canceller, sends, late, heeded, early, mishap>>

Row(status, sent, failed, pending, cancelled, next) ==
    [status |-> status, sent |-> sent, failed |-> failed, pending |-> pending, cancelled |-> cancelled, next |-> next]
As(r, status) == Row(status, r.sent, r.failed, r.pending, r.cancelled, r.next)
Cancelled(r) == Row("cancelled", r.sent, r.failed, 0, r.pending, r.next)
NoBatch == Row("none", 0, 0, 0, 0, 0)
NewBatch == Row("pending", 0, 0, Items, 0, 0)
NoExec == [pc |-> "idle", copy |-> NoBatch]
NoCancel == [pc |-> "idle", copy |-> NoBatch]
Terminal == {"completed", "cancelled", "failed"}

BulkInit ==
    /\ batch = [b \in Batches |-> NoBatch]
    /\ stopOnErr \in [Batches -> BOOLEAN]
    /\ exec = [b \in Batches |-> NoExec]
    /\ going = [b \in Batches |-> "none"]
    /\ inFlight = 0
    /\ creator = [b \in Batches |-> "idle"]
    /\ canceller = [b \in Batches |-> NoCancel]
    /\ sends = [b \in Batches |-> [i \in 1 .. Items |-> 0]]
    /\ late = [b \in Batches |-> 0]
    /\ heeded = {} /\ early = {}
    /\ mishap = {}

\* What createBatch() and cancelBatch() leave alone.
bulkHistory == <<sends, late, mishap>>
cancels == <<heeded, early>>

-----------------------------------------------------------------------------
(* createBatch()                                                            *)

\* No row of that id, and the cap is not reached: the insert is issued.
CapReached == MaxBatches > 0 /\ inFlight >= MaxBatches
CreateBatch(b) ==
    /\ creator[b] = "idle" /\ batch[b] = NoBatch
    /\ ~CapReached
    /\ creator' = [creator EXCEPT ![b] = "insert"]
    /\ UNCHANGED <<batch, stopOnErr, exec, going, inFlight, canceller, cancels, bulkHistory>>

\* The row is there; processBatch() starts, and nobody awaits it.
BatchInserted(b) ==
    /\ creator[b] = "insert"
    /\ creator' = [creator EXCEPT ![b] = "done"]
    /\ batch' = [batch EXCEPT ![b] = NewBatch]
    /\ exec' = [exec EXCEPT ![b] = [pc |-> "load", copy |-> NoBatch]]
    /\ UNCHANGED <<stopOnErr, going, inFlight, canceller, cancels, bulkHistory>>

-----------------------------------------------------------------------------
(* cancelBatch()                                                            *)

\* The row is read: over already, or the flag falls and the copy is cancelled.
CancelBatch(b) ==
    /\ canceller[b].pc = "idle"
    /\ batch[b].status \notin {"none", "completed", "cancelled"}
    /\ going' = [going EXCEPT ![b] = "off"]
    /\ canceller' = [canceller EXCEPT ![b] = [pc |-> "save", copy |-> Cancelled(batch[b])]]
    /\ heeded' = IF going[b] = "on" /\ exec[b].pc \notin {"mark", "final"} THEN heeded \cup {b} ELSE heeded
    /\ early' = IF exec[b].pc \in {"idle", "load", "mark"} THEN early \cup {b} ELSE early
    /\ UNCHANGED <<batch, stopOnErr, exec, inFlight, creator, bulkHistory>>

CancelSaved(b) ==
    /\ canceller[b].pc = "save"
    /\ batch' = [batch EXCEPT ![b] = canceller[b].copy]
    /\ canceller' = [canceller EXCEPT ![b] = NoCancel]
    /\ UNCHANGED <<stopOnErr, exec, going, inFlight, creator, cancels, bulkHistory>>

-----------------------------------------------------------------------------
(* processBatch() and executeBatch()                                        *)

apart == <<stopOnErr, creator, canceller, cancels>>

\* finally: the marker and the slot are given back on every way out.
GiveBack(b) ==
    /\ inFlight' = inFlight - 1
    /\ going' = [going EXCEPT ![b] = "none"]
    /\ exec' = [exec EXCEPT ![b] = [pc |-> "done", copy |-> NoBatch]]

\* The row is read and the batch entered into the map, whatever the map said of it.
Load(b) ==
    /\ exec[b].pc = "load"
    /\ going' = [going EXCEPT ![b] = "on"]
    /\ inFlight' = inFlight + 1
    /\ exec' = [exec EXCEPT ![b] = [pc |-> "mark", copy |-> As(batch[b], "processing")]]
    /\ UNCHANGED <<batch, apart, bulkHistory>>

MutNextPc(b, copy) == IF copy.next < Items THEN "sending" ELSE "reread"

\* The top of the loop: a cancelled or exhausted batch goes to its end, another item is sent.
NextPc(b, copy) == IF copy.next < Items /\ going[b] = "on" THEN "sending" ELSE "reread"

\* PROCESSING is stored; the session may have no engine any more.
Mark(b) ==
    /\ exec[b].pc = "mark"
    /\ batch' = [batch EXCEPT ![b] = exec[b].copy]
    /\ \/ exec' = [exec EXCEPT ![b] = [pc |-> NextPc(b, @.copy), copy |-> @.copy]]
       \/ exec' = [exec EXCEPT ![b] = [pc |-> "final", copy |-> As(@.copy, "failed")]]
    /\ UNCHANGED <<going, inFlight, apart, bulkHistory>>

\* After an item: is its progress saved?
Saves(i) == i % Cadence = 0 \/ i = Items - 1
AfterItem(b, copy) == IF Saves(copy.next - 1) THEN "cadence" ELSE NextPc(b, copy)

\* One item: gate, template and engine.  A failure ends the batch if the client asked for that.
ItemSent(b) ==
    LET c == exec[b].copy
        done == Row(c.status, c.sent + 1, c.failed, c.pending - 1, c.cancelled, c.next + 1) IN
    /\ exec[b].pc = "sending"
    /\ exec' = [exec EXCEPT ![b] = [pc |-> AfterItem(b, done), copy |-> done]]
    /\ sends' = [sends EXCEPT ![b][c.next + 1] = @ + 1]
    /\ late' = IF b \in heeded THEN [late EXCEPT ![b] = @ + 1] ELSE late
    /\ UNCHANGED <<batch, going, inFlight, apart, mishap>>

ItemFailed(b) ==
    LET c == exec[b].copy
        done == Row(c.status, c.sent, c.failed + 1, c.pending - 1, c.cancelled, c.next + 1) IN
    /\ exec[b].pc = "sending"
    /\ exec' = [exec EXCEPT ![b] = IF stopOnErr[b]
                                   THEN [pc |-> "reread",
                                         copy |-> Row("failed", c.sent, c.failed + 1, c.pending - 1, c.cancelled, c.next)]
                                   ELSE [pc |-> AfterItem(b, done), copy |-> done]]
    /\ UNCHANGED <<batch, going, inFlight, apart, bulkHistory>>

\* The status is read before the progress is saved: another process may have cancelled.
CadenceRead(b) ==
    /\ exec[b].pc = "cadence"
    /\ exec' = [exec EXCEPT ![b] = IF batch[b].status = "cancelled"
                                   THEN [pc |-> "final", copy |-> Cancelled(@.copy)]
                                   ELSE [pc |-> "save", copy |-> @.copy]]
    /\ UNCHANGED <<batch, going, inFlight, apart, bulkHistory>>

CadenceSaved(b) ==
    /\ exec[b].pc = "save"
    /\ batch' = [batch EXCEPT ![b] = exec[b].copy]
    /\ exec' = [exec EXCEPT ![b] = [pc |-> NextPc(b, @.copy), copy |-> @.copy]]
    /\ UNCHANGED <<going, inFlight, apart, bulkHistory>>

\* resolveFinalBatchStatus()
FinalStatus(c, cancelled) ==
    IF cancelled THEN Cancelled(c)
    ELSE IF c.status = "failed" \/ (c.failed > 0 /\ c.sent = 0) THEN As(c, "failed")
    ELSE As(c, "completed")

\* Past the loop the status is read once more.
Reread(b) ==
    /\ exec[b].pc = "reread"
    /\ exec' = [exec EXCEPT ![b] =
          [pc |-> "final", copy |-> FinalStatus(@.copy, batch[b].status = "cancelled" \/ going[b] # "on")]]
    /\ UNCHANGED <<batch, going, inFlight, apart, bulkHistory>>

FinalSaved(b) ==
    /\ exec[b].pc = "final"
    /\ batch' = [batch EXCEPT ![b] = exec[b].copy]
    /\ GiveBack(b)
    /\ UNCHANGED <<apart, bulkHistory>>

\* A statement of the executor fails: the error leaves executeBatch() and is logged.
ExecutorFails(b) ==
    /\ "db" \in BulkFaults
    /\ exec[b].pc \in {"mark", "cadence", "save", "reread", "final"}
    /\ mishap' = mishap \cup {b}
    /\ UNCHANGED batch
    /\ GiveBack(b)
    /\ UNCHANGED <<apart, sends, late>>

-----------------------------------------------------------------------------
(* A crash, and onApplicationBootstrap() before the next process takes calls*)

Bootstrap(r) == IF r.status = "processing" THEN As(r, "failed") ELSE r

Crash ==
    /\ "crash" \in BulkFaults
    /\ batch' = [b \in Batches |-> Bootstrap(batch[b])]
    /\ exec' = [b \in Batches |-> NoExec]
    /\ going' = [b \in Batches |-> "none"]
    /\ inFlight' = 0
    /\ creator' = [b \in Batches |-> IF creator[b] = "insert" THEN "idle" ELSE creator[b]]
    /\ canceller' = [b \in Batches |-> NoCancel]
    /\ heeded' = {b \in heeded : batch'[b].status = "cancelled"}
    /\ UNCHANGED <<stopOnErr, sends, late, early, mishap>>

Executes(b) ==
    \/ Load(b) \/ Mark(b) \/ ItemSent(b) \/ ItemFailed(b) \/ CadenceRead(b) \/ CadenceSaved(b) \/ Reread(b)
    \/ FinalSaved(b)

BulkNext ==
    \/ \E b \in Batches :
          \/ CreateBatch(b) \/ BatchInserted(b) \/ CancelBatch(b) \/ CancelSaved(b)
          \/ Executes(b) \/ ExecutorFails(b)
    \/ Crash

\* What the executor awaits (statements, the engine, the delay) comes back.
BulkFairness == \A b \in Batches : WF_bulkVars(Executes(b))

BulkSpec == BulkInit /\ [][BulkNext]_bulkVars /\ BulkFairness

-----------------------------------------------------------------------------

\* An executor that took over a cancelled row counts its pending (and then cancelled) items below zero.
BatchRows == [status : {"none", "pending", "processing"} \cup Terminal,
         sent : 0 .. Items, failed : 0 .. Items, pending : -Items .. Items, cancelled : -Items .. Items, next : 0 .. Items]

BulkTypeOK ==
    /\ batch \in [Batches -> BatchRows]
    /\ stopOnErr \in [Batches -> BOOLEAN]
    /\ exec \in [Batches -> [pc : {"idle", "load", "mark", "sending", "cadence", "save", "reread", "final", "done"},
                             copy : BatchRows]]
    /\ going \in [Batches -> {"none", "on", "off"}]
    /\ inFlight \in Nat
    /\ creator \in [Batches -> {"idle", "insert", "done"}]
    /\ canceller \in [Batches -> [pc : {"idle", "save"}, copy : BatchRows]]
    /\ sends \in [Batches -> [1 .. Items -> Nat]]
    /\ late \in [Batches -> Nat]
    /\ heeded \subseteq Batches /\ early \subseteq Batches
    /\ mishap \subseteq Batches

SentOf(b) == Cardinality({i \in 1 .. Items : sends[b][i] > 0})

\* No recipient gets a message of a batch twice, not even when the process dies between the send and
\* the next save of the progress.
NoResend == \A b \in Batches : \A i \in 1 .. Items : sends[b][i] <= 1

\* Whatever copies are saved over each other, the counters of a row account for every item, and never
\* claim a send that did not happen.  A cancellation the start of the executor overwrites breaks the sum.
CountsAddUp ==
    \A b \in Batches : batch[b].status # "none" =>
       /\ b \notin early => batch[b].sent + batch[b].failed + batch[b].pending + batch[b].cancelled = Items
       /\ batch[b].sent <= SentOf(b)

\* COMPLETED is the truth: nothing pending, nothing cancelled, and the counters match the sends.
CompletedIsTrue ==
    \A b \in Batches : batch[b].status = "completed" =>
       batch[b].sent = SentOf(b) /\ batch[b].sent + batch[b].failed = Items

\* A batch that claims to be processed is being processed, in every process that takes requests, unless
\* a statement of its executor failed: nobody would ever drive or close it.
ProcessingIsDriven ==
    \A b \in Batches : batch[b].status = "processing" /\ b \notin mishap => exec[b].pc \notin {"idle", "done"}

\* The slots of the cap are given back on every way out of processBatch().
InFlightIsExact == inFlight = Cardinality({b \in Batches : exec[b].pc \notin {"idle", "load", "done"}})

\* After a running batch is cancelled, at most the item already on its way is sent ...
CancelStopsSends == \A b \in Batches : late[b] <= 1

\* ... and once all is quiet the row says cancelled.
CancelIsKept ==
    \A b \in heeded : exec[b].pc = "done" /\ canceller[b].pc = "idle" /\ b \notin mishap => batch[b].status = "cancelled"

\* A cancellation of a running batch stops it and stays.
CancelHolds == CancelStopsSends /\ CancelIsKept

\* A batch is what its row says: nobody gets a message twice, the counters and COMPLETED are true, a row in
\* PROCESSING and a slot of the cap belong to an executor, and a cancellation holds.
BatchIsTrue == NoResend /\ CountsAddUp /\ CompletedIsTrue /\ ProcessingIsDriven /\ InFlightIsExact /\ CancelHolds

\* A batch in execution ends, as a row with a final status, unless a statement fails; after a crash the boot ends it.
BatchEnds ==
    \A b \in Batches : batch[b].status = "processing" ~> (batch[b].status \in Terminal \/ b \in mishap)

=============================================================================
