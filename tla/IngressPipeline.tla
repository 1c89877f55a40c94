--------------------------- MODULE IngressPipeline ---------------------------
(***************************************************************************)
(* Inbound webhooks of providers: src/modules/integration (ingress.service,*)
(* ingress-event.service, ingress-enqueue.service, redrive.service,        *)
(* integration.module) and src/modules/queue/processors/ingress.processor. *)
(* A delivery is recorded (deduplication), handed to BullMQ or dispatched  *)
(* inline, dispatched by the worker behind the lock of its conversation,   *)
(* retried, dead-lettered, and replayed from the dead letters.             *)
(*                                                                         *)
(* One action is the code between two awaits.  The database, Redis and the *)
(* provider survive a crash; requests, attempts and the lock do not.       *)
(***************************************************************************)
EXTENDS KeyedLock, FiniteSets

CONSTANTS
    Deliveries,      \* records: a plugin instance and the id its provider gave the delivery
    Calls,           \* HTTP requests in flight, of providers and of operators (redrive)
    Rows,            \* ids of dead-letter rows: bounds how many are ever written
    Conversation,    \* orderingKeyFor() of each delivery
    QueueEnabled,    \* QUEUE_ENABLED
    MaxAttempts,     \* INGRESS_MAX_ATTEMPTS
    Concurrency,     \* INGRESS_WORKER_CONCURRENCY
    RespondsEarly,   \* does the route declare a response (the ack does not wait for enqueue())?
    Faults           \* which of "crash", "redis", "db", "late" may happen

\* jobId = deliveryId, in one queue for all instances; jobId = redrive:<row id>
LiveJob(d)   == <<"live", d.id>>
ReplayJob(r) == <<"redrive", r>>
Jobs == {LiveJob(d) : d \in Deliveries} \cup {ReplayJob(r) : r \in Rows}

ASSUME IngressAssumption ==
    /\ IsFiniteSet(Calls) /\ IsFiniteSet(Rows) /\ IsFiniteSet(Deliveries)
    /\ None \notin Deliveries \cup Rows
    /\ Runs = Jobs                        \* an attempt of a job is a run of the lock
    /\ Conversation \in [Deliveries -> Keys]
    /\ QueueEnabled \in BOOLEAN /\ RespondsEarly \in BOOLEAN
    /\ MaxAttempts \in Nat \ {0} /\ Concurrency \in Nat \ {0}
    /\ Faults \subseteq {"crash", "redis", "db", "late"}

VARIABLES
    recorded,   \* ingress_events: deliveries with a row
    acked,      \* deliveries whose provider got a 2xx and will not send them again by itself
    call,       \* per request: where it waits and what for
    job,        \* per job id: its state in Redis
    row,        \* integration_delivery_failures
    handled,    \* history: how often a dispatch of the delivery succeeded, capped at 2
    hit         \* history: the faults that happened

vars == <<recorded, acked, call, job, row, handled, hit, lockVars>>
outside == <<handled, hit>>

NoCall == [pc |-> "idle", op |-> "none", d |-> None, r |-> None, todo |-> {}]
NoRow  == [st |-> "free", d |-> None]
NoJob  == [st |-> "none", made |-> 0, d |-> None]
NewJob(d) == [st |-> "waiting", made |-> 0, d |-> d]

Init ==
    /\ recorded = {} /\ acked = {}
    /\ call = [c \in Calls |-> NoCall]
    /\ job = [j \in Jobs |-> NoJob]
    /\ row = [r \in Rows |-> NoRow]
    /\ handled = [d \in Deliveries |-> 0]
    /\ hit = {}
    /\ LockInit

CanFail(f) == f \in Faults

\* dispatchWebhookForInstance(d) either resolves, the handler having answered in time, or throws:
\* no worker, an error of the handler, or 5 s without an answer.
Succeeds(d) == handled' = [handled EXCEPT ![d] = IF @ < 2 THEN @ + 1 ELSE @]

\* A dispatch that fails: its handler did nothing that lasts, or it answered too late, and the
\* delivery was handled all the same.
Fails(d) ==
    \/ UNCHANGED outside
    \/ CanFail("late") /\ Succeeds(d) /\ hit' = hit \cup {"late"}

\* The bound on Rows: a dispatch that would end in a new dead letter fails only while an id is left
\* for it.
RowsLeft ==
    Cardinality({r \in Rows : row[r].st = "free"})
       > Cardinality({c \in Calls : call[c].pc = "save"}) + Cardinality({j \in Jobs : job[j].st = "erring"})

-----------------------------------------------------------------------------
(* IngressService.handle()                                                  *)

\* A provider sends d, possibly not for the first time.
Request(c, d) ==
    /\ call[c].pc = "idle"
    /\ call' = [call EXCEPT ![c] = [NoCall EXCEPT !.pc = "resolve", !.op = "ingress", !.d = d]]
    /\ UNCHANGED <<recorded, acked, job, row, outside, lockVars>>

\* Unknown or disabled instance, bad signature, body too large, dead session, failing lookup:
\* the request ends before anything is stored and the provider keeps the delivery.
Refused(c) ==
    /\ call[c].pc = "resolve"
    /\ call' = [call EXCEPT ![c] = NoCall]
    /\ UNCHANGED <<recorded, acked, job, row, outside, lockVars>>

\* Where enqueue() goes first.
EnqueuePc == IF QueueEnabled THEN "add" ELSE "inline"

\* Mutation: the early response ends the request.
MutRecord(c) ==
    LET d == call[c].d IN
    /\ call[c].pc = "resolve"
    /\ d \notin recorded
    /\ recorded' = recorded \cup {d}
    /\ acked' = IF RespondsEarly THEN acked \cup {d} ELSE acked
    /\ call' = [call EXCEPT ![c] = IF RespondsEarly THEN NoCall ELSE [@ EXCEPT !.pc = EnqueuePc]]
    /\ UNCHANGED <<job, row, outside, lockVars>>

\* recordOrSkip(): the unique index decides.  A new delivery goes on to enqueue(), and a route
\* that responds early answers at once.
Record(c) ==
    LET d == call[c].d IN
    /\ call[c].pc = "resolve"
    /\ d \notin recorded
    /\ recorded' = recorded \cup {d}
    /\ acked' = IF RespondsEarly THEN acked \cup {d} ELSE acked
    /\ call' = [call EXCEPT ![c].pc = EnqueuePc]
    /\ UNCHANGED <<job, row, outside, lockVars>>

Duplicate(c) ==
    /\ call[c].pc = "resolve"
    /\ call[c].d \in recorded
    /\ acked' = acked \cup {call[c].d}
    /\ call' = [call EXCEPT ![c] = NoCall]
    /\ UNCHANGED <<recorded, job, row, outside, lockVars>>

\* enqueue() is over: the 2xx, unless it went out before.
Respond(c) ==
    /\ call[c].pc = "respond"
    /\ acked' = acked \cup {call[c].d}
    /\ call' = [call EXCEPT ![c] = NoCall]
    /\ UNCHANGED <<recorded, job, row, outside, lockVars>>

-----------------------------------------------------------------------------
(* IngressEnqueueService.enqueue(), for a request and for a replay         *)

\* Mutation: a replay uses the job id of the delivery.
MutJobOf(c) == LiveJob(call[c].d)

JobOf(c) == IF call[c].op = "ingress" THEN LiveJob(call[c].d) ELSE ReplayJob(call[c].r)

\* What the caller does next once enqueue() queued or dispatched the delivery.
Accepted(c) == IF call[c].op = "ingress" THEN "respond" ELSE "retire"

\* BullMQ ignores a job whose id it still has, finished jobs included (they are kept for hours).
Added(c) == IF job[JobOf(c)].st = "none"
            THEN [job EXCEPT ![JobOf(c)] = NewJob(call[c].d)]
            ELSE job

Add(c) ==
    /\ call[c].pc = "add"
    /\ job' = Added(c)
    /\ call' = [call EXCEPT ![c].pc = Accepted(c)]
    /\ UNCHANGED <<recorded, acked, row, outside, lockVars>>

\* add() rejects, most often because Redis does not answer; the job may be there all the same.
AddFails(c) ==
    /\ CanFail("redis")
    /\ call[c].pc = "add"
    /\ job' \in {job, Added(c)}
    /\ call' = [call EXCEPT ![c].pc = "inline"]
    /\ hit' = hit \cup {"redis"}
    /\ UNCHANGED <<recorded, acked, row, handled, lockVars>>

InlineSucceeds(c) ==
    /\ call[c].pc = "inline"
    /\ Succeeds(call[c].d)
    /\ call' = [call EXCEPT ![c].pc = Accepted(c)]
    /\ UNCHANGED <<recorded, acked, job, row, hit, lockVars>>

\* enqueue() swallows the failure.  The wiring of the live path dead-letters the delivery, a
\* replay keeps the row it has.
InlineFails(c) ==
    /\ call[c].pc = "inline"
    /\ call[c].op = "ingress" => RowsLeft
    /\ call' = [call EXCEPT ![c].pc = IF call[c].op = "ingress" THEN "save" ELSE "next"]
    /\ Fails(call[c].d)
    /\ UNCHANGED <<recorded, acked, job, row, lockVars>>

\* A dead-letter row for d is inserted; its id is new.
NewRow(d) == \E r \in Rows : row[r].st = "free" /\ row' = [row EXCEPT ![r] = [st |-> "open", d |-> d]]

\* The insert fails, which is logged and forgotten.
RowIsLost ==
    /\ CanFail("db")
    /\ hit' = hit \cup {"unsaved"}
    /\ UNCHANGED row

SaveInline(c) ==
    /\ call[c].pc = "save"
    /\ \/ NewRow(call[c].d) /\ UNCHANGED hit
       \/ RowIsLost
    /\ call' = [call EXCEPT ![c].pc = "respond"]
    /\ UNCHANGED <<recorded, acked, job, handled, lockVars>>

-----------------------------------------------------------------------------
(* RedriveService.redriveInstance()                                         *)

OpenRows(instance) == {r \in Rows : row[r].st = "open" /\ row[r].d.instance = instance}

\* find(): the rows of the instance that are not redriven.
Redrive(c, instance) ==
    /\ call[c].pc = "idle"
    /\ OpenRows(instance) # {}
    /\ call' = [call EXCEPT ![c] = [pc |-> "next", op |-> "redrive", d |-> None, r |-> None,
                                       todo |-> OpenRows(instance)]]
    /\ UNCHANGED <<recorded, acked, job, row, outside, lockVars>>

\* The loop takes the next row, as it was read.
NextRow(c) ==
    /\ call[c].pc = "next"
    /\ \E r \in call[c].todo :
          call' = [call EXCEPT ![c] = [pc |-> EnqueuePc, op |-> "redrive", d |-> row[r].d, r |-> r,
                                       todo |-> call[c].todo \ {r}]]
    /\ UNCHANGED <<recorded, acked, job, row, outside, lockVars>>

RedriveDone(c) ==
    /\ call[c].pc = "next"
    /\ call[c].todo = {}
    /\ call' = [call EXCEPT ![c] = NoCall]
    /\ UNCHANGED <<recorded, acked, job, row, outside, lockVars>>

\* update(): the row is retired; a failing update ends the request, the row stays open.
Retire(c) ==
    /\ call[c].pc = "retire"
    /\ \/ /\ row' = [row EXCEPT ![call[c].r].st = "redriven"]
          /\ call' = [call EXCEPT ![c].pc = "next"]
       \/ /\ CanFail("db")
          /\ call' = [call EXCEPT ![c] = NoCall]
          /\ UNCHANGED row
    /\ UNCHANGED <<recorded, acked, job, outside, lockVars>>

-----------------------------------------------------------------------------
(* IngressProcessor.process(), one attempt of a job                        *)

Working == {j \in Jobs : job[j].st \in {"active", "erring", "rethrow"}}

\* The worker takes a job and enters the lock of its conversation.
PickUp(j) ==
    /\ job[j].st = "waiting"
    /\ Cardinality(Working) < Concurrency
    /\ LockCall(j, Conversation[job[j].d])
    /\ job' = [job EXCEPT ![j].st = "active"]
    /\ UNCHANGED <<recorded, acked, call, row, outside>>

Dispatch(j) ==
    /\ LockStart(j)
    /\ UNCHANGED <<recorded, acked, call, job, row, outside>>

DispatchSucceeds(j) ==
    /\ LockSettle(j)
    /\ Succeeds(job[j].d)
    /\ job' = [job EXCEPT ![j].st = "done"]
    /\ UNCHANGED <<recorded, acked, call, row, hit>>

\* Mutation: the attempts already made are compared, not counting this one.
MutDispatchFails(j) ==
    /\ LockSettle(j)
    /\ job' = [job EXCEPT ![j].st = IF job[j].made >= MaxAttempts THEN "erring" ELSE "rethrow"]
    /\ Fails(job[j].d)
    /\ UNCHANGED <<recorded, acked, call, row>>

\* Mutation: every attempt is taken for the final one.
MutAlwaysFinal(j) ==
    /\ LockSettle(j)
    /\ RowsLeft
    /\ job' = [job EXCEPT ![j].st = "erring"]
    /\ Fails(job[j].d)
    /\ UNCHANGED <<recorded, acked, call, row>>

\* The final attempt runs the ingress:error hooks first; the others only rethrow.
DispatchFails(j) ==
    /\ LockSettle(j)
    /\ job[j].made + 1 >= MaxAttempts => RowsLeft
    /\ job' = [job EXCEPT ![j].st = IF job[j].made + 1 >= MaxAttempts THEN "erring" ELSE "rethrow"]
    /\ Fails(job[j].d)
    /\ UNCHANGED <<recorded, acked, call, row>>

\* The hooks are done: dead-letter the delivery.
DeadLetter(j) ==
    /\ job[j].st = "erring"
    /\ \/ NewRow(job[j].d) /\ UNCHANGED hit
       \/ RowIsLost
    /\ job' = [job EXCEPT ![j].st = "rethrow"]
    /\ UNCHANGED <<recorded, acked, call, handled, lockVars>>

\* Mutation: one attempt too many.
MutRethrown(j) ==
    /\ job[j].st = "rethrow"
    /\ job' = [job EXCEPT ![j].made = @ + 1,
                          ![j].st = IF job[j].made < MaxAttempts THEN "waiting" ELSE "failed"]
    /\ UNCHANGED <<recorded, acked, call, row, outside, lockVars>>

\* BullMQ learns of the failure: another attempt after a backoff, or the job has failed.
Rethrown(j) ==
    /\ job[j].st = "rethrow"
    /\ job' = [job EXCEPT ![j].made = @ + 1,
                          ![j].st = IF job[j].made + 1 < MaxAttempts THEN "waiting" ELSE "failed"]
    /\ UNCHANGED <<recorded, acked, call, row, outside, lockVars>>

Cleanup(j) ==
    /\ LockCleanup(j)
    /\ UNCHANGED <<recorded, acked, call, job, row, outside>>

-----------------------------------------------------------------------------

\* The process dies and boots: BullMQ gives the attempts it was running to the new worker.
Crash ==
    /\ CanFail("crash") /\ "crash" \notin hit
    /\ hit' = hit \cup {"crash"}
    /\ call' = [c \in Calls |-> NoCall]
    /\ job' = [j \in Jobs |-> IF j \in Working THEN [job[j] EXCEPT !.st = "waiting"] ELSE job[j]]
    /\ LockReset
    /\ UNCHANGED <<recorded, acked, row, handled>>

CallStep(c) ==
    \/ Refused(c) \/ Record(c) \/ Duplicate(c) \/ Respond(c) \/ Add(c) \/ AddFails(c)
    \/ InlineSucceeds(c) \/ InlineFails(c) \/ SaveInline(c) \/ NextRow(c) \/ RedriveDone(c)
    \/ Retire(c)

JobStep(j) ==
    \/ PickUp(j) \/ Dispatch(j) \/ DispatchSucceeds(j) \/ DispatchFails(j) \/ DeadLetter(j)
    \/ Rethrown(j) \/ Cleanup(j)

Next ==
    \/ \E c \in Calls, d \in Deliveries : Request(c, d) \/ Redrive(c, d.instance)
    \/ \E c \in Calls : CallStep(c)
    \/ \E j \in Jobs : JobStep(j)
    \/ Crash

\* Requests and attempts go on: a dispatch ends by its timeout (5 s), statements and Redis answer
\* or fail, and no waiting job is passed over for ever.  Providers and operators owe nothing.
Fairness ==
    /\ \A c \in Calls : WF_vars(CallStep(c))
    /\ \A j \in Jobs : SF_vars(PickUp(j)) /\ WF_vars(JobStep(j))

Spec == Init /\ [][Next]_vars /\ Fairness

-----------------------------------------------------------------------------

CallRecord ==
    [pc : {"idle", "resolve", "add", "inline", "save", "respond", "next", "retire"},
     op : {"none", "ingress", "redrive"}, d : Deliveries \cup {None}, r : Rows \cup {None},
     todo : SUBSET Rows]
JobRecord ==
    [st : {"none", "waiting", "active", "erring", "rethrow", "done", "failed"},
     made : 0..MaxAttempts, d : Deliveries \cup {None}]
RowRecord == [st : {"free", "open", "redriven"}, d : Deliveries \cup {None}]

StoreTypeOK ==
    /\ recorded \subseteq Deliveries /\ acked \subseteq Deliveries
    /\ call \in [Calls -> CallRecord]
    /\ job \in [Jobs -> JobRecord]
    /\ row \in [Rows -> RowRecord]
    /\ handled \in [Deliveries -> 0..2]
    /\ hit \subseteq {"crash", "redis", "late", "unsaved"}

\* Every variable has its type; in particular no job makes more than MaxAttempts attempts.
TypeOK == StoreTypeOK /\ LockTypeOK

Pending(d) ==
    \E j \in Jobs : /\ job[j].d = d
                    /\ \/ job[j].st \in {"waiting", "active", "erring"}
                       \/ job[j].st = "rethrow" /\ job[j].made + 1 < MaxAttempts
Dead(d)    == \E r \in Rows : row[r].st = "open" /\ row[r].d = d
InFlight(d) ==
    \E c \in Calls : call[c].op = "ingress" /\ call[c].d = d /\ call[c].pc \in {"add", "inline", "save"}

\* Somebody still answers for d: it was handled, a job or a request works on it, or an operator
\* can replay it.
Accounted(d) == handled[d] > 0 \/ Pending(d) \/ Dead(d) \/ InFlight(d)

\* Redis failing, dispatches timing out, replays that overlap or end half-way: no delivery the
\* service recorded or acknowledged is lost while the process lives and dead letters can be saved.
\* It takes ids that differ between the instances (the queue is shared, and so are its job ids).
NoEventLost ==
    hit \cap {"crash", "unsaved"} = {} => \A d \in recorded \cup acked : Accounted(d)

\* Once a delivery is in the queue not even a crash loses it.
QueuedSurvives ==
    "unsaved" \notin hit => \A j \in Jobs : job[j].st # "none" => Accounted(job[j].d)

\* No delivery is lost that the faults do not excuse, and what Redis has stored survives whatever the process does.
NothingIsLost == NoEventLost /\ QueuedSurvives

\* Exactly once: with the queue, while Redis answers, the process lives and no handler outlives its
\* timeout, no delivery is handled twice, however often providers repeat it and operators replay it.
HandledOnce ==
    QueueEnabled /\ hit \cap {"crash", "redis", "late"} = {} =>
       \A d \in Deliveries : handled[d] <= 1

\* Exhausted jobs of d: their last attempt failed and was dead-lettered.
Exhausted(d) ==
    {j \in Jobs : /\ job[j].d = d
                  /\ \/ job[j].st = "failed"
                     \/ job[j].st = "rethrow" /\ job[j].made + 1 >= MaxAttempts}

\* "the final-attempt DLQ write ... still fires exactly once, only after these are exhausted": with
\* the queue and without faults, the dead letters of d are as many as its exhausted jobs.
DeadLetterOnce ==
    QueueEnabled /\ hit = {} =>
       \A d \in Deliveries : Cardinality({r \in Rows : row[r].d = d}) = Cardinality(Exhausted(d))

\* A recorded delivery is eventually handled or dead-lettered, unless a fault took it.
AcceptedIsSettled ==
    \A d \in Deliveries :
       d \in recorded ~> \/ handled[d] > 0 \/ \E r \in Rows : row[r].d = d
                         \/ hit \cap {"crash", "unsaved"} # {}

-----------------------------------------------------------------------------
(* What comments and docs of the repository say, and the code does not do.  *)

\* "the dedup row already persisted is the durability handle": an acknowledged delivery survives
\* a crash.
DurableAfterCrash == "unsaved" \notin hit => \A d \in acked : Accounted(d)

=============================================================================
