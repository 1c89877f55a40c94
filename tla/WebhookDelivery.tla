---------------------------- MODULE WebhookDelivery ----------------------------
(***************************************************************************)
(* Outgoing webhooks: dispatch() of src/modules/webhook/webhook.service.ts *)
(* (directly, or through the queue with a direct fallback) and the worker  *)
(* of src/modules/queue/processors/webhook.processor.ts.                   *)
(*                                                                         *)
(* A delivery is one event for one webhook; the payload matters only in    *)
(* that a plugin may have made it impossible to serialise.  The queue is   *)
(* BullMQ's: a job outlives the process, and one whose worker died is run  *)
(* again, once.                                                            *)
(***************************************************************************)
EXTENDS Integers, FiniteSets

CONSTANTS
    Deliveries,
    RetryCounts,  \* values of webhook.retryCount: 0 to 5 in the code
    MaxCrashes,   \* bound: process restarts
    HookFaults    \* which of "db" (a statement fails), "redis" (an add fails) may happen

ASSUME DeliveryAssumption ==
    RetryCounts \subseteq Nat /\ MaxCrashes \in Nat /\ HookFaults \subseteq {"db", "redis"}

VARIABLES
    queueEnabled, \* queue.enabled, and the queue is there
    retryCount,   \* per delivery: the webhook's retryCount
    sender,       \* per delivery: where deliverOne() stands
    job,          \* per delivery: its job in the queue
    posts,        \* history: requests made
    ok,           \* history: requests the receiver has answered with success
    failures,     \* webhook_delivery_failures: rows of the delivery
    delivered,    \* history: how often the webhook:delivered hook was run
    cause,        \* history: what happened to the delivery
    crashes

deliveryVars == <<queueEnabled, retryCount, sender, job, posts, ok, failures, delivered, cause, crashes>>

Idle(stage) == [at |-> stage, attempt |-> 0]
NoJob == [at |-> "none", made |-> 0, stalls |-> 0]

DeliveryInit ==
    /\ queueEnabled \in BOOLEAN
    /\ retryCount \in [Deliveries -> RetryCounts]
    /\ sender = [d \in Deliveries |-> Idle("idle")]
    /\ job = [d \in Deliveries |-> NoJob]
    /\ posts = [d \in Deliveries |-> 0]
    /\ ok = [d \in Deliveries |-> 0]
    /\ failures = [d \in Deliveries |-> 0]
    /\ delivered = [d \in Deliveries |-> 0]
    /\ cause = [d \in Deliveries |-> {}]
    /\ crashes = 0

Note(d, what) == cause' = [cause EXCEPT ![d] = @ \cup {what}]
DbFailed(d) == "db" \in HookFaults /\ Note(d, "db")
Move(d, from, to) == sender[d].at = from /\ sender' = [sender EXCEPT ![d].at = to]

fixed == <<queueEnabled, retryCount, crashes>>
outcome == <<posts, ok, failures, delivered>>

-----------------------------------------------------------------------------
(* dispatch()                                                               *)

\* The webhooks of the session are looked up: the lookup fails, this one does not want the event, or it
\* does and its webhook:before hook runs.
Dispatch(d) ==
    /\ \/ Move(d, "idle", "before") /\ UNCHANGED cause
       \/ Move(d, "idle", "settled") /\ Note(d, "unwanted")
       \/ Move(d, "idle", "settled") /\ DbFailed(d)
    /\ UNCHANGED <<fixed, job, outcome>>

\* A plugin cancels the delivery or spoils the payload: a payload that cannot be serialised fails the add
\* and the fallback, too.
BeforeAnswered(d) ==
    /\ \/ Move(d, "before", "settled") /\ Note(d, "cancelled")
       \/ Move(d, "before", "settled") /\ Note(d, "unserialisable")
       \/ Move(d, "before", IF queueEnabled THEN "adding" ELSE "posting") /\ UNCHANGED cause
    /\ UNCHANGED <<fixed, job, outcome>>

\* The job is in the queue; or the add is rejected, which does not mean that the job is not there, and the
\* delivery is made directly.
Added(d) ==
    /\ \/ Move(d, "adding", "settled") /\ job' = [job EXCEPT ![d].at = "waiting"] /\ UNCHANGED cause
       \/ /\ "redis" \in HookFaults
          /\ Move(d, "adding", "posting")
          /\ \/ UNCHANGED <<job, cause>>
             \/ job' = [job EXCEPT ![d].at = "waiting"] /\ Note(d, "twice")
    /\ UNCHANGED <<fixed, outcome>>

-----------------------------------------------------------------------------
(* deliverWebhook()                                                         *)

\* The request: received and answered with success, or not; a failure may be a lost answer.
Posts(d, success) ==
    /\ posts' = [posts EXCEPT ![d] = @ + 1]
    /\ ok' = [ok EXCEPT ![d] = IF success THEN @ + 1 ELSE @]

MutRetries(d) == sender[d].attempt <= retryCount[d]

\* Is there another attempt after this one?  (attempt counts from 0 here)
Retries(d) == sender[d].attempt + 1 < retryCount[d]

\* The last attempt leaves a row, if that statement works.
Recorded(d) ==
    \/ failures' = [failures EXCEPT ![d] = @ + 1] /\ UNCHANGED cause
    \/ DbFailed(d) /\ UNCHANGED failures

AttemptFails(d) ==
    \/ /\ Retries(d)
       /\ sender' = [sender EXCEPT ![d] = [at |-> "posting", attempt |-> @.attempt + 1]]
       /\ UNCHANGED <<failures, cause>>
    \/ /\ ~Retries(d)
       /\ sender' = [sender EXCEPT ![d].at = "settled"]
       /\ Recorded(d)

Post(d) ==
    /\ sender[d].at = "posting"
    /\ \/ Posts(d, TRUE) /\ sender' = [sender EXCEPT ![d].at = "touching"] /\ UNCHANGED <<failures, cause>>
       \/ Posts(d, FALSE) /\ AttemptFails(d)
    /\ UNCHANGED <<fixed, job, delivered>>

\* lastTriggeredAt is stored inside the same try: a failure there is a failed attempt.
Touches(d) ==
    /\ sender[d].at = "touching"
    /\ \/ /\ sender' = [sender EXCEPT ![d].at = "settled"]
          /\ delivered' = [delivered EXCEPT ![d] = @ + 1]
          /\ UNCHANGED <<failures, cause>>
       \/ /\ "db" \in HookFaults
          /\ sender' = [sender EXCEPT ![d] = IF Retries(d) THEN [at |-> "posting", attempt |-> @.attempt + 1]
                                             ELSE [at |-> "settled", attempt |-> @.attempt]]
          /\ failures' = IF Retries(d) THEN failures ELSE [failures EXCEPT ![d] = @ + 1]
          /\ Note(d, "db")
          /\ UNCHANGED delivered
    /\ UNCHANGED <<fixed, job, posts, ok>>

-----------------------------------------------------------------------------
(* WebhookProcessor.process(), and what BullMQ does around it               *)

JobStarts(d) ==
    /\ job[d].at = "waiting"
    /\ job' = [job EXCEPT ![d].at = "posting"]
    /\ UNCHANGED <<fixed, sender, outcome, cause>>

JobPosts(d) ==
    /\ job[d].at = "posting"
    /\ \E success \in BOOLEAN :
          /\ Posts(d, success)
          /\ job' = [job EXCEPT ![d].at = IF success THEN "touching" ELSE "failing"]
    /\ UNCHANGED <<fixed, sender, failures, delivered, cause>>

JobTouches(d) ==
    /\ job[d].at = "touching"
    /\ \/ /\ job' = [job EXCEPT ![d].at = "returning"]
          /\ delivered' = [delivered EXCEPT ![d] = @ + 1]
          /\ UNCHANGED cause
       \/ DbFailed(d) /\ job' = [job EXCEPT ![d].at = "failing"] /\ UNCHANGED delivered
    /\ UNCHANGED <<fixed, sender, posts, ok, failures>>

IsFinalAttempt(d) == job[d].made + 1 >= retryCount[d]

JobFails(d) ==
    /\ job[d].at = "failing"
    /\ job' = [job EXCEPT ![d].at = "throwing"]
    /\ IF IsFinalAttempt(d) THEN Recorded(d) ELSE UNCHANGED <<failures, cause>>
    /\ UNCHANGED <<fixed, sender, posts, ok, delivered>>

\* BullMQ takes the result: another attempt as long as there are some left.
JobEnds(d) ==
    /\ \/ job[d].at = "returning" /\ job' = [job EXCEPT ![d].at = "completed"]
       \/ /\ job[d].at = "throwing"
          /\ job' = [job EXCEPT ![d] = IF @.made + 1 < retryCount[d]
                                       THEN [at |-> "waiting", made |-> @.made + 1, stalls |-> @.stalls]
                                       ELSE [at |-> "failed", made |-> @.made, stalls |-> @.stalls]]
    /\ UNCHANGED <<fixed, sender, outcome, cause>>

JobRuns(d) == job[d].at \in {"posting", "touching", "failing", "throwing", "returning"}

\* A restart: what was under way directly is gone; a stalled job is run again, the second time it fails.
Stalled(j) == [at |-> IF j.stalls = 0 THEN "waiting" ELSE "failed", made |-> j.made, stalls |-> 1]
Restart ==
    /\ crashes < MaxCrashes /\ crashes' = crashes + 1
    /\ sender' = [d \in Deliveries |-> IF sender[d].at = "idle" THEN sender[d] 
                                        ELSE [at |-> "settled", attempt |-> sender[d].attempt]]
    /\ job' = [d \in Deliveries |-> IF JobRuns(d) THEN Stalled(job[d]) ELSE job[d]]
    /\ cause' = [d \in Deliveries |-> IF sender[d].at \notin {"idle", "settled"} \/ JobRuns(d)
                                      THEN cause[d] \cup {"crash"} ELSE cause[d]]
    /\ UNCHANGED <<queueEnabled, retryCount, outcome>>

Sends(d) == Dispatch(d) \/ BeforeAnswered(d) \/ Added(d) \/ Post(d) \/ Touches(d)
Works(d) == JobStarts(d) \/ JobPosts(d) \/ JobTouches(d) \/ JobFails(d) \/ JobEnds(d)

DeliveryNext == Restart \/ \E d \in Deliveries : Sends(d) \/ Works(d)

\* Requests time out, statements return, and BullMQ hands every job to a worker.
DeliveryFairness == \A d \in Deliveries : WF_deliveryVars(Sends(d)) /\ WF_deliveryVars(Works(d))

DeliverySpec == DeliveryInit /\ [][DeliveryNext]_deliveryVars /\ DeliveryFairness

-----------------------------------------------------------------------------

SenderStages == {"idle", "before", "adding", "posting", "touching", "settled"}
JobStages == {"none", "waiting", "posting", "touching", "failing", "throwing", "returning", "completed", "failed"}

DeliveryTypeOK ==
    /\ queueEnabled \in BOOLEAN
    /\ retryCount \in [Deliveries -> RetryCounts]
    /\ sender \in [Deliveries -> [at : SenderStages, attempt : Nat]]
    /\ job \in [Deliveries -> [at : JobStages, made : Nat, stalls : 0 .. 1]]
    /\ posts \in [Deliveries -> Nat] /\ ok \in [Deliveries -> Nat]
    /\ failures \in [Deliveries -> Nat] /\ delivered \in [Deliveries -> Nat]
    /\ cause \in [Deliveries -> SUBSET {"unwanted", "cancelled", "unserialisable", "twice", "db", "crash"}]
    /\ crashes \in 0 .. MaxCrashes

Over(d) == sender[d].at = "settled" /\ job[d].at \in {"none", "completed", "failed"}
Attempts(d) == IF retryCount[d] = 0 THEN 1 ELSE retryCount[d]

\* A delivery that was wanted ends with an accepted request or with a row that says it was lost, on the
\* queued, the direct and the fallback path, unless the database failed or the process died.
NoSilentLoss ==
    \A d \in Deliveries :
       Over(d) /\ cause[d] \cap {"unwanted", "cancelled", "unserialisable", "db", "crash"} = {} =>
          ok[d] > 0 \/ failures[d] > 0

\* The receiver gets no more requests than the configuration allows, once more for each add that reached
\* Redis although it was rejected, and for each crash.
AttemptsAreBounded ==
    \A d \in Deliveries :
       posts[d] <= Attempts(d) * (IF "twice" \in cause[d] THEN 2 ELSE 1) + job[d].stalls

\* A delivery is reported once: as delivered or by a row, not both and not twice.
OneVerdict ==
    \A d \in Deliveries : cause[d] \cap {"twice", "crash"} = {} => failures[d] + delivered[d] <= 1

\* listDeliveryFailures(): "so an operator can see what was lost": a row means that no request of the
\* delivery was accepted, unless the statement after an accepted one failed.
FailureMeansLost ==
    \A d \in Deliveries : failures[d] > 0 /\ cause[d] \cap {"twice", "crash", "db"} = {} => ok[d] = 0

\* What the rows say of a delivery is true, and nobody is asked more often than configured.
VerdictIsTrue == NoSilentLoss /\ OneVerdict /\ FailureMeansLost /\ AttemptsAreBounded

\* Every delivery ends.
DeliveryEnds == \A d \in Deliveries : sender[d].at # "idle" ~> Over(d)

=============================================================================
