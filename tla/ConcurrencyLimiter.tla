------------------------- MODULE ConcurrencyLimiter -------------------------
(***************************************************************************)
(* src/common/utils/concurrency-limiter.ts: the gate in front of webhook   *)
(* dispatch and of inbound media downloads.  A call of run() takes a slot, *)
(* parks in a FIFO queue, or is refused when the queue is full; a call     *)
(* that ends HANDS its slot to the first parked call instead of freeing it.*)
(*                                                                         *)
(* A call runs to its next await without interruption, so the synchronous  *)
(* part of run() before the await, the resumption after it and the finally *)
(* block are one action each.                                              *)
(***************************************************************************)
EXTENDS Integers, Sequences, FiniteSets

CONSTANTS
    Calls,       \* the callers of run(); each may call again once it has returned
    MaxSlots,         \* the `max` argument of the constructor, before clamping
    MaxQueued    \* the `maxQueued` argument, before clamping (Infinity: at least |Calls|)

ASSUME CallsAssumption == IsFiniteSet(Calls)
ASSUME MaxAssumption == MaxSlots \in Int /\ MaxQueued \in Int

\* The constructor clamps both: a misconfigured 0 never deadlocks the gate.
max       == IF MaxSlots < 1 THEN 1 ELSE MaxSlots
maxQueued == IF MaxQueued < 0 THEN 0 ELSE MaxQueued

VARIABLES
    active,      \* the slots in use, as the code counts them
    waiters,     \* the parked calls, first come first served
    pc           \* where each call is

vars == <<active, waiters, pc>>

\* "woken": its promise is resolved, its continuation has not run yet (the microtask gap).
States == {"idle", "parked", "woken", "running"}

Init ==
    /\ active = 0
    /\ waiters = <<>>
    /\ pc = [c \in Calls |-> "idle"]

-----------------------------------------------------------------------------

\* run(), a slot is free: take it and start the task in the same tick.
Enter(c) ==
    /\ pc[c] = "idle"
    /\ active < max
    /\ active' = active + 1
    /\ pc' = [pc EXCEPT ![c] = "running"]
    /\ UNCHANGED waiters

\* run(), no slot: park.
Park(c) ==
    /\ pc[c] = "idle"
    /\ active >= max
    /\ Len(waiters) < maxQueued
    /\ waiters' = Append(waiters, c)
    /\ pc' = [pc EXCEPT ![c] = "parked"]
    /\ UNCHANGED active

\* run(), no slot and the queue is full: 'ConcurrencyLimiter queue full' is thrown.
Refuse(c) ==
    /\ pc[c] = "idle"
    /\ active >= max
    /\ Len(waiters) >= maxQueued
    /\ UNCHANGED vars

\* The continuation of a woken call starts its task; it does not count itself again.
Resume(c) ==
    /\ pc[c] = "woken"
    /\ pc' = [pc EXCEPT ![c] = "running"]
    /\ UNCHANGED <<active, waiters>>

\* Mutations: the slot is freed as well as handed over; the woken call is left in the queue.
MutHandOverFrees(c) ==
    /\ pc[c] = "running"
    /\ waiters # <<>>
    /\ waiters' = Tail(waiters)
    /\ pc' = [pc EXCEPT ![c] = "idle", ![Head(waiters)] = "woken"]
    /\ active' = active - 1

MutHandOverKeeps(c) ==
    /\ pc[c] = "running"
    /\ waiters # <<>>
    /\ pc' = [pc EXCEPT ![c] = "idle", ![Head(waiters)] = "woken"]
    /\ UNCHANGED <<active, waiters>>

\* The finally block with a call waiting: the slot changes hands.
HandOver(c) ==
    /\ pc[c] = "running"
    /\ waiters # <<>>
    /\ waiters' = Tail(waiters)
    /\ pc' = [pc EXCEPT ![c] = "idle", ![Head(waiters)] = "woken"]
    /\ UNCHANGED active

\* The finally block with nobody waiting: the slot is freed.
Release(c) ==
    /\ pc[c] = "running"
    /\ waiters = <<>>
    /\ active' = active - 1
    /\ pc' = [pc EXCEPT ![c] = "idle"]
    /\ UNCHANGED waiters

Next ==
    \E c \in Calls : Enter(c) \/ Park(c) \/ Refuse(c) \/ Resume(c) \/ HandOver(c) \/ Release(c)

\* Microtasks always run; a task ends because every caller bounds its own (an HTTP or a
\* download timeout).  Nothing obliges anyone to call.
Continues(c) == Resume(c) \/ HandOver(c) \/ Release(c)
Fairness == \A c \in Calls : WF_vars(Continues(c))

Spec == Init /\ [][Next]_vars /\ Fairness

-----------------------------------------------------------------------------

TypeOK ==
    /\ active \in 0..max
    /\ waiters \in Seq(Calls)
    /\ pc \in [Calls -> States]

\* The calls that own a slot: running, or handed one and about to run.
Holders == {c \in Calls : pc[c] \in {"running", "woken"}}

\* No slot is lost or invented: the counter is exactly the number of calls that own a slot, also
\* in the gap between waking a call and its continuation, and that number never exceeds `max`.
SlotsConserved == active = Cardinality(Holders) /\ active <= max

\* The queue holds each parked call once and nobody else.
QueueIsParked ==
    /\ \A i, j \in 1..Len(waiters) : waiters[i] = waiters[j] => i = j
    /\ \A c \in Calls : pc[c] = "parked" <=> \E i \in 1..Len(waiters) : waiters[i] = c

\* Nobody waits while a slot is free, and the queue respects its cap.
NoIdleSlot ==
    /\ waiters # <<>> => active = max
    /\ Len(waiters) <= maxQueued

\* What the gate keeps exact at every step: its counter, its queue, and no slot idle beside a waiter.
LimiterIsExact == SlotsConserved /\ QueueIsParked /\ NoIdleSlot

\* A fresh call never starts ahead of a parked one (the microtask gap the code comments on).
NoOvertaking == [][\A c \in Calls : pc[c] = "idle" /\ pc'[c] = "running" => waiters = <<>>]_vars

\* A parked call is eventually run.
ParkedRuns == \A c \in Calls : pc[c] = "parked" ~> pc[c] = "running"

=============================================================================
