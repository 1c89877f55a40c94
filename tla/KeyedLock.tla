------------------------------ MODULE KeyedLock ------------------------------
(***************************************************************************)
(* src/modules/integration/ordering-lock.ts: KeyedAsyncLock, a chain of    *)
(* promises per key.  A run waits for the promise that was the tail of its *)
(* key when run() was called; the entry of the map is dropped when the     *)
(* promise it holds has settled.  The operator names carry a prefix        *)
(* because the modules that use the lock extend this one.                  *)
(***************************************************************************)
EXTENDS Integers, Sequences

CONSTANTS
    Keys,
    Runs,      \* the calls of run(); one that has settled and that nobody waits for may run again
    None

ASSUME LockAssumption == None \notin Runs /\ None \notin Keys

VARIABLES
    tails,     \* the map: key -> the run whose promise is the tail, or None
    prev,      \* per run: the run whose promise it is chained to, or None (Promise.resolve())
    stage,     \* per run: where its promise is
    keyOf,     \* per run: its key, until it has cleaned up
    line       \* history: per key, the unsettled runs in the order of their calls

lockVars == <<tails, prev, stage, keyOf, line>>

\* "settled": fn has settled, the clean-up of the map entry has not run yet.
Stages == {"idle", "chained", "running", "settled"}
Unsettled == {"chained", "running"}

LockInit ==
    /\ tails = [k \in Keys |-> None]
    /\ prev = [r \in Runs |-> None]
    /\ stage = [r \in Runs |-> "idle"]
    /\ keyOf = [r \in Runs |-> None]
    /\ line = [k \in Keys |-> <<>>]

-----------------------------------------------------------------------------

\* run(key, fn): chain to the tail, become the tail.
LockCall(r, k) ==
    /\ stage[r] = "idle"
    /\ \A q \in Runs : prev[q] # r
    /\ prev' = [prev EXCEPT ![r] = tails[k]]
    /\ tails' = [tails EXCEPT ![k] = r]
    /\ stage' = [stage EXCEPT ![r] = "chained"]
    /\ keyOf' = [keyOf EXCEPT ![r] = k]
    /\ line' = [line EXCEPT ![k] = Append(@, r)]

\* Mutation: a failure of the predecessor is not waited for.
MutLockStart(r) ==
    /\ stage[r] = "chained"
    /\ stage' = [stage EXCEPT ![r] = "running"]
    /\ prev' = [prev EXCEPT ![r] = None]
    /\ UNCHANGED <<tails, keyOf, line>>

\* The promise r is chained to has settled: fn starts.
LockStart(r) ==
    /\ stage[r] = "chained"
    /\ prev[r] # None => stage[prev[r]] \notin Unsettled
    /\ stage' = [stage EXCEPT ![r] = "running"]
    /\ prev' = [prev EXCEPT ![r] = None]
    /\ UNCHANGED <<tails, keyOf, line>>

\* fn resolves or rejects: the promise of r settles either way.
LockSettle(r) ==
    /\ stage[r] = "running"
    /\ stage' = [stage EXCEPT ![r] = "settled"]
    /\ line' = [line EXCEPT ![keyOf[r]] = Tail(@)]
    /\ UNCHANGED <<tails, prev, keyOf>>

MutCleanupNever(r) ==
    /\ stage[r] = "settled"
    /\ stage' = [stage EXCEPT ![r] = "idle"]
    /\ keyOf' = [keyOf EXCEPT ![r] = None]
    /\ UNCHANGED <<tails, prev, line>>

\* The finally callback: drop the entry of the key if r is still its tail.
LockCleanup(r) ==
    /\ stage[r] = "settled"
    /\ stage' = [stage EXCEPT ![r] = "idle"]
    /\ tails' = [tails EXCEPT ![keyOf[r]] = IF @ = r THEN None ELSE @]
    /\ keyOf' = [keyOf EXCEPT ![r] = None]
    /\ UNCHANGED <<prev, line>>

\* The process starts anew.
LockReset ==
    /\ tails' = [k \in Keys |-> None]
    /\ prev' = [r \in Runs |-> None]
    /\ stage' = [r \in Runs |-> "idle"]
    /\ keyOf' = [r \in Runs |-> None]
    /\ line' = [k \in Keys |-> <<>>]

LockNext ==
    \/ \E r \in Runs, k \in Keys : LockCall(r, k)
    \/ \E r \in Runs : LockStart(r) \/ LockSettle(r) \/ LockCleanup(r)
    \/ LockReset

LockSpec == LockInit /\ [][LockNext]_lockVars

-----------------------------------------------------------------------------

LockTypeOK ==
    /\ tails \in [Keys -> Runs \cup {None}]
    /\ prev \in [Runs -> Runs \cup {None}]
    /\ stage \in [Runs -> Stages]
    /\ keyOf \in [Runs -> Keys \cup {None}]
    /\ line \in [Keys -> Seq(Runs)]

\* Two runs of one key never run at the same time: the chain is never broken, although each run
\* removes the map entry it may no longer own.
Exclusive ==
    \A r, q \in Runs :
       stage[r] = "running" /\ stage[q] = "running" /\ keyOf[r] = keyOf[q] => r = q

\* Runs of one key start in the order of their calls.
StartsInOrder ==
    [][\A r \in Runs :
         stage[r] = "chained" /\ stage'[r] = "running" => Head(line[keyOf[r]]) = r]_lockVars

\* The map does not grow: a key whose runs have all settled and cleaned up has no entry.
MapIsTrimmed ==
    \A k \in Keys : (\A r \in Runs : keyOf[r] # k) => tails[k] = None

\* The lock is a first-in, first-out lock per key: the promises, the map of tails and the clean-up
\* are one way to keep a queue of calls of which only the first is inside.
Fifo == INSTANCE FifoLock WITH queue <- line, inside <- {r \in Runs : stage[r] = "running"}

LockIsFifo == Fifo!FifoSpec

=============================================================================
