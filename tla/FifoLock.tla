------------------------------- MODULE FifoLock -------------------------------
(***************************************************************************)
(* What ordering-lock.ts promises: per key a queue of calls; only the      *)
(* first of a queue may be inside, and it leaves from the front.  There    *)
(* are no promises, no tails and no clean-up here: KeyedLock implements    *)
(* this.                                                                   *)
(***************************************************************************)
EXTENDS Sequences

CONSTANTS Keys, Runs

VARIABLES
    queue,     \* per key: the calls that have not ended, in the order they were made
    inside     \* the calls whose fn runs

fifoVars == <<queue, inside>>

FifoInit ==
    /\ queue = [k \in Keys |-> <<>>]
    /\ inside = {}

Enter(r, k) ==
    /\ queue' = [queue EXCEPT ![k] = Append(@, r)]
    /\ UNCHANGED inside

Begin(k) ==
    /\ queue[k] # <<>>
    /\ Head(queue[k]) \notin inside
    /\ inside' = inside \cup {Head(queue[k])}
    /\ UNCHANGED queue

Leave(k) ==
    /\ queue[k] # <<>>
    /\ Head(queue[k]) \in inside
    /\ inside' = inside \ {Head(queue[k])}
    /\ queue' = [queue EXCEPT ![k] = Tail(@)]

\* The process that holds the calls ends.
Forget ==
    /\ queue' = [k \in Keys |-> <<>>]
    /\ inside' = {}

FifoNext ==
    \/ \E r \in Runs, k \in Keys : Enter(r, k)
    \/ \E k \in Keys : Begin(k) \/ Leave(k)
    \/ Forget

FifoSpec == FifoInit /\ [][FifoNext]_fifoVars

=============================================================================
