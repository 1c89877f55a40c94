----------------------------- MODULE BaileysStore ------------------------------
(***************************************************************************)
(* The store of raw messages behind replies, reactions, forwards and       *)
(* deletions by id of a Baileys session:                                   *)
(* src/engine/adapters/baileys-message-store.service.ts, for one session.  *)
(*                                                                         *)
(* put() is called without being awaited, so puts overlap: each is an      *)
(* upsert, a query for the cutoff and a delete, with other puts between    *)
(* them.  createdAt is the time of the call, counted here in calls.        *)
(***************************************************************************)
EXTENDS Integers, FiniteSets

CONSTANTS
    Stored,      \* the messages
    StoreLimit,  \* BAILEYS_MESSAGE_STORE_LIMIT
    MaxPuts,     \* bound: calls of put()
    StoreFaults  \* may a statement fail?

ASSUME StoreAssumption == IsFiniteSet(Stored) /\ StoreLimit \in Nat \ {0} /\ MaxPuts \in Nat /\ StoreFaults \in BOOLEAN

VARIABLES
    parent,   \* is the row of the session there?
    created,  \* per message: createdAt of its row, 0 when it has none
    puts,     \* number of calls of put() so far
    pending,  \* the calls under way: number, message, step, cutoff
    newest,   \* history: per message the number of its last upsert that was made
    cleared,  \* history: the puts called before the last logout, or the last upsert that came too late
    failed    \* history: has a statement failed?

storeVars == <<parent, created, puts, pending, newest, cleared, failed>>

StoreInit ==
    /\ parent = TRUE
    /\ created = [m \in Stored |-> 0]
    /\ puts = 0
    /\ pending = {}
    /\ newest = [m \in Stored |-> 0]
    /\ cleared = 0
    /\ failed = FALSE

TurnsInto(p, q) == pending' = (pending \ {p}) \cup q

\* put(): a message is stored again when it comes again, its send and its echo included.
Put(m) ==
    /\ puts < MaxPuts /\ puts' = puts + 1
    /\ pending' = pending \cup {[number |-> puts', of |-> m, at |-> "upserting", cutoff |-> 0]}
    /\ UNCHANGED <<parent, created, newest, cleared, failed>>

\* A statement of p fails: the adapter logs it.
Fails(p) ==
    /\ StoreFaults /\ failed' = TRUE /\ TurnsInto(p, {})
    /\ UNCHANGED <<parent, created, puts, newest, cleared>>

\* Two upserts of one message came to the database in the order in which they were not called: its row is the older.
TooLate(p) == p.number < newest[p.of]

\* The upsert.  Without the row of the session it is skipped.
Upserted(p) ==
    /\ p.at = "upserting"
    /\ \/ /\ parent
          /\ created' = [created EXCEPT ![p.of] = p.number]
          /\ IF TooLate(p) THEN newest' = [m \in Stored |-> 0] /\ cleared' = puts
             ELSE newest' = [newest EXCEPT ![p.of] = IF p.number > cleared THEN p.number ELSE @] /\ cleared' = cleared
          /\ TurnsInto(p, {[p EXCEPT !.at = "counting"]})
       \/ ~parent /\ TurnsInto(p, {}) /\ UNCHANGED <<created, newest, cleared>>
    /\ UNCHANGED <<parent, puts, failed>>

\* The messages beyond the newest StoreLimit, by the given times.
Beyond(times) ==
    {m \in Stored : times[m] > 0 /\ Cardinality({n \in Stored : times[n] > times[m]}) >= StoreLimit}

MutCutoff == 1 + CHOOSE c \in {created[n] : n \in Beyond(created)} : \A n \in Beyond(created) : created[n] <= c

\* The newest row beyond the limit.
Cutoff == CHOOSE c \in {created[n] : n \in Beyond(created)} : \A n \in Beyond(created) : created[n] <= c

\* enforceLimit(): the cutoff is looked up ...
Counted(p) ==
    /\ p.at = "counting"
    /\ TurnsInto(p, IF Beyond(created) = {} THEN {} ELSE {[p EXCEPT !.at = "evicting", !.cutoff = Cutoff]})
    /\ UNCHANGED <<parent, created, puts, newest, cleared, failed>>

\* ... and it and everything older is deleted.
Evicted(p) ==
    /\ p.at = "evicting"
    /\ created' = [m \in Stored |-> IF created[m] <= p.cutoff THEN 0 ELSE created[m]]
    /\ TurnsInto(p, {})
    /\ UNCHANGED <<parent, puts, newest, cleared, failed>>

\* The session is deleted, and its rows with it.
SessionDeleted ==
    /\ parent /\ parent' = FALSE
    /\ created' = [m \in Stored |-> 0]
    /\ newest' = [m \in Stored |-> 0]
    /\ UNCHANGED <<puts, pending, cleared, failed>>

\* clearSession(): the account is logged out; the puts under way go on.
ClearSession ==
    /\ cleared' = puts
    /\ created' = [m \in Stored |-> 0]
    /\ newest' = [m \in Stored |-> 0]
    /\ UNCHANGED <<parent, puts, pending, failed>>

PutStep(p) == Upserted(p) \/ Counted(p) \/ Evicted(p) \/ Fails(p)

StoreNext == SessionDeleted \/ ClearSession \/ (\E m \in Stored : Put(m)) \/ \E p \in pending : PutStep(p)

StoreSpec == StoreInit /\ [][StoreNext]_storeVars

-----------------------------------------------------------------------------

StoreTypeOK ==
    /\ parent \in BOOLEAN /\ failed \in BOOLEAN
    /\ created \in [Stored -> 0..MaxPuts] /\ newest \in [Stored -> 0..MaxPuts]
    /\ \A p \in pending : p.of \in Stored /\ p.number \in 1..MaxPuts /\ p.at \in {"upserting", "counting", "evicting"}

\* Whatever the order in which puts of different messages reach the database, a message among the newest StoreLimit is
\* never evicted: it can be replied to.  Messages put before a logout do not count, nor those put before an upsert of
\* one message came after a newer one of it: the row is older again, and a cutoff that was found may take a newer one.
NewestAreKept ==
    \A m \in Stored : newest[m] > 0 /\ m \notin Beyond(newest) => created[m] = newest[m]

\* When no put is under way and no statement has failed, nothing beyond the limit is left.
LimitIsKept == pending = {} /\ ~failed => Beyond(created) = {}

\* No message outlives its session, though the adapter goes on storing.
NoOrphans == ~parent => \A m \in Stored : created[m] = 0

StoreIsExact == NewestAreKept /\ LimitIsKept /\ NoOrphans

===============================================================================
