--------------------------- MODULE BaileysIdentity ----------------------------
(***************************************************************************)
(* Who is behind a privacy id.  WhatsApp addresses a person by phone or by *)
(* a privacy id (lid) that hides it; the program wants one neutral id per  *)
(* person.  Each Baileys session learns pairs of lid and phone from        *)
(* contacts, from messages and from the protocol                           *)
(* (src/engine/adapters/baileys-session-store.ts), and shares them through *)
(* a table with a cache in the process                                     *)
(* (src/engine/identity/lid-mapping-store.service.ts).                     *)
(***************************************************************************)
EXTENDS Integers, FiniteSets

CONSTANTS
    Lids,
    Phones,
    Accounts,
    MaxWrites,     \* bound: writes to the table under way at a time
    MaxBoots,      \* bound: restarts of the process
    IdentityFaults \* which of "write" (of the table), "load" (at boot) may fail

ASSUME IdentityAssumption ==
    /\ "unknown" \notin Lids \cup Phones
    /\ {MaxWrites, MaxBoots} \subseteq Nat
    /\ IdentityFaults \subseteq {"write", "load"}

VARIABLES
    pnOf,     \* lidToPn: per session and lid, the phone
    contact,  \* contacts: per session and id, the merged lid and phone number
    phoneOf,  \* lidToPhone: the cache
    lidsOf,   \* phoneToLids: the cache, from the other side
    table,    \* lid_mappings
    upserts,   \* writes of a pair under way
    durable,  \* history: lids that some write has stored
    mixed,    \* history: lids with a failed write, or writes that overlapped
    blind,    \* history: the load at boot has failed
    boots

identityVars == <<pnOf, contact, phoneOf, lidsOf, table, upserts, durable, mixed, blind, boots>>

Unknown == "unknown"
Phone == Phones \cup {Unknown}
NoPairs == [l \in Lids |-> Unknown]
NoContacts == [c \in Lids \cup Phones |-> [lid |-> Unknown, phone |-> Unknown]]

IdentityInit ==
    /\ pnOf = [s \in Accounts |-> NoPairs]
    /\ contact = [s \in Accounts |-> NoContacts]
    /\ phoneOf = NoPairs
    /\ lidsOf = [p \in Phones |-> {}]
    /\ table = NoPairs
    /\ upserts = {}
    /\ durable = {}
    /\ mixed = {}
    /\ blind = FALSE
    /\ boots = 0

-----------------------------------------------------------------------------
(* LidMappingStoreService                                                   *)

\* index(): the lid leaves the phone it was under.
Indexed(lids, l, p) == [q \in Phones |-> IF q = p THEN lids[q] \cup {l} ELSE lids[q] \ {l}]

\* remember(): nothing to do for a pair the cache has; else both caches change and an upsert starts.
Caches(l, p) ==
    IF phoneOf[l] = p THEN UNCHANGED <<phoneOf, lidsOf, upserts, mixed>>
    ELSE /\ Cardinality(upserts) < MaxWrites
         /\ phoneOf' = [phoneOf EXCEPT ![l] = p]
         /\ lidsOf' = Indexed(lidsOf, l, p)
         /\ upserts' = upserts \cup {[lid |-> l, phone |-> p]}
         /\ mixed' = IF \E w \in upserts : w.lid = l THEN mixed \cup {l} ELSE mixed

WriteEnds(w) ==
    /\ upserts' = upserts \ {w}
    /\ \/ /\ table' = [table EXCEPT ![w.lid] = w.phone]
          /\ durable' = durable \cup {w.lid}
          /\ UNCHANGED mixed
       \/ /\ "write" \in IdentityFaults
          /\ mixed' = mixed \cup {w.lid}
          /\ UNCHANGED <<table, durable>>
    /\ UNCHANGED <<pnOf, contact, phoneOf, lidsOf, blind, boots>>

\* The process dies and starts again: onModuleInit() indexes the rows, or goes on without them.
Boot ==
    /\ boots < MaxBoots /\ boots' = boots + 1
    /\ pnOf' = [s \in Accounts |-> NoPairs]
    /\ contact' = [s \in Accounts |-> NoContacts]
    /\ upserts' = {}
    /\ mixed' = mixed \cup {w.lid : w \in upserts}
    /\ \/ /\ phoneOf' = table
          /\ lidsOf' = [p \in Phones |-> {l \in Lids : table[l] = p}]
          /\ UNCHANGED blind
       \/ /\ "load" \in IdentityFaults /\ blind' = TRUE
          /\ phoneOf' = NoPairs
          /\ lidsOf' = [p \in Phones |-> {}]
    /\ UNCHANGED <<table, durable>>

-----------------------------------------------------------------------------
(* BaileysSessionStore                                                      *)

\* addLidMappings(), from the protocol, the history, or the key of a message; then the pair is remembered.
Learn(s, l, p) ==
    /\ pnOf' = [pnOf EXCEPT ![s][l] = p]
    /\ Caches(l, p)

PairArrives(s, l, p) ==
    /\ Learn(s, l, p)
    /\ UNCHANGED <<contact, table, durable, blind, boots>>

\* upsertContacts(): fields that are absent keep what is there; the pair may become complete only now.
ContactArrives(s, id, lid, phone) ==
    LET old == contact[s][id]
        merged == [lid |-> IF lid = Unknown THEN old.lid ELSE lid,
                   phone |-> IF phone = Unknown THEN old.phone ELSE phone]
        number == IF merged.phone # Unknown THEN merged.phone ELSE IF id \in Phones THEN id ELSE Unknown
    IN /\ contact' = [contact EXCEPT ![s][id] = merged]
       /\ IF merged.lid # Unknown /\ number # Unknown THEN Learn(s, merged.lid, number)
          ELSE UNCHANGED <<pnOf, phoneOf, lidsOf, upserts, mixed>>
       /\ UNCHANGED <<table, durable, blind, boots>>

\* A new adapter for the session: it starts empty.
AdapterReplaced(s) ==
    /\ pnOf' = [pnOf EXCEPT ![s] = NoPairs]
    /\ contact' = [contact EXCEPT ![s] = NoContacts]
    /\ UNCHANGED <<phoneOf, lidsOf, table, upserts, durable, mixed, blind, boots>>

\* resolvePhone(): the session's own pairs, then its contacts, then the cache.
ResolvePhone(s, l) ==
    IF pnOf[s][l] # Unknown THEN pnOf[s][l]
    ELSE IF contact[s][l].phone # Unknown THEN contact[s][l].phone
    ELSE phoneOf[l]

IdentityNext ==
    \/ Boot
    \/ \E w \in upserts : WriteEnds(w)
    \/ \E s \in Accounts :
          \/ AdapterReplaced(s)
          \/ \E l \in Lids, p \in Phones : PairArrives(s, l, p)
          \/ \E l \in Lids : \E p \in Phone : ContactArrives(s, l, Unknown, p)
          \/ \E p \in Phones : \E l \in Lids \cup {Unknown} : ContactArrives(s, p, l, Unknown)

IdentitySpec == IdentityInit /\ [][IdentityNext]_identityVars

-----------------------------------------------------------------------------

IdentityTypeOK ==
    /\ pnOf \in [Accounts -> [Lids -> Phone]]
    /\ contact \in [Accounts -> [Lids \cup Phones -> [lid : Lids \cup {Unknown}, phone : Phone]]]
    /\ phoneOf \in [Lids -> Phone] /\ table \in [Lids -> Phone]
    /\ lidsOf \in [Phones -> SUBSET Lids]
    /\ upserts \subseteq [lid : Lids, phone : Phones]

\* The filter of a chat's messages asks for the lids of a phone and finds exactly those whose phone it is.
ReverseIsExact == \A p \in Phones : lidsOf[p] = {l \in Lids : phoneOf[l] = p}

\* When nothing is being written, the table holds what the cache holds, except for lids whose write failed,
\* was cut off by a restart, or overlapped another, and after a boot that could not read it.
TableFollowsCache == upserts = {} /\ ~blind => \A l \in Lids \ mixed : table[l] = phoneOf[l]

\* A person whose phone was ever stored is never again taken for an unknown one, by any session, after any
\* replacement of an adapter and any restart that could read the table: the thread is not split.
StoredStaysKnown == ~blind => \A s \in Accounts, l \in durable : ResolvePhone(s, l) # Unknown

\* What one session learns, every session knows.
LearnedIsShared == \A s, t \in Accounts, l \in Lids : pnOf[s][l] # Unknown => ResolvePhone(t, l) # Unknown

IdentityIsTrue == ReverseIsExact /\ TableFollowsCache /\ StoredStaysKnown /\ LearnedIsShared

===============================================================================
