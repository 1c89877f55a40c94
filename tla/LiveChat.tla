-------------------------------- MODULE LiveChat --------------------------------
(***************************************************************************)
(* The thread of one chat on the dashboard.  It is fetched once, from the  *)
(* database and from the history of the engine, and cached; from then on   *)
(* the events of the socket, the sends of the page and their answers write *)
(* to the cache.  A gap in the connection makes the page fetch again.  The *)
(* three sources know a message by different keys: the page by a temporary *)
(* id, the database by its own id until the send has stored WhatsApp's.    *)
(***************************************************************************)
EXTENDS Naturals, Sequences, FiniteSets, SequencesExt, Subsequences

CONSTANTS
    Typed,       \* messages typed on the page
    Phoned,      \* messages composed on the linked phone: no row is kept of them
    Received,    \* messages of the other side
    Reports,     \* acknowledgements WhatsApp sends: a subset of {"delivered", "read", "failed"}
    ChatFaults,  \* a subset of {"row", "rows", "history", "answer", "engine"}
    MaxGaps,     \* bound: interruptions of the socket
    MaxTexts     \* bound: messages of one behaviour

Texts == Typed \cup Phoned \cup Received
Nobody == "nobody"

ASSUME ChatAssumption ==
    /\ IsFiniteSet(Typed) /\ IsFiniteSet(Phoned) /\ IsFiniteSet(Received)
    /\ Typed \cap Phoned = {} /\ Typed \cap Received = {} /\ Phoned \cap Received = {} /\ Nobody \notin Texts
    /\ Reports \subseteq {"delivered", "read", "failed"}
    /\ {MaxGaps, MaxTexts} \subseteq Nat

VARIABLES
    call,     \* what the server has done of a send
    stored,   \* the row of a message: its key and its status
    reported,     \* the statuses WhatsApp has reported of a message; "sent" once it knows it
    echoed,   \* messages announced to the sockets
    late,     \* acknowledgements that found no row, and are tried once more
    lost,     \* history: messages whose row never got one of them
    socket,   \* "off", "connected", or "joined" to the rooms of the session
    gaps,     \* bound: interruptions so far
    stream,   \* events on their way to the page
    cache,    \* the thread: is there one, is it invalidated, and its bubbles
    open,     \* is the chat the one displayed?
    fetch,    \* the fetch under way: its two answers
    sending,  \* the message whose send the page awaits
    missed,   \* history: messages some known gap of the design may show wrongly until the next full fetch
    since     \* history: messages touched since the fetch under way read the first of its sources

chatVars == <<call, stored, reported, echoed, late, lost, socket, gaps, stream, cache, open, fetch, sending, missed, since>>
serverVars == <<call, stored, reported, echoed, late, lost>>

DeliveryRank == [pending |-> 0, sent |-> 1, delivered |-> 2, read |-> 3]

\* mergeDeliveryStatus(): ticks only advance; "failed" comes from pending or sent, and is final.
MergeDeliveryStatus(current, incoming) ==
    IF current = "failed" THEN current
    ELSE IF incoming = "failed" THEN IF current \in {"pending", "sent"} THEN "failed" ELSE current
    ELSE IF DeliveryRank[incoming] >= DeliveryRank[current] THEN incoming ELSE current

Bubble(k, m, s) == [key |-> k, m |-> m, status |-> s]
Row(keyed, s) == [keyed |-> keyed, status |-> s]
Find(list, k, m) == {i \in DOMAIN list : list[i].key = k /\ list[i].m = m}

\* Mutation: what is there is not looked for.
MutMergeOrAppend(list, b) == Append(list, b)

\* mergeOrAppend(): the bubble of the same key is replaced.
MergeOrAppend(list, b) ==
    IF Find(list, b.key, b.m) = {} THEN Append(list, b)
    ELSE [i \in DOMAIN list |-> IF i \in Find(list, b.key, b.m)
                                THEN Bubble(b.key, b.m, MergeDeliveryStatus(list[i].status, b.status))
                                ELSE list[i]]

\* mergeChatMessages(): what the database has wins over the copy of the engine, by the key of the database.
MergeChatMessages(db, history) ==
    SetToSeq(db \cup {b \in history : ~\E r \in db : r.key = b.key /\ r.m = b.m})

\* Writing to the cache creates the thread, and makes an invalidated one fresh.
Written(list) == [has |-> TRUE, stale |-> FALSE, list |-> list]
Appended(b) == IF cache.has THEN Written(MergeOrAppend(cache.list, b)) ELSE cache

Unread == [asked |-> FALSE, ok |-> FALSE, bubbles |-> {}]
Idle == [busy |-> FALSE, db |-> Unread, history |-> Unread]
Reading == [busy |-> TRUE, db |-> Unread, history |-> Unread]
HasRead == fetch.db.asked \/ fetch.history.asked

ChatInit ==
    /\ call = [m \in Typed |-> "none"]
    /\ stored = [m \in Texts |-> Row(FALSE, "none")]
    /\ reported = [m \in Texts |-> {}] /\ echoed = {} /\ late = {} /\ lost = {}
    /\ socket = "off" /\ gaps = 0 /\ stream = <<>>
    /\ cache = [has |-> FALSE, stale |-> FALSE, list |-> <<>>]
    /\ open = FALSE /\ fetch = Idle /\ sending = Nobody
    /\ missed = Texts /\ since = {}

\* Another message may begin.
Begin == Cardinality({m \in Texts : reported[m] # {} \/ (m \in Typed /\ call[m] # "none")}) < MaxTexts
\* A message is touched while a fetch is under way that has read already.
Touches(m) == since' = IF HasRead THEN since \cup {m} ELSE since
\* An event for the rooms of the session: whoever has not joined misses it.
Emit(e) ==
    /\ stream' = IF socket = "joined" THEN Append(stream, e) ELSE stream
    /\ missed' = IF socket = "joined" THEN missed ELSE missed \cup {e.m}
    /\ Touches(e.m)

-------------------------------------------------------------------------------
(* The server. *)

\* A send: the row, the engine, and the id that WhatsApp has given the message.
Inserts(m) ==
    /\ call[m] = "asked"
    /\ \/ call' = [call EXCEPT ![m] = "inserted"] /\ stored' = [stored EXCEPT ![m] = Row(FALSE, "pending")]
       \/ "row" \in ChatFaults /\ call' = [call EXCEPT ![m] = "failed"] /\ UNCHANGED stored
    /\ Touches(m)
    /\ UNCHANGED <<reported, echoed, late, lost, socket, gaps, stream, cache, open, fetch, sending, missed>>
Takes(m) ==
    /\ call[m] = "inserted"
    /\ \/ call' = [call EXCEPT ![m] = "taken"] /\ reported' = [reported EXCEPT ![m] = {"sent"}] /\ UNCHANGED stored
       \/ /\ "engine" \in ChatFaults
          /\ call' = [call EXCEPT ![m] = "failed"] /\ stored' = [stored EXCEPT ![m] = Row(FALSE, "failed")]
          /\ UNCHANGED reported
    /\ Touches(m)
    /\ UNCHANGED <<echoed, late, lost, socket, gaps, stream, cache, open, fetch, sending, missed>>
Stores(m) ==
    /\ call[m] = "taken"
    /\ call' = [call EXCEPT ![m] = "stored"]
    /\ \/ stored' = [stored EXCEPT ![m] = Row(TRUE, "sent")]
       \/ "row" \in ChatFaults /\ UNCHANGED stored
    /\ Touches(m)
    /\ UNCHANGED <<reported, echoed, late, lost, socket, gaps, stream, cache, open, fetch, sending, missed>>

PhoneSends(m) ==
    /\ m \in Phoned /\ reported[m] = {} /\ Begin
    /\ reported' = [reported EXCEPT ![m] = {"sent"}]
    /\ Touches(m)
    /\ UNCHANGED <<call, stored, echoed, late, lost, socket, gaps, stream, cache, open, fetch, sending, missed>>
\* onMessageCreate() fires for every message of the account, in its own time.
Echoes(m) ==
    /\ m \in Typed \cup Phoned /\ reported[m] # {} /\ m \notin echoed
    /\ echoed' = echoed \cup {m}
    /\ Emit([type |-> "message", m |-> m, status |-> "sent"])
    /\ UNCHANGED <<call, stored, reported, late, lost, socket, gaps, cache, open, fetch, sending>>
\* onMessage(): stored, or not, and announced.
Receives(m) ==
    /\ m \in Received /\ reported[m] = {} /\ Begin
    /\ reported' = [reported EXCEPT ![m] = {"sent"}] /\ echoed' = echoed \cup {m}
    /\ \/ stored' = [stored EXCEPT ![m] = Row(TRUE, "sent")]
       \/ "row" \in ChatFaults /\ UNCHANGED stored
    /\ Emit([type |-> "message", m |-> m, status |-> "sent"])
    /\ UNCHANGED <<call, late, lost, socket, gaps, cache, open, fetch, sending>>

\* onMessageAck(): emitted whether or not there is a row to advance; in any order.
Acknowledges(m) ==
    /\ m \in Typed \cup Phoned /\ reported[m] # {}
    /\ \E s \in Reports \ reported[m] :
          /\ reported' = [reported EXCEPT ![m] = @ \cup {s}]
          /\ IF stored[m].keyed
             THEN /\ stored' = [stored EXCEPT ![m] = Row(TRUE, MergeDeliveryStatus(stored[m].status, s))]
                  /\ UNCHANGED late
             ELSE /\ late' = IF m \in Typed THEN late \cup {<<m, s>>} ELSE late
                  /\ UNCHANGED stored
          /\ Emit([type |-> "ack", m |-> m, status |-> s])
    /\ UNCHANGED <<call, echoed, lost, socket, gaps, cache, open, fetch, sending>>
RetriesAck ==
    \E a \in late :
        /\ late' = late \ {a}
        /\ stored' = IF stored[a[1]].keyed
                     THEN [stored EXCEPT ![a[1]] = Row(TRUE, MergeDeliveryStatus(stored[a[1]].status, a[2]))] ELSE stored
        /\ lost' = IF stored'[a[1]].status = MergeDeliveryStatus("sent", a[2]) THEN lost ELSE lost \cup {a[1]}
        /\ Touches(a[1])
        /\ UNCHANGED <<call, reported, echoed, socket, gaps, stream, cache, open, fetch, sending, missed>>

-------------------------------------------------------------------------------
(* The socket. *)

\* useWebSocket(): connected, the page subscribes; after an interruption it also invalidates the threads, which
\* fetches the one displayed.
Connects ==
    /\ socket = "off"
    /\ socket' = "connected"
    /\ IF gaps = 0 THEN UNCHANGED <<cache, fetch, since>>
       ELSE /\ cache' = [has |-> cache.has, stale |-> cache.has, list |-> cache.list]
            /\ IF open /\ (cache.has \/ ~fetch.busy) THEN fetch' = Reading /\ since' = {}
               ELSE UNCHANGED <<fetch, since>>
    /\ UNCHANGED <<serverVars, gaps, stream, open, sending, missed>>
Joins ==
    /\ socket = "connected"
    /\ socket' = "joined"
    /\ UNCHANGED <<serverVars, gaps, stream, cache, open, fetch, sending, missed, since>>
Drops ==
    /\ socket # "off" /\ gaps < MaxGaps
    /\ socket' = "off" /\ gaps' = gaps + 1 /\ stream' = <<>>
    /\ missed' = missed \cup {e.m : e \in ToSet(stream)}
    /\ since' = IF HasRead THEN since \cup {e.m : e \in ToSet(stream)} ELSE since
    /\ UNCHANGED <<serverVars, cache, open, fetch, sending>>

\* An event reaches the page: a message is appended to a thread there is; an acknowledgement finds its bubble by
\* the id of WhatsApp, or nothing.
Hears ==
    /\ stream # <<>>
    /\ stream' = Tail(stream)
    /\ LET e == Head(stream) IN
       /\ IF e.type = "message"
          THEN cache' = Appended(Bubble("wa", e.m, e.status)) /\ UNCHANGED missed
          ELSE IF Find(cache.list, "wa", e.m) = {}
          THEN missed' = missed \cup {e.m} /\ UNCHANGED cache
          ELSE /\ cache' = Written([i \in DOMAIN cache.list |->
                      IF i \in Find(cache.list, "wa", e.m)
                      THEN Bubble("wa", e.m, MergeDeliveryStatus(cache.list[i].status, e.status)) ELSE cache.list[i]])
               /\ UNCHANGED missed
       /\ Touches(e.m)
    /\ UNCHANGED <<serverVars, socket, gaps, open, fetch, sending>>

-------------------------------------------------------------------------------
(* The page. *)

\* Displayed, a thread that is missing or invalidated is fetched; so it is when the window regains the focus.
Opens ==
    /\ ~open \/ ~fetch.busy
    /\ open' = TRUE
    /\ IF ~fetch.busy /\ (~cache.has \/ cache.stale) THEN fetch' = Reading /\ since' = {}
       ELSE UNCHANGED <<fetch, since>>
    /\ UNCHANGED <<serverVars, socket, gaps, stream, cache, sending, missed>>
Leaves ==
    /\ open
    /\ open' = FALSE
    /\ UNCHANGED <<serverVars, socket, gaps, stream, cache, fetch, sending, missed, since>>
\* A thread nobody has looked at for a while is collected.
Collects ==
    /\ ~open /\ cache.has /\ ~fetch.busy
    /\ cache' = [has |-> FALSE, stale |-> FALSE, list |-> <<>>]
    /\ missed' = Texts
    /\ UNCHANGED <<serverVars, socket, gaps, stream, open, fetch, sending, since>>

\* The two requests of a fetch.
Unsettled == {m \in Typed : sending = m \/ call[m] \in {"asked", "inserted", "taken"}}
             \cup {m \in Typed : ~stored[m].keyed /\ reported[m] # {}} \cup {a[1] : a \in late}
RowBubbles == {Bubble(IF stored[m].keyed THEN "wa" ELSE "row", m, stored[m].status) :
               m \in {n \in Texts : stored[n].status # "none"}}
HistoryBubbles == {Bubble("wa", m, "read") : m \in {n \in Texts : reported[n] # {}}}
Answer(source, bubbles, fault) ==
    /\ fetch.busy /\ ~fetch[source].asked
    /\ \E ok \in BOOLEAN :
          /\ ok \/ fault \in ChatFaults
          /\ fetch' = [fetch EXCEPT ![source] = [asked |-> TRUE, ok |-> ok, bubbles |-> IF ok THEN bubbles ELSE {}]]
    /\ since' = since \cup Unsettled
    /\ UNCHANGED <<serverVars, socket, gaps, stream, cache, open, sending, missed>>
RowsArrive == Answer("db", RowBubbles, "rows")
HistoryArrives == Answer("history", HistoryBubbles, "history")

\* Promise.allSettled(): one answer is enough, and replaces the thread.
FetchEnds ==
    /\ fetch.db.asked /\ fetch.history.asked
    /\ fetch' = Idle
    /\ IF ~fetch.db.ok /\ ~fetch.history.ok THEN UNCHANGED <<cache, missed>>
       ELSE /\ cache' = Written(MergeChatMessages(fetch.db.bubbles, fetch.history.bubbles))
            /\ missed' = since \cup (IF fetch.db.ok THEN {} ELSE Texts)
                               \cup (IF fetch.history.ok THEN {} ELSE {m \in Texts : ~stored[m].keyed})
    /\ since' = {}
    /\ UNCHANGED <<serverVars, socket, gaps, stream, open, sending>>

\* handleSend(): a temporary bubble, renamed by the answer unless the announcement was faster.
PageSends(m) ==
    /\ open /\ sending = Nobody /\ call[m] = "none" /\ Begin
    /\ sending' = m /\ call' = [call EXCEPT ![m] = "asked"]
    /\ cache' = Appended(Bubble("temp", m, "pending"))
    /\ Touches(m)
    /\ UNCHANGED <<stored, reported, echoed, late, lost, socket, gaps, stream, open, fetch, missed>>
SendAnswered(list, m) ==
    IF Find(list, "wa", m) # {} THEN Picked(list, DOMAIN list \ Find(list, "temp", m))
    ELSE [i \in DOMAIN list |-> IF i \in Find(list, "temp", m) THEN Bubble("wa", m, "sent") ELSE list[i]]
SendSucceeds(m) ==
    /\ sending = m /\ call[m] = "stored"
    /\ sending' = Nobody
    /\ cache' = Written(SendAnswered(cache.list, m))
    /\ Touches(m)
    /\ UNCHANGED <<serverVars, socket, gaps, stream, open, fetch, missed>>
\* An error, or no answer at all although the server goes on.
SendFails(m) ==
    /\ sending = m
    /\ call[m] = "failed" \/ "answer" \in ChatFaults
    /\ sending' = Nobody
    /\ cache' = Written([i \in DOMAIN cache.list |->
                            IF i \in Find(cache.list, "temp", m) THEN Bubble("temp", m, "failed") ELSE cache.list[i]])
    /\ missed' = IF call[m] = "failed" THEN missed ELSE missed \cup {m}
    /\ Touches(m)
    /\ UNCHANGED <<serverVars, socket, gaps, stream, open, fetch>>

ChatNext ==
    \/ \E m \in Typed : Inserts(m) \/ Takes(m) \/ Stores(m) \/ PageSends(m) \/ SendSucceeds(m) \/ SendFails(m)
    \/ \E m \in Texts : PhoneSends(m) \/ Echoes(m) \/ Receives(m) \/ Acknowledges(m)
    \/ RetriesAck \/ Connects \/ Joins \/ Drops \/ Hears
    \/ Opens \/ Leaves \/ Collects \/ RowsArrive \/ HistoryArrives \/ FetchEnds

ChatSpec == ChatInit /\ [][ChatNext]_chatVars

-------------------------------------------------------------------------------

Ticks == {"pending", "sent", "delivered", "read", "failed"}
ChatTypeOK ==
    /\ call \in [Typed -> {"none", "asked", "inserted", "taken", "stored", "failed"}]
    /\ stored \in [Texts -> [keyed : BOOLEAN, status : Ticks \cup {"none"}]]
    /\ reported \in [Texts -> SUBSET Ticks] /\ echoed \subseteq Texts
    /\ socket \in {"off", "connected", "joined"} /\ gaps \in 0..MaxGaps
    /\ \A b \in ToSet(cache.list) : b.key \in {"temp", "row", "wa"} /\ b.m \in Texts /\ b.status \in Ticks
    /\ cache.has \/ cache.list = <<>>
    /\ missed \subseteq Texts /\ since \subseteq Texts

Shown(m) == {i \in DOMAIN cache.list : cache.list[i].m = m}
\* Nothing about the chat is on its way.
Quiet(m) == stream = <<>> /\ ~fetch.busy /\ sending = Nobody /\ m \in echoed /\ ~\E a \in late : a[1] = m

\* A message outside the known gaps is shown once, however its announcement, its acknowledgements, the answer of
\* its send and the fetches interleave; its tick claims nothing WhatsApp has not reported; and when everything has
\* arrived, every message of the chat is there with the tick the database has.
ChatIsTrue ==
    cache.has => \A m \in Texts \ missed :
        /\ Cardinality(Shown(m)) <= IF sending = m THEN 2 ELSE 1
        /\ m \in Typed => \A i \in Shown(m) :
              cache.list[i].status \in reported[m] \cup {"pending", "sent"} \cup (IF call[m] = "failed" THEN {"failed"} ELSE {})
        /\ Quiet(m) => \E i \in Shown(m) :
              /\ cache.list[i].key = "wa"
              /\ stored[m].keyed /\ m \notin lost => cache.list[i].status = stored[m].status

===============================================================================
