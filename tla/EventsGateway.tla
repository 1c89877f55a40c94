----------------------------- MODULE EventsGateway -----------------------------
(***************************************************************************)
(* The live events: the sockets and rooms of                               *)
(* src/modules/events/events.gateway.ts, and the connection a page of the  *)
(* dashboard makes, dashboard/src/hooks/useWebSocket.ts.                   *)
(*                                                                         *)
(* All sockets use one API key.  Looking it up takes time and its answer   *)
(* is external (src/modules/auth), as is socket.io: a socket that goes     *)
(* leaves its rooms, and joins no other.                                   *)
(***************************************************************************)
EXTENDS Integers, FiniteSets

CONSTANTS
    Sockets,        \* the connections the page makes, one after another
    NoSocket,
    LiveSessions, EventKinds,
    Grants,         \* what allowedSessions of the key may be; {} for every session
    MaxTries,       \* reconnectionAttempts, 5 in the code
    MaxFrames,      \* bound: requests of the page
    MaxEvictions    \* bound: evictions of the key

ASSUME GatewayAssumption ==
    /\ NoSocket \notin Sockets /\ "*" \notin LiveSessions \cup EventKinds
    /\ \A granted \in Grants : granted \subseteq LiveSessions
    /\ MaxTries \in Nat \ {0} /\ {MaxFrames, MaxEvictions} \subseteq Nat

VARIABLES
    granted,    \* allowedSessions
    links,      \* the server's side of each socket, and the look-up of its key
    tracked,    \* socketsByKeyId
    rooms,
    frames,     \* the requests under way
    requested,  \* how many there have been
    evictions,
    socketOf,   \* socketRef of the page, how it is, and its attempts to reconnect
    wantedRooms,     \* history: the rooms the page has asked for on each socket
    overtaken,  \* history: sockets where an unsubscribe was handled while an earlier subscribe waited for its look-up
    deserted    \* history: sockets that went while their key was looked up

gatewaySide == <<granted, links, tracked, rooms>>
gatewayVars == <<gatewaySide, frames, requested, evictions, socketOf, wantedRooms, overtaken, deserted>>

AnySession == {"*"} \cup LiveSessions
AnyRoom == AnySession \X ({"*"} \cup EventKinds)

\* isSessionSubscriptionAllowed()
IsSubscriptionAllowed(w) == granted = {} \/ w \in granted

\* The rooms of a session, and of every session: the prefix handleUnsubscribe() leaves.
RoomsUnder(w) == {r \in AnyRoom : w = "*" \/ r[1] = w}

GatewayInit ==
    /\ granted \in Grants
    /\ links = [k \in Sockets |-> [at |-> "unused", key |-> "unread"]]
    /\ tracked = {} /\ rooms = [k \in Sockets |-> {}]
    /\ frames = {} /\ requested = 0 /\ evictions = 0
    /\ socketOf = [socket |-> NoSocket, at |-> "none", tries |-> 0]
    /\ wantedRooms = [k \in Sockets |-> {}]
    /\ overtaken = {} /\ deserted = {}

-----------------------------------------------------------------------------
(* The page                                                                 *)

PageOnly == UNCHANGED <<gatewaySide, requested, evictions, wantedRooms, overtaken, deserted>>

\* connect() when the page is mounted, and reconnect() by the button of a page that has given up.  The first
\* connection is not one of the attempts to reconnect.
OpensSocket ==
    /\ socketOf.at \in {"none", "failed"}
    /\ socketOf' = [socket |-> NoSocket, at |-> "connecting", tries |-> -1]
    /\ PageOnly /\ UNCHANGED frames

\* The server hears of a new socket, and looks its key up.
ServerHears ==
    /\ socketOf.at = "connecting"
    /\ \E k \in Sockets :
          /\ links[k].at = "unused"
          /\ socketOf' = [socket |-> k, at |-> "connected", tries |-> 0]
          /\ links' = [links EXCEPT ![k].at = "validating"]
    /\ UNCHANGED <<granted, tracked, rooms, frames, requested, evictions, wantedRooms, overtaken, deserted>>

\* Mutation: one attempt more than there are.
MutAttemptFails ==
    /\ socketOf.at = "connecting"
    /\ socketOf' = [socketOf EXCEPT !.tries = @ + 1, !.at = IF socketOf.tries = MaxTries THEN "failed" ELSE "connecting"]
    /\ PageOnly /\ UNCHANGED frames

\* connect_error; after the last attempt reconnect_failed.
AttemptFails ==
    /\ socketOf.at = "connecting"
    /\ socketOf' = [socketOf EXCEPT !.tries = @ + 1,
                                    !.at = IF socketOf.tries + 1 = MaxTries THEN "failed" ELSE "connecting"]
    /\ PageOnly /\ UNCHANGED frames

\* The connection is lost, with what was on its way; or the page is left.  The server finds out later.
GoesAway(at) ==
    /\ socketOf' = [socket |-> NoSocket, at |-> at, tries |-> 0]
    /\ frames' = {f \in frames : f.of # socketOf.socket \/ f.step # "sent"}
    /\ PageOnly
TransportLost == socketOf.at = "connected" /\ GoesAway("connecting")
Unmounted == socketOf.at # "none" /\ GoesAway("none")

\* subscribe() and unsubscribe(), while connected; a request names one kind of event, or one there is not.
SendsFrame(type, w, kind) ==
    /\ socketOf.at = "connected" /\ requested < MaxFrames
    /\ requested' = requested + 1
    /\ frames' = frames \cup {[number |-> requested + 1, of |-> socketOf.socket, type |-> type,
                               session |-> w, kind |-> kind, step |-> "sent"]}
    /\ wantedRooms' = [wantedRooms EXCEPT ![socketOf.socket] =
                     IF type = "unsubscribe" THEN @ \ RoomsUnder(w)
                     ELSE IF IsSubscriptionAllowed(w) THEN @ \cup ({<<w, kind>>} \cap AnyRoom) ELSE @]
    /\ UNCHANGED <<gatewaySide, evictions, socketOf, overtaken, deserted>>

-----------------------------------------------------------------------------
(* The gateway                                                              *)

Connected(k) == links[k].at \in {"validating", "open"}

\* client.disconnect(): handleDisconnect() untracks a socket whose data holds the key; the page does not try again.
Disconnects(ks) ==
    LET live == {k \in ks : Connected(k)} IN
    /\ links' = [k \in Sockets |-> IF k \in live THEN [links[k] EXCEPT !.at = "gone"] ELSE links[k]]
    /\ rooms' = [k \in Sockets |-> IF k \in live THEN {} ELSE rooms[k]]
    /\ tracked' = tracked \ {k \in live : links[k].at = "open"}

Notices(ks) ==
    socketOf' = IF socketOf.at = "connected" /\ socketOf.socket \in ks
                THEN [socketOf EXCEPT !.at = "closed"] ELSE socketOf

\* handleConnection(): the look-up goes on whether or not the socket is still there.
LooksUp(k) ==
    /\ links[k].at # "unused" /\ links[k].key = "unread"
    /\ \E answer \in {"good", "refused"} : links' = [links EXCEPT ![k].key = answer]
    /\ UNCHANGED <<granted, tracked, rooms, frames, requested, evictions, socketOf, wantedRooms, overtaken, deserted>>

AcceptsKey(k) ==
    /\ links[k].key = "good"
    /\ links' = [links EXCEPT ![k] = [at |-> IF @.at = "validating" THEN "open" ELSE @.at, key |-> "done"]]
    /\ tracked' = tracked \cup {k}
    /\ deserted' = IF links[k].at = "gone" THEN deserted \cup {k} ELSE deserted
    /\ UNCHANGED <<granted, rooms, frames, requested, evictions, socketOf, wantedRooms, overtaken>>

RejectsKey(k) ==
    /\ links[k].key = "refused"
    /\ links' = [links EXCEPT ![k] = [at |-> "gone", key |-> "done"]]
    /\ rooms' = [rooms EXCEPT ![k] = {}]
    /\ Notices({k})
    /\ UNCHANGED <<granted, tracked, frames, requested, evictions, wantedRooms, overtaken, deserted>>

\* The server misses a client that has left.
HandleDisconnect(k) ==
    /\ Connected(k) /\ socketOf.socket # k
    /\ Disconnects({k})
    /\ UNCHANGED <<granted, frames, requested, evictions, socketOf, wantedRooms, overtaken, deserted>>

\* evictApiKey(): every socket that is tracked.
EvictApiKey ==
    /\ evictions < MaxEvictions /\ evictions' = evictions + 1
    /\ tracked # {}
    /\ links' = [k \in Sockets |-> IF k \in tracked THEN [links[k] EXCEPT !.at = "gone"] ELSE links[k]]
    /\ rooms' = [k \in Sockets |-> IF k \in tracked THEN {} ELSE rooms[k]]
    /\ tracked' = {}
    /\ Notices(tracked)
    /\ UNCHANGED <<granted, frames, requested, wantedRooms, overtaken, deserted>>

\* handleMessage() takes the frames of a socket in the order they were sent, and does not wait.
TakesFrame(f) ==
    /\ f.step = "sent" /\ Connected(f.of)
    /\ \A g \in frames : g.of = f.of /\ g.step = "sent" => f.number <= g.number

\* handleSubscribe() looks the key up again; before handleConnection() has put it there, there is none.
TakeSubscribe(f) ==
    /\ f.type = "subscribe" /\ TakesFrame(f)
    /\ frames' = (frames \ {f}) \cup {[f EXCEPT !.step = IF links[f.of].at = "open" THEN "validating" ELSE "refused"]}
    /\ UNCHANGED <<gatewaySide, requested, evictions, socketOf, wantedRooms, overtaken, deserted>>

\* A request without a key, or with one that is refused by now, closes the socket.
Refuse(f) ==
    /\ f.step \in {"validating", "refused"}
    /\ frames' = frames \ {f}
    /\ Disconnects({f.of}) /\ Notices({f.of})
    /\ UNCHANGED <<granted, requested, evictions, wantedRooms, overtaken, deserted>>

\* The key is good: the session must be one of its own, and the kind known; else the request fails, and no more.
Join(f) ==
    /\ f.step = "validating"
    /\ frames' = frames \ {f}
    /\ rooms' = IF IsSubscriptionAllowed(f.session) /\ Connected(f.of)
                THEN [rooms EXCEPT ![f.of] = @ \cup ({<<f.session, f.kind>>} \cap AnyRoom)] ELSE rooms
    /\ UNCHANGED <<granted, links, tracked, requested, evictions, socketOf, wantedRooms, overtaken, deserted>>

\* handleUnsubscribe() answers at once.
Leave(f) ==
    /\ f.type = "unsubscribe" /\ TakesFrame(f)
    /\ frames' = frames \ {f}
    /\ rooms' = [rooms EXCEPT ![f.of] = @ \ RoomsUnder(f.session)]
    /\ overtaken' = IF \E g \in frames : g.of = f.of /\ g.step # "sent" THEN overtaken \cup {f.of} ELSE overtaken
    /\ UNCHANGED <<granted, links, tracked, requested, evictions, socketOf, wantedRooms, deserted>>

GatewayNext ==
    \/ OpensSocket \/ ServerHears \/ AttemptFails \/ TransportLost \/ Unmounted \/ EvictApiKey
    \/ \E w \in AnySession :
          \/ SendsFrame("unsubscribe", w, "*")
          \/ \E kind \in {"*", "unknown"} \cup EventKinds : SendsFrame("subscribe", w, kind)
    \/ \E k \in Sockets : LooksUp(k) \/ AcceptsKey(k) \/ RejectsKey(k) \/ HandleDisconnect(k)
    \/ \E f \in frames : TakeSubscribe(f) \/ Refuse(f) \/ Join(f) \/ Leave(f)

GatewaySpec == GatewayInit /\ [][GatewayNext]_gatewayVars

-----------------------------------------------------------------------------

GatewayTypeOK ==
    /\ \A k \in Sockets : /\ links[k].at \in {"unused", "validating", "open", "gone"}
                          /\ links[k].key \in {"unread", "good", "refused", "done"}
    /\ tracked \subseteq Sockets /\ rooms \in [Sockets -> SUBSET AnyRoom]
    /\ socketOf.socket \in Sockets \cup {NoSocket} /\ socketOf.tries \in -1 .. MaxTries
    /\ \A f \in frames : f.of \in Sockets /\ f.number \in 1 .. MaxFrames

\* An eviction reaches every socket that is open, and nothing is kept of a socket that has gone, but for one that
\* went while its key was looked up.
TrackedAreOpen ==
    LET open == {k \in Sockets : links[k].at = "open"} IN open \subseteq tracked /\ tracked \subseteq open \cup deserted

\* When the requests of an open socket have been answered it is in the rooms the page has asked for, unless a
\* subscribe was still waiting for its look-up when a later unsubscribe was handled.
RoomsAreWanted ==
    \A k \in Sockets \ overtaken :
        links[k].at = "open" /\ (\A f \in frames : f.of # k) /\ socketOf.socket = k => rooms[k] = wantedRooms[k]

EventsReachThePage == TrackedAreOpen /\ RoomsAreWanted

===============================================================================
