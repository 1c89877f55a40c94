--------------------------- MODULE DashboardProofs ---------------------------
(***************************************************************************)
(* For any sockets, sessions, entries, rows, messages and faults: a socket *)
(* that has been answered is in the rooms its page has asked for; a list   *)
(* shows what there is and loses nothing that was typed; the settings of a *)
(* plugin are stored as they were meant, whoever saves and whatever was    *)
(* masked; and the thread of a chat shows each message once, with a tick   *)
(* that WhatsApp has reported and, in the end, the one the database has.   *)
(***************************************************************************)
EXTENDS MCDashboard, SubsequenceProofs, FiniteSetTheorems, SequenceTheorems, WellFoundedInduction, TLAPS

-----------------------------------------------------------------------------
(* The live events                                                          *)

LinkSet == [at : {"unused", "validating", "open", "gone"}, key : {"unread", "good", "refused", "done"}]
FrameSet == [number : 1 .. MaxFrames, of : Sockets, type : {"subscribe", "unsubscribe"}, session : AnySession,
             kind : {"*", "unknown"} \cup EventKinds, step : {"sent", "validating", "refused"}]
PageSockets == [socket : Sockets \cup {NoSocket}, at : {"none", "connecting", "connected", "failed", "closed"},
                tries : -1 .. MaxTries]

GatewayShape ==
    /\ links \in [Sockets -> LinkSet]
    /\ tracked \subseteq Sockets /\ rooms \in [Sockets -> SUBSET AnyRoom] /\ wantedRooms \in [Sockets -> SUBSET AnyRoom]
    /\ frames \subseteq FrameSet /\ requested \in 0 .. MaxFrames
    /\ socketOf \in PageSockets
    /\ socketOf.at = "connecting" => socketOf.tries < MaxTries
    /\ socketOf.at = "connected" => socketOf.socket \in Sockets /\ links[socketOf.socket].at # "unused"

\* A socket the server has not heard of has nothing, and one that is open has had its key looked up.
LinksAgree ==
    \A k \in Sockets :
        /\ links[k].at = "unused" => links[k].key = "unread" /\ rooms[k] = {} /\ wantedRooms[k] = {}
                                     /\ \A f \in frames : f.of # k
        /\ links[k].at = "open" => links[k].key = "done"
        /\ k \in tracked => links[k].at # "unused"

\* Requests are numbered as they are sent, those of a socket are taken in that order, and only a subscribe waits.
FramesInOrder ==
    /\ \A f \in frames : f.number <= requested /\ (f.step # "sent" => f.type = "subscribe")
    /\ \A f \in frames : \A g \in frames : f.number = g.number => f = g
    /\ \A f \in frames : \A g \in frames : f.of = g.of /\ f.step # "sent" /\ g.step = "sent" => f.number < g.number

Adds(f, r) == f.type = "subscribe" /\ IsSubscriptionAllowed(f.session) /\ r = <<f.session, f.kind>>
Removes(f, r) == f.type = "unsubscribe" /\ r \in RoomsUnder(f.session)
WillAdd(k, r) ==
    \E f \in frames : f.of = k /\ Adds(f, r) /\ \A u \in frames : u.of = k /\ Removes(u, r) => u.number < f.number
WillKeep(k, r) == r \in rooms[k] /\ \A u \in frames : u.of = k => ~Removes(u, r)
NoneRefused(k) == \A f \in frames : f.of = k => f.step # "refused"

\* The rooms the page has asked for are those the socket will be in when its requests have been answered.
Heeded(k) ==
    k \notin overtaken /\ socketOf.socket = k /\ Connected(k) /\ NoneRefused(k) =>
        \A r \in AnyRoom : r \in wantedRooms[k] <=> WillAdd(k, r) \/ WillKeep(k, r)

GatewayInv ==
    /\ GatewayShape /\ LinksAgree /\ FramesInOrder /\ TrackedAreOpen
    /\ \A k \in Sockets : Heeded(k)

LEMMA GatewayStarts == GatewayInit => GatewayInv
  <1> SUFFICES ASSUME GatewayInit PROVE GatewayInv
    OBVIOUS
  <1>1. GatewayShape
    BY GatewayAssumption DEF GatewayInit, GatewayShape, LinkSet, PageSockets
  <1>2. LinksAgree /\ FramesInOrder /\ TrackedAreOpen
    BY DEF GatewayInit, LinksAgree, FramesInOrder, TrackedAreOpen
  <1>3. \A k \in Sockets : Heeded(k)
    BY DEF GatewayInit, Heeded, Connected
  <1> QED BY <1>1, <1>2, <1>3 DEF GatewayInv

\* What a socket has been asked and where it is stays true when nothing of the kind changes, or it goes.
LEMMA HeededRests ==
    ASSUME NEW k \in Sockets, Heeded(k), granted' = granted, wantedRooms'[k] = wantedRooms[k],
           overtaken' = overtaken, socketOf'.socket = k => socketOf.socket = k,
           Connected(k)' => Connected(k) /\ frames' = frames /\ rooms'[k] = rooms[k]
    PROVE  Heeded(k)'
  <1> SUFFICES ASSUME k \notin overtaken', socketOf'.socket = k, Connected(k)', NoneRefused(k)'
      PROVE \A r \in AnyRoom : r \in wantedRooms'[k] <=> WillAdd(k, r)' \/ WillKeep(k, r)'
    BY DEF Heeded
  <1>1. k \notin overtaken /\ socketOf.socket = k /\ Connected(k) /\ frames' = frames /\ rooms'[k] = rooms[k]
    OBVIOUS
  <1>2. NoneRefused(k)
    BY <1>1 DEF NoneRefused
  <1>3. TAKE r \in AnyRoom
  <1>4. r \in wantedRooms[k] <=> WillAdd(k, r) \/ WillKeep(k, r)
    BY <1>1, <1>2 DEF Heeded
  <1>5. WillAdd(k, r)' <=> WillAdd(k, r)
    BY <1>1 DEF WillAdd, Adds, Removes, IsSubscriptionAllowed
  <1>6. WillKeep(k, r)' <=> WillKeep(k, r)
    BY <1>1 DEF WillKeep, Removes
  <1> QED BY <1>4, <1>5, <1>6

LEMMA OpensStep == ASSUME GatewayInv, OpensSocket \/ AttemptFails PROVE GatewayInv'
  <1>1. UNCHANGED <<granted, links, tracked, rooms, frames, requested, wantedRooms, overtaken, deserted>>
    BY DEF OpensSocket, AttemptFails, PageOnly, gatewaySide
  <1>2. /\ socketOf' \in PageSockets /\ socketOf'.at # "connected"
        /\ socketOf'.at = "connecting" => socketOf'.tries < MaxTries
    <2>1. CASE OpensSocket
      BY <2>1, GatewayAssumption DEF OpensSocket, PageSockets
    <2>2. CASE AttemptFails
      <3>1. socketOf \in PageSockets /\ socketOf.tries \in -1 .. MaxTries /\ socketOf.tries < MaxTries
        BY <2>2 DEF GatewayInv, GatewayShape, PageSockets, AttemptFails
      <3>2. PICK n : n = socketOf.tries + 1
        OBVIOUS
      <3>3. n \in -1 .. MaxTries /\ n <= MaxTries
        BY <3>1, <3>2, GatewayAssumption
      <3>4. PICK a : a = IF n = MaxTries THEN "failed" ELSE "connecting"
        OBVIOUS
      <3>5. socketOf' = [socketOf EXCEPT !.tries = n, !.at = a]
        BY <2>2, <3>2, <3>4 DEF AttemptFails
      <3>6. a \in {"failed", "connecting"} /\ (a = "connecting" => n < MaxTries)
        BY <3>3, <3>4, GatewayAssumption
      <3>7. socketOf'.tries = n /\ socketOf'.at = a /\ socketOf'.socket = socketOf.socket
        BY <3>1, <3>5 DEF PageSockets
      <3>8. socketOf' \in PageSockets
        BY <3>1, <3>3, <3>5, <3>6 DEF PageSockets
      <3> QED BY <3>6, <3>7, <3>8
    <2> QED BY <2>1, <2>2
  <1>3. socketOf'.socket \in {NoSocket, socketOf.socket}
    <2>1. CASE OpensSocket
      BY <2>1 DEF OpensSocket
    <2>2. CASE AttemptFails
      <3>1. PICK n, a : socketOf' = [socketOf EXCEPT !.tries = n, !.at = a]
        BY <2>2 DEF AttemptFails
      <3> QED BY <3>1 DEF GatewayInv, GatewayShape, PageSockets
    <2> QED BY <2>1, <2>2
  <1>4. GatewayShape'
    BY <1>1, <1>2 DEF GatewayInv, GatewayShape
  <1>5. LinksAgree' /\ FramesInOrder' /\ TrackedAreOpen'
    BY <1>1 DEF GatewayInv, LinksAgree, FramesInOrder, TrackedAreOpen
  <1>6. ASSUME NEW k \in Sockets PROVE Heeded(k)'
    <2>1. Heeded(k) /\ (socketOf'.socket = k => socketOf.socket = k)
      BY <1>3, GatewayAssumption DEF GatewayInv
    <2> QED BY <1>1, <2>1, HeededRests DEF Connected
  <1> QED BY <1>4, <1>5, <1>6 DEF GatewayInv

LEMMA AwayStep == ASSUME GatewayInv, TransportLost \/ Unmounted PROVE GatewayInv'
  <1>1. PICK at \in {"connecting", "none"} : GoesAway(at)
    BY DEF TransportLost, Unmounted
  <1>2. UNCHANGED <<granted, links, tracked, rooms, requested, wantedRooms, overtaken, deserted>>
    BY <1>1 DEF GoesAway, PageOnly, gatewaySide
  <1>3. frames' \subseteq frames /\ socketOf' = [socket |-> NoSocket, at |-> at, tries |-> 0]
    BY <1>1 DEF GoesAway
  <1>4. GatewayShape'
    BY <1>2, <1>3, GatewayAssumption DEF GatewayInv, GatewayShape, PageSockets
  <1>5. LinksAgree'
    BY <1>2, <1>3 DEF GatewayInv, LinksAgree
  <1>6. FramesInOrder'
    BY <1>2, <1>3 DEF GatewayInv, FramesInOrder
  <1>7. TrackedAreOpen'
    BY <1>2 DEF GatewayInv, TrackedAreOpen
  <1>8. \A k \in Sockets : Heeded(k)'
    BY <1>3, GatewayAssumption DEF Heeded
  <1> QED BY <1>4, <1>5, <1>6, <1>7, <1>8 DEF GatewayInv

LEMMA HearsSocketStep == ASSUME GatewayInv, ServerHears PROVE GatewayInv'
  <1>1. PICK k \in Sockets : /\ links[k].at = "unused"
                             /\ socketOf' = [socket |-> k, at |-> "connected", tries |-> 0]
                             /\ links' = [links EXCEPT ![k].at = "validating"]
    BY DEF ServerHears
  <1>2. UNCHANGED <<granted, tracked, rooms, frames, requested, wantedRooms, overtaken, deserted>>
    BY DEF ServerHears
  <1>3. links \in [Sockets -> LinkSet]
    BY DEF GatewayInv, GatewayShape
  <1>4. links' \in [Sockets -> LinkSet] /\ links'[k].at = "validating"
        /\ \A j \in Sockets \ {k} : links'[j] = links[j]
    BY <1>1, <1>3 DEF LinkSet
  <1>5. GatewayShape'
    BY <1>1, <1>2, <1>4, GatewayAssumption DEF GatewayInv, GatewayShape, PageSockets
  <1>6. LinksAgree'
    BY <1>2, <1>4 DEF GatewayInv, LinksAgree
  <1>7. FramesInOrder'
    BY <1>2 DEF GatewayInv, FramesInOrder
  <1>8. TrackedAreOpen'
    BY <1>1, <1>2, <1>4 DEF GatewayInv, TrackedAreOpen
  <1>9. ASSUME NEW j \in Sockets PROVE Heeded(j)'
    <2>1. CASE j = k
      <3>1. rooms[j] = {} /\ wantedRooms[j] = {} /\ \A f \in frames : f.of # j
        BY <1>1, <2>1 DEF GatewayInv, LinksAgree
      <3> QED BY <1>2, <3>1 DEF Heeded, WillAdd, WillKeep
    <2>2. CASE j # k
      BY <1>1, <2>2 DEF Heeded
    <2> QED BY <2>1, <2>2
  <1> QED BY <1>5, <1>6, <1>7, <1>8, <1>9 DEF GatewayInv

LEMMA SendsStep ==
    ASSUME GatewayInv, NEW w \in AnySession, NEW kind \in {"*", "unknown"} \cup EventKinds,
           NEW type \in {"subscribe", "unsubscribe"}, SendsFrame(type, w, kind)
    PROVE  GatewayInv'
  <1> DEFINE k == socketOf.socket
             g == [number |-> requested + 1, of |-> k, type |-> type, session |-> w, kind |-> kind, step |-> "sent"]
             gains == IF IsSubscriptionAllowed(w) THEN {<<w, kind>>} \cap AnyRoom ELSE {}
  <1>1. /\ k \in Sockets /\ links[k].at # "unused" /\ requested < MaxFrames /\ requested \in 0 .. MaxFrames
        /\ rooms \in [Sockets -> SUBSET AnyRoom] /\ wantedRooms \in [Sockets -> SUBSET AnyRoom]
    BY DEF SendsFrame, GatewayInv, GatewayShape
  <1>2. requested + 1 \in 1 .. MaxFrames /\ requested' = requested + 1
    BY <1>1, GatewayAssumption DEF SendsFrame
  <1>3. g \in FrameSet /\ frames' = frames \cup {g}
    BY <1>1, <1>2 DEF SendsFrame, FrameSet
  <1>4. UNCHANGED <<granted, links, tracked, rooms, evictions, socketOf, overtaken, deserted>>
    BY DEF SendsFrame, gatewaySide
  <1>5. PICK wanted : wanted = IF type = "unsubscribe" THEN wantedRooms[k] \ RoomsUnder(w) ELSE wantedRooms[k] \cup gains
    OBVIOUS
  <1>6. wantedRooms' = [wantedRooms EXCEPT ![k] = wanted]
    BY <1>1, <1>5 DEF SendsFrame
  <1>7. wanted \subseteq AnyRoom
    BY <1>1, <1>5
  <1>8. wantedRooms' \in [Sockets -> SUBSET AnyRoom] /\ wantedRooms'[k] = wanted
        /\ \A j \in Sockets \ {k} : wantedRooms'[j] = wantedRooms[j]
    BY <1>1, <1>6, <1>7
  <1>9. GatewayShape'
    BY <1>1, <1>2, <1>3, <1>4, <1>8 DEF GatewayInv, GatewayShape
  <1>10. LinksAgree'
    <2>1. g.of = k
      OBVIOUS
    <2> QED BY <1>1, <1>3, <1>4, <1>8, <2>1 DEF GatewayInv, LinksAgree
  <1>11. \A f \in frames : f.number \in Nat /\ f.number <= requested
    BY DEF GatewayInv, GatewayShape, FrameSet, FramesInOrder
  <1>12. FramesInOrder'
    <2>1. g.number = requested + 1 /\ g.step = "sent"
      OBVIOUS
    <2> HIDE DEF g
    <2>2. \A f \in frames : f.number <= requested + 1 /\ f.number < requested + 1
      BY <1>1, <1>11
    <2> QED BY <1>1, <1>2, <1>3, <2>1, <2>2 DEF GatewayInv, FramesInOrder
  <1>13. TrackedAreOpen'
    BY <1>4 DEF GatewayInv, TrackedAreOpen
  <1>14. ASSUME NEW j \in Sockets PROVE Heeded(j)'
    <2>1. SUFFICES ASSUME j \notin overtaken, socketOf.socket = j, Connected(j), NoneRefused(j)', NEW r \in AnyRoom
          PROVE  r \in wantedRooms'[j] <=> WillAdd(j, r)' \/ WillKeep(j, r)'
      BY <1>4 DEF Heeded, Connected
    <2>2. j = k /\ wantedRooms'[j] = wanted
      BY <1>8, <2>1
    <2>3. NoneRefused(j)
      BY <1>3, <2>1, <2>2 DEF NoneRefused
    <2>4. r \in wantedRooms[j] <=> WillAdd(j, r) \/ WillKeep(j, r)
      BY <2>1, <2>2, <2>3 DEF GatewayInv, Heeded
    <2>5. g.number = requested + 1 /\ g.of = j /\ g.type = type /\ g.session = w /\ g.kind = kind
      BY <2>2
    <2> HIDE DEF g
    <2>6. \A f \in frames : f.number < g.number /\ ~(g.number < f.number)
      BY <1>1, <1>11, <2>5
    <2>7. ~(g.number < g.number)
      BY <1>1, <2>5
    <2>8. \A f : (Adds(f, r)' <=> Adds(f, r)) /\ (Removes(f, r)' <=> Removes(f, r))
      BY <1>4 DEF Adds, Removes, IsSubscriptionAllowed
    <2>9. CASE type = "subscribe"
      <3>1. ~Removes(g, r) /\ (Adds(g, r) <=> r \in gains)
        BY <2>1, <2>5, <2>9 DEF Adds, Removes
      <3>2. WillKeep(j, r)' <=> WillKeep(j, r)
        BY <1>3, <1>4, <2>8, <3>1 DEF WillKeep
      <3>3. WillAdd(j, r)' <=> WillAdd(j, r) \/ r \in gains
        <4>1. WillAdd(j, r)' <=> \E f \in frames \cup {g} : f.of = j /\ Adds(f, r) /\ \A u \in frames : u.of = j /\ Removes(u, r) => u.number < f.number
          BY <1>3, <2>8, <3>1 DEF WillAdd
        <4> QED BY <2>5, <2>6, <3>1, <4>1 DEF WillAdd
      <3>4. r \in wantedRooms'[j] <=> r \in wantedRooms[j] \/ r \in gains
        BY <1>5, <2>2, <2>9
      <3> QED BY <2>2, <2>4, <3>2, <3>3, <3>4
    <2>10. CASE type = "unsubscribe"
      <3>1. ~Adds(g, r) /\ (Removes(g, r) <=> r \in RoomsUnder(w))
        BY <2>1, <2>5, <2>10 DEF Adds, Removes
      <3>2. WillKeep(j, r)' <=> WillKeep(j, r) /\ r \notin RoomsUnder(w)
        BY <1>3, <1>4, <2>5, <2>8, <3>1 DEF WillKeep
      <3>3. WillAdd(j, r)' <=> WillAdd(j, r) /\ r \notin RoomsUnder(w)
        <4>1. WillAdd(j, r)' <=> \E f \in frames : f.of = j /\ Adds(f, r) /\ \A u \in frames \cup {g} : u.of = j /\ Removes(u, r) => u.number < f.number
          BY <1>3, <2>8, <3>1 DEF WillAdd
        <4> QED BY <2>5, <2>6, <3>1, <4>1 DEF WillAdd
      <3>4. r \in wantedRooms'[j] <=> r \in wantedRooms[j] /\ r \notin RoomsUnder(w)
        BY <1>5, <2>2, <2>10
      <3> QED BY <2>2, <2>4, <3>2, <3>3, <3>4
    <2> QED BY <2>9, <2>10
  <1> QED BY <1>9, <1>10, <1>12, <1>13, <1>14 DEF GatewayInv

\* What the gateway does to its side of the sockets: none of them comes back.
LEMMA LinksStep ==
    ASSUME GatewayInv, links' \in [Sockets -> LinkSet], rooms' \in [Sockets -> SUBSET AnyRoom],
           frames' \subseteq frames,
           UNCHANGED <<granted, requested, wantedRooms, overtaken>>,
           socketOf' \in PageSockets, socketOf'.socket = socketOf.socket,
           socketOf'.at = socketOf.at \/ socketOf'.at = "closed", socketOf'.tries = socketOf.tries,
           \A k \in Sockets : /\ links[k].at = "unused" <=> links'[k].at = "unused"
                              /\ links'[k].at = "unused" => links'[k].key = links[k].key
                              /\ rooms'[k] = rooms[k] \/ rooms'[k] = {}
                              /\ links'[k].at = "open" => links'[k].key = "done"
                              /\ k \in tracked' => k \in tracked \/ links'[k].at # "unused"
                              /\ Connected(k)' => Connected(k) /\ rooms'[k] = rooms[k]
                                                  /\ \A f \in frames : f.of = k => f \in frames',
           tracked' \subseteq Sockets, TrackedAreOpen'
    PROVE  GatewayInv'
  <1>1. GatewayShape'
    BY DEF GatewayInv, GatewayShape
  <1>2. LinksAgree'
    BY DEF GatewayInv, LinksAgree
  <1>3. FramesInOrder'
    BY DEF GatewayInv, FramesInOrder
  <1>4. ASSUME NEW k \in Sockets PROVE Heeded(k)'
    <2> SUFFICES ASSUME k \notin overtaken', socketOf'.socket = k, Connected(k)', NoneRefused(k)', NEW r \in AnyRoom
        PROVE r \in wantedRooms'[k] <=> WillAdd(k, r)' \/ WillKeep(k, r)'
      BY DEF Heeded
    <2>1. Connected(k) /\ rooms'[k] = rooms[k] /\ \A f \in frames : f.of = k => f \in frames'
      OBVIOUS
    <2>2. NoneRefused(k)
      BY <2>1 DEF NoneRefused
    <2>3. r \in wantedRooms[k] <=> WillAdd(k, r) \/ WillKeep(k, r)
      BY <2>1, <2>2 DEF GatewayInv, Heeded
    <2>4. \A f : (Adds(f, r)' <=> Adds(f, r)) /\ (Removes(f, r)' <=> Removes(f, r))
      BY DEF Adds, Removes, IsSubscriptionAllowed
    <2>5. WillAdd(k, r)' <=> WillAdd(k, r)
      BY <2>1, <2>4 DEF WillAdd
    <2>6. WillKeep(k, r)' <=> WillKeep(k, r)
      BY <2>1, <2>4 DEF WillKeep
    <2> QED BY <2>3, <2>5, <2>6
  <1> QED BY <1>1, <1>2, <1>3, <1>4 DEF GatewayInv

\* The page notices that its socket was closed.
LEMMA NoticesIs ==
    ASSUME GatewayInv, NEW ks, Notices(ks)
    PROVE  /\ socketOf' \in PageSockets /\ socketOf'.socket = socketOf.socket
           /\ socketOf'.at = socketOf.at \/ socketOf'.at = "closed"
           /\ socketOf'.tries = socketOf.tries
  <1>1. socketOf \in PageSockets
    BY DEF GatewayInv, GatewayShape
  <1> QED BY <1>1 DEF Notices, PageSockets

LEMMA DisconnectsIs ==
    ASSUME GatewayInv, NEW ks, Disconnects(ks)
    PROVE  /\ links' \in [Sockets -> LinkSet] /\ rooms' \in [Sockets -> SUBSET AnyRoom] /\ tracked' \subseteq tracked
           /\ \A k \in Sockets : /\ links'[k].key = links[k].key
                                 /\ k \in ks /\ Connected(k) => links'[k].at = "gone" /\ rooms'[k] = {}
                                 /\ ~(k \in ks /\ Connected(k)) => links'[k] = links[k] /\ rooms'[k] = rooms[k]
           /\ deserted' = deserted => TrackedAreOpen'
  <1> DEFINE live == {k \in ks : Connected(k)}
  <1>1. links \in [Sockets -> LinkSet] /\ rooms \in [Sockets -> SUBSET AnyRoom] /\ tracked \subseteq Sockets
    BY DEF GatewayInv, GatewayShape
  <1>2. /\ links' = [k \in Sockets |-> IF k \in live THEN [links[k] EXCEPT !.at = "gone"] ELSE links[k]]
        /\ rooms' = [k \in Sockets |-> IF k \in live THEN {} ELSE rooms[k]]
        /\ tracked' = tracked \ {k \in live : links[k].at = "open"}
    BY DEF Disconnects
  <1>3. ASSUME NEW k \in Sockets
        PROVE  /\ k \in live => links'[k] = [at |-> "gone", key |-> links[k].key] /\ links'[k] \in LinkSet /\ rooms'[k] = {}
               /\ k \notin live => links'[k] = links[k] /\ rooms'[k] = rooms[k]
    <2>1. links[k] \in LinkSet
      BY <1>1
    <2>2. [links[k] EXCEPT !.at = "gone"] = [at |-> "gone", key |-> links[k].key]
      BY <2>1 DEF LinkSet
    <2>3. [at |-> "gone", key |-> links[k].key] \in LinkSet
      BY <2>1 DEF LinkSet
    <2> QED BY <1>2, <2>2, <2>3
  <1>4. \A k \in Sockets : k \in live <=> k \in ks /\ Connected(k)
    OBVIOUS
  <1>5. links' \in [Sockets -> LinkSet] /\ rooms' \in [Sockets -> SUBSET AnyRoom] /\ tracked' \subseteq tracked
    <2> HIDE DEF live
    <2>1. DOMAIN links' = Sockets /\ DOMAIN rooms' = Sockets /\ tracked' \subseteq tracked
      BY <1>1, <1>2
    <2>2. links' = [k \in Sockets |-> links'[k]] /\ rooms' = [k \in Sockets |-> rooms'[k]]
      BY <1>2
    <2>3. \A k \in Sockets : links'[k] \in LinkSet /\ rooms'[k] \in SUBSET AnyRoom
      BY <1>1, <1>3
    <2> QED BY <2>1, <2>2, <2>3
  <1>6. ASSUME deserted' = deserted PROVE TrackedAreOpen'
    <2>1. TrackedAreOpen
      BY DEF GatewayInv
    <2>2. ASSUME NEW k \in Sockets PROVE links'[k].at = "open" <=> links[k].at = "open" /\ k \notin live
      <3>1. [at |-> "gone", key |-> links[k].key].at # "open"
        OBVIOUS
      <3> QED BY <1>3, <3>1
    <2> HIDE DEF live
    <2> QED BY <1>1, <1>2, <1>6, <2>1, <2>2 DEF TrackedAreOpen
  <1> QED BY <1>3, <1>4, <1>5, <1>6

LEMMA KeyStep ==
    ASSUME GatewayInv, NEW k \in Sockets, LooksUp(k) \/ AcceptsKey(k) \/ RejectsKey(k) \/ HandleDisconnect(k)
    PROVE  GatewayInv'
  <1>1. /\ links \in [Sockets -> LinkSet] /\ rooms \in [Sockets -> SUBSET AnyRoom] /\ tracked \subseteq Sockets
        /\ socketOf \in PageSockets /\ links[k] \in LinkSet
        /\ \A j \in Sockets : /\ links[j].at = "unused" => links[j].key = "unread"
                              /\ links[j].at = "open" => links[j].key = "done"
        /\ TrackedAreOpen
    BY DEF GatewayInv, GatewayShape, LinksAgree
  <1>2. CASE LooksUp(k)
    <2>1. PICK answer \in {"good", "refused"} : links' = [links EXCEPT ![k].key = answer]
      BY <1>2 DEF LooksUp
    <2>2. links[k].at # "unused" /\ links[k].key = "unread" /\ links[k].at # "open"
      BY <1>1, <1>2 DEF LooksUp
    <2>3. links' \in [Sockets -> LinkSet] /\ \A j \in Sockets : links'[j].at = links[j].at /\ (j # k => links'[j] = links[j])
      BY <1>1, <2>1 DEF LinkSet
    <2>4. UNCHANGED <<granted, tracked, rooms, frames, requested, evictions, socketOf, wantedRooms, overtaken, deserted>>
      BY <1>2 DEF LooksUp
    <2>5. TrackedAreOpen'
      BY <1>1, <2>3, <2>4 DEF TrackedAreOpen
    <2> QED BY <1>1, <2>2, <2>3, <2>4, <2>5, LinksStep DEF Connected
  <1>3. CASE AcceptsKey(k)
    <2>1. PICK at : at = IF links[k].at = "validating" THEN "open" ELSE links[k].at
      OBVIOUS
    <2>2. links' = [links EXCEPT ![k] = [at |-> at, key |-> "done"]]
      BY <1>1, <1>3, <2>1 DEF AcceptsKey
    <2>3. links[k].at \in {"validating", "gone"} /\ at \in {"open", "gone"}
          /\ (at = "open" <=> links[k].at = "validating")
      BY <1>1, <1>3, <2>1 DEF AcceptsKey, LinkSet
    <2>4. links' \in [Sockets -> LinkSet] /\ links'[k].at = at /\ links'[k].key = "done"
          /\ \A j \in Sockets \ {k} : links'[j] = links[j]
      BY <1>1, <2>2, <2>3 DEF LinkSet
    <2>5. /\ UNCHANGED <<granted, rooms, frames, requested, evictions, socketOf, wantedRooms, overtaken>>
          /\ tracked' = tracked \cup {k}
          /\ deserted' = IF links[k].at = "gone" THEN deserted \cup {k} ELSE deserted
      BY <1>3 DEF AcceptsKey
    <2>6. TrackedAreOpen'
      BY <1>1, <2>3, <2>4, <2>5 DEF TrackedAreOpen
    <2> QED BY <1>1, <2>3, <2>4, <2>5, <2>6, LinksStep DEF Connected
  <1>4. CASE RejectsKey(k)
    <2>1. links' = [links EXCEPT ![k] = [at |-> "gone", key |-> "done"]] /\ rooms' = [rooms EXCEPT ![k] = {}]
          /\ UNCHANGED <<granted, tracked, frames, requested, evictions, wantedRooms, overtaken, deserted>> /\ Notices({k})
      BY <1>4 DEF RejectsKey
    <2>2. links[k].at # "unused" /\ links[k].at # "open"
      BY <1>1, <1>4 DEF RejectsKey
    <2>3. links' \in [Sockets -> LinkSet] /\ links'[k].at = "gone" /\ \A j \in Sockets \ {k} : links'[j] = links[j]
      BY <1>1, <2>1 DEF LinkSet
    <2>4. TrackedAreOpen'
      BY <1>1, <2>1, <2>2, <2>3 DEF TrackedAreOpen
    <2>5. rooms' \in [Sockets -> SUBSET AnyRoom] /\ rooms'[k] = {} /\ \A j \in Sockets \ {k} : rooms'[j] = rooms[j]
      BY <1>1, <2>1
    <2>6. /\ socketOf' \in PageSockets /\ socketOf'.socket = socketOf.socket
          /\ socketOf'.at = socketOf.at \/ socketOf'.at = "closed"
          /\ socketOf'.tries = socketOf.tries
      BY <2>1, NoticesIs
    <2> QED BY <1>1, <2>1, <2>2, <2>3, <2>4, <2>5, <2>6, LinksStep DEF Connected
  <1>5. CASE HandleDisconnect(k)
    <2>1. Disconnects({k})
          /\ UNCHANGED <<granted, frames, requested, evictions, socketOf, wantedRooms, overtaken, deserted>>
      BY <1>5 DEF HandleDisconnect
    <2>2. /\ links' \in [Sockets -> LinkSet] /\ rooms' \in [Sockets -> SUBSET AnyRoom] /\ tracked' \subseteq tracked
          /\ \A j \in Sockets : /\ links'[j].key = links[j].key
                                /\ j \in {k} /\ Connected(j) => links'[j].at = "gone" /\ rooms'[j] = {}
                                /\ ~(j \in {k} /\ Connected(j)) => links'[j] = links[j] /\ rooms'[j] = rooms[j]
          /\ deserted' = deserted => TrackedAreOpen'
      BY <2>1, DisconnectsIs
    <2> QED BY <1>1, <2>1, <2>2, LinksStep DEF Connected
  <1> QED BY <1>2, <1>3, <1>4, <1>5

LEMMA EvictStep == ASSUME GatewayInv, EvictApiKey PROVE GatewayInv'
  <1>1. /\ links \in [Sockets -> LinkSet] /\ rooms \in [Sockets -> SUBSET AnyRoom] /\ tracked \subseteq Sockets
        /\ \A j \in Sockets : /\ links[j].at = "unused" => links[j].key = "unread"
                              /\ links[j].at = "open" => links[j].key = "done"
                              /\ j \in tracked => links[j].at # "unused"
        /\ TrackedAreOpen
    BY DEF GatewayInv, GatewayShape, LinksAgree
  <1>2. /\ links' = [k \in Sockets |-> IF k \in tracked THEN [links[k] EXCEPT !.at = "gone"] ELSE links[k]]
        /\ rooms' = [k \in Sockets |-> IF k \in tracked THEN {} ELSE rooms[k]]
        /\ tracked' = {} /\ Notices(tracked)
        /\ UNCHANGED <<granted, frames, requested, wantedRooms, overtaken, deserted>>
    BY DEF EvictApiKey
  <1>3. ASSUME NEW k \in Sockets
        PROVE  /\ k \in tracked => links'[k] = [at |-> "gone", key |-> links[k].key] /\ links'[k] \in LinkSet /\ rooms'[k] = {}
               /\ k \notin tracked => links'[k] = links[k] /\ rooms'[k] = rooms[k]
    <2>1. links[k] \in LinkSet
      BY <1>1
    <2>2. [links[k] EXCEPT !.at = "gone"] = [at |-> "gone", key |-> links[k].key]
      BY <2>1 DEF LinkSet
    <2>3. [at |-> "gone", key |-> links[k].key] \in LinkSet
      BY <2>1 DEF LinkSet
    <2> QED BY <1>2, <2>2, <2>3
  <1>4. ASSUME NEW k \in Sockets, k \in tracked PROVE links'[k].at = "gone"
    <2>1. [at |-> "gone", key |-> links[k].key].at = "gone"
      OBVIOUS
    <2> QED BY <1>3, <1>4, <2>1
  <1>5. links' \in [Sockets -> LinkSet] /\ rooms' \in [Sockets -> SUBSET AnyRoom]
    <2>1. links' = [k \in Sockets |-> links'[k]] /\ rooms' = [k \in Sockets |-> rooms'[k]]
      BY <1>2
    <2>2. \A k \in Sockets : links'[k] \in LinkSet /\ rooms'[k] \in SUBSET AnyRoom
      BY <1>1, <1>3
    <2> QED BY <2>1, <2>2
  <1>6. TrackedAreOpen'
    BY <1>1, <1>2, <1>3, <1>4 DEF TrackedAreOpen
  <1>7. /\ socketOf' \in PageSockets /\ socketOf'.socket = socketOf.socket
        /\ socketOf'.at = socketOf.at \/ socketOf'.at = "closed"
        /\ socketOf'.tries = socketOf.tries
    BY <1>2, NoticesIs
  <1>8. \A k \in Sockets : Connected(k)' => k \notin tracked
    BY <1>4 DEF Connected
  <1> QED BY <1>1, <1>2, <1>3, <1>4, <1>5, <1>6, <1>7, <1>8, LinksStep DEF Connected

\* A request that is refused closes its socket.
LEMMA RefuseStep == ASSUME GatewayInv, NEW f \in frames, Refuse(f) PROVE GatewayInv'
  <1>1. /\ Disconnects({f.of}) /\ Notices({f.of}) /\ frames' = frames \ {f} /\ f.step # "sent"
        /\ UNCHANGED <<granted, requested, evictions, wantedRooms, overtaken, deserted>>
    BY DEF Refuse
  <1>2. /\ socketOf' \in PageSockets /\ socketOf'.socket = socketOf.socket
        /\ socketOf'.at = socketOf.at \/ socketOf'.at = "closed"
        /\ socketOf'.tries = socketOf.tries
    BY <1>1, NoticesIs
  <1>3. /\ links' \in [Sockets -> LinkSet] /\ rooms' \in [Sockets -> SUBSET AnyRoom] /\ tracked' \subseteq tracked /\ tracked \subseteq Sockets
        /\ \A j \in Sockets : /\ links'[j].key = links[j].key
                              /\ j \in {f.of} /\ Connected(j) => links'[j].at = "gone" /\ rooms'[j] = {}
                              /\ ~(j \in {f.of} /\ Connected(j)) => links'[j] = links[j] /\ rooms'[j] = rooms[j]
        /\ deserted' = deserted => TrackedAreOpen'
    BY <1>1, DisconnectsIs DEF GatewayInv, GatewayShape
  <1>4. \A j \in Sockets : /\ links[j].at = "unused" => links[j].key = "unread"
                           /\ links[j].at = "open" => links[j].key = "done"
    BY DEF GatewayInv, LinksAgree
  <1>5. \A j \in Sockets : Connected(j)' => j # f.of
    BY <1>3 DEF Connected
  <1> QED BY <1>1, <1>2, <1>3, <1>4, <1>5, LinksStep DEF Connected

\* A subscribe that waits for its look-up is still to be heeded.
LEMMA TakeStep == ASSUME GatewayInv, NEW f \in frames, TakeSubscribe(f) PROVE GatewayInv'
  <1>1. PICK step : step = IF links[f.of].at = "open" THEN "validating" ELSE "refused"
    OBVIOUS
  <1>2. PICK g : g = [f EXCEPT !.step = step]
    OBVIOUS
  <1>3. /\ f.type = "subscribe" /\ f.step = "sent" /\ frames' = (frames \ {f}) \cup {g}
        /\ UNCHANGED <<gatewaySide, requested, evictions, socketOf, wantedRooms, overtaken, deserted>>
        /\ \A h \in frames : h.of = f.of /\ h.step = "sent" => f.number <= h.number
    BY <1>1, <1>2 DEF TakeSubscribe, TakesFrame
  <1>4. f \in FrameSet /\ frames \subseteq FrameSet
    BY DEF GatewayInv, GatewayShape
  <1>5. /\ g \in FrameSet /\ g.number = f.number /\ g.of = f.of /\ g.type = "subscribe" /\ g.session = f.session
        /\ g.kind = f.kind /\ g.step = step /\ step \in {"validating", "refused"}
    BY <1>1, <1>2, <1>3, <1>4 DEF FrameSet
  <1>6. UNCHANGED <<granted, links, tracked, rooms, requested, socketOf, wantedRooms, overtaken, deserted>>
    BY <1>3 DEF gatewaySide
  <1>7. GatewayShape'
    BY <1>3, <1>4, <1>5, <1>6 DEF GatewayInv, GatewayShape
  <1>8. LinksAgree'
    BY <1>3, <1>5, <1>6 DEF GatewayInv, LinksAgree
  <1>9. FramesInOrder'
    <2>1. FramesInOrder /\ requested \in Nat /\ \A h \in frames : h.number \in Nat
      BY <1>4 DEF GatewayInv, GatewayShape, FrameSet
    <2>2. \A h \in frames' : h.number <= requested /\ (h.step # "sent" => h.type = "subscribe")
      BY <1>3, <1>5, <2>1 DEF FramesInOrder
    <2>3. \A h, i \in frames' : h.number = i.number => h = i
      BY <1>3, <1>5, <2>1 DEF FramesInOrder
    <2>4. \A h, i \in frames' : h.of = i.of /\ h.step # "sent" /\ i.step = "sent" => h.number < i.number
      <3> SUFFICES ASSUME NEW h \in frames', NEW i \in frames', h.of = i.of, h.step # "sent", i.step = "sent"
          PROVE h.number < i.number
        OBVIOUS
      <3>1. i \in frames /\ i # f
        BY <1>3, <1>5
      <3>2. CASE h = g
        <4>1. f.number <= i.number /\ f.number # i.number
          BY <1>3, <1>5, <2>1, <3>1, <3>2 DEF FramesInOrder
        <4> QED BY <1>5, <2>1, <3>1, <3>2, <4>1
      <3>3. CASE h # g
        BY <1>3, <2>1, <3>1, <3>3 DEF FramesInOrder
      <3> QED BY <3>2, <3>3
    <2> QED BY <1>6, <2>2, <2>3, <2>4 DEF FramesInOrder
  <1>10. TrackedAreOpen'
    BY <1>6 DEF GatewayInv, TrackedAreOpen
  <1>11. ASSUME NEW k \in Sockets PROVE Heeded(k)'
    <2> SUFFICES ASSUME k \notin overtaken, socketOf.socket = k, Connected(k), NoneRefused(k)', NEW r \in AnyRoom
        PROVE r \in wantedRooms[k] <=> WillAdd(k, r)' \/ WillKeep(k, r)'
      BY <1>6 DEF Heeded, Connected
    <2>1. NoneRefused(k)
      BY <1>3 DEF NoneRefused
    <2>2. r \in wantedRooms[k] <=> WillAdd(k, r) \/ WillKeep(k, r)
      BY <2>1 DEF GatewayInv, Heeded
    <2>3. \A h : (Adds(h, r)' <=> Adds(h, r)) /\ (Removes(h, r)' <=> Removes(h, r))
      BY <1>6 DEF Adds, Removes, IsSubscriptionAllowed
    <2>4. (Adds(g, r) <=> Adds(f, r)) /\ ~Removes(g, r) /\ ~Removes(f, r)
      BY <1>3, <1>5 DEF Adds, Removes
    <2>5. WillAdd(k, r)' <=> WillAdd(k, r)
      BY <1>3, <1>5, <2>3, <2>4 DEF WillAdd
    <2>6. WillKeep(k, r)' <=> WillKeep(k, r)
      BY <1>3, <1>5, <1>6, <2>3, <2>4 DEF WillKeep
    <2> QED BY <2>2, <2>5, <2>6
  <1> QED BY <1>7, <1>8, <1>9, <1>10, <1>11 DEF GatewayInv

LEMMA JoinStep == ASSUME GatewayInv, NEW f \in frames, Join(f) PROVE GatewayInv'
  <1> DEFINE gains == IF IsSubscriptionAllowed(f.session) /\ Connected(f.of) THEN {<<f.session, f.kind>>} \cap AnyRoom ELSE {}
  <1>1. /\ f.step = "validating" /\ frames' = frames \ {f}
        /\ UNCHANGED <<granted, links, tracked, requested, evictions, socketOf, wantedRooms, overtaken, deserted>>
    BY DEF Join
  <1>2. f \in FrameSet /\ frames \subseteq FrameSet /\ rooms \in [Sockets -> SUBSET AnyRoom] /\ f.of \in Sockets
    BY DEF GatewayInv, GatewayShape, FrameSet
  <1>3. /\ rooms' \in [Sockets -> SUBSET AnyRoom] /\ rooms'[f.of] = rooms[f.of] \cup gains
        /\ \A j \in Sockets \ {f.of} : rooms'[j] = rooms[j]
    <2>1. CASE IsSubscriptionAllowed(f.session) /\ Connected(f.of)
      <3>1. rooms' = [rooms EXCEPT ![f.of] = rooms[f.of] \cup gains]
        BY <1>2, <2>1 DEF Join
      <3>2. rooms[f.of] \cup gains \in SUBSET AnyRoom
        BY <1>2
      <3> QED BY <1>2, <3>1, <3>2
    <2>2. CASE ~(IsSubscriptionAllowed(f.session) /\ Connected(f.of))
      BY <1>2, <2>2 DEF Join
    <2> QED BY <2>1, <2>2
  <1>4. links[f.of].at # "unused" /\ f.type = "subscribe"
    BY <1>1, <1>2 DEF GatewayInv, LinksAgree, FramesInOrder
  <1>5. GatewayShape'
    BY <1>1, <1>2, <1>3 DEF GatewayInv, GatewayShape
  <1>6. LinksAgree'
    BY <1>1, <1>3, <1>4 DEF GatewayInv, LinksAgree
  <1>7. FramesInOrder' /\ TrackedAreOpen'
    BY <1>1 DEF GatewayInv, FramesInOrder, TrackedAreOpen
  <1>8. ASSUME NEW k \in Sockets PROVE Heeded(k)'
    <2> SUFFICES ASSUME k \notin overtaken, socketOf.socket = k, Connected(k), NoneRefused(k)', NEW r \in AnyRoom
        PROVE r \in wantedRooms[k] <=> WillAdd(k, r)' \/ WillKeep(k, r)'
      BY <1>1 DEF Heeded, Connected
    <2>1. NoneRefused(k)
      BY <1>1 DEF NoneRefused
    <2>2. r \in wantedRooms[k] <=> WillAdd(k, r) \/ WillKeep(k, r)
      BY <2>1 DEF GatewayInv, Heeded
    <2>3. \A h : (Adds(h, r)' <=> Adds(h, r)) /\ (Removes(h, r)' <=> Removes(h, r))
      BY <1>1 DEF Adds, Removes, IsSubscriptionAllowed
    <2>4. ~Removes(f, r)
      BY <1>4 DEF Removes
    <2>5. CASE f.of # k \/ ~Adds(f, r)
      <3>1. WillAdd(k, r)' <=> WillAdd(k, r)
        BY <1>1, <2>3, <2>4, <2>5 DEF WillAdd
      <3>2. r \in rooms'[k] <=> r \in rooms[k]
        BY <1>3, <1>4, <2>5 DEF Adds
      <3>3. WillKeep(k, r)' <=> WillKeep(k, r)
        BY <1>1, <2>3, <2>4, <3>2 DEF WillKeep
      <3> QED BY <2>2, <3>1, <3>3
    <2>6. CASE f.of = k /\ Adds(f, r)
      <3>1. r \in rooms'[k]
        BY <1>3, <2>6 DEF Adds
      <3>2. \A u \in frames : u.of = k /\ Removes(u, r) => f.number < u.number
        BY <1>1, <2>6 DEF GatewayInv, FramesInOrder, Removes
      <3>3. CASE \E u \in frames : u.of = k /\ Removes(u, r)
        <4>1. PICK u \in frames : u.of = k /\ Removes(u, r)
          BY <3>3
        <4>2. u # f /\ f.number < u.number /\ ~(u.number < f.number)
          BY <1>2, <2>4, <3>2, <4>1 DEF FrameSet
        <4>3. ~WillKeep(k, r)
          BY <4>1 DEF WillKeep
        <4>4. ~WillKeep(k, r)'
          BY <1>1, <2>3, <4>1, <4>2 DEF WillKeep
        <4>5. WillAdd(k, r)' <=> WillAdd(k, r)
          BY <1>1, <2>3, <2>4, <4>1, <4>2 DEF WillAdd
        <4> QED BY <2>2, <4>3, <4>4, <4>5
      <3>4. CASE ~\E u \in frames : u.of = k /\ Removes(u, r)
        <4>1. WillAdd(k, r)
          BY <2>6, <3>4 DEF WillAdd
        <4>2. WillKeep(k, r)'
          BY <1>1, <2>3, <3>1, <3>4 DEF WillKeep
        <4> QED BY <2>2, <4>1, <4>2
      <3> QED BY <3>3, <3>4
    <2> QED BY <2>5, <2>6
  <1> QED BY <1>5, <1>6, <1>7, <1>8 DEF GatewayInv

LEMMA LeaveStep == ASSUME GatewayInv, NEW f \in frames, Leave(f) PROVE GatewayInv'
  <1>1. /\ f.step = "sent" /\ f.type = "unsubscribe" /\ frames' = frames \ {f}
        /\ \A g \in frames : g.of = f.of /\ g.step = "sent" => f.number <= g.number
        /\ UNCHANGED <<granted, links, tracked, requested, evictions, socketOf, wantedRooms, deserted>>
        /\ overtaken' = IF \E g \in frames : g.of = f.of /\ g.step # "sent" THEN overtaken \cup {f.of} ELSE overtaken
    BY DEF Leave, TakesFrame
  <1>2. f \in FrameSet /\ frames \subseteq FrameSet /\ rooms \in [Sockets -> SUBSET AnyRoom] /\ f.of \in Sockets
    BY DEF GatewayInv, GatewayShape, FrameSet
  <1>3. /\ rooms' \in [Sockets -> SUBSET AnyRoom] /\ rooms'[f.of] = rooms[f.of] \ RoomsUnder(f.session)
        /\ \A j \in Sockets \ {f.of} : rooms'[j] = rooms[j]
    <2>1. rooms' = [rooms EXCEPT ![f.of] = rooms[f.of] \ RoomsUnder(f.session)]
      BY <1>2 DEF Leave
    <2>2. rooms[f.of] \ RoomsUnder(f.session) \in SUBSET AnyRoom
      BY <1>2
    <2> QED BY <1>2, <2>1, <2>2
  <1>4. links[f.of].at # "unused"
    BY <1>2 DEF GatewayInv, LinksAgree
  <1>5. GatewayShape'
    BY <1>1, <1>2, <1>3 DEF GatewayInv, GatewayShape
  <1>6. LinksAgree'
    BY <1>1, <1>3, <1>4 DEF GatewayInv, LinksAgree
  <1>7. FramesInOrder' /\ TrackedAreOpen'
    BY <1>1 DEF GatewayInv, FramesInOrder, TrackedAreOpen
  <1>8. ASSUME NEW k \in Sockets PROVE Heeded(k)'
    <2> SUFFICES ASSUME k \notin overtaken', socketOf.socket = k, Connected(k), NoneRefused(k)', NEW r \in AnyRoom
        PROVE r \in wantedRooms[k] <=> WillAdd(k, r)' \/ WillKeep(k, r)'
      BY <1>1 DEF Heeded, Connected
    <2>1. k \notin overtaken /\ NoneRefused(k)
      BY <1>1 DEF NoneRefused
    <2>2. r \in wantedRooms[k] <=> WillAdd(k, r) \/ WillKeep(k, r)
      BY <2>1 DEF GatewayInv, Heeded
    <2>3. \A h : (Adds(h, r)' <=> Adds(h, r)) /\ (Removes(h, r)' <=> Removes(h, r))
      BY <1>1 DEF Adds, Removes, IsSubscriptionAllowed
    <2>4. ~Adds(f, r)
      BY <1>1 DEF Adds
    <2>5. CASE f.of # k
      <3>1. WillAdd(k, r)' <=> WillAdd(k, r)
        BY <1>1, <2>3, <2>5 DEF WillAdd
      <3>2. WillKeep(k, r)' <=> WillKeep(k, r)
        BY <1>1, <1>3, <2>3, <2>5 DEF WillKeep
      <3> QED BY <2>2, <3>1, <3>2
    <2>6. CASE f.of = k
      <3>1. \A g \in frames : g.of = k => g.step = "sent" /\ f.number <= g.number /\ ~(g.number < f.number)
        <4>1. \A g \in frames : g.of = k => g.step = "sent"
          BY <1>1, <2>6
        <4>2. \A g \in frames : g.number \in Nat
          BY <1>2 DEF FrameSet
        <4> QED BY <1>1, <2>6, <4>1, <4>2
      <3>2. \A g \in frames : g.of = k /\ g # f => f.number < g.number
        <4>1. \A g \in frames : g.number \in Nat
          BY <1>2 DEF FrameSet
        <4>2. \A g \in frames : g # f => g.number # f.number
          BY DEF GatewayInv, FramesInOrder
        <4> QED BY <3>1, <4>1, <4>2
      <3>3. WillAdd(k, r)' <=> WillAdd(k, r)
        BY <1>1, <2>3, <2>4, <3>2 DEF WillAdd
      <3>4. WillKeep(k, r)' <=> WillKeep(k, r)
        <4>1. r \in rooms'[k] <=> r \in rooms[k] /\ ~Removes(f, r)
          BY <1>1, <1>3, <2>6 DEF Removes
        <4> QED BY <1>1, <2>3, <2>6, <4>1 DEF WillKeep
      <3> QED BY <2>2, <3>3, <3>4
    <2> QED BY <2>5, <2>6
  <1> QED BY <1>5, <1>6, <1>7, <1>8 DEF GatewayInv

LEMMA GatewayStep == GatewayInv /\ [GatewayNext]_gatewayVars => GatewayInv'
  <1> SUFFICES ASSUME GatewayInv, [GatewayNext]_gatewayVars PROVE GatewayInv'
    OBVIOUS
  <1>1. CASE UNCHANGED gatewayVars
    BY <1>1 DEF gatewayVars, gatewaySide, GatewayInv, GatewayShape, LinksAgree, FramesInOrder, TrackedAreOpen, Heeded,
                Connected, NoneRefused, WillAdd, WillKeep, Adds, Removes, IsSubscriptionAllowed
  <1>2. CASE GatewayNext
    BY <1>2, OpensStep, AwayStep, HearsSocketStep, SendsStep, KeyStep, EvictStep, RefuseStep, TakeStep, JoinStep, LeaveStep
       DEF GatewayNext
  <1> QED BY <1>1, <1>2

\* What the invariant is for.
LEMMA GatewayIsTrue == GatewayInv => EventsReachThePage /\ GatewayTypeOK
  <1> SUFFICES ASSUME GatewayInv PROVE EventsReachThePage /\ GatewayTypeOK
    OBVIOUS
  <1>1. ASSUME NEW k \in Sockets \ overtaken, links[k].at = "open", \A f \in frames : f.of # k, socketOf.socket = k
        PROVE  rooms[k] = wantedRooms[k]
    <2>1. \A r \in AnyRoom : r \in wantedRooms[k] <=> WillAdd(k, r) \/ WillKeep(k, r)
      BY <1>1 DEF GatewayInv, Heeded, Connected, NoneRefused
    <2>2. \A r : ~WillAdd(k, r) /\ (WillKeep(k, r) <=> r \in rooms[k])
      BY <1>1 DEF WillAdd, WillKeep
    <2>3. rooms[k] \subseteq AnyRoom /\ wantedRooms[k] \subseteq AnyRoom
      BY DEF GatewayInv, GatewayShape
    <2> QED BY <2>1, <2>2, <2>3
  <1>2. GatewayTypeOK
    BY DEF GatewayInv, GatewayShape, GatewayTypeOK, LinkSet, FrameSet, PageSockets
  <1> QED BY <1>1, <1>2 DEF EventsReachThePage, RoomsAreWanted, GatewayInv

-----------------------------------------------------------------------------
(* The pages that show a list                                               *)

RowSet == [text : 0 .. MaxTyped, secret : Nat]
FormSet == [shown : BOOLEAN, of : Entries \cup {NoEntry}, text : 0 .. MaxTyped]
CallTypes == {"new", "edit", "delete", "regenerate"}
CallSet == [number : 1 .. MaxListCalls, type : CallTypes, of : Entries \cup {NoEntry}, text : 0 .. MaxTyped,
            slot : {"new", "edit", "none"}, here : BOOLEAN, at : {"sent", "served"}, answer : {"none", "ok", "refused"},
            secret : Nat]
QuestionSet == [of : Entries \cup {NoEntry}, type : {"none", "delete", "regenerate"}]

ListShape ==
    /\ listKind \in {"webhooks", "templates", "keys", "instances"}
    /\ entries \in [Entries -> RowSet] /\ listed \in [Entries -> RowSet]
    /\ query \in [reading : BOOLEAN, snap : [Entries -> RowSet], whole : BOOLEAN]
    /\ listForms \in [{"new", "edit"} -> FormSet] /\ question \in QuestionSet
    /\ minted \in [of : Entries \cup {NoEntry}, secret : Nat]
    /\ calls \subseteq CallSet /\ typed \in 1 .. MaxTyped /\ made \in 0 .. MaxListCalls
    /\ stale \in BOOLEAN /\ behind \in BOOLEAN

CallsMakeSense ==
    /\ \A c \in calls : /\ c.at = "sent" => c.answer = "none"
                        /\ c.type # "new" => c.of \in Entries
                        /\ c.type = "new" /\ c.answer = "ok" => c.of \in Entries
                        /\ c.type = "regenerate" => listKind = "instances"
                        /\ c.type \in {"new", "edit"} /\ c.here => c.slot # "none"
                        /\ c.type = "new" => c.text # 0
    /\ question # NoQuestion => question.of \in Entries /\ question.type # "none"
    /\ question.type = "regenerate" => listKind = "instances"

FormsMakeSense ==
    /\ listForms["new"].of = NoEntry
    /\ listKind # "templates" /\ listForms["edit"].of = NoEntry => listForms["edit"].text = 0 /\ ~listForms["edit"].shown
    /\ listKind = "templates" => listForms["new"] = Hidden

NoneOk == \A c \in calls : c.answer # "ok"
ReadsAgree ==
    /\ query = NoRead \/ query.reading
    /\ query.reading /\ query.whole /\ NoneOk => query.snap = entries
    /\ query.reading /\ ~query.whole => behind
    /\ ~behind /\ ~stale /\ NoneOk => listed = entries

TextsAreKnown ==
    /\ \A r \in Entries : {entries[r].text, listed[r].text, query.snap[r].text} \subseteq (written \cup {0}) \cap 0 .. typed
    /\ \A slot \in {"new", "edit"} : listForms[slot].text <= typed
    /\ \A c \in calls : /\ c.text <= typed
                        /\ c.slot # "none" => listForms[c.slot].text \in {c.text, 0} \cup written \cup moved
    /\ lostTexts \subseteq moved

SecretsAreMinded ==
    LET minting == {c \in calls : c.here /\ Mints(c.type)} IN
    /\ minted # NoSecret /\ minting # {} => together
    /\ \A c \in minting : \A d \in minting : c # d => together
    /\ question.type = "regenerate" /\ (minted # NoSecret \/ minting # {}) => together
    /\ replaced => together

Claimed(t, r) ==
    \/ t \in {entries[r].text, listed[r].text, query.snap[r].text}
    \/ \E slot \in {"new", "edit"} : listForms[slot].of = r /\ listForms[slot].text = t
    \/ \E c \in calls : c.of = r /\ c.text = t /\ (c.type = "edit" \/ (c.type = "new" /\ c.answer = "ok"))

Blank(slot, t) == listForms[slot].of = NoEntry /\ listForms[slot].text = t
Fresh(c, t) == c.type = "new" /\ c.answer # "ok" /\ c.text = t

TextIsOwned(t) ==
    /\ \A q \in Entries : \A r \in Entries : Claimed(t, q) /\ Claimed(t, r) => q = r
    /\ \A c \in calls : Fresh(c, t) =>
          /\ \A r \in Entries : ~Claimed(t, r)
          /\ \A d \in calls : Fresh(d, t) => d = c
          /\ \A slot \in {"new", "edit"} : Blank(slot, t) => c.here /\ c.slot = slot
    /\ \A slot \in {"new", "edit"} : \A r \in Entries :
          Blank(slot, t) /\ Claimed(t, r) =>
              \E c \in calls : c.here /\ c.type = "new" /\ c.answer = "ok" /\ c.slot = slot /\ c.text = t

ListInv ==
    /\ ListShape /\ CallsMakeSense /\ FormsMakeSense /\ ReadsAgree /\ TextsAreKnown /\ SecretsAreMinded
    /\ listKind # "webhooks" => \A t \in (1 .. MaxTyped) \ unsure : TextIsOwned(t)

LEMMA ListStarts == ListInit => ListInv
  <1> SUFFICES ASSUME ListInit PROVE ListInv
    OBVIOUS
  <1>1. PICK there : entries = [r \in Entries |-> IF r \in there THEN [text |-> 1, secret |-> 1] ELSE NoText]
    BY DEF ListInit
  <1>2. [text |-> 1, secret |-> 1] \in RowSet /\ NoText \in RowSet
    BY ListAssumption DEF RowSet, NoText
  <1>3. entries \in [Entries -> RowSet] /\ NoRead.snap \in [Entries -> RowSet]
    BY <1>1, <1>2 DEF NoRead
  <1>4. \A r \in Entries : entries[r].text \in {0, 1} /\ NoRead.snap[r].text = 0
    BY <1>1 DEF NoText, NoRead
  <1>5. PICK edit : edit = Cleared
    OBVIOUS
  <1>6. edit.of = NoEntry /\ edit.text = 0 /\ (listKind # "templates" => ~edit.shown) /\ edit \in FormSet
    <2>1. Hidden \in FormSet
      BY ListAssumption DEF Hidden, FormSet
    <2>2. CASE listKind = "templates"
      <3>1. edit = [Hidden EXCEPT !.shown = TRUE]
        BY <1>5, <2>2 DEF Cleared
      <3> QED BY <2>1, <2>2, <3>1 DEF Hidden, FormSet
    <2>3. CASE listKind # "templates"
      <3>1. edit = [Hidden EXCEPT !.shown = FALSE]
        BY <1>5, <2>3 DEF Cleared
      <3> QED BY <2>1, <2>3, <3>1 DEF Hidden, FormSet
    <2> QED BY <2>2, <2>3
  <1>7. listForms \in [{"new", "edit"} -> FormSet] /\ listForms["new"] = Hidden /\ listForms["edit"] = edit
    BY <1>5, <1>6, ListAssumption DEF ListInit, Hidden, FormSet
  <1>8. ListShape
    <2>1. /\ query \in [reading : BOOLEAN, snap : [Entries -> RowSet], whole : BOOLEAN] /\ question \in QuestionSet
          /\ minted \in [of : Entries \cup {NoEntry}, secret : Nat]
      BY <1>3, ListAssumption DEF ListInit, NoRead, QuestionSet, NoQuestion, NoSecret
    <2>2. listKind \in {"webhooks", "templates", "keys", "instances"} /\ typed \in 1 .. MaxTyped /\ made \in 0 .. MaxListCalls
      BY ListAssumption DEF ListInit
    <2> QED BY <1>3, <1>7, <2>1, <2>2 DEF ListInit, ListShape
  <1>9. CallsMakeSense /\ FormsMakeSense /\ ReadsAgree
    BY <1>6, <1>7 DEF ListInit, CallsMakeSense, FormsMakeSense, ReadsAgree, NoQuestion, Hidden, NoRead
  <1>10. \A slot \in {"new", "edit"} : listForms[slot].text = 0
    BY <1>6, <1>7 DEF Hidden
  <1>11. TextsAreKnown
    BY <1>4, <1>10 DEF ListInit, TextsAreKnown
  <1>12. SecretsAreMinded
    BY DEF ListInit, SecretsAreMinded, NoQuestion, NoSecret
  <1>13. ASSUME NEW t \in (1 .. MaxTyped) \ unsure PROVE TextIsOwned(t)
    <2>1. \A slot \in {"new", "edit"} : listForms[slot].text # t
      BY <1>10
    <2>2. ASSUME NEW q \in Entries, NEW r \in Entries, Claimed(t, q), Claimed(t, r) PROVE q = r
      <3>1. PICK first \in {{}, {CHOOSE e \in Entries : TRUE}} :
               entries = [e \in Entries |-> IF e \in first THEN [text |-> 1, secret |-> 1] ELSE NoText]
        BY DEF ListInit
      <3>2. \A e \in Entries : Claimed(t, e) => e \in first
        <4> SUFFICES ASSUME NEW e \in Entries, e \notin first PROVE ~Claimed(t, e)
          OBVIOUS
        <4>1. entries[e].text = 0 /\ listed[e].text = 0 /\ query.snap[e].text = 0
          BY <1>4, <3>1 DEF ListInit, NoText
        <4> QED BY <2>1, <4>1 DEF Claimed, ListInit
      <3> QED BY <2>2, <3>1, <3>2
    <2> QED BY <2>1, <2>2 DEF TextIsOwned, ListInit, Blank
  <1> QED BY <1>8, <1>9, <1>11, <1>12, <1>13 DEF ListInv

\* What is owned stays so while nobody lays a new claim to it.
LEMMA OwnedRests ==
    ASSUME NEW t, TextIsOwned(t), \A r \in Entries : Claimed(t, r)' => Claimed(t, r),
           \A slot \in {"new", "edit"} : Blank(slot, t)' => Blank(slot, t),
           \A c \in calls' : Fresh(c, t) => c \in calls,
           \A c \in calls : c.type = "new" /\ c.answer = "ok" /\ c.text = t => c \in calls'
    PROVE  TextIsOwned(t)'
  BY DEF TextIsOwned, Fresh

\* A read that will not have seen a change.
LEMMA UnnoticedIs ==
    ASSUME ListShape, Unnoticed
    PROVE  /\ query' \in [reading : BOOLEAN, snap : [Entries -> RowSet], whole : BOOLEAN] /\ behind' = TRUE
           /\ query'.snap = query.snap /\ query'.whole = FALSE /\ query'.reading = query.reading
           /\ query = NoRead => query' = NoRead
  <1>1. query \in [reading : BOOLEAN, snap : [Entries -> RowSet], whole : BOOLEAN] /\ query' = [query EXCEPT !.whole = FALSE]
    BY DEF ListShape, Unnoticed
  <1>2. query' = [reading |-> query.reading, snap |-> query.snap, whole |-> FALSE]
    BY <1>1
  <1>3. query = NoRead => query.reading = FALSE /\ query.snap = NoRead.snap
    BY DEF NoRead
  <1>4. NoRead = [reading |-> FALSE, snap |-> NoRead.snap, whole |-> FALSE]
    BY DEF NoRead
  <1> QED BY <1>1, <1>2, <1>3, <1>4 DEF Unnoticed

\* What a step on the server's side of the page leaves.
LEMMA QueryStep ==
    ASSUME ListInv, RefetchesList \/ ListArrives \/ QueryFails \/ OthersRemove \/ ComeBack
    PROVE  ListInv'
  <1>1. UNCHANGED <<listKind, listForms, question, minted, calls, typed, made, moved, together, unsure, lostTexts, replaced,
                    written>>
    BY DEF RefetchesList, ListArrives, QueryFails, OthersRemove, ComeBack, FormsRest, formHistory, serverSide
  <1>2. ListShape /\ TextsAreKnown /\ ReadsAgree
    BY DEF ListInv
  <1> DEFINE rows == {entries, listed, query.snap, NoRead.snap}
  <1>3. /\ entries' \in [Entries -> RowSet]
        /\ \A r \in Entries : entries'[r] = entries[r] \/ entries'[r] = NoText
        /\ listed' \in rows /\ query'.snap \in rows /\ query' \in [reading : BOOLEAN, snap : [Entries -> RowSet], whole : BOOLEAN]
        /\ stale' \in BOOLEAN /\ behind' \in BOOLEAN
        /\ ReadsAgree'
    <2>1. /\ entries \in [Entries -> RowSet] /\ query \in [reading : BOOLEAN, snap : [Entries -> RowSet], whole : BOOLEAN]
          /\ listed \in [Entries -> RowSet] /\ stale \in BOOLEAN /\ behind \in BOOLEAN
      BY <1>2 DEF ListShape
    <2>2. NoText \in RowSet /\ NoRead \in [reading : BOOLEAN, snap : [Entries -> RowSet], whole : BOOLEAN]
      BY ListAssumption DEF NoText, RowSet, NoRead
    <2>3. NoneOk' <=> NoneOk
      BY <1>1 DEF NoneOk
    <2>4. CASE RefetchesList
      <3>1. query' = [reading |-> TRUE, snap |-> entries, whole |-> TRUE] /\ UNCHANGED <<entries, listed, stale, behind>>
        BY <2>4 DEF RefetchesList, Read
      <3>2. query' \in [reading : BOOLEAN, snap : [Entries -> RowSet], whole : BOOLEAN]
            /\ query'.snap = entries /\ query'.whole = TRUE /\ query'.reading = TRUE
        BY <2>1, <3>1
      <3>3. ReadsAgree'
        BY <1>2, <2>3, <3>1, <3>2 DEF ReadsAgree
      <3> QED BY <2>1, <3>1, <3>2, <3>3
    <2>5. CASE ListArrives
      <3>1. /\ query # NoRead /\ query' = NoRead /\ listed' = query.snap /\ stale' = FALSE /\ entries' = entries
            /\ behind' = (behind /\ ~query.whole)
        BY <2>5 DEF ListArrives
      <3>2. query.snap \in [Entries -> RowSet] /\ behind' \in BOOLEAN
        BY <2>1, <3>1
      <3>3. NoRead.reading = FALSE
        BY DEF NoRead
      <3>4. NoneOk /\ ~behind' => query.snap = entries
        BY <1>2, <3>1 DEF ReadsAgree
      <3>5. ReadsAgree'
        BY <2>3, <3>1, <3>3, <3>4 DEF ReadsAgree
      <3> QED BY <2>1, <2>2, <3>1, <3>2, <3>5
    <2>6. CASE QueryFails
      <3>1. query' = NoRead /\ behind' = TRUE /\ UNCHANGED <<entries, listed, stale>>
        BY <2>6 DEF QueryFails
      <3>2. NoRead.reading = FALSE
        BY DEF NoRead
      <3>3. ReadsAgree'
        BY <3>1, <3>2 DEF ReadsAgree
      <3> QED BY <2>1, <2>2, <3>1, <3>3
    <2>7. CASE OthersRemove
      <3>1. PICK r \in Entries : entries' = [entries EXCEPT ![r] = NoText]
        BY <2>7 DEF OthersRemove
      <3>2. Unnoticed /\ UNCHANGED <<listed, stale, written>>
        BY <2>7 DEF OthersRemove
      <3>3. /\ query' \in [reading : BOOLEAN, snap : [Entries -> RowSet], whole : BOOLEAN] /\ behind' = TRUE
            /\ query'.snap = query.snap /\ query'.whole = FALSE /\ query'.reading = query.reading
            /\ query = NoRead => query' = NoRead
        BY <1>2, <3>2, UnnoticedIs
      <3>5. ReadsAgree'
        BY <1>2, <3>2, <3>3 DEF ReadsAgree
      <3> QED BY <2>1, <2>2, <3>1, <3>2, <3>3, <3>5
    <2>8. CASE ComeBack
      BY <1>2, <2>1, <2>3, <2>8 DEF ComeBack, ReadsAgree, serverSide
    <2> QED BY <2>4, <2>5, <2>6, <2>7, <2>8
  <1>4. \A r \in Entries : NoText.text = 0 /\ NoRead.snap[r].text = 0
    BY DEF NoText, NoRead
  <1>5. ListShape'
    <2>1. listed' \in [Entries -> RowSet]
      <3>1. NoText \in RowSet
        BY ListAssumption DEF NoText, RowSet
      <3> QED BY <1>2, <1>3, <3>1 DEF ListShape, NoRead
    <2> QED BY <1>1, <1>2, <1>3, <2>1 DEF ListShape
  <1>6. CallsMakeSense' /\ FormsMakeSense' /\ SecretsAreMinded'
    BY <1>1 DEF ListInv, CallsMakeSense, FormsMakeSense, SecretsAreMinded, Mints
  <1>7. ASSUME NEW r \in Entries
        PROVE  {entries'[r].text, listed'[r].text, query'.snap[r].text}
                   \subseteq {entries[r].text, listed[r].text, query.snap[r].text, 0}
    BY <1>3, <1>4
  <1>8. TextsAreKnown'
    <2>1. 0 \in (written \cup {0}) \cap 0 .. typed
      BY <1>2 DEF ListShape
    <2> QED BY <1>1, <1>2, <1>7, <2>1 DEF TextsAreKnown
  <1>9. ASSUME listKind' # "webhooks", NEW t \in (1 .. MaxTyped) \ unsure' PROVE TextIsOwned(t)'
    <2>1. TextIsOwned(t)
      BY <1>1, <1>9 DEF ListInv
    <2>2. \A r \in Entries : Claimed(t, r)' => Claimed(t, r)
      <3>1. t # 0
        OBVIOUS
      <3> QED BY <1>1, <1>7, <3>1 DEF Claimed
    <2> QED BY <1>1, <2>1, <2>2, OwnedRests DEF Blank
  <1> QED BY <1>3, <1>5, <1>6, <1>8, <1>9 DEF ListInv

SlotIsSound(slot, s) ==
    \/ listForms'[slot].of = listForms[slot].of /\ listForms'[slot].text = listForms[slot].text
    \/ listForms'[slot].text = 0
    \/ \E r \in Entries : listForms'[slot].of = r /\ listForms'[slot].text = listed[r].text
    \/ /\ slot = s /\ listForms'[slot].of = listForms[slot].of
       /\ listForms'[slot].text = typed + 1 /\ typed' = typed + 1
       /\ (\E c \in calls : c.slot = slot) => typed + 1 \in moved'

\* What a step of the user in the forms leaves: a form keeps what it says, is emptied, shows a row, or has a new text.
LEMMA FormsStep ==
    ASSUME ListInv, NEW s,
           UNCHANGED <<listKind, entries, listed, stale, query, behind, written, calls, made, unsure, lostTexts, replaced>>,
           listForms' \in [{"new", "edit"} -> FormSet], FormsMakeSense',
           \A slot \in {"new", "edit"} : SlotIsSound(slot, s),
           question' \in QuestionSet,
           question' # NoQuestion => question'.of \in Entries /\ question'.type # "none",
           question'.type = "regenerate" => listKind = "instances",
           minted' \in {minted, NoSecret}, minted' \in [of : Entries \cup {NoEntry}, secret : Nat],
           typed' \in {typed, typed + 1}, typed' <= MaxTyped, moved \subseteq moved', together => together',
           question'.type = "regenerate" =>
               question' = question \/ (minted = NoSecret /\ ((\E c \in calls : c.here /\ Mints(c.type)) => together'))
    PROVE  ListInv'
  <1>1. ListShape /\ CallsMakeSense /\ FormsMakeSense /\ ReadsAgree /\ TextsAreKnown /\ SecretsAreMinded
    BY DEF ListInv
  <1>2. typed \in 1 .. MaxTyped /\ typed' \in 1 .. MaxTyped /\ typed <= typed' /\ ~(typed + 1 <= typed)
    BY <1>1, ListAssumption DEF ListShape
  <1>3. ListShape'
    BY <1>1, <1>2 DEF ListShape
  <1>4. CallsMakeSense' /\ ReadsAgree'
    BY <1>1 DEF CallsMakeSense, ReadsAgree, NoneOk
  <1>5. /\ listForms \in [{"new", "edit"} -> FormSet] /\ listed \in [Entries -> RowSet]
        /\ \A slot \in {"new", "edit"} : listForms[slot].text \in Nat /\ listForms'[slot].text \in Nat
        /\ \A r \in Entries : /\ entries[r].text \in Nat /\ listed[r].text \in Nat /\ query.snap[r].text \in Nat
                              /\ entries[r].text <= typed /\ listed[r].text <= typed /\ query.snap[r].text <= typed
        /\ \A c \in calls : c.text \in Nat /\ c.text <= typed
        /\ \A slot \in {"new", "edit"} : listForms[slot].text <= typed
    BY <1>1 DEF ListShape, TextsAreKnown, FormSet, RowSet, CallSet
  <1>6. TextsAreKnown'
    <2>1. ASSUME NEW r \in Entries
          PROVE  {entries[r].text, listed[r].text, query.snap[r].text} \subseteq (written \cup {0}) \cap 0 .. typed'
      BY <1>1, <1>2, <1>5 DEF TextsAreKnown
    <2>2. ASSUME NEW slot \in {"new", "edit"} PROVE listForms'[slot].text <= typed'
      BY <1>2, <1>5 DEF SlotIsSound
    <2>3. ASSUME NEW c \in calls, c.slot # "none"
          PROVE  listForms'[c.slot].text \in {c.text, 0} \cup written \cup moved'
      <3>1. c.slot \in {"new", "edit"}
        BY <1>1, <2>3 DEF ListShape, CallSet
      <3>2. listForms[c.slot].text \in {c.text, 0} \cup written \cup moved
        BY <1>1, <2>3 DEF TextsAreKnown
      <3>3. \A r \in Entries : listed[r].text \in written \cup {0}
        BY <1>1 DEF TextsAreKnown
      <3> QED BY <3>1, <3>2, <3>3 DEF SlotIsSound
    <2>4. lostTexts \subseteq moved'
      BY <1>1 DEF TextsAreKnown
    <2>5. \A c \in calls : c.text <= typed'
      BY <1>2, <1>5
    <2> QED BY <2>1, <2>2, <2>3, <2>4, <2>5 DEF TextsAreKnown
  <1>7. SecretsAreMinded'
    <2>1. \A c \in calls : Mints(c.type)' <=> Mints(c.type)
      BY DEF Mints
    <2> QED BY <1>1, <2>1 DEF SecretsAreMinded, NoSecret, Mints
  <1>8. ASSUME listKind' # "webhooks", NEW t \in (1 .. MaxTyped) \ unsure' PROVE TextIsOwned(t)'
    <2>1. TextIsOwned(t) /\ t # 0
      BY <1>8 DEF ListInv
    <2>2. CASE t <= typed
      <3>1. ASSUME NEW slot \in {"new", "edit"}, listForms'[slot].text = t
            PROVE  \/ listForms'[slot].of = listForms[slot].of /\ listForms[slot].text = t
                   \/ \E r \in Entries : listForms'[slot].of = r /\ listed[r].text = t
        BY <1>2, <2>1, <2>2, <3>1 DEF SlotIsSound
      <3>2. \A r \in Entries : Claimed(t, r)' => Claimed(t, r)
        BY <3>1 DEF Claimed
      <3>3. \A slot \in {"new", "edit"} : Blank(slot, t)' => Blank(slot, t)
        BY <3>1, ListAssumption DEF Blank
      <3> QED BY <2>1, <3>2, <3>3, OwnedRests
    <2>3. CASE ~(t <= typed)
      <3>1. /\ \A r \in Entries : t \notin {entries[r].text, listed[r].text, query.snap[r].text}
            /\ \A c \in calls : c.text # t
            /\ \A slot \in {"new", "edit"} : listForms[slot].text # t
        BY <1>5, <2>3
      <3>2. \A slot \in {"new", "edit"} : listForms'[slot].text = t => slot = s /\ listForms'[slot].of = listForms[slot].of
        BY <2>1, <3>1 DEF SlotIsSound
      <3>3. \A r \in Entries : Claimed(t, r)' => s \in {"new", "edit"} /\ listForms'[s].of = r
        BY <3>1, <3>2 DEF Claimed
      <3>4. \A r \in Entries : r # NoEntry
        BY ListAssumption
      <3>5. \A c \in calls' : ~Fresh(c, t)
        BY <3>1 DEF Fresh
      <3>6. ASSUME NEW slot \in {"new", "edit"}, NEW r \in Entries, Blank(slot, t)', Claimed(t, r)' PROVE FALSE
        BY <3>2, <3>3, <3>4, <3>6 DEF Blank
      <3> QED BY <3>3, <3>5, <3>6 DEF TextIsOwned, Fresh
    <2> QED BY <2>2, <2>3
  <1> QED BY <1>3, <1>4, <1>6, <1>7, <1>8 DEF ListInv

\* The forms and the question as they are.
LEMMA FormsAre ==
    ASSUME ListInv
    PROVE  /\ listForms \in [{"new", "edit"} -> FormSet] /\ listForms["new"].of = NoEntry /\ FormsMakeSense
           /\ question \in QuestionSet /\ minted \in [of : Entries \cup {NoEntry}, secret : Nat]
           /\ question # NoQuestion => question.of \in Entries /\ question.type # "none"
           /\ question.type = "regenerate" => listKind = "instances"
           /\ typed \in 1 .. MaxTyped
           /\ \A shown \in BOOLEAN : [Hidden EXCEPT !.shown = shown] \in FormSet
           /\ \A slot \in {"new", "edit"} : BlankForm(slot) \in FormSet /\ BlankForm(slot).text = 0 /\ BlankForm(slot).of = NoEntry
           /\ listKind # "templates" => BlankForm("edit") = Hidden
           /\ BlankForm("new") = Hidden /\ Hidden.text = 0 /\ Hidden.of = NoEntry /\ Hidden.shown = FALSE
  <1>1. \A shown \in BOOLEAN : [Hidden EXCEPT !.shown = shown] \in FormSet
    BY ListAssumption DEF Hidden, FormSet
  <1>2. Hidden.text = 0 /\ Hidden.of = NoEntry /\ Hidden.shown = FALSE /\ Hidden \in FormSet
    BY ListAssumption DEF Hidden, FormSet
  <1>3. Cleared \in FormSet /\ Cleared.text = 0 /\ Cleared.of = NoEntry /\ (listKind # "templates" => Cleared = Hidden)
    <2>1. CASE listKind = "templates"
      <3>1. Cleared = [Hidden EXCEPT !.shown = TRUE]
        BY <2>1 DEF Cleared
      <3> QED BY <1>1, <2>1, <3>1 DEF Hidden
    <2>2. CASE listKind # "templates"
      <3>1. Cleared = [Hidden EXCEPT !.shown = FALSE]
        BY <2>2 DEF Cleared
      <3>2. [Hidden EXCEPT !.shown = FALSE] = [shown |-> FALSE, of |-> Hidden.of, text |-> Hidden.text]
        BY <1>2 DEF FormSet
      <3>3. Hidden = [shown |-> FALSE, of |-> Hidden.of, text |-> Hidden.text]
        BY DEF Hidden
      <3> QED BY <1>2, <3>1, <3>2, <3>3
    <2> QED BY <2>1, <2>2
  <1> QED BY <1>1, <1>2, <1>3 DEF ListInv, ListShape, CallsMakeSense, FormsMakeSense, BlankForm

LEMMA OpenStep ==
    ASSUME ListInv, OpenNew \/ \E r \in Entries : OpenEdit(r)
    PROVE  ListInv'
  <1>1. UNCHANGED <<listKind, entries, listed, stale, query, behind, written, calls, made, unsure, lostTexts, replaced,
                    question, minted, typed, moved>>
    BY DEF OpenNew, OpenEdit, JustForms, Click, serverSide, formHistory
  <1>2. together => together'
    BY DEF OpenNew, OpenEdit, GoesOn
  <1>3. /\ listForms' \in [{"new", "edit"} -> FormSet] /\ FormsMakeSense'
        /\ \A slot \in {"new", "edit"} : SlotIsSound(slot, "none")
    <2>1. CASE OpenNew
      <3>1. PICK slot \in {"new", "edit"} : slot = IF listKind = "templates" THEN "edit" ELSE "new"
        OBVIOUS
      <3>2. PICK f : f = IF listKind \in {"webhooks", "keys"} THEN [listForms[slot] EXCEPT !.shown = TRUE]
                         ELSE [Hidden EXCEPT !.shown = TRUE]
        OBVIOUS
      <3>3. listForms' = [listForms EXCEPT ![slot] = f]
        BY <2>1, <3>1, <3>2, FormsAre DEF OpenNew
      <3>4. f \in FormSet /\ (f.text = 0 \/ f.text = listForms[slot].text) /\ f.of = NoEntry
            /\ ((f.text = listForms[slot].text /\ f.of = listForms[slot].of) \/ f.text = 0)
        <4>1. CASE listKind \in {"webhooks", "keys"}
          BY <3>1, <3>2, <4>1, FormsAre DEF FormSet
        <4>2. CASE listKind \notin {"webhooks", "keys"}
          <5>1. f = [Hidden EXCEPT !.shown = TRUE]
            BY <3>2, <4>2
          <5> QED BY <5>1, FormsAre DEF Hidden
        <4> QED BY <4>1, <4>2
      <3>5. /\ listForms' \in [{"new", "edit"} -> FormSet] /\ listForms'[slot] = f
            /\ \A other \in {"new", "edit"} \ {slot} : listForms'[other] = listForms[other]
        BY <3>3, <3>4, FormsAre
      <3> QED BY <1>1, <3>1, <3>4, <3>5, FormsAre DEF FormsMakeSense, SlotIsSound
    <2>2. ASSUME NEW r \in Entries, OpenEdit(r)
          PROVE  /\ listForms' \in [{"new", "edit"} -> FormSet] /\ FormsMakeSense'
                 /\ \A slot \in {"new", "edit"} : SlotIsSound(slot, "none")
      <3>1. PICK text : text = listed[r].text
        OBVIOUS
      <3>2. listForms' = [listForms EXCEPT !["edit"] = [shown |-> TRUE, of |-> r, text |-> text]]
        BY <2>2, <3>1 DEF OpenEdit
      <3>3. text \in 0 .. MaxTyped
        BY <3>1 DEF ListInv, ListShape, RowSet
      <3>4. [shown |-> TRUE, of |-> r, text |-> text] \in FormSet
        BY <3>3 DEF FormSet
      <3>5. /\ listForms' \in [{"new", "edit"} -> FormSet] /\ listForms'["edit"] = [shown |-> TRUE, of |-> r, text |-> text]
            /\ listForms'["new"] = listForms["new"]
        BY <3>2, <3>4, FormsAre
      <3>6. listForms'["edit"].of = r /\ listForms'["edit"].text = text /\ r # NoEntry
        BY <3>5, ListAssumption
      <3> QED BY <1>1, <3>1, <3>5, <3>6, FormsAre DEF FormsMakeSense, SlotIsSound
    <2> QED BY <2>1, <2>2
  <1> QED BY <1>1, <1>2, <1>3, FormsAre, FormsStep

LEMMA TypesStep == ASSUME ListInv, NEW s \in {"new", "edit"}, Types(s) PROVE ListInv'
  <1>1. UNCHANGED <<listKind, entries, listed, stale, query, behind, written, calls, made, unsure, lostTexts, replaced,
                    question, minted, together>>
    BY DEF Types, JustForms, Click, serverSide, formHistory
  <1>2. typed' = typed + 1 /\ typed + 1 \in 0 .. MaxTyped /\ typed' <= MaxTyped
    BY FormsAre, ListAssumption DEF Types
  <1>3. PICK text : text = typed + 1
    OBVIOUS
  <1>4. listForms' = [listForms EXCEPT ![s].text = text] /\ listForms[s].shown
        /\ moved' = IF \E c \in calls : c.slot = s THEN moved \cup {text} ELSE moved
    BY <1>3 DEF Types, FormReachable
  <1>5. /\ listForms' \in [{"new", "edit"} -> FormSet] /\ listForms'[s].of = listForms[s].of /\ listForms'[s].text = text
        /\ listForms'[s].shown = listForms[s].shown
        /\ \A other \in {"new", "edit"} \ {s} : listForms'[other] = listForms[other]
    BY <1>2, <1>3, <1>4, FormsAre DEF FormSet
  <1>6. FormsMakeSense'
    BY <1>1, <1>4, <1>5, FormsAre DEF FormsMakeSense
  <1>7. \A slot \in {"new", "edit"} : SlotIsSound(slot, s)
    BY <1>2, <1>3, <1>4, <1>5 DEF SlotIsSound
  <1> QED BY <1>1, <1>2, <1>4, <1>5, <1>6, <1>7, FormsAre, FormsStep

LEMMA CancelStep == ASSUME ListInv, NEW s \in {"new", "edit"}, Cancel(s) PROVE ListInv'
  <1>1. UNCHANGED <<listKind, entries, listed, stale, query, behind, written, calls, made, unsure, lostTexts, replaced,
                    question, minted, typed, moved, together>>
    BY DEF Cancel, JustForms, Click, serverSide, formHistory
  <1>2. PICK f : f = IF listKind \in {"webhooks", "keys"} THEN [listForms[s] EXCEPT !.shown = FALSE] ELSE BlankForm(s)
    OBVIOUS
  <1>3. listForms' = [listForms EXCEPT ![s] = f] /\ listForms[s].shown
    BY <1>2, FormsAre DEF Cancel, FormReachable
  <1>4. /\ f \in FormSet /\ (f.text = 0 \/ (f.text = listForms[s].text /\ f.of = listForms[s].of))
        /\ f.of = NoEntry \/ f.of = listForms[s].of
        /\ listKind # "templates" => f.shown = FALSE
        /\ listKind # "templates" /\ f.of = NoEntry => f.text = 0 \/ (f.text = listForms[s].text /\ f.of = listForms[s].of)
    <2>1. CASE listKind \in {"webhooks", "keys"}
      BY <1>2, <2>1, FormsAre DEF FormSet
    <2>2. CASE listKind \notin {"webhooks", "keys"}
      BY <1>2, <2>2, FormsAre
    <2> QED BY <2>1, <2>2
  <1>5. /\ listForms' \in [{"new", "edit"} -> FormSet] /\ listForms'[s] = f
        /\ \A other \in {"new", "edit"} \ {s} : listForms'[other] = listForms[other]
    BY <1>3, <1>4, FormsAre
  <1>6. FormsMakeSense'
    BY <1>1, <1>3, <1>4, <1>5, FormsAre DEF FormsMakeSense
  <1>7. \A slot \in {"new", "edit"} : SlotIsSound(slot, "none")
    BY <1>4, <1>5 DEF SlotIsSound
  <1> QED BY <1>1, <1>5, <1>6, <1>7, FormsAre, FormsStep

LEMMA CloseSecretStep == ASSUME ListInv, CloseSecret PROVE ListInv'
  <1>1. UNCHANGED <<listKind, entries, listed, stale, query, behind, written, calls, made, unsure, lostTexts, replaced,
                    question, typed, moved, together>>
    BY DEF CloseSecret, Click, serverSide, formHistory
  <1>2. minted' = NoSecret /\ NoSecret \in [of : Entries \cup {NoEntry}, secret : Nat]
    BY DEF CloseSecret, NoSecret
  <1>3. /\ listForms' \in [{"new", "edit"} -> FormSet]
        /\ \A slot \in {"new", "edit"} : listForms'[slot].of = listForms[slot].of /\ listForms'[slot].text = listForms[slot].text
        /\ listForms'["edit"] = listForms["edit"] /\ (listKind # "keys" => listForms' = listForms)
    <2>1. CASE listKind = "keys"
      <3>1. listForms' = [listForms EXCEPT !["new"].shown = FALSE]
        BY <2>1 DEF CloseSecret
      <3> QED BY <2>1, <3>1, FormsAre DEF FormSet
    <2>2. CASE listKind # "keys"
      BY <2>2, FormsAre DEF CloseSecret
    <2> QED BY <2>1, <2>2
  <1>4. FormsMakeSense'
    BY <1>1, <1>3, FormsAre DEF FormsMakeSense
  <1>5. \A slot \in {"new", "edit"} : SlotIsSound(slot, "none")
    BY <1>3 DEF SlotIsSound
  <1> QED BY <1>1, <1>2, <1>3, <1>4, <1>5, FormsAre, FormsStep

LEMMA AsksStep ==
    ASSUME ListInv, Declines \/ \E r \in Entries : \E type \in {"delete", "regenerate"} : AsksToConfirm(r, type)
    PROVE  ListInv'
  <1>1. UNCHANGED <<listKind, entries, listed, stale, query, behind, written, calls, made, unsure, lostTexts, replaced,
                    listForms, minted, typed, moved>>
    BY DEF Declines, AsksToConfirm, Click, serverSide, formHistory
  <1>2. /\ question' \in QuestionSet
        /\ question' # NoQuestion => question'.of \in Entries /\ question'.type # "none"
        /\ question'.type = "regenerate" =>
              listKind = "instances" /\ minted = NoSecret /\ ((\E c \in calls : c.here /\ Mints(c.type)) => together')
        /\ together => together'
    <2>1. CASE Declines
      BY <2>1, ListAssumption DEF Declines, NoQuestion, QuestionSet
    <2>2. ASSUME NEW r \in Entries, NEW type \in {"delete", "regenerate"}, AsksToConfirm(r, type)
          PROVE  /\ question' = [of |-> r, type |-> type] /\ (together => together')
                 /\ type = "regenerate" =>
                       listKind = "instances" /\ minted = NoSecret /\ ((\E c \in calls : c.here /\ Mints(c.type)) => together')
      BY <2>2 DEF AsksToConfirm, Covered, GoesOn
    <2> QED BY <2>1, <2>2 DEF QuestionSet
  <1>3. FormsMakeSense' /\ \A slot \in {"new", "edit"} : SlotIsSound(slot, "none")
    BY <1>1, FormsAre DEF FormsMakeSense, SlotIsSound
  <1> QED BY <1>1, <1>2, <1>3, FormsAre, FormsStep

LEMMA LeavePageStep == ASSUME ListInv, LeavePage PROVE ListInv'
  <1>1. UNCHANGED <<listKind, entries, listed, stale, query, behind, written, made, unsure, lostTexts, replaced,
                    typed, moved, together>>
    BY DEF LeavePage, serverSide, formHistory
  <1> DEFINE left(c) == [c EXCEPT !.slot = "none", !.here = FALSE]
  <1>2. /\ listForms' = [slot \in DOMAIN listForms |-> BlankForm(slot)] /\ question' = NoQuestion /\ minted' = NoSecret
        /\ calls' = {left(c) : c \in calls}
    BY DEF LeavePage
  <1>3. ListShape /\ CallsMakeSense /\ ReadsAgree /\ TextsAreKnown /\ SecretsAreMinded /\ calls \subseteq CallSet
    BY DEF ListInv, ListShape
  <1>4. ASSUME NEW c \in calls
        PROVE  /\ left(c) \in CallSet /\ left(c).slot = "none" /\ left(c).here = FALSE /\ left(c).type = c.type
               /\ left(c).of = c.of /\ left(c).text = c.text /\ left(c).at = c.at /\ left(c).answer = c.answer
    <2>1. c \in CallSet
      BY <1>3
    <2> QED BY <2>1 DEF CallSet
  <1>5. \A d \in calls' : \E c \in calls : d = left(c)
    BY <1>2
  <1>13. \A c \in calls : left(c) \in calls'
    BY <1>2
  <1> HIDE DEF left
  <1>6. /\ listForms' \in [{"new", "edit"} -> FormSet] /\ \A slot \in {"new", "edit"} : listForms'[slot] = BlankForm(slot)
        /\ \A slot \in {"new", "edit"} : listForms'[slot].text = 0 /\ listForms'[slot].of = NoEntry
    BY <1>2, FormsAre
  <1>7. ListShape'
    <2>1. question' \in QuestionSet /\ minted' \in [of : Entries \cup {NoEntry}, secret : Nat]
      BY <1>2 DEF QuestionSet, NoQuestion, NoSecret
    <2>2. calls' \subseteq CallSet
      BY <1>4, <1>5
    <2> QED BY <1>1, <1>3, <1>6, <2>1, <2>2 DEF ListShape
  <1>8. CallsMakeSense' /\ ReadsAgree'
    <2>1. CallsMakeSense'
      <3>1. question'.type # "regenerate"
        BY <1>2 DEF NoQuestion
      <3>2. ASSUME NEW d \in calls'
            PROVE  /\ d.at = "sent" => d.answer = "none"
                   /\ d.type # "new" => d.of \in Entries
                   /\ d.type = "new" /\ d.answer = "ok" => d.of \in Entries
                   /\ d.type = "regenerate" => listKind' = "instances"
                   /\ d.type \in {"new", "edit"} /\ d.here => d.slot # "none"
                   /\ d.type = "new" => d.text # 0
        <4>1. PICK c \in calls : d = left(c)
          BY <1>5
        <4> QED BY <1>1, <1>3, <1>4, <4>1 DEF CallsMakeSense
      <3> QED BY <1>2, <3>1, <3>2 DEF CallsMakeSense
    <2>2. NoneOk' => NoneOk
      BY <1>4, <1>13 DEF NoneOk
    <2> QED BY <1>1, <1>3, <2>1, <2>2 DEF ReadsAgree
  <1>9. FormsMakeSense'
    BY <1>1, <1>6, FormsAre DEF FormsMakeSense
  <1>10. TextsAreKnown'
    <2>1. \A d \in calls' : d.text <= typed /\ d.slot = "none"
      BY <1>3, <1>4, <1>5 DEF TextsAreKnown
    <2>2. 0 <= typed
      BY <1>3 DEF ListShape
    <2> QED BY <1>1, <1>3, <1>6, <2>1, <2>2 DEF TextsAreKnown
  <1>11. SecretsAreMinded'
    <2>1. \A d \in calls' : d.here = FALSE
      BY <1>4, <1>5
    <2> QED BY <1>1, <1>2, <1>3, <2>1 DEF SecretsAreMinded, NoQuestion
  <1>12. ASSUME listKind' # "webhooks", NEW t \in (1 .. MaxTyped) \ unsure' PROVE TextIsOwned(t)'
    <2>1. TextIsOwned(t) /\ t # 0
      BY <1>1, <1>12 DEF ListInv
    <2>2. ASSUME NEW r \in Entries, Claimed(t, r)' PROVE Claimed(t, r)
      <3>1. CASE t \in {entries'[r].text, listed'[r].text, query'.snap[r].text}
        BY <1>1, <3>1 DEF Claimed
      <3>2. CASE \E d \in calls' : d.of = r /\ d.text = t /\ (d.type = "edit" \/ (d.type = "new" /\ d.answer = "ok"))
        <4>1. PICK d \in calls' : d.of = r /\ d.text = t /\ (d.type = "edit" \/ (d.type = "new" /\ d.answer = "ok"))
          BY <3>2
        <4>2. PICK c \in calls : d = left(c)
          BY <1>5
        <4> QED BY <1>4, <4>1, <4>2 DEF Claimed
      <3> QED BY <1>6, <2>1, <2>2, <3>1, <3>2 DEF Claimed
    <2>3. \A slot \in {"new", "edit"} : ~Blank(slot, t)'
      BY <1>6, <2>1 DEF Blank
    <2>4. ASSUME NEW d \in calls', Fresh(d, t) PROVE \E c \in calls : Fresh(c, t) /\ d = left(c)
      <3>1. PICK c \in calls : d = left(c)
        BY <1>5
      <3>2. Fresh(c, t)
        BY <1>4, <2>4, <3>1 DEF Fresh
      <3> QED BY <3>1, <3>2
    <2>5. \A d \in calls' : Fresh(d, t)' <=> Fresh(d, t)
      BY DEF Fresh
    <2> QED BY <2>1, <2>2, <2>3, <2>4, <2>5 DEF TextIsOwned
  <1> QED BY <1>7, <1>8, <1>9, <1>10, <1>11, <1>12 DEF ListInv

\* A new call asks for what its form or its question is about, and a text that is new is asked for once.
LEMMA CallsStep ==
    ASSUME ListInv, NEW type \in CallTypes, NEW of \in Entries \cup {NoEntry}, NEW text \in 0 .. typed,
           NEW slot \in {"new", "edit", "none"}, Calls(type, of, text, slot),
           type # "new" => of \in Entries, type = "regenerate" => listKind = "instances",
           type \in {"new", "edit"} => slot # "none", type = "new" => text # 0,
           slot # "none" => listForms[slot].text = text,
           type = "edit" => listForms[slot].of = of,
           type = "new" => listForms[slot].of = NoEntry,
           type = "new" /\ listKind # "webhooks" => \A c \in calls : ~(c.here /\ c.type = "new"),
           listForms' = listForms, question' \in {question, NoQuestion},
           Mints(type) => (minted = NoSecret \/ together) /\ question' = NoQuestion
    PROVE  ListInv'
  <1> DEFINE d == [number |-> made + 1, type |-> type, of |-> of, text |-> text, slot |-> slot, here |-> TRUE,
                   at |-> "sent", answer |-> "none", secret |-> 0]
  <1>1. UNCHANGED <<listKind, entries, listed, stale, query, behind, written, unsure, lostTexts, replaced, minted, typed, moved>>
    BY DEF Calls, Click, serverSide, formHistory
  <1>2. /\ made < MaxListCalls /\ made' = made + 1 /\ calls' = calls \cup {d}
        /\ together' = (together \/ \E c \in calls : c.here /\ Mints(c.type))
    BY DEF Calls, GoesOn
  <1>3. ListShape /\ CallsMakeSense /\ FormsMakeSense /\ ReadsAgree /\ TextsAreKnown /\ SecretsAreMinded
    BY DEF ListInv
  <1>4. made' \in 0 .. MaxListCalls /\ made + 1 \in 1 .. MaxListCalls /\ text \in 0 .. MaxTyped /\ text <= typed
    BY <1>2, <1>3, ListAssumption DEF ListShape
  <1>5. d \in CallSet
    BY <1>4 DEF CallSet
  <1>6. /\ d.type = type /\ d.of = of /\ d.text = text /\ d.slot = slot /\ d.here = TRUE /\ d.at = "sent" /\ d.answer = "none"
    OBVIOUS
  <1> HIDE DEF d
  <1>7. question' \in QuestionSet
    BY <1>3, ListAssumption DEF ListShape, QuestionSet, NoQuestion
  <1>8. ListShape'
    BY <1>1, <1>2, <1>3, <1>4, <1>5, <1>7 DEF ListShape
  <1>9. CallsMakeSense'
    <2>1. NoQuestion.type # "regenerate"
      BY DEF NoQuestion
    <2>2. question'.type = "regenerate" => listKind' = "instances"
      BY <1>1, <1>3, <2>1 DEF CallsMakeSense
    <2>3. question' # NoQuestion => question'.of \in Entries /\ question'.type # "none"
      BY <1>3 DEF CallsMakeSense
    <2> QED BY <1>1, <1>2, <1>3, <1>6, <2>2, <2>3 DEF CallsMakeSense
  <1>10. FormsMakeSense' /\ ReadsAgree'
    <2>1. NoneOk' <=> NoneOk
      BY <1>2, <1>6 DEF NoneOk
    <2> QED BY <1>1, <1>3, <2>1 DEF FormsMakeSense, ReadsAgree
  <1>11. TextsAreKnown'
    BY <1>1, <1>2, <1>3, <1>4, <1>6 DEF TextsAreKnown
  <1>12. SecretsAreMinded'
    <2>1. \A c \in calls' : Mints(c.type)' <=> Mints(c.type)
      BY <1>1 DEF Mints
    <2>2. NoQuestion.type # "regenerate"
      BY DEF NoQuestion
    <2>3. minted' # NoSecret /\ (\E c \in calls' : c.here /\ Mints(c.type)) => together'
      BY <1>1, <1>2, <1>3, <1>6 DEF SecretsAreMinded
    <2>4. \A c, e \in calls' : c # e /\ c.here /\ e.here /\ Mints(c.type) /\ Mints(e.type) => together'
      BY <1>1, <1>2, <1>3, <1>6 DEF SecretsAreMinded
    <2>5. question'.type = "regenerate" /\ (minted' # NoSecret \/ \E c \in calls' : c.here /\ Mints(c.type)) => together'
      BY <1>1, <1>2, <1>3, <1>6, <2>2 DEF SecretsAreMinded
    <2>6. replaced' => together'
      BY <1>1, <1>2, <1>3 DEF SecretsAreMinded
    <2> QED BY <2>1, <2>3, <2>4, <2>5, <2>6 DEF SecretsAreMinded
  <1>13. ASSUME listKind' # "webhooks", NEW t \in (1 .. MaxTyped) \ unsure' PROVE TextIsOwned(t)'
    <2>1. TextIsOwned(t) /\ t # 0
      BY <1>1, <1>13 DEF ListInv
    <2>2. \A r \in Entries : Claimed(t, r)' => Claimed(t, r)
      BY <1>1, <1>2, <1>6 DEF Claimed
    <2>3. \A s \in {"new", "edit"} : Blank(s, t)' <=> Blank(s, t)
      BY DEF Blank
    <2>4. CASE type # "new" \/ text # t
      <3>1. \A c \in calls' : Fresh(c, t) => c \in calls
        BY <1>2, <1>6, <2>4 DEF Fresh
      <3> QED BY <1>2, <2>1, <2>2, <2>3, <3>1, OwnedRests
    <2>5. CASE type = "new" /\ text = t
      <3>1. slot \in {"new", "edit"} /\ Blank(slot, t)
        BY <2>5 DEF Blank
      <3>2. \A c \in calls : ~(c.here /\ c.type = "new")
        BY <1>1, <1>13, <2>5
      <3>3. \A r \in Entries : ~Claimed(t, r)
        BY <2>1, <3>1, <3>2 DEF TextIsOwned
      <3>4. \A c \in calls : ~Fresh(c, t)
        <4>1. \A c \in calls : Fresh(c, t) => c.type = "new"
          BY DEF Fresh
        <4> QED BY <2>1, <3>1, <3>2, <4>1 DEF TextIsOwned
      <3>5. \A s \in {"new", "edit"} : Blank(s, t) => s = slot
        <4>1. listKind # "templates" => ~Blank("edit", t)
          BY <1>3, <2>1 DEF FormsMakeSense, Blank
        <4>2. listKind = "templates" => ~Blank("new", t)
          BY <1>3, <2>1 DEF FormsMakeSense, Blank, Hidden
        <4> QED BY <3>1, <4>1, <4>2
      <3>6. \A c \in calls' : Fresh(c, t) => c = d
        BY <1>2, <3>4
      <3>7. \A c \in calls' : Fresh(c, t)' <=> Fresh(c, t)
        BY DEF Fresh
      <3> QED BY <1>6, <2>2, <2>3, <3>3, <3>5, <3>6, <3>7 DEF TextIsOwned
    <2> QED BY <2>4, <2>5
  <1> QED BY <1>8, <1>9, <1>10, <1>11, <1>12, <1>13 DEF ListInv

LEMMA SubmitsStep == ASSUME ListInv, NEW s \in {"new", "edit"}, SubmitsForm(s) PROVE ListInv'
  <1>1. PICK f : f = listForms[s]
    OBVIOUS
  <1>2. PICK type : type = IF f.of = NoEntry THEN "new" ELSE "edit"
    OBVIOUS
  <1>3. FormReachable(s) /\ f.text # 0 /\ ~Busy(type) /\ Calls(type, f.of, f.text, s) /\ UNCHANGED <<listForms, question>>
    BY <1>1, <1>2 DEF SubmitsForm
  <1>4. f \in FormSet /\ f.text \in 0 .. typed /\ question = NoQuestion
    BY <1>1, <1>3 DEF ListInv, ListShape, TextsAreKnown, FormSet, FormReachable
  <1>5. type = "new" /\ listKind # "webhooks" => \A c \in calls : ~(c.here /\ c.type = "new")
    BY <1>3 DEF Busy, ListInv, ListShape
  <1>6. Mints(type) => minted = NoSecret
    BY <1>2, <1>3 DEF Mints, FormReachable
  <1>7. f.of \in Entries \cup {NoEntry} /\ type \in CallTypes
    BY <1>2, <1>4 DEF FormSet, CallTypes
  <1> QED BY <1>1, <1>2, <1>3, <1>4, <1>5, <1>6, <1>7, CallsStep

LEMMA ConfirmsStep == ASSUME ListInv, Confirms PROVE ListInv'
  <1>1. PICK text, slot : /\ Calls(question.type, question.of, text, slot)
                          /\ (slot = "none" /\ text = 0) \/ (slot = "edit" /\ text = listForms["edit"].text)
    <2>1. CASE listKind = "templates" /\ listForms["edit"].of = question.of
      <3>1. Calls(question.type, question.of, listForms["edit"].text, "edit")
        BY <2>1 DEF Confirms
      <3> QED BY <3>1
    <2>2. CASE ~(listKind = "templates" /\ listForms["edit"].of = question.of)
      <3>1. Calls(question.type, question.of, 0, "none")
        BY <2>2 DEF Confirms
      <3> QED BY <3>1
    <2> QED BY <2>1, <2>2
  <1>2. /\ question # NoQuestion /\ listForms' = listForms
        /\ question' = IF listKind \in {"webhooks", "templates"} THEN question ELSE NoQuestion
    BY DEF Confirms
  <1>3. /\ question.of \in Entries /\ question.type \in {"delete", "regenerate"}
        /\ question.type = "regenerate" => listKind = "instances" /\ (minted # NoSecret => together)
    BY <1>2 DEF ListInv, ListShape, QuestionSet, CallsMakeSense, SecretsAreMinded
  <1>4. text \in 0 .. typed
    <2>1. listForms["edit"] \in FormSet /\ typed \in 1 .. MaxTyped /\ TextsAreKnown
      BY FormsAre DEF ListInv
    <2>2. listForms["edit"].text \in Nat /\ listForms["edit"].text <= typed
      BY <2>1 DEF FormSet, TextsAreKnown
    <2> QED BY <1>1, <2>1, <2>2, ListAssumption
  <1>5. Mints(question.type) => question.type = "regenerate"
    BY <1>3 DEF Mints
  <1>6. question.type \in CallTypes /\ question.of \in Entries \cup {NoEntry} /\ slot \in {"new", "edit", "none"}
    BY <1>1, <1>3 DEF CallTypes
  <1> QED BY <1>1, <1>2, <1>3, <1>4, <1>5, <1>6, CallsStep

\* What the server does for a call: the row it is about gets the text of the call, keeps its own, or goes.
LEMMA ServesIs ==
    ASSUME ListInv, NEW c \in calls, ServesCall(c)
    PROVE  \E answer \in {"ok", "refused"}, secret \in Nat, r \in Entries \cup {NoEntry} :
              /\ calls' = (calls \ {c}) \cup {[c EXCEPT !.at = "served", !.answer = answer, !.secret = secret, !.of = r]}
              /\ answer = "refused" => entries' = entries /\ r = c.of
              /\ answer = "ok" =>
                    /\ r \in Entries /\ (c.type # "new" => r = c.of)
                    /\ entries' \in [Entries -> RowSet] /\ \A q \in Entries \ {r} : entries'[q] = entries[q]
                    /\ \/ entries'[r].text = c.text /\ c.type \in {"new", "edit"}
                       \/ entries'[r].text \in {entries[r].text, 0}
  <1>1. /\ entries \in [Entries -> RowSet] /\ c \in CallSet /\ (c.type # "new" => c.of \in Entries)
        /\ c.text \in 0 .. MaxTyped /\ c.of \in Entries \cup {NoEntry}
    BY DEF ListInv, ListShape, CallsMakeSense, CallSet
  <1>2. CASE c.type = "new" /\ \E r \in Entries :
                 /\ entries' = [entries EXCEPT ![r] = [text |-> c.text, secret |-> 1]]
                 /\ calls' = (calls \ {c}) \cup {[c EXCEPT !.at = "served", !.answer = "ok", !.secret = 1, !.of = r]}
    <2>1. PICK r \in Entries :
                 /\ entries' = [entries EXCEPT ![r] = [text |-> c.text, secret |-> 1]]
                 /\ calls' = (calls \ {c}) \cup {[c EXCEPT !.at = "served", !.answer = "ok", !.secret = 1, !.of = r]}
      BY <1>2
    <2>2. [text |-> c.text, secret |-> 1] \in RowSet
      BY <1>1 DEF RowSet
    <2>3. /\ entries' \in [Entries -> RowSet] /\ entries'[r].text = c.text
          /\ \A q \in Entries \ {r} : entries'[q] = entries[q]
      BY <1>1, <2>1, <2>2
    <2>4. 1 \in Nat /\ "ok" \in {"ok", "refused"} /\ r \in Entries \cup {NoEntry}
      OBVIOUS
    <2> QED BY <1>2, <2>1, <2>3, <2>4
  <1>3. CASE /\ c.type # "new"
             /\ entries' = [entries EXCEPT ![c.of] = CASE c.type = "edit" -> [@ EXCEPT !.text = c.text]
                                                       [] c.type = "regenerate" -> [@ EXCEPT !.secret = @ + 1]
                                                       [] OTHER -> NoText]
             /\ calls' = (calls \ {c}) \cup {[c EXCEPT !.at = "served", !.answer = "ok", !.secret = entries'[c.of].secret, !.of = c.of]}
    <2>1. PICK old : old = entries[c.of]
      OBVIOUS
    <2>2. PICK more : more = old.secret + 1
      OBVIOUS
    <2>3. old \in RowSet /\ more \in Nat
      BY <1>1, <1>3, <2>1, <2>2 DEF RowSet
    <2>4. PICK row : row = CASE c.type = "edit" -> [old EXCEPT !.text = c.text]
                             [] c.type = "regenerate" -> [old EXCEPT !.secret = more]
                             [] OTHER -> NoText
      OBVIOUS
    <2>5. entries' = [entries EXCEPT ![c.of] = row]
      BY <1>3, <2>1, <2>2, <2>4
    <2>6. row \in RowSet /\ ((row.text = c.text /\ c.type \in {"new", "edit"}) \/ row.text \in {old.text, 0})
      <3>1. CASE c.type = "edit"
        <4>1. row = [old EXCEPT !.text = c.text]
          BY <2>4, <3>1
        <4> QED BY <1>1, <2>3, <3>1, <4>1 DEF RowSet
      <3>2. CASE c.type = "regenerate"
        <4>1. row = [old EXCEPT !.secret = more]
          BY <2>4, <3>2
        <4> QED BY <2>3, <4>1 DEF RowSet
      <3>3. CASE c.type \notin {"edit", "regenerate"}
        <4>1. row = NoText
          BY <2>4, <3>3
        <4> QED BY <4>1, ListAssumption DEF RowSet, NoText
      <3> QED BY <3>1, <3>2, <3>3
    <2>7. /\ entries' \in [Entries -> RowSet] /\ entries'[c.of] = row
          /\ \A q \in Entries \ {c.of} : entries'[q] = entries[q]
      BY <1>1, <1>3, <2>5, <2>6
    <2>8. PICK secret : secret = entries'[c.of].secret
      OBVIOUS
    <2>9. secret \in Nat /\ "ok" \in {"ok", "refused"}
      BY <2>6, <2>7, <2>8 DEF RowSet
    <2>10. calls' = (calls \ {c}) \cup {[c EXCEPT !.at = "served", !.answer = "ok", !.secret = secret, !.of = c.of]}
      BY <1>3, <2>8
    <2> QED BY <1>1, <1>3, <2>1, <2>6, <2>7, <2>9, <2>10
  <1>4. CASE /\ entries' = entries
             /\ calls' = (calls \ {c}) \cup {[c EXCEPT !.at = "served", !.answer = "refused", !.secret = 0, !.of = c.of]}
    <2>1. 0 \in Nat /\ "refused" \in {"ok", "refused"} /\ "refused" # "ok"
      OBVIOUS
    <2> QED BY <1>1, <1>4, <2>1
  <1> QED BY <1>2, <1>3, <1>4 DEF ServesCall

LEMMA ServesStep == ASSUME ListInv, NEW c \in calls, ServesCall(c) PROVE ListInv'
  <1>1. PICK answer \in {"ok", "refused"}, secret \in Nat, r \in Entries \cup {NoEntry} :
              /\ calls' = (calls \ {c}) \cup {[c EXCEPT !.at = "served", !.answer = answer, !.secret = secret, !.of = r]}
              /\ answer = "refused" => entries' = entries /\ r = c.of
              /\ answer = "ok" =>
                    /\ r \in Entries /\ (c.type # "new" => r = c.of)
                    /\ entries' \in [Entries -> RowSet] /\ \A q \in Entries \ {r} : entries'[q] = entries[q]
                    /\ \/ entries'[r].text = c.text /\ c.type \in {"new", "edit"}
                       \/ entries'[r].text \in {entries[r].text, 0}
    BY ServesIs
  <1>2. PICK d : d = [c EXCEPT !.at = "served", !.answer = answer, !.secret = secret, !.of = r]
    OBVIOUS
  <1>3. /\ UNCHANGED <<listKind, listed, stale, query, listForms, question, minted, typed, made, behind, moved, together,
                       unsure, lostTexts, replaced>>
        /\ written' = written \cup {entries'[q].text : q \in Entries} /\ c.at = "sent"
    BY DEF ServesCall, formHistory
  <1>4. ListShape /\ CallsMakeSense /\ FormsMakeSense /\ ReadsAgree /\ TextsAreKnown /\ SecretsAreMinded
    BY DEF ListInv
  <1>5. c \in CallSet /\ c.answer = "none"
    BY <1>3, <1>4 DEF ListShape, CallsMakeSense
  <1>6. /\ d \in CallSet /\ d.at = "served" /\ d.answer = answer /\ d.of = r /\ d.type = c.type /\ d.text = c.text
        /\ d.slot = c.slot /\ d.here = c.here
    BY <1>2, <1>5 DEF CallSet
  <1>7. calls' = (calls \ {c}) \cup {d}
    BY <1>1, <1>2
  <1>8. entries' \in [Entries -> RowSet] /\ ListShape'
    BY <1>1, <1>3, <1>4, <1>6, <1>7 DEF ListShape
  <1>9. CallsMakeSense'
    BY <1>1, <1>3, <1>4, <1>6, <1>7 DEF CallsMakeSense
  <1>10. FormsMakeSense'
    BY <1>3, <1>4 DEF FormsMakeSense
  <1>11. ReadsAgree'
    <2>1. CASE answer = "ok"
      <3>1. ~NoneOk'
        BY <1>6, <1>7, <2>1 DEF NoneOk
      <3> QED BY <1>3, <1>4, <3>1 DEF ReadsAgree
    <2>2. CASE answer = "refused"
      <3>1. NoneOk' <=> NoneOk
        BY <1>5, <1>6, <1>7, <2>2 DEF NoneOk
      <3> QED BY <1>1, <1>3, <1>4, <2>2, <3>1 DEF ReadsAgree
    <2> QED BY <2>1, <2>2
  <1>12. TextsAreKnown'
    <2>1. typed \in Nat /\ c.text \in Nat /\ c.text <= typed
      BY <1>4, <1>5, ListAssumption DEF ListShape, CallSet, TextsAreKnown
    <2>2. ASSUME NEW q \in Entries PROVE entries'[q].text \in (written' \cup {0}) \cap 0 .. typed
      <3>1. entries'[q].text \in written'
        BY <1>3
      <3>2. entries[q].text \in 0 .. typed /\ 0 \in 0 .. typed /\ c.text \in 0 .. typed
        BY <1>4, <2>1 DEF TextsAreKnown
      <3>3. entries'[q].text \in {entries[q].text, c.text, 0}
        BY <1>1
      <3> QED BY <3>1, <3>2, <3>3
    <2>3. \A q \in Entries : {listed[q].text, query.snap[q].text} \subseteq (written' \cup {0}) \cap 0 .. typed
      BY <1>3, <1>4 DEF TextsAreKnown
    <2>4. \A e \in calls' : /\ e.text <= typed
                            /\ e.slot # "none" => listForms[e.slot].text \in {e.text, 0} \cup written' \cup moved
      BY <1>3, <1>4, <1>6, <1>7 DEF TextsAreKnown
    <2> QED BY <1>3, <1>4, <2>2, <2>3, <2>4 DEF TextsAreKnown
  <1>13. SecretsAreMinded'
    <2>1. \A e \in calls' : Mints(e.type)' <=> Mints(e.type)
      BY <1>3 DEF Mints
    <2>2. \A e \in calls' : e = d \/ e \in calls \ {c}
      BY <1>7
    <2>3. Mints(d.type) <=> Mints(c.type)
      BY <1>6
    <2> QED BY <1>3, <1>4, <1>6, <2>1, <2>2, <2>3 DEF SecretsAreMinded
  <1>14. ASSUME listKind' # "webhooks", NEW t \in (1 .. MaxTyped) \ unsure' PROVE TextIsOwned(t)'
    <2>1. TextIsOwned(t) /\ t # 0
      BY <1>3, <1>14 DEF ListInv
    <2>2. \A s \in {"new", "edit"} : Blank(s, t)' <=> Blank(s, t)
      BY <1>3 DEF Blank
    <2>3. \A e \in calls' : Fresh(e, t)' <=> Fresh(e, t)
      BY DEF Fresh
    <2>4. CASE c.type = "new" /\ answer = "ok" /\ c.text = t
      <3>1. Fresh(c, t)
        BY <1>5, <2>4 DEF Fresh
      <3>2. \A q \in Entries : ~Claimed(t, q)
        BY <2>1, <3>1 DEF TextIsOwned
      <3>3. \A q \in Entries : Claimed(t, q)' => q = r
        BY <1>1, <1>3, <1>6, <1>7, <2>4, <3>2 DEF Claimed
      <3>4. \A e \in calls' : ~Fresh(e, t)
        <4>1. ~Fresh(d, t)
          BY <1>6, <2>4 DEF Fresh
        <4>2. \A e \in calls \ {c} : ~Fresh(e, t)
          BY <2>1, <3>1 DEF TextIsOwned
        <4> QED BY <1>7, <4>1, <4>2
      <3>5. \A s \in {"new", "edit"} : Blank(s, t) => d.here /\ d.type = "new" /\ d.answer = "ok" /\ d.slot = s /\ d.text = t
        BY <1>6, <2>1, <2>4, <3>1 DEF TextIsOwned
      <3>6. d \in calls'
        BY <1>7
      <3> QED BY <2>2, <2>3, <3>3, <3>4, <3>5, <3>6 DEF TextIsOwned
    <2>5. CASE ~(c.type = "new" /\ answer = "ok" /\ c.text = t)
      <3>1. ASSUME NEW q \in Entries, Claimed(t, q)' PROVE Claimed(t, q)
        <4>1. entries'[q].text = t => \/ entries[q].text = t
                                      \/ c.type = "edit" /\ c.of = q /\ c.text = t
          BY <1>1, <2>1, <2>5
        <4>2. CASE entries'[q].text = t
          BY <4>1, <4>2 DEF Claimed
        <4>3. CASE entries'[q].text # t
          BY <1>1, <1>3, <1>5, <1>6, <1>7, <2>5, <3>1, <4>3 DEF Claimed
        <4> QED BY <4>2, <4>3
      <3>2. Fresh(d, t) <=> Fresh(c, t) /\ answer = "refused"
        BY <1>1, <1>5, <1>6, <2>5 DEF Fresh
      <3>3. \A e \in calls : e.type = "new" /\ e.answer = "ok" => e \in calls'
        BY <1>5, <1>7
      <3>4. ASSUME NEW e \in calls', Fresh(e, t)
            PROVE  /\ \A q \in Entries : ~Claimed(t, q)
                   /\ \A f \in calls' : Fresh(f, t) => f = e
                   /\ \A s \in {"new", "edit"} : Blank(s, t) => e.here /\ e.slot = s
        <4>1. CASE e = d
          <5>1. Fresh(c, t)
            BY <3>2, <3>4, <4>1
          <5> QED BY <1>6, <1>7, <2>1, <4>1, <5>1 DEF TextIsOwned
        <4>2. CASE e \in calls \ {c}
          <5>1. ~Fresh(d, t)
            BY <2>1, <3>2, <3>4, <4>2 DEF TextIsOwned
          <5> QED BY <1>7, <2>1, <3>4, <4>2, <5>1 DEF TextIsOwned
        <4> QED BY <1>7, <4>1, <4>2
      <3>5. ASSUME NEW s \in {"new", "edit"}, NEW q \in Entries, Blank(s, t), Claimed(t, q)
            PROVE  \E e \in calls' : e.here /\ e.type = "new" /\ e.answer = "ok" /\ e.slot = s /\ e.text = t
        BY <2>1, <3>3, <3>5 DEF TextIsOwned
      <3> QED BY <2>1, <2>2, <2>3, <3>1, <3>4, <3>5 DEF TextIsOwned
    <2> QED BY <2>4, <2>5
  <1> QED BY <1>8, <1>9, <1>10, <1>11, <1>12, <1>13, <1>14 DEF ListInv

LEMMA WrongStep == ASSUME ListInv, NEW c \in calls, CallAnswered(c), CallGoesWrong(c) PROVE ListInv'
  <1>1. /\ UNCHANGED <<listKind, entries, listed, typed, made, written, moved, together, listForms, question, minted, stale,
                       lostTexts, replaced>>
        /\ calls' = calls \ {c}
    BY DEF CallAnswered, CallGoesWrong
  <1>2. ListShape /\ CallsMakeSense /\ FormsMakeSense /\ ReadsAgree /\ TextsAreKnown /\ SecretsAreMinded
    BY DEF ListInv
  <1>3. \/ c.answer = "refused" /\ UNCHANGED <<behind, query, unsure>>
        \/ c.answer = "ok" /\ Unnoticed /\ unsure' = unsure \cup {c.text}
    BY DEF CallGoesWrong
  <1>4. /\ query' \in [reading : BOOLEAN, snap : [Entries -> RowSet], whole : BOOLEAN] /\ query'.snap = query.snap
        /\ behind' \in BOOLEAN
    BY <1>2, <1>3, UnnoticedIs DEF ListShape
  <1>5. ListShape'
    BY <1>1, <1>2, <1>4 DEF ListShape
  <1>6. CallsMakeSense' /\ FormsMakeSense'
    BY <1>1, <1>2 DEF CallsMakeSense, FormsMakeSense
  <1>7. ReadsAgree'
    <2>1. CASE c.answer = "refused" /\ UNCHANGED <<behind, query, unsure>>
      <3>1. NoneOk' => NoneOk
        BY <1>1, <2>1 DEF NoneOk
      <3> QED BY <1>1, <1>2, <2>1, <3>1 DEF ReadsAgree
    <2>2. CASE c.answer = "ok" /\ Unnoticed /\ unsure' = unsure \cup {c.text}
      BY <1>1, <1>2, <2>2, UnnoticedIs DEF ReadsAgree
    <2> QED BY <1>3, <2>1, <2>2
  <1>8. TextsAreKnown'
    BY <1>1, <1>2, <1>4 DEF TextsAreKnown
  <1>9. SecretsAreMinded'
    BY <1>1, <1>2 DEF SecretsAreMinded, Mints
  <1>10. ASSUME listKind' # "webhooks", NEW t \in (1 .. MaxTyped) \ unsure' PROVE TextIsOwned(t)'
    <2>1. TextIsOwned(t) /\ ~(c.answer = "ok" /\ c.text = t)
      BY <1>1, <1>3, <1>10 DEF ListInv
    <2>2. \A r \in Entries : Claimed(t, r)' => Claimed(t, r)
      BY <1>1, <1>4 DEF Claimed
    <2>3. \A s \in {"new", "edit"} : Blank(s, t)' => Blank(s, t)
      BY <1>1 DEF Blank
    <2>4. \A e \in calls' : Fresh(e, t) => e \in calls
      BY <1>1
    <2>5. \A e \in calls : e.type = "new" /\ e.answer = "ok" /\ e.text = t => e \in calls'
      BY <1>1, <2>1
    <2> QED BY <2>1, <2>2, <2>3, <2>4, <2>5, OwnedRests
  <1> QED BY <1>5, <1>6, <1>7, <1>8, <1>9, <1>10 DEF ListInv

LEMMA SucceedsStep == ASSUME ListInv, NEW c \in calls, CallAnswered(c), Succeeds(c) PROVE ListInv'
  <1>1. /\ UNCHANGED <<listKind, entries, listed, typed, made, written, moved, together, unsure>>
        /\ calls' = calls \ {c} /\ c.answer = "ok"
    BY DEF CallAnswered, Succeeds
  <1>2. ListShape /\ CallsMakeSense /\ FormsMakeSense /\ ReadsAgree /\ TextsAreKnown /\ SecretsAreMinded
    BY DEF ListInv
  <1>3. c \in CallSet /\ c.slot \in {"new", "edit", "none"} /\ c.of \in Entries \cup {NoEntry} /\ c.secret \in Nat
    BY <1>2 DEF ListShape, CallSet
  <1>4. /\ query' \in [reading : BOOLEAN, snap : [Entries -> RowSet], whole : BOOLEAN]
        /\ query'.snap \in {query.snap, entries} /\ stale' = TRUE /\ behind' \in BOOLEAN /\ ReadsAgree'
    <2>1. Invalidates /\ query \in [reading : BOOLEAN, snap : [Entries -> RowSet], whole : BOOLEAN]
          /\ entries \in [Entries -> RowSet] /\ behind \in BOOLEAN
      BY <1>2 DEF ListShape, Succeeds
    <2>2. CASE mounted
      <3>1. query' = [reading |-> TRUE, snap |-> entries, whole |-> TRUE] /\ stale' = TRUE /\ behind' = behind
        BY <2>1, <2>2 DEF Invalidates, Read
      <3>2. /\ query' \in [reading : BOOLEAN, snap : [Entries -> RowSet], whole : BOOLEAN]
            /\ query'.snap = entries /\ query'.whole = TRUE /\ query'.reading = TRUE
        BY <2>1, <3>1
      <3> QED BY <1>1, <2>1, <3>1, <3>2 DEF ReadsAgree
    <2>3. CASE ~mounted /\ query = NoRead
      <3>1. query' = NoRead /\ stale' = TRUE /\ behind' = behind /\ NoRead.reading = FALSE
        BY <2>1, <2>3 DEF Invalidates, NoRead
      <3> QED BY <1>1, <2>1, <2>3, <3>1 DEF ReadsAgree
    <2>4. CASE ~mounted /\ query # NoRead
      <3>1. Unnoticed /\ stale' = TRUE
        BY <2>1, <2>4 DEF Invalidates
      <3> QED BY <1>1, <1>2, <2>1, <2>4, <3>1, UnnoticedIs DEF ReadsAgree
    <2> QED BY <2>2, <2>3, <2>4
  <1>5. /\ listForms' \in [{"new", "edit"} -> FormSet] /\ FormsMakeSense'
        /\ c.slot # "none" => listForms'[c.slot].text = 0
        /\ \A s \in {"new", "edit"} : listForms'[s] = listForms[s] \/ (s = c.slot /\ listForms'[s].text = 0)
    <2>1. CASE c.slot = "none"
      <3>1. listForms' = listForms
        BY <2>1 DEF Succeeds
      <3> QED BY <1>1, <2>1, <3>1, FormsAre DEF FormsMakeSense
    <2>2. CASE c.slot # "none"
      <3>1. PICK f : f = IF listKind = "keys" THEN [listForms[c.slot] EXCEPT !.text = 0] ELSE BlankForm(c.slot)
        OBVIOUS
      <3>2. listForms' = [listForms EXCEPT ![c.slot] = f] /\ c.slot \in {"new", "edit"}
        BY <1>3, <2>2, <3>1, FormsAre DEF Succeeds
      <3>3. f \in FormSet /\ f.text = 0 /\ (c.slot = "new" => f.of = NoEntry) /\ (listKind = "templates" /\ c.slot = "new" => f = Hidden)
            /\ (listKind # "templates" /\ f.of = NoEntry => f.shown = FALSE \/ (f.of = listForms[c.slot].of /\ f.shown = listForms[c.slot].shown))
        <4>1. CASE listKind = "keys"
          <5>1. 0 \in 0 .. MaxTyped
            BY ListAssumption
          <5> QED BY <3>1, <3>2, <4>1, <5>1, FormsAre DEF FormSet
        <4>2. CASE listKind # "keys"
          BY <3>1, <3>2, <4>2, FormsAre
        <4> QED BY <4>1, <4>2
      <3>4. /\ listForms' \in [{"new", "edit"} -> FormSet] /\ listForms'[c.slot] = f
            /\ \A s \in {"new", "edit"} \ {c.slot} : listForms'[s] = listForms[s]
        BY <3>2, <3>3, FormsAre
      <3>5. FormsMakeSense'
        BY <1>1, <3>2, <3>3, <3>4, FormsAre DEF FormsMakeSense
      <3> QED BY <3>2, <3>3, <3>4, <3>5
    <2> QED BY <2>1, <2>2
  <1>6. question' \in {question, NoQuestion} /\ question' \in QuestionSet
    BY FormsAre DEF Succeeds, QuestionSet, NoQuestion
  <1>7. /\ minted' \in [of : Entries \cup {NoEntry}, secret : Nat]
        /\ \/ c.here /\ Mints(c.type) /\ replaced' = (replaced \/ minted # NoSecret)
           \/ minted' = minted /\ replaced' = replaced
    <2>1. CASE c.here /\ Mints(c.type)
      <3>1. minted' = [of |-> c.of, secret |-> c.secret] /\ replaced' = (replaced \/ minted # NoSecret)
        BY <2>1 DEF Succeeds
      <3> QED BY <1>3, <2>1, <3>1
    <2>2. CASE ~(c.here /\ Mints(c.type))
      BY <1>2, <2>2 DEF Succeeds, ListShape
    <2> QED BY <2>1, <2>2
  <1>8. ListShape'
    BY <1>1, <1>2, <1>4, <1>5, <1>6, <1>7 DEF ListShape
  <1>9. CallsMakeSense'
    <2>1. NoQuestion.type # "regenerate"
      BY DEF NoQuestion
    <2> QED BY <1>1, <1>2, <1>6, <2>1 DEF CallsMakeSense
  <1>10. TextsAreKnown'
    <2>1. ASSUME NEW r \in Entries
          PROVE  {entries'[r].text, listed'[r].text, query'.snap[r].text} \subseteq (written' \cup {0}) \cap 0 .. typed'
      BY <1>1, <1>2, <1>4 DEF TextsAreKnown
    <2>2. typed \in 1 .. MaxTyped /\ 0 <= typed
      BY <1>2, ListAssumption DEF ListShape
    <2>3. \A s \in {"new", "edit"} : listForms'[s].text <= typed'
      BY <1>1, <1>2, <1>5, <2>2 DEF TextsAreKnown
    <2>4. ASSUME NEW e \in calls'
          PROVE  /\ e.text <= typed'
                 /\ e.slot # "none" => listForms'[e.slot].text \in {e.text, 0} \cup written' \cup moved'
      <3>1. e \in calls /\ e.slot \in {"new", "edit", "none"}
        BY <1>1, <1>2 DEF ListShape, CallSet
      <3> QED BY <1>1, <1>2, <1>5, <3>1 DEF TextsAreKnown
    <2>5. lostTexts' \subseteq moved'
      <3>1. CASE c.slot = "none"
        <4>1. lostTexts' = lostTexts
          BY <3>1 DEF Succeeds
        <4> QED BY <1>1, <1>2, <4>1 DEF TextsAreKnown
      <3>2. CASE c.slot # "none"
        <4>1. PICK text : text = listForms[c.slot].text
          OBVIOUS
        <4>2. lostTexts' = IF text \in {c.text} \cup written \cup {0} THEN lostTexts ELSE lostTexts \cup {text}
          BY <3>2, <4>1 DEF Succeeds
        <4>3. text \in {c.text, 0} \cup written \cup moved
          BY <1>2, <3>2, <4>1 DEF TextsAreKnown
        <4> QED BY <1>1, <1>2, <4>2, <4>3 DEF TextsAreKnown
      <3> QED BY <3>1, <3>2
    <2> QED BY <2>1, <2>3, <2>4, <2>5 DEF TextsAreKnown
  <1>11. SecretsAreMinded'
    <2>1. \A e \in calls' : Mints(e.type)' <=> Mints(e.type)
      BY <1>1 DEF Mints
    <2>2. NoQuestion.type # "regenerate"
      BY DEF NoQuestion
    <2>3. CASE c.here /\ Mints(c.type) /\ replaced' = (replaced \/ minted # NoSecret)
      BY <1>1, <1>2, <1>6, <2>1, <2>2, <2>3 DEF SecretsAreMinded
    <2>4. CASE minted' = minted /\ replaced' = replaced
      BY <1>1, <1>2, <1>6, <2>1, <2>2, <2>4 DEF SecretsAreMinded
    <2> QED BY <1>7, <2>3, <2>4
  <1>12. ASSUME listKind' # "webhooks", NEW t \in (1 .. MaxTyped) \ unsure' PROVE TextIsOwned(t)'
    <2>1. TextIsOwned(t) /\ t # 0
      BY <1>1, <1>12 DEF ListInv
    <2>2. \A r \in Entries : Claimed(t, r)' => Claimed(t, r)
      BY <1>1, <1>4, <1>5, <2>1 DEF Claimed
    <2>3. \A s \in {"new", "edit"} : Blank(s, t)' => Blank(s, t) /\ s # c.slot
      BY <1>5, <2>1 DEF Blank
    <2>4. \A e \in calls' : e \in calls /\ (Fresh(e, t)' <=> Fresh(e, t))
      BY <1>1 DEF Fresh
    <2>5. ASSUME NEW s \in {"new", "edit"}, NEW r \in Entries, Blank(s, t)', Claimed(t, r)'
          PROVE  \E e \in calls' : e.here /\ e.type = "new" /\ e.answer = "ok" /\ e.slot = s /\ e.text = t
      <3>1. PICK e \in calls : e.here /\ e.type = "new" /\ e.answer = "ok" /\ e.slot = s /\ e.text = t
        BY <2>1, <2>2, <2>3, <2>5 DEF TextIsOwned
      <3> QED BY <1>1, <2>3, <2>5, <3>1
    <2> QED BY <2>1, <2>2, <2>3, <2>4, <2>5 DEF TextIsOwned
  <1> QED BY <1>4, <1>5, <1>8, <1>9, <1>10, <1>11, <1>12 DEF ListInv

LEMMA ListStep == ListInv /\ [ListNext]_listVars => ListInv'
  <1> SUFFICES ASSUME ListInv, [ListNext]_listVars PROVE ListInv'
    OBVIOUS
  <1>1. CASE UNCHANGED listVars
    <2>1. ListShape' /\ CallsMakeSense' /\ FormsMakeSense' /\ ReadsAgree' /\ TextsAreKnown'
      BY <1>1 DEF ListInv, listVars, ListShape, CallsMakeSense, FormsMakeSense, ReadsAgree, NoneOk, TextsAreKnown
    <2>2. SecretsAreMinded'
      BY <1>1 DEF ListInv, listVars, SecretsAreMinded, Mints
    <2>3. ASSUME listKind' # "webhooks", NEW t \in (1 .. MaxTyped) \ unsure' PROVE TextIsOwned(t)'
      BY <1>1, <2>3 DEF ListInv, listVars, TextIsOwned, Claimed, Blank, Fresh
    <2> QED BY <2>1, <2>2, <2>3 DEF ListInv
  <1>2. CASE ListNext
    <2>1. ASSUME NEW c \in calls, CallAnswered(c) PROVE ListInv'
      BY <2>1, WrongStep, SucceedsStep DEF CallAnswered
    <2> QED BY <1>2, <2>1, QueryStep, OpenStep, TypesStep, CancelStep, CloseSecretStep, AsksStep, LeavePageStep, SubmitsStep,
               ConfirmsStep, ServesStep DEF ListNext
  <1> QED BY <1>1, <1>2

LEMMA ListIsTrue == ListInv => ListsAreSound /\ ListTypeOK
  <1> SUFFICES ASSUME ListInv PROVE ListsAreSound /\ ListTypeOK
    OBVIOUS
  <1>1. ListShape /\ ReadsAgree /\ TextsAreKnown /\ SecretsAreMinded
    BY DEF ListInv
  <1>2. ListIsCurrent
    BY <1>1 DEF ListIsCurrent, ReadsAgree, NoneOk
  <1>3. DraftsAreKept /\ SecretsAreSeen
    BY <1>1 DEF DraftsAreKept, SecretsAreSeen, TextsAreKnown, SecretsAreMinded
  <1>4. OneRowForOneText
    <2> SUFFICES ASSUME NEW q \in Entries, NEW r \in Entries, q # r, entries[q].text = entries[r].text, listKind # "webhooks",
                        entries[q].text \notin {0} \cup unsure
        PROVE FALSE
      BY DEF OneRowForOneText
    <2>1. entries[q].text \in (1 .. MaxTyped) \ unsure
      BY <1>1, ListAssumption DEF ListShape, RowSet
    <2>2. TextIsOwned(entries[q].text)
      BY <2>1 DEF ListInv
    <2>3. Claimed(entries[q].text, q) /\ Claimed(entries[q].text, r)
      BY DEF Claimed
    <2> QED BY <2>2, <2>3 DEF TextIsOwned
  <1>5. ListTypeOK
    BY <1>1 DEF ListTypeOK, ListTexts, ListShape, RowSet, FormSet, CallSet, QuestionSet
  <1> QED BY <1>2, <1>3, <1>4, <1>5 DEF ListsAreSound

-----------------------------------------------------------------------------
(* The settings of a plugin                                                 *)

RowNames == Names \cup {""}
FormSecrets == {Missing, "", "***", "t"}
Notes == {Missing, "", "n1", "n2", "n3"}
StoredKeys == {Missing, "s0", "s3", "s4", "t"}
StoredPasses == {Missing, "", "s1", "s2", "s5", "t"}
StoredRow == [name : RowNames, pass : StoredPasses]
FormRow == [name : RowNames, pass : FormSecrets]
StoredConfigs == [key : StoredKeys, note : Notes, rows : [there : BOOLEAN, list : Seq(StoredRow)]]
FormConfigs == [key : FormSecrets, note : Notes, rows : [there : BOOLEAN, list : Seq(FormRow)]]
Views == [base : FormConfigs, override : FormConfigs]

\* There is always a base, with rows and a note.
Whole(config) == config.rows.there /\ config.note # Missing
WholeViews == {v \in Views : Whole(v.base)}

Slice(f, scope) == IF scope = "base" THEN f.seen.base ELSE Over(f.seen.base, f.seen.override)
Start(f, scope) == IF f.editor = "form" THEN Over(Empty, Slice(f, scope)) ELSE Slice(f, scope)

RowsFrom(list, from, old) ==
    /\ Len(from) = Len(list)
    /\ \A i \in 1 .. Len(list) : /\ from[i] <= Len(old)
                                 /\ list[i].pass \in {"", "t"} \/ (from[i] # 0 /\ list[i].pass = old[from[i]].pass)

ConfigFields == {"key", "note", "rows"}
FilledForms == [open : BOOLEAN, editor : {"form", "frame"}, says : FormConfigs, seen : Views,
                touched : SUBSET ConfigFields, from : Seq(Nat)]
SentSaves == [number : Nat, scope : ConfigScopes, config : FormConfigs, clears : BOOLEAN, form : FilledForms,
              against : Views, at : {"sent", "served"}, answer : {"none", "ok", "failed"}]

\* A key that was not touched is as the form started; a row comes from the one it was, with its mask unless it was
\* typed over.
FormHolds(f, scope) ==
    /\ f.seen \in WholeViews /\ f.says.rows.there
    /\ IF "key" \in f.touched THEN f.says.key \in {"t", ""} ELSE f.says.key = Start(f, scope).key
    /\ IF "note" \in f.touched THEN f.says.note \in {"n2", ""} ELSE f.says.note = Start(f, scope).note
    /\ "rows" \notin f.touched => f.says.rows = Start(f, scope).rows
    /\ RowsFrom(f.says.rows.list, f.from, Slice(f, scope).rows.list)

SparseAgainst(full, shown) ==
    [key  |-> full.key,
     note |-> IF full.note = shown.note THEN Missing ELSE full.note,
     rows |-> IF full.rows = shown.rows THEN NoRows ELSE full.rows]

SaveHolds(s) ==
    /\ FormHolds(s.form, s.scope) /\ s.against \in WholeViews
    /\ IF s.clears THEN s.scope = "override" /\ s.config = NoConfig
       ELSE s.config = IF s.scope = "base" THEN s.form.says ELSE SparseAgainst(s.form.says, s.against.base)

SettingsInv ==
    /\ base \in StoredConfigs /\ override \in StoredConfigs /\ Whole(base)
    /\ view \in WholeViews /\ (viewRead # <<>> => viewRead[1] \in WholeViews)
    /\ configForms \in [ConfigScopes -> FilledForms]
    /\ \A scope \in ConfigScopes : configForms[scope].open => FormHolds(configForms[scope], scope)
    /\ configSaves \subseteq SentSaves /\ \A s \in configSaves : s.at = "sent" => SaveHolds(s)
    /\ moves \in 0 .. MaxMoves /\ meant

-----------------------------------------------------------------------------
(* What masking and putting back do                                         *)

\* A config that is shown has every secret masked, and nothing else changed.
LEMMA RedactIs ==
    ASSUME NEW config \in StoredConfigs
    PROVE  LET shown == RedactSecretConfig(config) IN
           /\ shown \in FormConfigs /\ shown.key = Masked(config.key) /\ shown.note = config.note
           /\ shown.rows.there = config.rows.there
           /\ shown.rows.list \in Seq(FormRow) /\ Len(shown.rows.list) = Len(config.rows.list)
           /\ \A i \in 1 .. Len(config.rows.list) :
                 /\ shown.rows.list[i].name = config.rows.list[i].name
                 /\ shown.rows.list[i].pass = Masked(config.rows.list[i].pass)
  <1> DEFINE list == config.rows.list
             signed == [i \in DOMAIN list |-> Signature(list[i])]
  <1>1. list \in Seq(StoredRow) /\ DOMAIN list = 1 .. Len(list) /\ Len(list) \in Nat
    BY DEF StoredConfigs
  <1>2. ASSUME NEW i \in 1 .. Len(list)
        PROVE  /\ Signature(list[i]) \in FormRow
               /\ Signature(list[i]).name = list[i].name /\ Signature(list[i]).pass = Masked(list[i].pass)
    <2>1. list[i] \in StoredRow
      BY <1>1
    <2>2. PICK pass : pass = Masked(list[i].pass)
      OBVIOUS
    <2>3. Signature(list[i]) = [list[i] EXCEPT !.pass = pass]
      BY <2>2 DEF Signature
    <2>4. [list[i] EXCEPT !.pass = pass] = [name |-> list[i].name, pass |-> pass]
      BY <2>1 DEF StoredRow
    <2>5. pass \in FormSecrets
      BY <2>1, <2>2 DEF StoredRow, StoredPasses, Masked, IsMeaningful, FormSecrets, Missing
    <2> QED BY <2>1, <2>2, <2>3, <2>4, <2>5 DEF StoredRow, FormRow
  <1>3. signed \in Seq(FormRow) /\ Len(signed) = Len(list) /\ \A i \in 1 .. Len(list) : signed[i] = Signature(list[i])
    <2>1. \A i \in 1 .. Len(list) : Signature(list[i]) \in FormRow
      BY <1>2
    <2>2. signed = [i \in 1 .. Len(list) |-> Signature(list[i])]
      BY <1>1
    <2> HIDE DEF signed, list
    <2> QED BY <1>1, <2>1, <2>2
  <1>4. PICK key : key = Masked(config.key)
    OBVIOUS
  <1>5. RedactSecretConfig(config) =
            [key |-> key, note |-> config.note, rows |-> [there |-> config.rows.there, list |-> signed]]
    BY <1>4 DEF RedactSecretConfig
  <1>6. key \in FormSecrets
    BY <1>4 DEF StoredConfigs, StoredKeys, Masked, IsMeaningful, FormSecrets, Missing
  <1> HIDE DEF signed
  <1>7. config.note \in Notes /\ config.rows.there \in BOOLEAN
    BY DEF StoredConfigs
  <1>8. [key |-> key, note |-> config.note, rows |-> [there |-> config.rows.there, list |-> signed]] \in FormConfigs
    BY <1>3, <1>6, <1>7 DEF FormConfigs
  <1> QED BY <1>2, <1>3, <1>4, <1>5, <1>7, <1>8

\* Of two configs each key is one of theirs.
LEMMA OverForms ==
    ASSUME NEW config \in FormConfigs, NEW other \in FormConfigs
    PROVE  LET over == Over(config, other) IN
           /\ over \in FormConfigs
           /\ over.key = IF other.key = Missing THEN config.key ELSE other.key
           /\ over.note = IF other.note = Missing THEN config.note ELSE other.note
           /\ over.rows = IF other.rows.there THEN other.rows ELSE config.rows
           /\ Whole(config) => Whole(over)
  <1>1. PICK key : key = IF other.key = Missing THEN config.key ELSE other.key
    OBVIOUS
  <1>2. PICK note : note = IF other.note = Missing THEN config.note ELSE other.note
    OBVIOUS
  <1>3. PICK rows : rows = IF other.rows.there THEN other.rows ELSE config.rows
    OBVIOUS
  <1>4. Over(config, other) = [key |-> key, note |-> note, rows |-> rows]
    BY <1>1, <1>2, <1>3 DEF Over
  <1>5. [key |-> key, note |-> note, rows |-> rows] \in FormConfigs
    BY <1>1, <1>2, <1>3 DEF FormConfigs
  <1>6. Whole(config) => rows.there /\ note # Missing
    BY <1>2, <1>3 DEF Whole
  <1> QED BY <1>1, <1>2, <1>3, <1>4, <1>5, <1>6 DEF Whole

LEMMA OverStored ==
    ASSUME NEW config \in StoredConfigs, NEW other \in StoredConfigs
    PROVE  LET over == Over(config, other) IN
           /\ over \in StoredConfigs
           /\ over.key = IF other.key = Missing THEN config.key ELSE other.key
           /\ over.note = IF other.note = Missing THEN config.note ELSE other.note
           /\ over.rows = IF other.rows.there THEN other.rows ELSE config.rows
           /\ Whole(config) => Whole(over)
  <1>1. PICK key : key = IF other.key = Missing THEN config.key ELSE other.key
    OBVIOUS
  <1>2. PICK note : note = IF other.note = Missing THEN config.note ELSE other.note
    OBVIOUS
  <1>3. PICK rows : rows = IF other.rows.there THEN other.rows ELSE config.rows
    OBVIOUS
  <1>4. Over(config, other) = [key |-> key, note |-> note, rows |-> rows]
    BY <1>1, <1>2, <1>3 DEF Over
  <1>5. [key |-> key, note |-> note, rows |-> rows] \in StoredConfigs
    BY <1>1, <1>2, <1>3 DEF StoredConfigs
  <1>6. Whole(config) => rows.there /\ note # Missing
    BY <1>2, <1>3 DEF Whole
  <1> QED BY <1>1, <1>2, <1>3, <1>4, <1>5, <1>6 DEF Whole

\* A config that is put back says what came, with the secrets that were there where they are masked or left out.
LEMMA RestoreIs ==
    ASSUME NEW incoming \in FormConfigs, NEW existing \in StoredConfigs
    PROVE  LET restored == RestoreSecretConfig(incoming, existing)
               list == incoming.rows.list
           IN /\ restored \in StoredConfigs /\ restored.key = RestoredSecret(incoming.key, existing.key)
              /\ restored.note = incoming.note /\ restored.rows.there = incoming.rows.there
              /\ restored.rows.list \in Seq(StoredRow) /\ Len(restored.rows.list) = Len(list)
              /\ \A i \in 1 .. Len(list) :
                    /\ restored.rows.list[i].name = list[i].name
                    /\ restored.rows.list[i].pass = RestoredSecret(list[i].pass, Counterpart(list, existing.rows.list, i))
  <1> DEFINE list == incoming.rows.list
             old == existing.rows.list
             back(i) == [name |-> list[i].name, pass |-> RestoredSecret(list[i].pass, Counterpart(list, old, i))]
             rows == [i \in DOMAIN list |-> back(i)]
  <1>1. list \in Seq(FormRow) /\ DOMAIN list = 1 .. Len(list) /\ Len(list) \in Nat /\ old \in Seq(StoredRow)
    BY DEF StoredConfigs, FormConfigs
  <1>2. ASSUME NEW i \in 1 .. Len(list)
        PROVE  back(i) \in StoredRow
    <2>1. list[i] \in FormRow
      BY <1>1
    <2>2. PICK own : own = Counterpart(list, old, i)
      OBVIOUS
    <2>3. own \in StoredPasses
      <3> DEFINE alike == {j \in DOMAIN old : Signature(old[j]) = Signature(list[i])}
      <3>1. \A j \in DOMAIN old : old[j].pass \in StoredPasses
        <4> SUFFICES ASSUME NEW j \in DOMAIN old PROVE old[j].pass \in StoredPasses
          OBVIOUS
        <4>1. old[j] \in StoredRow
          BY <1>1
        <4> QED BY <4>1 DEF StoredRow
      <3>2. Missing \in StoredPasses
        BY DEF StoredPasses
      <3>3. CASE Cardinality(alike) = 1
        <4>1. alike # {}
          <5>1. Cardinality({}) = 0
            BY FS_EmptySet
          <5> HIDE DEF alike
          <5>2. alike = {} => Cardinality(alike) = 0
            BY <5>1
          <5> QED BY <3>3, <5>2
        <4>2. (CHOOSE j \in alike : TRUE) \in DOMAIN old
          BY <4>1
        <4>3. own = old[CHOOSE j \in alike : TRUE].pass
          BY <2>2, <3>3 DEF Counterpart
        <4> QED BY <3>1, <4>2, <4>3
      <3>4. CASE Cardinality(alike) # 1
        <4>1. own = IF i \in DOMAIN old /\ (Len(list) = Len(old) \/ i \in alike) THEN old[i].pass ELSE Missing
          BY <2>2, <3>4 DEF Counterpart
        <4> HIDE DEF alike
        <4> QED BY <3>1, <3>2, <4>1
      <3> QED BY <3>3, <3>4
    <2>4. RestoredSecret(list[i].pass, own) \in StoredPasses
      BY <2>1, <2>3 DEF FormRow, FormSecrets, StoredPasses, RestoredSecret, Missing
    <2> QED BY <2>1, <2>2, <2>4 DEF FormRow, StoredRow
  <1>3. rows \in Seq(StoredRow) /\ Len(rows) = Len(list) /\ \A i \in 1 .. Len(list) : rows[i] = back(i)
    BY <1>1, <1>2
  <1>4. RestoreSecretConfig(incoming, existing) =
          [key |-> RestoredSecret(incoming.key, existing.key), note |-> incoming.note,
           rows |-> [there |-> incoming.rows.there, list |-> rows]]
    BY DEF RestoreSecretConfig
  <1>5. RestoredSecret(incoming.key, existing.key) \in StoredKeys
    BY DEF FormConfigs, StoredConfigs, FormSecrets, StoredKeys, RestoredSecret, Missing
  <1>6. incoming.note \in Notes /\ incoming.rows.there \in BOOLEAN
    BY DEF FormConfigs
  <1>7. \A i \in 1 .. Len(list) : /\ back(i).name = list[i].name
                                 /\ back(i).pass = RestoredSecret(list[i].pass, Counterpart(list, old, i))
    OBVIOUS
  <1> HIDE DEF rows, back
  <1>8. RestoreSecretConfig(incoming, existing) \in StoredConfigs
    BY <1>3, <1>4, <1>5, <1>6 DEF StoredConfigs
  <1> QED BY <1>3, <1>4, <1>7, <1>8

\* A sequence without one of its elements.
LEMMA WithoutIs ==
    ASSUME NEW S, NEW seq \in Seq(S), NEW i \in 1 .. Len(seq)
    PROVE  LET without == SubSeq(seq, 1, i - 1) \o SubSeq(seq, i + 1, Len(seq)) IN
           /\ without \in Seq(S) /\ Len(without) = Len(seq) - 1
           /\ \A j \in 1 .. Len(seq) - 1 : without[j] = IF j < i THEN seq[j] ELSE seq[j + 1]
  <1> DEFINE n == Len(seq)
             first == SubSeq(seq, 1, i - 1)
             last == SubSeq(seq, i + 1, n)
  <1>1. n \in Nat /\ i \in Nat /\ 1 <= i /\ i <= n /\ \A j \in 1 .. n : seq[j] \in S
    OBVIOUS
  <1>2. first \in Seq(S) /\ Len(first) = i - 1 /\ \A j \in 1 .. i - 1 : first[j] = seq[j]
    <2>1. \A j \in 1 .. i - 1 : seq[j] \in S
      BY <1>1
    <2>2. i - 1 \in Int /\ 1 \in Int
      BY <1>1
    <2>3. /\ first \in Seq(S) /\ Len(first) = IF 1 <= i - 1 THEN i - 1 - 1 + 1 ELSE 0
          /\ \A j \in 1 .. i - 1 - 1 + 1 : first[j] = seq[1 + j - 1]
      BY <2>1, <2>2, SubSeqProperties
    <2> HIDE DEF first
    <2> QED BY <1>1, <2>3
  <1>3. last \in Seq(S) /\ Len(last) = n - i /\ \A j \in 1 .. n - i : last[j] = seq[i + j]
    <2>1. \A j \in i + 1 .. n : seq[j] \in S
      BY <1>1
    <2>2. i + 1 \in Int /\ n \in Int
      BY <1>1
    <2>3. /\ last \in Seq(S) /\ Len(last) = IF i + 1 <= n THEN n - (i + 1) + 1 ELSE 0
          /\ \A j \in 1 .. n - (i + 1) + 1 : last[j] = seq[i + 1 + j - 1]
      BY <2>1, <2>2, SubSeqProperties
    <2> HIDE DEF last
    <2> QED BY <1>1, <2>3
  <1> HIDE DEF first, last
  <1>4. /\ first \o last \in Seq(S) /\ Len(first \o last) = Len(first) + Len(last)
        /\ \A j \in 1 .. Len(first) + Len(last) :
              (first \o last)[j] = IF j <= Len(first) THEN first[j] ELSE last[j - Len(first)]
    BY <1>2, <1>3, ConcatProperties
  <1>5. first \o last \in Seq(S) /\ Len(first \o last) = n - 1
    BY <1>1, <1>2, <1>3, <1>4
  <1>6. ASSUME NEW j \in 1 .. n - 1 PROVE (first \o last)[j] = IF j < i THEN seq[j] ELSE seq[j + 1]
    <2>1. (first \o last)[j] = IF j <= i - 1 THEN first[j] ELSE last[j - (i - 1)]
      BY <1>1, <1>2, <1>3, <1>4
    <2>2. CASE j < i
      <3>1. j \in 1 .. i - 1 /\ j <= i - 1
        BY <1>1, <2>2
      <3> QED BY <1>2, <2>1, <2>2, <3>1
    <2>3. CASE ~(j < i)
      <3>1. j - (i - 1) \in 1 .. n - i /\ i + (j - (i - 1)) = j + 1 /\ ~(j <= i - 1)
        BY <1>1, <2>3
      <3> QED BY <1>3, <2>1, <2>3, <3>1
    <2> QED BY <2>2, <2>3
  <1> QED BY <1>5, <1>6 DEF first, last

-----------------------------------------------------------------------------
(* The forms                                                                *)

LEMMA EmptyIs == Empty \in FormConfigs /\ Empty.key = "" /\ Empty.note = "" /\ Empty.rows.there
  <1>1. <<>> \in Seq(FormRow)
    OBVIOUS
  <1> QED BY <1>1 DEF Empty, FormConfigs, FormSecrets, Notes

\* What a form starts from is a config with rows and a note.
LEMMA StartIs ==
    ASSUME NEW f, NEW scope \in ConfigScopes, f.seen \in WholeViews
    PROVE  /\ Slice(f, scope) \in FormConfigs /\ Whole(Slice(f, scope))
           /\ Start(f, scope) \in FormConfigs /\ Whole(Start(f, scope))
           /\ Start(f, scope).rows = Slice(f, scope).rows /\ Start(f, scope).note = Slice(f, scope).note
           /\ Start(f, scope).key = IF f.editor = "form" /\ Slice(f, scope).key = Missing THEN "" ELSE Slice(f, scope).key
  <1>1. f.seen.base \in FormConfigs /\ f.seen.override \in FormConfigs /\ Whole(f.seen.base)
    BY DEF WholeViews, Views
  <1>2. Slice(f, scope) \in FormConfigs /\ Whole(Slice(f, scope))
    <2>1. CASE scope = "base"
      BY <1>1, <2>1 DEF Slice
    <2>2. CASE scope # "base"
      BY <1>1, <2>2, OverForms DEF Slice
    <2> QED BY <2>1, <2>2
  <1>3. CASE f.editor = "form"
    <2>1. /\ Over(Empty, Slice(f, scope)) \in FormConfigs
          /\ Over(Empty, Slice(f, scope)).key = IF Slice(f, scope).key = Missing THEN Empty.key ELSE Slice(f, scope).key
          /\ Over(Empty, Slice(f, scope)).note = Slice(f, scope).note
          /\ Over(Empty, Slice(f, scope)).rows = Slice(f, scope).rows
      BY <1>2, EmptyIs, OverForms DEF Whole
    <2> QED BY <1>2, <1>3, <2>1, EmptyIs DEF Start, Whole
  <1>4. CASE f.editor # "form"
    BY <1>2, <1>4 DEF Start
  <1> QED BY <1>2, <1>3, <1>4

\* A form is filled with what is shown.
LEMMA SeededHolds ==
    ASSUME NEW scope \in ConfigScopes, NEW editor \in {"form", "frame"}, view \in WholeViews
    PROVE  SeededForm(scope, editor) \in FilledForms /\ FormHolds(SeededForm(scope, editor), scope)
  <1> DEFINE f == SeededForm(scope, editor)
  <1>1. PICK slice : slice = IF scope = "base" THEN view.base ELSE Over(view.base, view.override)
    OBVIOUS
  <1>2. PICK says : says = IF editor = "form" THEN Over(Empty, slice) ELSE slice
    OBVIOUS
  <1>3. PICK from : from = [i \in DOMAIN slice.rows.list |-> i]
    OBVIOUS
  <1>4. f = [open |-> TRUE, editor |-> editor, says |-> says, seen |-> view, touched |-> {}, from |-> from]
    BY <1>1, <1>2, <1>3 DEF SeededForm
  <1>5. f.editor = editor /\ f.says = says /\ f.seen = view /\ f.touched = {} /\ f.from = from
    BY <1>4
  <1> HIDE DEF f
  <1>6. Slice(f, scope) = slice /\ Start(f, scope) = says
    BY <1>1, <1>2, <1>5 DEF Slice, Start
  <1>7. slice \in FormConfigs /\ Whole(slice) /\ says \in FormConfigs /\ Whole(says) /\ says.rows = slice.rows
    BY <1>5, <1>6, StartIs
  <1>8. slice.rows.list \in Seq(FormRow)
    BY <1>7 DEF FormConfigs
  <1>9. from \in Seq(Nat) /\ RowsFrom(slice.rows.list, from, slice.rows.list)
    <2>1. PICK list \in Seq(FormRow) : list = slice.rows.list
      BY <1>8
    <2>2. from = [i \in 1 .. Len(list) |-> i] /\ Len(list) \in Nat
      BY <1>3, <2>1
    <2>3. from \in Seq(Nat) /\ Len(from) = Len(list) /\ \A i \in 1 .. Len(list) : from[i] = i
      BY <2>2
    <2>4. \A i \in 1 .. Len(list) : from[i] <= Len(list) /\ from[i] # 0 /\ list[i].pass = list[from[i]].pass
      BY <2>3
    <2> QED BY <2>1, <2>3, <2>4 DEF RowsFrom
  <1>10. view \in Views
    BY DEF WholeViews
  <1>11. f \in FilledForms
    BY <1>4, <1>7, <1>9, <1>10 DEF FilledForms
  <1>12. "key" \notin f.touched /\ "note" \notin f.touched /\ f.says.rows.there /\ f.seen \in WholeViews
    BY <1>5, <1>7 DEF Whole
  <1>13. f.says.key = Start(f, scope).key /\ f.says.note = Start(f, scope).note /\ f.says.rows = Start(f, scope).rows
    BY <1>5, <1>6
  <1>14. RowsFrom(f.says.rows.list, f.from, Slice(f, scope).rows.list)
    BY <1>5, <1>6, <1>7, <1>9
  <1>15. f \in FilledForms /\ FormHolds(f, scope)
    BY <1>11, <1>12, <1>13, <1>14 DEF FormHolds
  <1> QED BY <1>15 DEF f

\* A form is edited: one of its keys, and the others stay.
LEMMA EditHolds ==
    ASSUME NEW scope \in ConfigScopes, NEW f \in FilledForms, FormHolds(f, scope), NEW field \in ConfigFields,
           NEW config \in FormConfigs, config.rows.there, NEW from \in Seq(Nat),
           IF field = "key" THEN config.key \in {"t", ""} ELSE config.key = f.says.key,
           IF field = "note" THEN config.note \in {"n2", ""} ELSE config.note = f.says.note,
           field # "rows" => config.rows = f.says.rows,
           RowsFrom(config.rows.list, from, Slice(f, scope).rows.list)
    PROVE  LET edited == [f EXCEPT !.says = config, !.touched = @ \cup {field}, !.from = from] IN
           edited \in FilledForms /\ FormHolds(edited, scope)
  <1>1. PICK touched : touched = f.touched \cup {field}
    OBVIOUS
  <1>2. PICK g : g = [f EXCEPT !.says = config, !.touched = @ \cup {field}, !.from = from]
    OBVIOUS
  <1>3. g = [open |-> f.open, editor |-> f.editor, says |-> config, seen |-> f.seen, touched |-> touched, from |-> from]
    BY <1>1, <1>2 DEF FilledForms
  <1>4. touched \in SUBSET ConfigFields
    BY <1>1 DEF FilledForms
  <1>5. g \in FilledForms
    BY <1>3, <1>4 DEF FilledForms
  <1>6. /\ g.editor = f.editor /\ g.says = config /\ g.seen = f.seen /\ g.touched = touched /\ g.from = from
    BY <1>3
  <1>7. Slice(g, scope) = Slice(f, scope) /\ Start(g, scope) = Start(f, scope)
    BY <1>6 DEF Slice, Start
  <1>8. IF "key" \in touched THEN config.key \in {"t", ""} ELSE config.key = Start(f, scope).key
    BY <1>1 DEF FormHolds
  <1>9. IF "note" \in touched THEN config.note \in {"n2", ""} ELSE config.note = Start(f, scope).note
    BY <1>1 DEF FormHolds
  <1>10. "rows" \notin touched => config.rows = Start(f, scope).rows
    BY <1>1 DEF FormHolds
  <1>11. f.seen \in WholeViews
    BY DEF FormHolds
  <1>12. FormHolds(g, scope)
    BY <1>6, <1>7, <1>8, <1>9, <1>10, <1>11 DEF FormHolds
  <1> QED BY <1>2, <1>5, <1>12

LEMMA ShownIs ==
    ASSUME base \in StoredConfigs, override \in StoredConfigs, Whole(base)
    PROVE  ShownConfig \in WholeViews
  <1>1. PICK b : b = RedactSecretConfig(base)
    OBVIOUS
  <1>2. PICK o : o = RedactSecretConfig(override)
    OBVIOUS
  <1>3. b \in FormConfigs /\ b.note = base.note /\ b.rows.there = base.rows.there
    BY <1>1, RedactIs
  <1>4. o \in FormConfigs
    BY <1>2, RedactIs
  <1>5. Whole(b)
    BY <1>3 DEF Whole
  <1>6. ShownConfig = [base |-> b, override |-> o]
    BY <1>1, <1>2 DEF ShownConfig
  <1> QED BY <1>3, <1>4, <1>5, <1>6 DEF WholeViews, Views

LEMMA SparseIs ==
    ASSUME NEW full \in FormConfigs, NEW shown \in WholeViews
    PROVE  SparseAgainst(full, shown.base) \in FormConfigs
  <1>1. PICK note : note = IF full.note = shown.base.note THEN Missing ELSE full.note
    OBVIOUS
  <1>2. PICK rows : rows = IF full.rows = shown.base.rows THEN NoRows ELSE full.rows
    OBVIOUS
  <1>3. SparseAgainst(full, shown.base) = [key |-> full.key, note |-> note, rows |-> rows]
    BY <1>1, <1>2 DEF SparseAgainst
  <1>4. NoRows \in [there : BOOLEAN, list : Seq(FormRow)]
    BY DEF NoRows
  <1>5. full.key \in FormSecrets /\ note \in Notes /\ rows \in [there : BOOLEAN, list : Seq(FormRow)]
    BY <1>1, <1>2, <1>4 DEF FormConfigs, Notes
  <1> QED BY <1>3, <1>5 DEF FormConfigs

LEMMA ClosedIs == NoConfig \in FormConfigs /\ ClosedForm \in FilledForms /\ ClosedForm.seen \in Views
  <1>1. <<>> \in Seq(FormRow) /\ <<>> \in Seq(Nat)
    OBVIOUS
  <1>2. NoConfig \in FormConfigs
    BY <1>1 DEF NoConfig, NoRows, FormConfigs, FormSecrets, Notes
  <1>3. ClosedForm.seen \in Views
    BY <1>2 DEF ClosedForm, Views
  <1>4. {} \in SUBSET ConfigFields
    OBVIOUS
  <1>5. PICK seen \in Views : seen = ClosedForm.seen
    BY <1>3
  <1>6. ClosedForm = [open |-> FALSE, editor |-> "form", says |-> NoConfig, seen |-> seen, touched |-> {}, from |-> <<>>]
    BY <1>5 DEF ClosedForm
  <1>7. ClosedForm \in FilledForms
    BY <1>1, <1>2, <1>4, <1>6 DEF FilledForms
  <1> QED BY <1>2, <1>3, <1>7

-----------------------------------------------------------------------------
(* What a save stores                                                       *)

LEMMA SignatureIs ==
    ASSUME NEW row \in StoredRow \cup FormRow
    PROVE  Signature(row) = [name |-> row.name, pass |-> Masked(row.pass)]
  <1>1. PICK pass : pass = Masked(row.pass)
    OBVIOUS
  <1>2. Signature(row) = [row EXCEPT !.pass = pass]
    BY <1>1 DEF Signature
  <1>3. [row EXCEPT !.pass = pass] = [name |-> row.name, pass |-> pass]
    BY DEF StoredRow, FormRow
  <1> QED BY <1>1, <1>2, <1>3

\* The stored secret a row is given: that of the only row that looks the same, or of the one in its place.
LEMMA CounterpartIs ==
    ASSUME NEW list \in Seq(FormRow), NEW existing \in Seq(StoredRow), NEW i \in 1 .. Len(list)
    PROVE  LET alike == {j \in 1 .. Len(existing) : /\ existing[j].name = list[i].name
                                                    /\ Masked(existing[j].pass) = Masked(list[i].pass)}
           IN /\ \A k \in 1 .. Len(existing) : alike = {k} => Counterpart(list, existing, i) = existing[k].pass
              /\ alike = {} /\ Len(list) # Len(existing) => Counterpart(list, existing, i) = Missing
              /\ alike = {} /\ Len(list) = Len(existing) => Counterpart(list, existing, i) = existing[i].pass
              /\ i \in alike /\ Len(list) = Len(existing) => Counterpart(list, existing, i) = existing[i].pass
  <1> DEFINE n == Len(existing)
             same == {j \in DOMAIN existing : Signature(existing[j]) = Signature(list[i])}
             alike == {j \in 1 .. n : /\ existing[j].name = list[i].name
                                      /\ Masked(existing[j].pass) = Masked(list[i].pass)}
  <1>1. n \in Nat /\ DOMAIN existing = 1 .. n /\ Len(list) \in Nat
    OBVIOUS
  <1>2. same = alike
    <2>1. ASSUME NEW j \in 1 .. n
          PROVE  Signature(existing[j]) = Signature(list[i]) <=>
                    existing[j].name = list[i].name /\ Masked(existing[j].pass) = Masked(list[i].pass)
      <3>1. existing[j] \in StoredRow /\ list[i] \in FormRow
        OBVIOUS
      <3>2. PICK p, q : p = Masked(existing[j].pass) /\ q = Masked(list[i].pass)
        OBVIOUS
      <3>3. Signature(existing[j]) = [name |-> existing[j].name, pass |-> p] /\ Signature(list[i]) = [name |-> list[i].name, pass |-> q]
        BY <3>1, <3>2, SignatureIs
      <3>4. [name |-> existing[j].name, pass |-> p] = [name |-> list[i].name, pass |-> q] <=>
                existing[j].name = list[i].name /\ p = q
        OBVIOUS
      <3> QED BY <3>2, <3>3, <3>4
    <2> QED BY <1>1, <2>1
  <1>3. Counterpart(list, existing, i) =
            IF Cardinality(same) = 1 THEN existing[CHOOSE j \in same : TRUE].pass
            ELSE IF i \in DOMAIN existing /\ (Len(list) = Len(existing) \/ i \in same) THEN existing[i].pass ELSE Missing
    BY DEF Counterpart
  <1>4. IsFiniteSet(alike)
    <2>1. IsFiniteSet(1 .. n) /\ alike \subseteq 1 .. n
      BY <1>1, FS_Interval
    <2> HIDE DEF alike
    <2> QED BY <2>1, FS_Subset
  <1> HIDE DEF same, alike, n
  <1>5. alike = {} => Cardinality(alike) # 1
    BY FS_EmptySet
  <1>6. ASSUME NEW k, alike = {k} PROVE Cardinality(alike) = 1 /\ (CHOOSE j \in alike : TRUE) = k
    BY <1>6, FS_Singleton
  <1>7. i \in alike /\ Cardinality(alike) = 1 => alike = {i}
    <2>1. Cardinality(alike) = 1 => \E k : alike = {k}
      BY <1>4, FS_Singleton
    <2> QED BY <2>1
  <1>8. \A k \in 1 .. n : alike = {k} => Counterpart(list, existing, i) = existing[k].pass
    BY <1>2, <1>3, <1>6
  <1>9. alike = {} /\ Len(list) # Len(existing) => Counterpart(list, existing, i) = Missing
    BY <1>2, <1>3, <1>5
  <1>10. Len(list) = Len(existing) => i \in DOMAIN existing
    BY <1>1 DEF n
  <1>11. alike = {} /\ Len(list) = Len(existing) => Counterpart(list, existing, i) = existing[i].pass
    BY <1>2, <1>3, <1>5, <1>10
  <1>12. i \in alike /\ Len(list) = Len(existing) => Counterpart(list, existing, i) = existing[i].pass
    <2>1. CASE Cardinality(alike) = 1
      BY <1>2, <1>3, <1>6, <1>7, <2>1
    <2>2. CASE Cardinality(alike) # 1
      BY <1>2, <1>3, <1>10, <2>2
    <2> QED BY <2>1, <2>2
  <1> QED BY <1>8, <1>9, <1>11, <1>12 DEF alike, n

\* Rows that were left as they were shown have the secrets they had.
LEMMA UntouchedRows ==
    ASSUME NEW existing \in Seq(StoredRow), NEW list \in Seq(FormRow), NEW result \in Seq(StoredRow),
           Len(list) = Len(existing), Len(result) = Len(list),
           \A i \in 1 .. Len(existing) : list[i].name = existing[i].name /\ list[i].pass = Masked(existing[i].pass),
           \A i \in 1 .. Len(list) : /\ result[i].name = list[i].name
                                     /\ result[i].pass = RestoredSecret(list[i].pass, Counterpart(list, existing, i))
    PROVE  \A i \in 1 .. Len(existing) : /\ result[i].name = existing[i].name
                                         /\ IsMeaningful(result[i].pass) <=> IsMeaningful(existing[i].pass)
  <1> SUFFICES ASSUME NEW i \in 1 .. Len(existing)
               PROVE  /\ result[i].name = existing[i].name
                      /\ IsMeaningful(result[i].pass) <=> IsMeaningful(existing[i].pass)
    OBVIOUS
  <1>1. existing[i].pass \in StoredPasses
    <2>1. existing[i] \in StoredRow
      OBVIOUS
    <2> QED BY <2>1 DEF StoredRow
  <1>2. list[i].name = existing[i].name /\ list[i].pass = Masked(existing[i].pass)
    OBVIOUS
  <1>3. Masked(list[i].pass) = Masked(existing[i].pass)
    BY <1>1, <1>2 DEF Masked, IsMeaningful, Missing
  <1>4. i \in 1 .. Len(list)
    OBVIOUS
  <1>5. i \in {j \in 1 .. Len(existing) : existing[j].name = list[i].name /\ Masked(existing[j].pass) = Masked(list[i].pass)}
    BY <1>2, <1>3
  <1>6. Counterpart(list, existing, i) = existing[i].pass
    BY <1>4, <1>5, CounterpartIs
  <1>7. result[i].name = existing[i].name /\ result[i].pass = RestoredSecret(Masked(existing[i].pass), existing[i].pass)
    BY <1>2, <1>4, <1>6
  <1> QED BY <1>1, <1>7 DEF StoredPasses, RestoredSecret, Masked, IsMeaningful, Missing

LEMMA LooksSame ==
    ASSUME NEW one \in StoredConfigs, NEW other \in StoredConfigs, Len(one.rows.list) = Len(other.rows.list),
           \A i \in 1 .. Len(other.rows.list) :
              /\ one.rows.list[i].name = other.rows.list[i].name
              /\ IsMeaningful(one.rows.list[i].pass) <=> IsMeaningful(other.rows.list[i].pass)
    PROVE  Looks(one) = Looks(other)
  <1>1. PICK a \in Seq(StoredRow) : a = one.rows.list
    BY DEF StoredConfigs
  <1>2. PICK b \in Seq(StoredRow) : b = other.rows.list
    BY DEF StoredConfigs
  <1>3. DOMAIN a = 1 .. Len(a) /\ DOMAIN b = 1 .. Len(a)
    BY <1>1, <1>2
  <1>4. ASSUME NEW i \in DOMAIN a PROVE <<a[i].name, IsMeaningful(a[i].pass)>> = <<b[i].name, IsMeaningful(b[i].pass)>>
    <2>1. a[i].name = b[i].name /\ (IsMeaningful(a[i].pass) <=> IsMeaningful(b[i].pass))
      BY <1>1, <1>2, <1>3
    <2>2. IsMeaningful(a[i].pass) = IsMeaningful(b[i].pass)
      BY <2>1 DEF IsMeaningful
    <2> QED BY <2>1, <2>2
  <1>5. [i \in DOMAIN a |-> <<a[i].name, IsMeaningful(a[i].pass)>>] = [i \in DOMAIN b |-> <<b[i].name, IsMeaningful(b[i].pass)>>]
    BY <1>3, <1>4
  <1> QED BY <1>1, <1>2, <1>5 DEF Looks

LEMMA CountsTo ==
    ASSUME NEW n \in Nat
    PROVE  IsFiniteSet(1 .. n) /\ Cardinality(1 .. n) = n
  <1>1. IsFiniteSet(1 .. n) /\ Cardinality(1 .. n) = IF 1 > n THEN 0 ELSE n - 1 + 1
    BY FS_Interval
  <1>2. CASE 1 > n
    BY <1>1, <1>2
  <1>3. CASE ~(1 > n)
    BY <1>1, <1>3
  <1> QED BY <1>2, <1>3

\* As many names as rows: no two rows have one.
LEMMA NamesDiffer ==
    ASSUME NEW existing \in Seq(StoredRow),
           Cardinality({existing[j].name : j \in DOMAIN existing}) = Len(existing)
    PROVE  \A j, k \in 1 .. Len(existing) : existing[j].name = existing[k].name => j = k
  <1> DEFINE n == Len(existing)
             names == {existing[j].name : j \in DOMAIN existing}
             name == [j \in 1 .. n |-> existing[j].name]
  <1>1. n \in Nat /\ DOMAIN existing = 1 .. n
    OBVIOUS
  <1>2. IsFiniteSet(1 .. n) /\ Cardinality(1 .. n) = n
    BY <1>1, CountsTo
  <1>3. name \in Surjection(1 .. n, names)
    BY <1>1 DEF Surjection
  <1>4. Cardinality(1 .. n) = Cardinality(names)
    BY <1>2
  <1> HIDE DEF names
  <1>5. name \in Injection(1 .. n, names)
    BY <1>2, <1>3, <1>4, FS_SurjSameCardinalityImpliesInj
  <1>6. \A j, k \in 1 .. n : name[j] = name[k] => j = k
    BY <1>5 DEF Injection, IsInjective
  <1> QED BY <1>6

\* Rows are stored as they were meant.
LEMMA RowsAreMeant ==
    ASSUME NEW f \in FilledForms, NEW existing \in Seq(StoredRow), NEW old \in Seq(FormRow), NEW result \in Seq(StoredRow),
           Len(old) = Len(existing), \A j \in 1 .. Len(existing) : old[j].pass = Masked(existing[j].pass),
           RowsFrom(f.says.rows.list, f.from, old), Len(result) = Len(f.says.rows.list),
           \A i \in 1 .. Len(result) :
              /\ result[i].name = f.says.rows.list[i].name
              /\ result[i].pass = RestoredSecret(f.says.rows.list[i].pass, Counterpart(f.says.rows.list, existing, i))
    PROVE  RowsAsMeant(f, existing, result)
  <1>1. PICK list \in Seq(FormRow) : list = f.says.rows.list
    BY DEF FilledForms, FormConfigs
  <1>2. PICK from \in Seq(Nat) : from = f.from
    BY DEF FilledForms
  <1>3. PICK n \in Nat : n = Len(existing)
    OBVIOUS
  <1>4. PICK m \in Nat : m = Len(list)
    OBVIOUS
  <1>5. /\ DOMAIN existing = 1 .. n /\ DOMAIN list = 1 .. m /\ DOMAIN result = 1 .. m /\ Len(from) = m
    <2>1. Len(from) = Len(list)
      BY <1>1, <1>2 DEF RowsFrom
    <2> QED BY <1>1, <1>3, <1>4, <2>1
  <1>6. \A i \in 1 .. m : list[i].pass \in {"", "t"} \/ (from[i] # 0 /\ list[i].pass = old[from[i]].pass)
    BY <1>1, <1>2, <1>4 DEF RowsFrom
  <1>10. ASSUME NEW i \in 1 .. m, from[i] # 0 PROVE from[i] \in 1 .. n
    <2>1. \A j \in 1 .. m : from[j] <= Len(old)
      BY <1>1, <1>2, <1>4 DEF RowsFrom
    <2>2. \A j \in 1 .. m : from[j] \in Nat
      BY <1>5
    <2>3. PICK k \in Nat : k = from[i]
      BY <2>2
    <2>4. k <= n /\ k # 0
      BY <1>3, <1>10, <2>1, <2>3
    <2> QED BY <2>3, <2>4
  <1>7. \A i \in 1 .. m : /\ result[i].name = list[i].name
                         /\ result[i].pass = RestoredSecret(list[i].pass, Counterpart(list, existing, i))
    BY <1>1, <1>4
  <1>8. [i \in DOMAIN result |-> result[i].name] = [i \in DOMAIN list |-> list[i].name]
    BY <1>5, <1>7
  <1>9. ASSUME Calm(list, from, existing), NEW i \in 1 .. m
        PROVE  /\ list[i].pass = "t" => result[i].pass = "t"
               /\ list[i].pass = "***" => result[i].pass = existing[from[i]].pass
               /\ list[i].pass = "" /\ Len(list) # Len(existing) =>
                     result[i].pass \in {"", Missing} \cup (IF from[i] = 0 THEN {} ELSE {existing[from[i]].pass})
    <2> DEFINE names == {existing[j].name : j \in DOMAIN existing}
               renamed == {j \in DOMAIN list : from[j] # 0 /\ list[j].name # existing[from[j]].name}
               alike == {j \in 1 .. n : /\ existing[j].name = list[i].name
                                        /\ Masked(existing[j].pass) = Masked(list[i].pass)}
    <2>1. /\ Cardinality(names) = Len(existing)
          /\ i \in renamed \/ from[i] = 0 => list[i].name \notin names
          /\ renamed = {} \/ (Len(list) = Len(existing) /\ from[i] = i)
      BY <1>5, <1>9 DEF Calm
    <2>2. \A j, k \in 1 .. n : existing[j].name = existing[k].name => j = k
      BY <1>3, <2>1, NamesDiffer
    <2>3. /\ \A k \in 1 .. n : alike = {k} => Counterpart(list, existing, i) = existing[k].pass
          /\ alike = {} /\ Len(list) # Len(existing) => Counterpart(list, existing, i) = Missing
          /\ alike = {} /\ Len(list) = Len(existing) => Counterpart(list, existing, i) = existing[i].pass
      BY <1>3, <1>4, CounterpartIs
    <2>4. list[i].name \notin names => alike = {}
      <3>1. \A j \in 1 .. n : existing[j].name \in names
        BY <1>5
      <3> QED BY <3>1
    <2>5. from[i] # 0 => from[i] \in 1 .. n
      BY <1>10
    <2>6. ASSUME i \notin renamed, from[i] # 0
          PROVE  list[i].name = existing[from[i]].name /\ \A j \in alike : j = from[i]
      <3>1. list[i].name = existing[from[i]].name
        BY <1>5, <2>6
      <3> QED BY <2>2, <2>5, <2>6, <3>1
    <2>7. from[i] # 0 => existing[from[i]].pass \in StoredPasses
      <3>1. \A j \in 1 .. n : existing[j] \in StoredRow
        BY <1>5
      <3>2. \A j \in 1 .. n : existing[j].pass \in StoredPasses
        BY <3>1 DEF StoredRow
      <3> QED BY <2>5, <3>2
    <2>8. i \in renamed => from[i] # 0
      OBVIOUS
    <2> HIDE DEF names, renamed
    <2>9. ASSUME list[i].pass = "***" PROVE result[i].pass = existing[from[i]].pass
      <3>1. from[i] # 0 /\ old[from[i]].pass = "***"
        BY <1>6, <2>9
      <3>2. Masked(existing[from[i]].pass) = "***"
        BY <1>3, <2>5, <3>1
      <3>3. IsMeaningful(existing[from[i]].pass)
        <4>1. PICK p \in StoredPasses : p = existing[from[i]].pass
          BY <2>7, <3>1
        <4>2. Masked(p) = "***"
          BY <3>2, <4>1
        <4>3. p # "***"
          BY DEF StoredPasses, Missing
        <4>4. IsMeaningful(p)
          BY <4>2, <4>3 DEF Masked
        <4> QED BY <4>1, <4>4
      <3>4. Masked(list[i].pass) = "***"
        BY <2>9 DEF Masked
      <3>5. Counterpart(list, existing, i) = existing[from[i]].pass
        <4>1. CASE i \in renamed
          <5>1. alike = {} /\ Len(list) = Len(existing) /\ from[i] = i
            BY <2>1, <2>4, <4>1
          <5> QED BY <2>3, <5>1
        <4>2. CASE i \notin renamed
          <5>1. from[i] \in alike
            BY <2>5, <2>6, <3>1, <3>2, <3>4, <4>2
          <5>2. \A j \in alike : j = from[i]
            BY <2>6, <3>1, <4>2
          <5>3. alike = {from[i]}
            BY <5>1, <5>2
          <5> QED BY <2>3, <2>5, <3>1, <5>3
        <4> QED BY <4>1, <4>2
      <3>6. result[i].pass = RestoredSecret("***", existing[from[i]].pass)
        BY <1>7, <2>9, <3>5
      <3> QED BY <3>3, <3>6 DEF RestoredSecret
    <2>10. ASSUME list[i].pass = "", Len(list) # Len(existing)
           PROVE  result[i].pass \in {"", Missing} \cup (IF from[i] = 0 THEN {} ELSE {existing[from[i]].pass})
      <3>1. renamed = {}
        BY <2>1, <2>10
      <3>2. Counterpart(list, existing, i) = Missing \/ (from[i] # 0 /\ Counterpart(list, existing, i) = existing[from[i]].pass)
        <4>1. CASE from[i] = 0
          <5>1. alike = {}
            BY <2>1, <2>4, <4>1
          <5> QED BY <2>3, <2>10, <5>1
        <4>2. CASE from[i] # 0
          <5>1. \A j \in alike : j = from[i]
            BY <2>6, <3>1, <4>2
          <5>2. alike = {} \/ alike = {from[i]}
            BY <5>1
          <5> QED BY <2>3, <2>5, <2>10, <4>2, <5>2
        <4> QED BY <4>1, <4>2
      <3>3. result[i].pass = RestoredSecret("", Counterpart(list, existing, i))
        BY <1>7, <2>10
      <3>4. result[i].pass = Missing \/ result[i].pass = Counterpart(list, existing, i)
        BY <3>3 DEF RestoredSecret
      <3> QED BY <3>2, <3>4
    <2>11. list[i].pass = "t" => result[i].pass = "t"
      BY <1>7 DEF RestoredSecret
    <2> QED BY <2>9, <2>10, <2>11
  <1> QED BY <1>1, <1>2, <1>5, <1>8, <1>9 DEF RowsAsMeant

\* A save of a form that is true to the base stores what was meant.
LEMMA BaseIsMeant ==
    ASSUME base \in StoredConfigs, override \in StoredConfigs, Whole(base),
           NEW s \in SentSaves, s.scope = "base", FormHolds(s.form, "base"), s.form.seen = ShownConfig
    PROVE  AsMeant(s, base, Over(base, RestoreSecretConfig(s.form.says, base)))
  <1>1. PICK f \in FilledForms : f = s.form
    BY DEF SentSaves
  <1>2. PICK says \in FormConfigs : says = f.says
    BY DEF FilledForms
  <1>3. PICK shown : shown = RedactSecretConfig(base)
    OBVIOUS
  <1>4. /\ shown \in FormConfigs /\ shown.note = base.note /\ shown.rows.there = base.rows.there
        /\ shown.rows.list \in Seq(FormRow) /\ Len(shown.rows.list) = Len(base.rows.list)
    BY <1>3, RedactIs
  <1>5. \A i \in 1 .. Len(base.rows.list) : /\ shown.rows.list[i].name = base.rows.list[i].name
                                           /\ shown.rows.list[i].pass = Masked(base.rows.list[i].pass)
    BY <1>3, RedactIs
  <1>6. /\ Slice(f, "base") = shown /\ Start(f, "base").rows = shown.rows /\ Start(f, "base").note = shown.note
    <2>1. f.seen \in WholeViews /\ "base" \in ConfigScopes
      BY <1>1 DEF FormHolds, ConfigScopes
    <2>2. Slice(f, "base") = shown
      BY <1>1, <1>3 DEF Slice, ShownConfig
    <2> QED BY <2>1, <2>2, StartIs
  <1>7. PICK back : back = RestoreSecretConfig(says, base)
    OBVIOUS
  <1>8. /\ back \in StoredConfigs /\ back.key = RestoredSecret(says.key, base.key) /\ back.note = says.note
        /\ back.rows.there = says.rows.there /\ back.rows.list \in Seq(StoredRow) /\ Len(back.rows.list) = Len(says.rows.list)
        /\ \A i \in 1 .. Len(says.rows.list) :
              /\ back.rows.list[i].name = says.rows.list[i].name
              /\ back.rows.list[i].pass = RestoredSecret(says.rows.list[i].pass, Counterpart(says.rows.list, base.rows.list, i))
    BY <1>7, RestoreIs
  <1>9. PICK after : after = Over(base, back)
    OBVIOUS
  <1>10. /\ after \in StoredConfigs /\ after.key = IF back.key = Missing THEN base.key ELSE back.key
         /\ after.note = IF back.note = Missing THEN base.note ELSE back.note
         /\ after.rows = back.rows
    <2>1. back.rows.there
      BY <1>1, <1>2, <1>8 DEF FormHolds
    <2> QED BY <1>8, <1>9, <2>1, OverStored
  <1>11. after.key = IF says.key = "t" THEN "t" ELSE base.key
    <2>1. says.key \in FormSecrets /\ base.key \in StoredKeys
      BY DEF FormConfigs, StoredConfigs
    <2> QED BY <1>8, <1>10, <2>1 DEF FormSecrets, StoredKeys, RestoredSecret, IsMeaningful, Missing
  <1>12. after.note = says.note
    <2>1. says.note # Missing
      BY <1>1, <1>2, <1>4, <1>6 DEF FormHolds, Whole, Missing
    <2> QED BY <1>8, <1>10, <2>1
  <1>13. "note" \notin f.touched => after.note = base.note
    BY <1>1, <1>2, <1>4, <1>6, <1>12 DEF FormHolds
  <1>14. "rows" \notin f.touched => Looks(after) = Looks(base)
    <2> SUFFICES ASSUME "rows" \notin f.touched PROVE Looks(after) = Looks(base)
      OBVIOUS
    <2>1. says.rows = shown.rows
      BY <1>1, <1>2, <1>6 DEF FormHolds
    <2>2. base.rows.list \in Seq(StoredRow)
      BY DEF StoredConfigs
    <2>3. PICK list \in Seq(FormRow) : list = says.rows.list
      BY <1>4, <2>1
    <2>4. PICK existing \in Seq(StoredRow) : existing = base.rows.list
      BY <2>2
    <2>5. PICK result \in Seq(StoredRow) : result = after.rows.list
      BY <1>8, <1>10
    <2>6. /\ Len(list) = Len(existing) /\ Len(result) = Len(list)
          /\ \A i \in 1 .. Len(existing) : list[i].name = existing[i].name /\ list[i].pass = Masked(existing[i].pass)
          /\ \A i \in 1 .. Len(list) : /\ result[i].name = list[i].name
                                        /\ result[i].pass = RestoredSecret(list[i].pass, Counterpart(list, existing, i))
      BY <1>4, <1>5, <1>8, <1>10, <2>1, <2>3, <2>4, <2>5
    <2>7. \A i \in 1 .. Len(existing) : /\ result[i].name = existing[i].name
                                        /\ IsMeaningful(result[i].pass) <=> IsMeaningful(existing[i].pass)
      BY <2>6, UntouchedRows
    <2>8. /\ Len(after.rows.list) = Len(base.rows.list)
          /\ \A i \in 1 .. Len(base.rows.list) :
                /\ after.rows.list[i].name = base.rows.list[i].name
                /\ IsMeaningful(after.rows.list[i].pass) <=> IsMeaningful(base.rows.list[i].pass)
      BY <2>4, <2>5, <2>6, <2>7
    <2> QED BY <1>10, <2>8, LooksSame
  <1>15. RowsAsMeant(f, base.rows.list, after.rows.list)
    <2>1. base.rows.list \in Seq(StoredRow)
      BY DEF StoredConfigs
    <2>2. RowsFrom(f.says.rows.list, f.from, shown.rows.list)
      BY <1>1, <1>6 DEF FormHolds
    <2>3. after.rows.list \in Seq(StoredRow) /\ Len(after.rows.list) = Len(f.says.rows.list)
      BY <1>2, <1>8, <1>10
    <2>4. \A i \in 1 .. Len(after.rows.list) :
             /\ after.rows.list[i].name = f.says.rows.list[i].name
             /\ after.rows.list[i].pass = RestoredSecret(f.says.rows.list[i].pass, Counterpart(f.says.rows.list, base.rows.list, i))
      BY <1>2, <1>8, <1>10
    <2>5. shown.rows.list \in Seq(FormRow) /\ Len(shown.rows.list) = Len(base.rows.list)
          /\ \A j \in 1 .. Len(base.rows.list) : shown.rows.list[j].pass = Masked(base.rows.list[j].pass)
      BY <1>4, <1>5
    <2> QED BY <2>1, <2>2, <2>3, <2>4, <2>5, RowsAreMeant
  <1>16. AsMeant(s, base, after)
    BY <1>1, <1>2, <1>11, <1>12, <1>13, <1>14, <1>15 DEF AsMeant
  <1> QED BY <1>1, <1>2, <1>7, <1>9, <1>16

\* Secrets that look the same are both there, or neither is.
LEMMA MaskedAlike ==
    ASSUME NEW p \in StoredPasses, NEW q \in StoredPasses, Masked(p) = Masked(q)
    PROVE  IsMeaningful(p) <=> IsMeaningful(q)
  BY DEF StoredPasses, Masked, IsMeaningful, Missing

\* So does a save of a form that is true to the base and to the override: it stores what differs.
LEMMA OverrideIsMeant ==
    ASSUME base \in StoredConfigs, override \in StoredConfigs, Whole(base),
           NEW s \in SentSaves, s.scope = "override", FormHolds(s.form, "override"), s.form.seen = ShownConfig
    PROVE  AsMeant(s, override, RestoreSecretConfig(SparseAgainst(s.form.says, ShownConfig.base), override))
  <1>1. PICK f \in FilledForms : f = s.form
    BY DEF SentSaves
  <1>2. PICK says \in FormConfigs : says = f.says
    BY DEF FilledForms
  <1>3. PICK b : b = RedactSecretConfig(base)
    OBVIOUS
  <1>4. PICK o : o = RedactSecretConfig(override)
    OBVIOUS
  <1>5. /\ b \in FormConfigs /\ b.note = base.note /\ b.rows.there = base.rows.there
        /\ b.rows.list \in Seq(FormRow) /\ Len(b.rows.list) = Len(base.rows.list)
        /\ \A i \in 1 .. Len(base.rows.list) : /\ b.rows.list[i].name = base.rows.list[i].name
                                               /\ b.rows.list[i].pass = Masked(base.rows.list[i].pass)
    BY <1>3, RedactIs
  <1>6. /\ o \in FormConfigs /\ o.key = Masked(override.key) /\ o.note = override.note /\ o.rows.there = override.rows.there
        /\ o.rows.list \in Seq(FormRow) /\ Len(o.rows.list) = Len(override.rows.list)
        /\ \A i \in 1 .. Len(override.rows.list) : /\ o.rows.list[i].name = override.rows.list[i].name
                                                   /\ o.rows.list[i].pass = Masked(override.rows.list[i].pass)
    BY <1>4, RedactIs
  <1>7. ShownConfig \in WholeViews /\ ShownConfig.base = b /\ ShownConfig.override = o /\ Whole(b)
    <2>1. ShownConfig = [base |-> b, override |-> o]
      BY <1>3, <1>4 DEF ShownConfig
    <2>2. Whole(b)
      BY <1>5 DEF Whole
    <2> QED BY <2>1, <2>2, ShownIs
  <1>8. PICK slice : slice = Over(b, o)
    OBVIOUS
  <1>9. /\ slice \in FormConfigs /\ Whole(slice) /\ slice.key = IF o.key = Missing THEN b.key ELSE o.key
        /\ slice.note = IF o.note = Missing THEN b.note ELSE o.note
        /\ slice.rows = IF o.rows.there THEN o.rows ELSE b.rows
    BY <1>5, <1>6, <1>7, <1>8, OverForms
  <1>10. /\ Slice(f, "override") = slice /\ Start(f, "override").rows = slice.rows /\ Start(f, "override").note = slice.note
         /\ Start(f, "override").key = IF f.editor = "form" /\ slice.key = Missing THEN "" ELSE slice.key
    <2>1. f.seen = ShownConfig /\ "override" \in ConfigScopes
      BY <1>1 DEF ConfigScopes
    <2>2. Slice(f, "override") = slice
      BY <1>7, <1>8, <2>1 DEF Slice
    <2>3. f.seen \in WholeViews
      BY <1>7, <2>1
    <2> QED BY <2>1, <2>2, <2>3, StartIs
  <1>11. PICK config \in FormConfigs : config = SparseAgainst(says, b)
    BY <1>7, SparseIs
  <1>12. /\ config.key = says.key /\ config.note = IF says.note = b.note THEN Missing ELSE says.note
         /\ config.rows = IF says.rows = b.rows THEN NoRows ELSE says.rows
    BY <1>11 DEF SparseAgainst
  <1>13. PICK after : after = RestoreSecretConfig(config, override)
    OBVIOUS
  <1>14. /\ after \in StoredConfigs /\ after.key = RestoredSecret(config.key, override.key) /\ after.note = config.note
         /\ after.rows.there = config.rows.there /\ after.rows.list \in Seq(StoredRow)
         /\ Len(after.rows.list) = Len(config.rows.list)
         /\ \A i \in 1 .. Len(config.rows.list) :
               /\ after.rows.list[i].name = config.rows.list[i].name
               /\ after.rows.list[i].pass = RestoredSecret(config.rows.list[i].pass,
                                                          Counterpart(config.rows.list, override.rows.list, i))
    BY <1>13, RestoreIs
  <1>15. after.key = IF says.key = "t" THEN "t" ELSE override.key
    <2>1. says.key \in FormSecrets /\ override.key \in StoredKeys
      BY DEF FormConfigs, StoredConfigs
    <2>2. says.key = Missing => override.key = Missing
      <3> SUFFICES ASSUME says.key = Missing PROVE override.key = Missing
        OBVIOUS
      <3>1. Start(f, "override").key = Missing
        BY <1>1, <1>2 DEF FormHolds, Missing
      <3>2. slice.key = Missing
        BY <1>10, <3>1 DEF Missing
      <3>3. Masked(override.key) = Missing
        BY <1>6, <1>9, <3>2
      <3> QED BY <3>3 DEF Masked, Missing
    <2> QED BY <1>12, <1>14, <2>1, <2>2 DEF FormSecrets, StoredKeys, RestoredSecret, IsMeaningful, Missing
  <1>16. says.note # Missing
    <2>1. says.note \in {"n2", ""} \/ says.note = slice.note
      BY <1>1, <1>2, <1>10 DEF FormHolds
    <2> QED BY <1>9, <2>1 DEF Whole, Missing
  <1>17. Over(base, after).note = says.note
    <2>1. Over(base, after).note = IF after.note = Missing THEN base.note ELSE after.note
      BY <1>14, OverStored
    <2> QED BY <1>5, <1>12, <1>14, <1>16, <2>1
  <1>18. "note" \notin f.touched => after.note = override.note \/ (after.note = Missing /\ override.note = base.note)
    <2> SUFFICES ASSUME "note" \notin f.touched
                 PROVE  after.note = override.note \/ (after.note = Missing /\ override.note = base.note)
      OBVIOUS
    <2>1. says.note = slice.note
      BY <1>1, <1>2, <1>10 DEF FormHolds
    <2> QED BY <1>5, <1>6, <1>9, <1>12, <1>14, <2>1
  <1>19. base.rows.list \in Seq(StoredRow) /\ override.rows.list \in Seq(StoredRow)
    BY DEF StoredConfigs
  <1>20. "rows" \notin f.touched =>
            \/ ~after.rows.there /\ (override.rows.there => Looks(override) = Looks(base))
            \/ Looks(after) = Looks(override)
    <2> SUFFICES ASSUME "rows" \notin f.touched
                 PROVE  \/ ~after.rows.there /\ (override.rows.there => Looks(override) = Looks(base))
                        \/ Looks(after) = Looks(override)
      OBVIOUS
    <2>1. says.rows = IF o.rows.there THEN o.rows ELSE b.rows
      BY <1>1, <1>2, <1>9, <1>10 DEF FormHolds
    <2>2. CASE says.rows = b.rows
      <3>1. ~after.rows.there
        BY <1>12, <1>14, <2>2 DEF NoRows
      <3>2. ASSUME override.rows.there PROVE Looks(override) = Looks(base)
        <4>1. o.rows = b.rows
          BY <1>6, <2>1, <2>2, <3>2
        <4>2. Len(override.rows.list) = Len(base.rows.list)
          BY <1>5, <1>6, <4>1
        <4>3. ASSUME NEW i \in 1 .. Len(base.rows.list)
              PROVE  /\ override.rows.list[i].name = base.rows.list[i].name
                     /\ IsMeaningful(override.rows.list[i].pass) <=> IsMeaningful(base.rows.list[i].pass)
          <5>1. /\ override.rows.list[i].name = base.rows.list[i].name
                /\ Masked(override.rows.list[i].pass) = Masked(base.rows.list[i].pass)
            BY <1>5, <1>6, <4>1, <4>2
          <5>2. override.rows.list[i] \in StoredRow /\ base.rows.list[i] \in StoredRow
            BY <1>19, <4>2
          <5>3. override.rows.list[i].pass \in StoredPasses /\ base.rows.list[i].pass \in StoredPasses
            BY <5>2 DEF StoredRow
          <5> QED BY <5>1, <5>3, MaskedAlike
        <4> QED BY <4>2, <4>3, LooksSame
      <3> QED BY <3>1, <3>2
    <2>3. CASE says.rows # b.rows
      <3>1. says.rows = o.rows /\ config.rows = o.rows
        BY <1>12, <2>1, <2>3
      <3>2. PICK list \in Seq(FormRow) : list = o.rows.list
        BY <1>6
      <3>3. PICK existing \in Seq(StoredRow) : existing = override.rows.list
        BY <1>19
      <3>4. PICK result \in Seq(StoredRow) : result = after.rows.list
        BY <1>14
      <3>5. /\ Len(list) = Len(existing) /\ Len(result) = Len(list)
            /\ \A i \in 1 .. Len(existing) : list[i].name = existing[i].name /\ list[i].pass = Masked(existing[i].pass)
            /\ \A i \in 1 .. Len(list) : /\ result[i].name = list[i].name
                                          /\ result[i].pass = RestoredSecret(list[i].pass, Counterpart(list, existing, i))
        BY <1>6, <1>14, <3>1, <3>2, <3>3, <3>4
      <3>6. \A i \in 1 .. Len(existing) : /\ result[i].name = existing[i].name
                                          /\ IsMeaningful(result[i].pass) <=> IsMeaningful(existing[i].pass)
        BY <3>5, UntouchedRows
      <3>7. /\ Len(after.rows.list) = Len(override.rows.list)
            /\ \A i \in 1 .. Len(override.rows.list) :
                  /\ after.rows.list[i].name = override.rows.list[i].name
                  /\ IsMeaningful(after.rows.list[i].pass) <=> IsMeaningful(override.rows.list[i].pass)
        BY <3>3, <3>4, <3>5, <3>6
      <3> QED BY <1>14, <3>7, LooksSame
    <2> QED BY <2>2, <2>3
  <1>21. override.rows.there /\ after.rows.there => RowsAsMeant(f, override.rows.list, after.rows.list)
    <2> SUFFICES ASSUME override.rows.there, after.rows.there PROVE RowsAsMeant(f, override.rows.list, after.rows.list)
      OBVIOUS
    <2>1. config.rows = f.says.rows
      <3>1. config.rows.there
        BY <1>14
      <3>2. config.rows # NoRows
        BY <3>1 DEF NoRows
      <3> QED BY <1>2, <1>12, <3>2
    <2>2. RowsFrom(f.says.rows.list, f.from, o.rows.list)
      BY <1>1, <1>6, <1>9, <1>10 DEF FormHolds
    <2>3. /\ after.rows.list \in Seq(StoredRow) /\ Len(after.rows.list) = Len(f.says.rows.list)
          /\ \A i \in 1 .. Len(after.rows.list) :
                /\ after.rows.list[i].name = f.says.rows.list[i].name
                /\ after.rows.list[i].pass = RestoredSecret(f.says.rows.list[i].pass,
                                                           Counterpart(f.says.rows.list, override.rows.list, i))
      BY <1>14, <2>1
    <2>4. /\ o.rows.list \in Seq(FormRow) /\ Len(o.rows.list) = Len(override.rows.list)
          /\ \A j \in 1 .. Len(override.rows.list) : o.rows.list[j].pass = Masked(override.rows.list[j].pass)
      BY <1>6
    <2> QED BY <1>19, <2>2, <2>3, <2>4, RowsAreMeant
  <1>22. AsMeant(s, override, after)
    BY <1>1, <1>2, <1>15, <1>17, <1>18, <1>20, <1>21 DEF AsMeant
  <1> QED BY <1>1, <1>2, <1>7, <1>11, <1>13, <1>22

-----------------------------------------------------------------------------
(* The steps of the page                                                    *)

\* One form changes, and holds.
LEMMA FormsStay ==
    ASSUME SettingsInv, NEW scope \in ConfigScopes, NEW f \in FilledForms, f.open => FormHolds(f, scope),
           configForms' = [configForms EXCEPT ![scope] = f]
    PROVE  /\ configForms' \in [ConfigScopes -> FilledForms]
           /\ \A s \in ConfigScopes : configForms'[s].open => FormHolds(configForms'[s], s)
  BY DEF SettingsInv

LEMMA FormsClose ==
    ASSUME SettingsInv, NEW chosen \in SUBSET ConfigScopes,
           configForms' = [s \in ConfigScopes |-> IF s \in chosen THEN ClosedForm ELSE configForms[s]]
    PROVE  /\ configForms' \in [ConfigScopes -> FilledForms]
           /\ \A s \in ConfigScopes : configForms'[s].open => FormHolds(configForms'[s], s)
  <1>1. ClosedForm \in FilledForms /\ ~ClosedForm.open
    BY ClosedIs DEF ClosedForm
  <1> QED BY <1>1 DEF SettingsInv

LEMMA OpensConfigStep ==
    ASSUME SettingsInv, NEW scope \in ConfigScopes, NEW editor \in {"form", "frame"}, OpensConfig(scope, editor)
    PROVE  SettingsInv'
  <1>1. PICK f : f = SeededForm(scope, editor)
    OBVIOUS
  <1>2. f \in FilledForms /\ FormHolds(f, scope)
    BY <1>1, SeededHolds DEF SettingsInv
  <1>3. configForms' = [configForms EXCEPT ![scope] = f]
    BY <1>1 DEF OpensConfig
  <1>4. /\ configForms' \in [ConfigScopes -> FilledForms]
        /\ \A s \in ConfigScopes : configForms'[s].open => FormHolds(configForms'[s], s)
    BY <1>2, <1>3, FormsStay
  <1>5. UNCHANGED <<base, override, meant, view, viewRead, configSaves, moves>>
    BY DEF OpensConfig, ServerRests
  <1> QED BY <1>4, <1>5 DEF SettingsInv

LEMMA ClosesStep ==
    ASSUME SettingsInv, NEW scope \in ConfigScopes, Closes(scope)
    PROVE  SettingsInv'
  <1>1. PICK chosen \in SUBSET ConfigScopes : chosen = {s \in ConfigScopes : scope \in {"base", s}}
    OBVIOUS
  <1>2. configForms' = [s \in ConfigScopes |-> IF s \in chosen THEN ClosedForm ELSE configForms[s]]
    BY <1>1 DEF Closes
  <1>3. /\ configForms' \in [ConfigScopes -> FilledForms]
        /\ \A s \in ConfigScopes : configForms'[s].open => FormHolds(configForms'[s], s)
    BY <1>2, FormsClose
  <1>4. UNCHANGED <<base, override, meant, view, viewRead, configSaves, moves>>
    BY DEF Closes, ServerRests
  <1> QED BY <1>3, <1>4 DEF SettingsInv

\* The rows of a form are edited: each still comes from the one it was.
LEMMA RowsStay ==
    ASSUME NEW scope \in ConfigScopes, NEW f \in FilledForms, FormHolds(f, scope),
           NEW list \in Seq(FormRow), NEW from \in Seq(Nat),
           RowsFrom(list, from, Slice(f, scope).rows.list),
           NEW config, config = [key |-> f.says.key, note |-> f.says.note, rows |-> [there |-> TRUE, list |-> list]]
    PROVE  LET edited == [f EXCEPT !.says = config, !.touched = @ \cup {"rows"}, !.from = from] IN
           edited \in FilledForms /\ FormHolds(edited, scope)
  <1>1. f.says \in FormConfigs
    BY DEF FilledForms
  <1>2. PICK rows \in [there : BOOLEAN, list : Seq(FormRow)] : rows = [there |-> TRUE, list |-> list]
    OBVIOUS
  <1>3. config \in FormConfigs /\ config.rows.there
    <2>1. f.says.key \in FormSecrets /\ f.says.note \in Notes
      BY <1>1 DEF FormConfigs
    <2>2. config = [key |-> f.says.key, note |-> f.says.note, rows |-> rows]
      BY <1>2
    <2>3. [key |-> f.says.key, note |-> f.says.note, rows |-> rows] \in FormConfigs
      BY <2>1 DEF FormConfigs
    <2> QED BY <1>2, <2>2, <2>3
  <1>4. config.key = f.says.key /\ config.note = f.says.note /\ config.rows.list = list
    OBVIOUS
  <1>5. PICK field \in ConfigFields : field = "rows"
    BY DEF ConfigFields
  <1> QED BY <1>3, <1>4, <1>5, EditHolds

LEMMA EditsFieldStep ==
    ASSUME SettingsInv, NEW scope \in ConfigScopes, EditsField(scope)
    PROVE  SettingsInv'
  <1> DEFINE f == configForms[scope]
             list == f.says.rows.list
             Says(field, config, from) ==
                configForms' = [configForms EXCEPT ![scope] =
                                    [f EXCEPT !.says = config, !.touched = @ \cup {field}, !.from = from]]
             Rows(rows, from) == Says("rows", [f.says EXCEPT !.rows = [there |-> TRUE, list |-> rows]], from)
             Without(seq, i) == SubSeq(seq, 1, i - 1) \o SubSeq(seq, i + 1, Len(seq))
  <1>1. \/ \E key \in {"t", ""} : Says("key", [f.says EXCEPT !.key = key], f.from)
        \/ \E note \in {"n2", ""} : Says("note", [f.says EXCEPT !.note = note], f.from)
        \/ \E i \in DOMAIN list :
              \/ \E name \in Names \ {list[i].name} : Rows([list EXCEPT ![i] = [name |-> name, pass |-> list[i].pass]], f.from)
              \/ \E pass \in {"t", ""} : Rows([list EXCEPT ![i] = [name |-> list[i].name, pass |-> pass]], f.from)
              \/ Rows(Without(list, i), Without(f.from, i))
        \/ Rows(Append(list, [name |-> "", pass |-> ""]), Append(f.from, 0))
    BY DEF EditsField
  <1> HIDE DEF f, list
  <1>2. InFront(scope) /\ EditMove /\ ServerRests /\ UNCHANGED <<view, viewRead, configSaves>>
    BY DEF EditsField
  <1>3. /\ f \in FilledForms /\ FormHolds(f, scope) /\ f.says \in FormConfigs /\ f.says.rows.there /\ f.from \in Seq(Nat)
        /\ list \in Seq(FormRow)
    <2>1. f \in FilledForms /\ FormHolds(f, scope)
      BY <1>2 DEF InFront, SettingsInv, f
    <2>2. f.says \in FormConfigs /\ f.says.rows.there /\ f.from \in Seq(Nat)
      BY <2>1 DEF FormHolds, FilledForms
    <2> QED BY <2>1, <2>2 DEF FormConfigs, list
  <1>4. PICK old : old = Slice(f, scope).rows.list
    OBVIOUS
  <1>5. RowsFrom(list, f.from, old)
    BY <1>3, <1>4 DEF FormHolds, list
  <1>6. Len(list) \in Nat /\ Len(f.from) = Len(list) /\ DOMAIN list = 1 .. Len(list)
    <2>1. Len(f.from) = Len(list)
      BY <1>5 DEF RowsFrom
    <2> QED BY <1>3, <2>1
  <1>7. Len(old) \in Nat
    <2>1. Slice(f, scope) \in FormConfigs
      BY <1>3, StartIs DEF FormHolds
    <2> QED BY <1>4, <2>1 DEF FormConfigs
  <1>9. ASSUME NEW g \in FilledForms, FormHolds(g, scope), configForms' = [configForms EXCEPT ![scope] = g]
        PROVE  SettingsInv'
    <2>1. /\ configForms' \in [ConfigScopes -> FilledForms]
          /\ \A s \in ConfigScopes : configForms'[s].open => FormHolds(configForms'[s], s)
      BY <1>9, FormsStay
    <2>2. UNCHANGED <<base, override, meant, view, viewRead, configSaves>>
      BY <1>2 DEF ServerRests
    <2>3. moves' \in 0 .. MaxMoves
      <3>1. moves \in 0 .. MaxMoves
        BY DEF SettingsInv
      <3>2. MaxMoves \in Nat
        BY FormAssumption
      <3>3. moves + 1 < MaxMoves /\ moves' = moves + 1
        BY <1>2 DEF EditMove
      <3> QED BY <3>1, <3>2, <3>3
    <2> QED BY <2>1, <2>2, <2>3 DEF SettingsInv
  <1>10. ASSUME NEW rows \in Seq(FormRow), NEW from \in Seq(Nat), RowsFrom(rows, from, old), Rows(rows, from)
         PROVE  SettingsInv'
    <2>1. PICK config : config = [f.says EXCEPT !.rows = [there |-> TRUE, list |-> rows]]
      OBVIOUS
    <2>2. PICK g : g = [f EXCEPT !.says = config, !.touched = @ \cup {"rows"}, !.from = from]
      OBVIOUS
    <2>3. config = [key |-> f.says.key, note |-> f.says.note, rows |-> [there |-> TRUE, list |-> rows]]
      BY <1>3, <2>1 DEF FormConfigs
    <2>4. g \in FilledForms /\ FormHolds(g, scope)
      BY <1>3, <1>4, <1>10, <2>2, <2>3, RowsStay
    <2>5. configForms' = [configForms EXCEPT ![scope] = g]
      BY <1>10, <2>1, <2>2
    <2> QED BY <1>9, <2>4, <2>5
  <1>11. ASSUME NEW key \in {"t", ""}, Says("key", [f.says EXCEPT !.key = key], f.from) PROVE SettingsInv'
    <2>1. PICK config : config = [f.says EXCEPT !.key = key]
      OBVIOUS
    <2>2. config = [key |-> key, note |-> f.says.note, rows |-> f.says.rows]
      BY <1>3, <2>1 DEF FormConfigs
    <2>3. config \in FormConfigs
      BY <1>3, <2>2 DEF FormConfigs, FormSecrets
    <2>4. config.key = key /\ config.note = f.says.note /\ config.rows = f.says.rows
      BY <2>2
    <2>5. PICK g : g = [f EXCEPT !.says = config, !.touched = @ \cup {"key"}, !.from = f.from]
      OBVIOUS
    <2>6. PICK field \in ConfigFields : field = "key"
      BY DEF ConfigFields
    <2>7. RowsFrom(config.rows.list, f.from, Slice(f, scope).rows.list)
      BY <1>4, <1>5, <2>4 DEF list
    <2>8. g \in FilledForms /\ FormHolds(g, scope)
      BY <1>3, <2>3, <2>4, <2>5, <2>6, <2>7, EditHolds
    <2>9. configForms' = [configForms EXCEPT ![scope] = g]
      BY <1>11, <2>1, <2>5
    <2> QED BY <1>9, <2>8, <2>9
  <1>12. ASSUME NEW note \in {"n2", ""}, Says("note", [f.says EXCEPT !.note = note], f.from) PROVE SettingsInv'
    <2>1. PICK config : config = [f.says EXCEPT !.note = note]
      OBVIOUS
    <2>2. config = [key |-> f.says.key, note |-> note, rows |-> f.says.rows]
      BY <1>3, <2>1 DEF FormConfigs
    <2>3. config \in FormConfigs
      BY <1>3, <2>2 DEF FormConfigs, Notes
    <2>4. config.key = f.says.key /\ config.note = note /\ config.rows = f.says.rows
      BY <2>2
    <2>5. PICK g : g = [f EXCEPT !.says = config, !.touched = @ \cup {"note"}, !.from = f.from]
      OBVIOUS
    <2>6. PICK field \in ConfigFields : field = "note"
      BY DEF ConfigFields
    <2>7. RowsFrom(config.rows.list, f.from, Slice(f, scope).rows.list)
      BY <1>4, <1>5, <2>4 DEF list
    <2>8. g \in FilledForms /\ FormHolds(g, scope)
      BY <1>3, <2>3, <2>4, <2>5, <2>6, <2>7, EditHolds
    <2>9. configForms' = [configForms EXCEPT ![scope] = g]
      BY <1>12, <2>1, <2>5
    <2> QED BY <1>9, <2>8, <2>9
  <1> HIDE DEF Rows, Says, Without
  <1>13. ASSUME NEW i \in DOMAIN list PROVE list[i] \in FormRow
    BY <1>3, <1>6
  <1>14. ASSUME NEW i \in DOMAIN list, NEW row \in FormRow, row.pass = list[i].pass \/ row.pass \in {"", "t"},
                 Rows([list EXCEPT ![i] = row], f.from)
         PROVE  SettingsInv'
    <2>1. PICK rows : rows = [list EXCEPT ![i] = row]
      OBVIOUS
    <2>2. rows \in Seq(FormRow) /\ Len(rows) = Len(list) /\ \A j \in 1 .. Len(list) : rows[j] = IF j = i THEN row ELSE list[j]
      BY <1>3, <1>6, <2>1
    <2>3. ASSUME NEW j \in 1 .. Len(rows)
          PROVE  /\ f.from[j] <= Len(old)
                 /\ rows[j].pass \in {"", "t"} \/ (f.from[j] # 0 /\ rows[j].pass = old[f.from[j]].pass)
      <3>1. j \in 1 .. Len(list)
        BY <2>2
      <3>2. /\ f.from[j] <= Len(old)
            /\ list[j].pass \in {"", "t"} \/ (f.from[j] # 0 /\ list[j].pass = old[f.from[j]].pass)
        BY <1>5, <3>1 DEF RowsFrom
      <3>3. rows[j].pass = list[j].pass \/ rows[j].pass \in {"", "t"}
        BY <1>14, <2>2, <3>1
      <3> QED BY <3>2, <3>3
    <2>4. RowsFrom(rows, f.from, old)
      BY <1>6, <2>2, <2>3 DEF RowsFrom
    <2> QED BY <1>3, <1>10, <1>14, <2>1, <2>2, <2>4
  <1>15. ASSUME NEW i \in DOMAIN list, NEW name \in Names,
                Rows([list EXCEPT ![i] = [name |-> name, pass |-> list[i].pass]], f.from)
         PROVE  SettingsInv'
    <2>1. PICK row : row = [name |-> name, pass |-> list[i].pass]
      OBVIOUS
    <2>2. row \in FormRow /\ row.pass = list[i].pass
      BY <1>13, <2>1 DEF FormRow, RowNames
    <2> QED BY <1>15, <1>14, <2>1, <2>2
  <1>16. ASSUME NEW i \in DOMAIN list, NEW pass \in {"t", ""},
                Rows([list EXCEPT ![i] = [name |-> list[i].name, pass |-> pass]], f.from)
         PROVE  SettingsInv'
    <2>1. PICK row : row = [name |-> list[i].name, pass |-> pass]
      OBVIOUS
    <2>2. row \in FormRow /\ row.pass \in {"", "t"}
      BY <1>13, <2>1 DEF FormRow, FormSecrets
    <2> QED BY <1>16, <1>14, <2>1, <2>2
  <1>17. ASSUME NEW i \in DOMAIN list, Rows(Without(list, i), Without(f.from, i)) PROVE SettingsInv'
    <2>1. PICK rows : rows = Without(list, i)
      OBVIOUS
    <2>2. PICK from : from = Without(f.from, i)
      OBVIOUS
    <2>3. i \in 1 .. Len(list) /\ i \in 1 .. Len(f.from)
      BY <1>3, <1>6
    <2>4. /\ rows \in Seq(FormRow) /\ Len(rows) = Len(list) - 1
          /\ \A j \in 1 .. Len(list) - 1 : rows[j] = IF j < i THEN list[j] ELSE list[j + 1]
      BY <1>3, <2>1, <2>3, WithoutIs DEF Without
    <2>5. /\ from \in Seq(Nat) /\ Len(from) = Len(list) - 1
          /\ \A j \in 1 .. Len(list) - 1 : from[j] = IF j < i THEN f.from[j] ELSE f.from[j + 1]
      <3>1. PICK seq \in Seq(Nat) : seq = f.from
        BY <1>3
      <3>2. from = SubSeq(seq, 1, i - 1) \o SubSeq(seq, i + 1, Len(seq)) /\ i \in 1 .. Len(seq)
        BY <2>2, <2>3, <3>1 DEF Without
      <3>3. /\ from \in Seq(Nat) /\ Len(from) = Len(seq) - 1
            /\ \A j \in 1 .. Len(seq) - 1 : from[j] = IF j < i THEN seq[j] ELSE seq[j + 1]
        BY <3>2, WithoutIs
      <3> QED BY <1>6, <3>1, <3>3
    <2>6. ASSUME NEW j \in 1 .. Len(rows)
          PROVE  /\ from[j] <= Len(old)
                 /\ rows[j].pass \in {"", "t"} \/ (from[j] # 0 /\ rows[j].pass = old[from[j]].pass)
      <3>1. PICK k \in 1 .. Len(list) : k = IF j < i THEN j ELSE j + 1
        BY <1>6, <2>4
      <3>2. rows[j] = list[k] /\ from[j] = f.from[k]
        BY <2>4, <2>5, <3>1
      <3> QED BY <1>5, <3>2 DEF RowsFrom
    <2>7. RowsFrom(rows, from, old)
      BY <2>4, <2>5, <2>6 DEF RowsFrom
    <2> QED BY <1>10, <1>17, <2>1, <2>2, <2>4, <2>5, <2>7
  <1>18. ASSUME Rows(Append(list, [name |-> "", pass |-> ""]), Append(f.from, 0)) PROVE SettingsInv'
    <2>1. PICK row : row = [name |-> "", pass |-> ""]
      OBVIOUS
    <2>2. row \in FormRow /\ row.pass = ""
      BY <2>1 DEF FormRow, FormSecrets, RowNames
    <2>3. PICK rows : rows = Append(list, row)
      OBVIOUS
    <2>4. PICK from : from = Append(f.from, 0)
      OBVIOUS
    <2>5. /\ rows \in Seq(FormRow) /\ Len(rows) = Len(list) + 1 /\ rows[Len(list) + 1] = row
          /\ \A j \in 1 .. Len(list) : rows[j] = list[j]
      <3>1. PICK seq \in Seq(FormRow) : seq = list
        BY <1>3
      <3>2. rows = Append(seq, row)
        BY <2>3, <3>1
      <3>3. row \in FormRow
        BY <2>2
      <3>4. /\ rows \in Seq(FormRow) /\ Len(rows) = Len(seq) + 1 /\ rows[Len(seq) + 1] = row
            /\ \A j \in 1 .. Len(seq) : rows[j] = seq[j]
        BY <3>2, <3>3, AppendProperties
      <3> QED BY <3>1, <3>4
    <2>6. /\ from \in Seq(Nat) /\ Len(from) = Len(list) + 1 /\ from[Len(list) + 1] = 0
          /\ \A j \in 1 .. Len(list) : from[j] = f.from[j]
      BY <1>3, <1>6, <2>4
    <2>7. ASSUME NEW j \in 1 .. Len(rows)
          PROVE  /\ from[j] <= Len(old)
                 /\ rows[j].pass \in {"", "t"} \/ (from[j] # 0 /\ rows[j].pass = old[from[j]].pass)
      <3>1. CASE j \in 1 .. Len(list)
        <4>1. rows[j] = list[j] /\ from[j] = f.from[j]
          BY <2>5, <2>6, <3>1
        <4> QED BY <1>5, <3>1, <4>1 DEF RowsFrom
      <3>2. CASE j = Len(list) + 1
        <4>1. rows[j] = row /\ from[j] = 0
          BY <2>5, <2>6, <3>2
        <4>2. 0 <= Len(old)
          BY <1>7
        <4> QED BY <2>2, <4>1, <4>2
      <3>3. j \in 1 .. Len(list) \/ j = Len(list) + 1
        BY <1>6, <2>5
      <3> QED BY <3>1, <3>2, <3>3
    <2>8. RowsFrom(rows, from, old)
      BY <2>5, <2>6, <2>7 DEF RowsFrom
    <2> QED BY <1>10, <1>18, <2>1, <2>3, <2>4, <2>5, <2>6, <2>8
  <1> USE DEF Rows, Says, Without
  <1> QED BY <1>1, <1>11, <1>12, <1>15, <1>16, <1>17, <1>18

\* A save is sent with what its form says.
LEMMA SaveStep ==
    ASSUME SettingsInv, NEW scope \in ConfigScopes, NEW config \in FormConfigs, NEW clears \in BOOLEAN,
           Sends(scope, config, clears),
           IF clears THEN scope = "override" /\ config = NoConfig
           ELSE config = IF scope = "base" THEN configForms[scope].says ELSE SparseAgainst(configForms[scope].says, view.base)
    PROVE  SettingsInv'
  <1>1. PICK f : f = configForms[scope]
    OBVIOUS
  <1>2. f \in FilledForms /\ FormHolds(f, scope) /\ view \in WholeViews /\ view \in Views
    BY <1>1 DEF Sends, InFront, SettingsInv, WholeViews
  <1>3. moves \in 0 .. MaxMoves /\ moves < MaxMoves /\ moves' = moves + 1 /\ MaxMoves \in Nat
    BY FormAssumption DEF Sends, SaveMove, SettingsInv
  <1>4. PICK sent : sent = [number |-> moves, scope |-> scope, config |-> config, clears |-> clears,
                            form |-> f, against |-> view, at |-> "sent", answer |-> "none"]
    OBVIOUS
  <1>5. configSaves' = configSaves \cup {sent}
    BY <1>1, <1>4 DEF Sends
  <1>6. sent \in SentSaves
    BY <1>2, <1>3, <1>4 DEF SentSaves
  <1>7. sent.scope = scope /\ sent.config = config /\ sent.clears = clears /\ sent.form = f /\ sent.against = view
    BY <1>4
  <1>8. SaveHolds(sent)
    BY <1>1, <1>2, <1>7 DEF SaveHolds
  <1>9. UNCHANGED <<base, override, meant, view, viewRead, configForms>>
    BY DEF Sends, ServerRests
  <1>10. configSaves' \subseteq SentSaves /\ \A s \in configSaves' : s.at = "sent" => SaveHolds(s)
    BY <1>5, <1>6, <1>8 DEF SettingsInv
  <1>11. moves' \in 0 .. MaxMoves
    BY <1>3
  <1> QED BY <1>9, <1>10, <1>11 DEF SettingsInv

LEMMA SavesConfigStep ==
    ASSUME SettingsInv, NEW scope \in ConfigScopes, SavesConfig(scope)
    PROVE  SettingsInv'
  <1>1. PICK says : says = configForms[scope].says
    OBVIOUS
  <1>2. says \in FormConfigs /\ view \in WholeViews
    BY <1>1 DEF SettingsInv, FilledForms
  <1>3. SparseSessionOverride(says) = SparseAgainst(says, view.base)
    BY <1>2 DEF WholeViews, Whole, SparseSessionOverride, SparseAgainst
  <1>4. PICK config : config = IF scope = "base" THEN says ELSE SparseAgainst(says, view.base)
    OBVIOUS
  <1>5. config \in FormConfigs
    BY <1>2, <1>4, SparseIs
  <1>6. Sends(scope, config, FALSE)
    BY <1>1, <1>3, <1>4 DEF SavesConfig
  <1> QED BY <1>1, <1>4, <1>5, <1>6, SaveStep

LEMMA ClearOverrideStep == SettingsInv /\ ClearOverride => SettingsInv'
  <1> SUFFICES ASSUME SettingsInv, ClearOverride PROVE SettingsInv'
    OBVIOUS
  <1>1. "override" \in ConfigScopes /\ NoConfig \in FormConfigs
    BY ClosedIs DEF ConfigScopes
  <1>2. Sends("override", NoConfig, TRUE)
    BY DEF ClearOverride
  <1> QED BY <1>1, <1>2, SaveStep

LEMMA SettledIs ==
    ASSUME NEW s \in SentSaves, NEW answer \in {"ok", "failed"}
    PROVE  Settled(s, answer) \in SentSaves /\ Settled(s, answer).at = "served"
  <1>1. PICK f : f = [ClosedForm EXCEPT !.editor = s.form.editor]
    OBVIOUS
  <1>2. s.form.editor \in {"form", "frame"}
    BY DEF SentSaves, FilledForms
  <1>3. f \in FilledForms
    BY <1>1, <1>2, ClosedIs DEF FilledForms
  <1>4. PICK seen \in Views : seen = ClosedForm.seen
    BY ClosedIs
  <1>5. Settled(s, answer) = [s EXCEPT !.at = "served", !.answer = answer, !.config = NoConfig, !.against = seen, !.form = f]
    BY <1>1, <1>4 DEF Settled
  <1>6. Settled(s, answer) = [number |-> s.number, scope |-> s.scope, config |-> NoConfig, clears |-> s.clears,
                              form |-> f, against |-> seen, at |-> "served", answer |-> answer]
    BY <1>5 DEF SentSaves
  <1> QED BY <1>3, <1>6, ClosedIs DEF SentSaves

\* A save reaches the server.
LEMMA ServesSaveStep ==
    ASSUME SettingsInv, NEW s \in configSaves, ServesSave(s)
    PROVE  SettingsInv'
  <1>1. s \in SentSaves /\ s.at = "sent" /\ SaveHolds(s)
    BY DEF ServesSave, SettingsInv
  <1>2. base \in StoredConfigs /\ override \in StoredConfigs /\ Whole(base) /\ meant
    BY DEF SettingsInv
  <1>3. ASSUME NEW answer \in {"ok", "failed"}, configSaves' = (configSaves \ {s}) \cup {Settled(s, answer)}
        PROVE  configSaves' \subseteq SentSaves /\ \A r \in configSaves' : r.at = "sent" => SaveHolds(r)
    <2>1. PICK settled : settled = Settled(s, answer)
      OBVIOUS
    <2>2. settled \in SentSaves /\ settled.at = "served"
      BY <1>1, <2>1, SettledIs
    <2>3. configSaves \subseteq SentSaves /\ \A r \in configSaves : r.at = "sent" => SaveHolds(r)
      BY DEF SettingsInv
    <2> QED BY <1>3, <2>1, <2>2, <2>3
  <1>4. UNCHANGED <<view, viewRead, configForms, moves>>
    BY DEF ServesSave
  <1>5. CASE SaveFaults /\ configSaves' = (configSaves \ {s}) \cup {Settled(s, "failed")} /\ UNCHANGED <<base, override, meant>>
    BY <1>3, <1>4, <1>5 DEF SettingsInv
  <1> DEFINE before == IF s.scope = "base" THEN base ELSE override
             restored == RestoreSecretConfig(s.config, before)
             after == IF s.scope = "base" THEN Over(base, restored) ELSE restored
  <1>6. CASE /\ base' = IF s.scope = "base" THEN after ELSE base
             /\ override' = IF s.scope = "override" THEN after ELSE override
             /\ meant' = (meant /\ IF s.clears THEN after = NoConfig
                                   ELSE s.form.seen = ShownConfig /\ s.against = ShownConfig => AsMeant(s, before, after))
             /\ configSaves' = (configSaves \ {s}) \cup {Settled(s, "ok")}
    <2>1. before \in StoredConfigs /\ s.config \in FormConfigs /\ s.scope \in ConfigScopes
      BY <1>1, <1>2 DEF SentSaves
    <2>2. restored \in StoredConfigs
      BY <2>1, RestoreIs
    <2>3. base' \in StoredConfigs /\ override' \in StoredConfigs /\ Whole(base')
      <3>1. Over(base, restored) \in StoredConfigs /\ Whole(Over(base, restored))
        BY <1>2, <2>2, OverStored
      <3>2. CASE s.scope = "base"
        BY <1>2, <1>6, <3>1, <3>2
      <3>3. CASE s.scope = "override"
        BY <1>2, <1>6, <2>2, <3>3
      <3> QED BY <2>1, <3>2, <3>3 DEF ConfigScopes
    <2>4. ASSUME s.clears PROVE after = NoConfig
      <3>1. s.scope = "override" /\ s.config = NoConfig
        BY <1>1, <2>4 DEF SaveHolds
      <3>2. after = RestoreSecretConfig(NoConfig, override)
        BY <3>1
      <3>3. RestoreSecretConfig(NoConfig, override) = NoConfig
        <4>1. PICK r : r = RestoreSecretConfig(NoConfig, override)
          OBVIOUS
        <4>2. /\ NoConfig.key = Missing /\ NoConfig.note = Missing /\ ~NoConfig.rows.there
              /\ NoConfig.rows.there = FALSE /\ NoConfig.rows.list = <<>>
          BY DEF NoConfig, NoRows
        <4>3. /\ r \in StoredConfigs /\ r.key = RestoredSecret(NoConfig.key, override.key) /\ r.note = NoConfig.note
              /\ r.rows.there = NoConfig.rows.there
              /\ r.rows.list \in Seq(StoredRow) /\ Len(r.rows.list) = Len(NoConfig.rows.list)
          BY <1>2, <4>1, ClosedIs, RestoreIs
        <4>4. RestoredSecret(Missing, override.key) = Missing
          BY DEF RestoredSecret, Missing
        <4>5. r.rows.list = <<>>
          BY <4>2, <4>3
        <4>6. r.key = Missing /\ r.note = Missing /\ r.rows.there = FALSE
          BY <4>2, <4>3, <4>4
        <4>7. r = [key |-> r.key, note |-> r.note, rows |-> r.rows] /\ r.rows = [there |-> r.rows.there, list |-> r.rows.list]
          BY <4>3 DEF StoredConfigs
        <4>8. r.rows = NoRows
          BY <4>5, <4>6, <4>7 DEF NoRows
        <4> QED BY <4>1, <4>6, <4>7, <4>8 DEF NoConfig
      <3> QED BY <3>2, <3>3
    <2>5. ASSUME ~s.clears, s.form.seen = ShownConfig, s.against = ShownConfig PROVE AsMeant(s, before, after)
      <3>1. CASE s.scope = "base"
        <4>1. s.config = s.form.says /\ FormHolds(s.form, "base")
          BY <1>1, <2>5, <3>1 DEF SaveHolds
        <4>2. AsMeant(s, base, Over(base, RestoreSecretConfig(s.form.says, base)))
          BY <1>1, <1>2, <2>5, <3>1, <4>1, BaseIsMeant
        <4> QED BY <3>1, <4>1, <4>2
      <3>2. CASE s.scope = "override"
        <4>1. s.config = SparseAgainst(s.form.says, ShownConfig.base) /\ FormHolds(s.form, "override")
          BY <1>1, <2>5, <3>2 DEF SaveHolds
        <4>2. AsMeant(s, override, RestoreSecretConfig(SparseAgainst(s.form.says, ShownConfig.base), override))
          BY <1>1, <1>2, <2>5, <3>2, <4>1, OverrideIsMeant
        <4> QED BY <3>2, <4>1, <4>2
      <3> QED BY <2>1, <3>1, <3>2 DEF ConfigScopes
    <2> HIDE DEF before, restored, after
    <2>6. meant'
      BY <1>2, <1>6, <2>4, <2>5
    <2>7. configSaves' \subseteq SentSaves /\ \A r \in configSaves' : r.at = "sent" => SaveHolds(r)
      BY <1>3, <1>6
    <2> QED BY <1>4, <2>3, <2>6, <2>7 DEF SettingsInv
  <1> QED BY <1>5, <1>6 DEF ServesSave

LEMMA SaveAnsweredStep ==
    ASSUME SettingsInv, NEW s \in configSaves, SaveAnswered(s)
    PROVE  SettingsInv'
  <1>1. /\ configForms' \in [ConfigScopes -> FilledForms]
        /\ \A scope \in ConfigScopes : configForms'[scope].open => FormHolds(configForms'[scope], scope)
    <2>1. CASE configForms' = configForms
      BY <2>1 DEF SettingsInv
    <2>2. CASE configForms' = [scope \in ConfigScopes |-> ClosedForm]
      <3>1. configForms' = [scope \in ConfigScopes |-> IF scope \in ConfigScopes THEN ClosedForm ELSE configForms[scope]]
        BY <2>2
      <3> QED BY <3>1, FormsClose
    <2> QED BY <2>1, <2>2 DEF SaveAnswered
  <1>2. viewRead' = viewRead \/ viewRead' = <<ShownConfig>>
    BY DEF SaveAnswered
  <1>3. viewRead' # <<>> => viewRead'[1] \in WholeViews
    BY <1>2, ShownIs DEF SettingsInv
  <1>4. UNCHANGED <<base, override, meant, view, moves>> /\ configSaves' \subseteq configSaves
    BY DEF SaveAnswered, ServerRests
  <1> QED BY <1>1, <1>3, <1>4 DEF SettingsInv

LEMMA ReadStep == SettingsInv /\ (RefetchesView \/ ViewArrives) => SettingsInv'
  <1> SUFFICES ASSUME SettingsInv, RefetchesView \/ ViewArrives PROVE SettingsInv'
    OBVIOUS
  <1>1. ShownConfig \in WholeViews
    BY ShownIs DEF SettingsInv
  <1>2. view' \in WholeViews /\ (viewRead' # <<>> => viewRead'[1] \in WholeViews)
    <2>1. CASE RefetchesView
      BY <1>1, <2>1 DEF RefetchesView, SettingsInv
    <2>2. CASE ViewArrives
      BY <2>2 DEF ViewArrives, SettingsInv
    <2> QED BY <2>1, <2>2
  <1>3. UNCHANGED <<base, override, meant, configForms, configSaves, moves>>
    BY DEF RefetchesView, ViewArrives, ServerRests
  <1> QED BY <1>2, <1>3 DEF SettingsInv

LEMMA OthersSaveStep == SettingsInv /\ OthersSave => SettingsInv'
  <1> SUFFICES ASSUME SettingsInv, OthersSave PROVE SettingsInv'
    OBVIOUS
  <1>1. base \in StoredConfigs /\ Whole(base)
    BY DEF SettingsInv
  <1>2. base.key \in StoredKeys /\ base.note \in Notes /\ base.rows.list \in Seq(StoredRow) /\ base.note # Missing
    BY <1>1 DEF StoredConfigs, Whole
  <1>3. base' \in StoredConfigs /\ Whole(base')
    <2>1. CASE base' = [base EXCEPT !.note = "n3"]
      <3>1. base' = [key |-> base.key, note |-> "n3", rows |-> base.rows]
        BY <1>1, <2>1 DEF StoredConfigs
      <3> QED BY <1>1, <3>1 DEF StoredConfigs, Notes, Whole, Missing
    <2>2. CASE base' = [base EXCEPT !.key = "s3"]
      <3>1. base' = [key |-> "s3", note |-> base.note, rows |-> base.rows]
        BY <1>1, <2>2 DEF StoredConfigs
      <3> QED BY <1>1, <3>1 DEF StoredConfigs, StoredKeys, Whole
    <2>3. CASE base' = [base EXCEPT !.rows = [there |-> TRUE, list |-> SubSeq(@.list, 2, Len(@.list))]]
      <3>1. PICK list \in Seq(StoredRow) : list = base.rows.list
        BY <1>2
      <3>2. SubSeq(list, 2, Len(list)) \in Seq(StoredRow)
        BY <3>1
      <3>3. PICK rows \in [there : BOOLEAN, list : Seq(StoredRow)] : rows = [there |-> TRUE, list |-> SubSeq(list, 2, Len(list))]
        BY <3>2
      <3>4. base' = [key |-> base.key, note |-> base.note, rows |-> rows]
        BY <1>1, <2>3, <3>1, <3>3 DEF StoredConfigs
      <3> QED BY <1>2, <3>3, <3>4 DEF StoredConfigs, Whole
    <2> QED BY <2>1, <2>2, <2>3 DEF OthersSave
  <1>4. UNCHANGED <<override, view, viewRead, configForms, configSaves, meant>>
    BY DEF OthersSave
  <1>5. moves' \in 0 .. MaxMoves
    <2>1. moves \in 0 .. MaxMoves
      BY DEF SettingsInv
    <2>2. MaxMoves \in Nat
      BY FormAssumption
    <2>3. moves + 1 < MaxMoves /\ moves' = moves + 1
      BY DEF OthersSave, EditMove
    <2> QED BY <2>1, <2>2, <2>3
  <1> QED BY <1>3, <1>4, <1>5 DEF SettingsInv

LEMMA SettingsStarts == SettingsInit => SettingsInv
  <1> SUFFICES ASSUME SettingsInit PROVE SettingsInv
    OBVIOUS
  <1>1. base \in StoredConfigs /\ Whole(base)
    <2>1. PICK rows \in StoredRows, key \in {Missing, "s0"} :
             base = [key |-> key, note |-> "n1", rows |-> [there |-> TRUE, list |-> rows]]
      BY DEF SettingsInit
    <2>2. rows \in Seq([name : Names, pass : {"", "s1", "s2"}])
      BY <2>1, FormAssumption
    <2>3. [name : Names, pass : {"", "s1", "s2"}] \subseteq StoredRow
      BY DEF StoredRow, RowNames, StoredPasses
    <2>4. rows \in Seq(StoredRow)
      <3> DEFINE S == [name : Names, pass : {"", "s1", "s2"}]
      <3>1. rows \in Seq(S) /\ S \subseteq StoredRow
        BY <2>2, <2>3
      <3> HIDE DEF S
      <3> QED BY <3>1
    <2>5. PICK all \in [there : BOOLEAN, list : Seq(StoredRow)] : all = [there |-> TRUE, list |-> rows]
      BY <2>4
    <2>6. base = [key |-> key, note |-> "n1", rows |-> all]
      BY <2>1, <2>5
    <2> QED BY <2>5, <2>6 DEF StoredConfigs, StoredKeys, Notes, Whole, Missing
  <1>2. override \in StoredConfigs
    <2>1. CASE override = NoConfig
      <3>1. <<>> \in Seq(StoredRow)
        OBVIOUS
      <3> QED BY <2>1, <3>1 DEF NoConfig, NoRows, StoredConfigs, StoredKeys, Notes
    <2>2. CASE override = [key |-> "s4", note |-> "n2", rows |-> [there |-> TRUE, list |-> <<[name |-> "a", pass |-> "s5"]>>]]
      <3>1. PICK row : row = [name |-> "a", pass |-> "s5"]
        OBVIOUS
      <3>2. row \in StoredRow
        BY <3>1, FormAssumption DEF StoredRow, RowNames, StoredPasses
      <3>3. <<row>> \in Seq(StoredRow)
        BY <3>2
      <3>4. PICK all \in [there : BOOLEAN, list : Seq(StoredRow)] : all = [there |-> TRUE, list |-> <<row>>]
        BY <3>3
      <3>5. override = [key |-> "s4", note |-> "n2", rows |-> all]
        BY <2>2, <3>1, <3>4
      <3> QED BY <3>4, <3>5 DEF StoredConfigs, StoredKeys, Notes
    <2> QED BY <2>1, <2>2 DEF SettingsInit
  <1>3. view \in WholeViews
    BY <1>1, <1>2, ShownIs DEF SettingsInit
  <1>4. /\ configForms \in [ConfigScopes -> FilledForms]
        /\ \A scope \in ConfigScopes : ~configForms[scope].open
    <2>1. ClosedForm \in FilledForms /\ ~ClosedForm.open
      BY ClosedIs DEF ClosedForm
    <2> QED BY <2>1 DEF SettingsInit
  <1>5. moves \in 0 .. MaxMoves
    <2>1. moves = 0
      BY DEF SettingsInit
    <2>2. MaxMoves \in Nat
      BY FormAssumption
    <2> QED BY <2>1, <2>2
  <1>6. viewRead = <<>> /\ configSaves = {} /\ meant = TRUE
    BY DEF SettingsInit
  <1>7. configSaves \subseteq SentSaves /\ \A s \in configSaves : s.at = "sent" => SaveHolds(s)
    BY <1>6
  <1>8. meant /\ (viewRead # <<>> => viewRead[1] \in WholeViews)
    BY <1>6
  <1>9. \A scope \in ConfigScopes : configForms[scope].open => FormHolds(configForms[scope], scope)
    BY <1>4
  <1> QED BY <1>1, <1>2, <1>3, <1>4, <1>5, <1>7, <1>8, <1>9 DEF SettingsInv

LEMMA SettingsStep == SettingsInv /\ [SettingsNext]_settingsVars => SettingsInv'
  <1> SUFFICES ASSUME SettingsInv, [SettingsNext]_settingsVars PROVE SettingsInv'
    OBVIOUS
  <1>1. ASSUME NEW scope \in ConfigScopes, NEW editor \in {"form", "frame"}, OpensConfig(scope, editor) PROVE SettingsInv'
    BY <1>1, OpensConfigStep
  <1>2. ASSUME NEW scope \in ConfigScopes, Closes(scope) PROVE SettingsInv'
    BY <1>2, ClosesStep
  <1>3. ASSUME NEW scope \in ConfigScopes, EditsField(scope) PROVE SettingsInv'
    BY <1>3, EditsFieldStep
  <1>4. ASSUME NEW scope \in ConfigScopes, SavesConfig(scope) PROVE SettingsInv'
    BY <1>4, SavesConfigStep
  <1>5. CASE ClearOverride
    BY <1>5, ClearOverrideStep
  <1>6. CASE RefetchesView \/ ViewArrives
    BY <1>6, ReadStep
  <1>7. CASE OthersSave
    BY <1>7, OthersSaveStep
  <1>8. ASSUME NEW s \in configSaves, ServesSave(s) PROVE SettingsInv'
    BY <1>8, ServesSaveStep
  <1>9. ASSUME NEW s \in configSaves, SaveAnswered(s) PROVE SettingsInv'
    BY <1>9, SaveAnsweredStep
  <1>10. CASE UNCHANGED settingsVars
    BY <1>10 DEF settingsVars, SettingsInv
  <1> QED BY <1>1, <1>2, <1>3, <1>4, <1>5, <1>6, <1>7, <1>8, <1>9, <1>10 DEF SettingsNext

LEMMA SettingsAreTrue == SettingsInv => SettingsAreKept /\ SettingsTypeOK
  <1> SUFFICES ASSUME SettingsInv PROVE SettingsAreKept /\ SettingsTypeOK
    OBVIOUS
  <1>1. ASSUME NEW c \in Configs
        PROVE  /\ c.key \in StoredKeys /\ c.note \in Notes
               /\ \A i \in DOMAIN c.rows.list : c.rows.list[i].pass # "***"
    <2>1. c \in StoredConfigs
      BY DEF Configs, SettingsInv
    <2>2. c.key \in StoredKeys /\ c.note \in Notes /\ c.rows.list \in Seq(StoredRow)
      BY <2>1 DEF StoredConfigs
    <2>3. \A i \in DOMAIN c.rows.list : c.rows.list[i] \in StoredRow
      BY <2>2
    <2>4. \A i \in DOMAIN c.rows.list : c.rows.list[i].pass \in StoredPasses
      BY <2>3 DEF StoredRow
    <2>5. "***" \notin StoredPasses
      BY DEF StoredPasses, Missing
    <2> QED BY <2>2, <2>4, <2>5
  <1>2. NoMaskIsStored /\ meant
    BY <1>1 DEF NoMaskIsStored, SettingsInv, StoredKeys, Missing
  <1>3. \A s \in configSaves : s.scope \in ConfigScopes /\ s.at \in {"sent", "served"}
    BY DEF SettingsInv, SentSaves
  <1>4. SettingsTypeOK
    BY <1>1, <1>3 DEF SettingsTypeOK, SettingsInv, StoredKeys, Notes
  <1> QED BY <1>2, <1>4 DEF SettingsAreKept

-----------------------------------------------------------------------------
(* The thread of a chat                                                     *)

Reportable == {"sent", "delivered", "read", "failed"}
BubbleSet == [key : {"temp", "row", "wa"}, m : Texts, status : Ticks]
EventSet == [type : {"message", "ack"}, m : Texts, status : Reportable]
AnswerSet == [asked : BOOLEAN, ok : BOOLEAN, bubbles : SUBSET BubbleSet]

ChatShape ==
    /\ call \in [Typed -> {"none", "asked", "inserted", "taken", "stored", "failed"}]
    /\ stored \in [Texts -> [keyed : BOOLEAN, status : Ticks \cup {"none"}]]
    /\ reported \in [Texts -> SUBSET Reportable] /\ echoed \subseteq Texts /\ lost \subseteq Texts
    /\ late \subseteq Typed \X {"delivered", "read", "failed"}
    /\ socket \in {"off", "connected", "joined"} /\ gaps \in 0 .. MaxGaps
    /\ stream \in Seq(EventSet)
    /\ cache \in [has : BOOLEAN, stale : BOOLEAN, list : Seq(BubbleSet)]
    /\ fetch \in [busy : BOOLEAN, db : AnswerSet, history : AnswerSet]
    /\ open \in BOOLEAN /\ sending \in Typed \cup {Nobody}
    /\ missed \subseteq Texts /\ since \subseteq Texts
    /\ cache.has \/ (cache.list = <<>> /\ missed = Texts)
    /\ \A a \in {fetch.db, fetch.history} : IsFiniteSet(a.bubbles) /\ (a.ok => a.asked) /\ (~a.ok => a.bubbles = {})

\* What the server knows of a message at each step of its send.
RowHolds(m) ==
    LET pc == call[m]
        row == stored[m] IN
    /\ row.keyed => reported[m] # {} /\ row.status \in reported[m]
    /\ reported[m] # {} => "sent" \in reported[m]
    /\ m \in echoed => reported[m] # {}
    /\ m \in Typed /\ pc \in {"none", "asked"} => reported[m] = {} /\ ~row.keyed /\ row.status = "none"
    /\ m \in Typed /\ pc = "inserted" => reported[m] = {} /\ ~row.keyed /\ row.status = "pending"
    /\ m \in Typed /\ pc = "failed" => reported[m] = {} /\ ~row.keyed /\ row.status \in {"none", "failed"}
    /\ m \in Typed /\ pc = "taken" => reported[m] # {} /\ ~row.keyed /\ row.status = "pending"
    /\ m \in Typed /\ pc = "stored" => reported[m] # {} /\ (row.keyed \/ row.status = "pending")
    /\ m \in Phoned => ~row.keyed /\ row.status = "none"
    /\ m \in Received => reported[m] \subseteq {"sent"} /\ (row.keyed \/ row.status = "none")

LateOf(m) == {s \in {"delivered", "read", "failed"} : <<m, s>> \in late}
\* Each acknowledgement of a message is in its row, or waits for it.
AcksAreKept(m) ==
    /\ LateOf(m) \subseteq reported[m]
    /\ m \in Typed \ lost =>
          \A s \in reported[m] : \/ s \in LateOf(m)
                                 \/ IF stored[m].keyed THEN MergeDeliveryStatus(stored[m].status, s) = stored[m].status
                                    ELSE s = "sent"

StreamHolds ==
    \A i \in 1 .. Len(stream) :
        /\ stream[i].status \in reported[stream[i].m]
        /\ stream[i].type = "message" => stream[i].status = "sent"
        /\ stream[i].type = "ack" => stream[i].status # "sent" /\ stream[i].m \in Typed \cup Phoned

On(list, k, m, s) == \E i \in 1 .. Len(list) : list[i].key = k /\ list[i].m = m /\ list[i].status = s
OncePerKey(list, m) ==
    \A i, j \in 1 .. Len(list) : list[i].m = m /\ list[j].m = m /\ list[i].key = list[j].key => i = j

Announced(m) == \E i \in 1 .. Len(stream) : stream[i].type = "message" /\ stream[i].m = m
AcksOf(m) == {s \in Reportable : \E i \in 1 .. Len(stream) : stream[i].type = "ack" /\ stream[i].m = m /\ stream[i].status = s}
FailsFirst(m) ==
    \E i \in 1 .. Len(stream) :
        /\ stream[i].type = "ack" /\ stream[i].m = m /\ stream[i].status = "failed"
        /\ \A j \in 1 .. Len(stream) : stream[j].type = "ack" /\ stream[j].m = m => j >= i

\* What the page has for a message.
ThreadHolds(m) ==
    /\ OncePerKey(cache.list, m)
    /\ \A s \in Ticks :
          /\ On(cache.list, "row", m, s) => m \in Typed /\ call[m] = "failed" /\ s = "failed"
          /\ On(cache.list, "temp", m, s) => m \in Typed /\ ((sending = m /\ s = "pending") \/ (call[m] = "failed" /\ s = "failed"))
          /\ On(cache.list, "wa", m, s) => reported[m] # {} /\ s \in Reportable /\ (m \in Typed => s \in reported[m])
    /\ ~((\E s \in Ticks : On(cache.list, "row", m, s)) /\ \E s \in Ticks : On(cache.list, "temp", m, s))
    /\ m \in echoed => Announced(m) \/ \E s \in Ticks : On(cache.list, "wa", m, s)

\* The tick of a message once what is on its way to the page has arrived, from x with the acknowledgements of A.
Ending(x, A, ff) ==
    IF x = "failed" \/ (x = "sent" /\ ff) THEN "failed"
    ELSE IF x = "read" \/ "read" \in A THEN "read"
    ELSE IF x = "delivered" \/ "delivered" \in A THEN "delivered" ELSE "sent"
\* The status of a row once the acknowledgements L that wait for it have been tried, unless one of them is lost.
Final(st, L) == IF L = {} THEN st ELSE IF "read" \in L THEN "read" ELSE IF "delivered" \in L THEN "delivered" ELSE "failed"
Survives(st, L) ==
    /\ "failed" \in L => L = {"failed"} /\ st \in {"sent", "failed"}
    /\ \A a \in L : MergeDeliveryStatus(st, a) = a
RowStatus(m) == IF stored[m].keyed THEN stored[m].status ELSE "sent"
\* Page and database agree in the end: x is the tick the page has, or will start from.
Agrees(m, x) == Survives(RowStatus(m), LateOf(m)) => Ending(x, AcksOf(m), FailsFirst(m)) = Final(RowStatus(m), LateOf(m))
PageAgrees(m) ==
    \A x \in Reportable :
        On(cache.list, "wa", m, x) \/ (x = "sent" /\ ~\E s \in Ticks : On(cache.list, "wa", m, s)) => Agrees(m, x)

\* A message not touched since the fetch has read is as it was read.
ReadHolds(m) ==
    /\ m \notin Unsettled
    /\ \A b \in BubbleSet : b.m = m =>
          /\ fetch.db.ok => (b \in fetch.db.bubbles <=> b \in RowBubbles)
          /\ fetch.history.ok => (b \in fetch.history.bubbles <=> b \in HistoryBubbles)

\* The database has the message, or will have it.
Matters(m) == m \notin lost /\ (m \in Typed \/ stored[m].keyed)
PageHolds(m) == ThreadHolds(m) /\ (Matters(m) => PageAgrees(m))

ChatInv ==
    /\ ChatShape /\ StreamHolds
    /\ \A m \in Texts : RowHolds(m) /\ AcksAreKept(m)
    /\ \A m \in Texts \ missed : PageHolds(m)
    /\ HasRead => \A m \in Texts \ since : ReadHolds(m)

-----------------------------------------------------------------------------
(* Ticks                                                                     *)

\* What a report makes of a tick.
LEMMA MergeIs ==
    ASSUME NEW c \in Ticks, NEW s \in Reportable
    PROVE  /\ c = "failed" => MergeDeliveryStatus(c, s) = "failed"
           /\ s = "failed" => MergeDeliveryStatus(c, s) = IF c \in {"pending", "sent"} THEN "failed" ELSE c
           /\ c # "failed" /\ s # "failed" /\ (c = "read" \/ s = "read") => MergeDeliveryStatus(c, s) = "read"
           /\ c \in {"pending", "sent", "delivered"} /\ s \in {"sent", "delivered"} /\ (c = "delivered" \/ s = "delivered")
                 => MergeDeliveryStatus(c, s) = "delivered"
           /\ c \in {"pending", "sent"} /\ s = "sent" => MergeDeliveryStatus(c, s) = "sent"
           /\ MergeDeliveryStatus(c, s) \in Reportable
  <1>1. /\ DeliveryRank["pending"] = 0 /\ DeliveryRank["sent"] = 1 /\ DeliveryRank["delivered"] = 2 /\ DeliveryRank["read"] = 3
    BY DEF DeliveryRank
  <1>2. c \in {"pending", "sent", "delivered", "read", "failed"} /\ s \in {"sent", "delivered", "read", "failed"}
    BY DEF Ticks, Reportable
  <1> HIDE DEF DeliveryRank
  <1>3. CASE c = "failed"
    BY <1>2, <1>3 DEF MergeDeliveryStatus, Reportable
  <1>4. CASE c # "failed" /\ s = "failed"
    BY <1>2, <1>4 DEF MergeDeliveryStatus, Reportable
  <1>5. CASE c = "pending" /\ s # "failed"
    BY <1>1, <1>2, <1>5 DEF MergeDeliveryStatus, Reportable
  <1>6. CASE c = "sent" /\ s # "failed"
    BY <1>1, <1>2, <1>6 DEF MergeDeliveryStatus, Reportable
  <1>7. CASE c = "delivered" /\ s # "failed"
    BY <1>1, <1>2, <1>7 DEF MergeDeliveryStatus, Reportable
  <1>8. CASE c = "read" /\ s # "failed"
    BY <1>1, <1>2, <1>8 DEF MergeDeliveryStatus, Reportable
  <1> QED BY <1>2, <1>3, <1>4, <1>5, <1>6, <1>7, <1>8

Acks == {"delivered", "read", "failed"}

\* One more acknowledgement on its way to the page.
LEMMA EndingAppends ==
    ASSUME NEW x \in Reportable, NEW A \in SUBSET Acks, NEW ff \in BOOLEAN, NEW s \in Acks,
           ff => "failed" \in A, A = {"failed"} => ff, NEW B, B = A \cup {s}, NEW gg \in BOOLEAN, gg <=> ff \/ (A = {} /\ s = "failed")
    PROVE  /\ Ending(x, A, ff) \in Reportable
           /\ Ending(x, B, gg) = MergeDeliveryStatus(Ending(x, A, ff), s)
  <1>1. Ending(x, A, ff) \in Ticks /\ s \in Reportable /\ Ending(x, A, ff) \in Reportable
    BY DEF Ending, Ticks, Reportable, Acks
  <1>2. PICK e : e = Ending(x, A, ff)
    OBVIOUS
  <1>3. e \in Ticks /\ s \in Reportable
    BY <1>1, <1>2
  <1>4. CASE s = "read"
    BY <1>2, <1>3, <1>4, MergeIs DEF Ending, Ticks, Reportable, Acks
  <1>5. CASE s = "delivered"
    BY <1>2, <1>3, <1>5, MergeIs DEF Ending, Ticks, Reportable, Acks
  <1>6. CASE s = "failed"
    <2>1. CASE A = {}
      <3>1. B = {"failed"} /\ ~ff /\ gg
        BY <1>6, <2>1
      <3> QED BY <1>2, <1>3, <1>6, <2>1, <3>1, MergeIs DEF Ending, Ticks, Reportable
    <2>2. CASE A # {}
      <3>1. gg <=> ff
        BY <2>2
      <3>2. ff \/ "read" \in A \/ "delivered" \in A
        BY <2>2 DEF Acks
      <3>3. e # "sent"
        BY <1>2, <3>2 DEF Ending, Reportable
      <3>4. MergeDeliveryStatus(e, s) = e
        BY <1>1, <1>2, <1>3, <1>6, <3>3, MergeIs DEF Reportable
      <3>5. ("read" \in B <=> "read" \in A) /\ ("delivered" \in B <=> "delivered" \in A)
        BY <1>6
      <3>6. Ending(x, B, gg) = e
        BY <1>2, <3>1, <3>5 DEF Ending
      <3> QED BY <1>1, <1>2, <3>4, <3>6
    <2> QED BY <2>1, <2>2
  <1> QED BY <1>1, <1>4, <1>5, <1>6 DEF Acks

\* The first acknowledgement on its way is heard.
LEMMA EndingHears ==
    ASSUME NEW x \in Reportable, NEW A \in SUBSET Acks, NEW s \in Acks, NEW B \in SUBSET Acks, A = B \cup {s},
           NEW ff \in BOOLEAN, ff <=> s = "failed", NEW gg \in BOOLEAN, gg => "failed" \in B,
           NEW y, y = MergeDeliveryStatus(x, s)
    PROVE  y \in Reportable /\ Ending(y, B, gg) = Ending(x, A, ff)
  <1>1. x \in Ticks /\ s \in Reportable
    BY DEF Ticks, Reportable, Acks
  <1>2. y \in Reportable
    BY <1>1, MergeIs
  <1>3. CASE s = "read"
    BY <1>1, <1>2, <1>3, MergeIs DEF Ending, Ticks, Reportable, Acks
  <1>4. CASE s = "delivered"
    BY <1>1, <1>2, <1>4, MergeIs DEF Ending, Ticks, Reportable, Acks
  <1>5. CASE s = "failed"
    BY <1>1, <1>2, <1>5, MergeIs DEF Ending, Ticks, Reportable, Acks
  <1> QED BY <1>2, <1>3, <1>4, <1>5 DEF Acks

\* Acknowledgements that a row has already change no tick that is read from it.
LEMMA EndingStands ==
    ASSUME NEW x \in Reportable, NEW A \in SUBSET Acks, NEW ff \in BOOLEAN, ff => "failed" \in A,
           \A a \in A : MergeDeliveryStatus(x, a) = x
    PROVE  Ending(x, A, ff) = x
  <1>1. x \in Ticks /\ \A a \in A : a \in Reportable
    BY DEF Ticks, Reportable, Acks
  <1>2. "failed" \in A => x \notin {"sent"}
    BY <1>1, MergeIs
  <1>3. "read" \in A => x \in {"read", "failed"}
    BY <1>1, MergeIs
  <1>4. "delivered" \in A => x \in {"delivered", "read", "failed"}
    BY <1>1, MergeIs DEF Reportable
  <1> QED BY <1>2, <1>3, <1>4 DEF Ending, Reportable, Acks

\* An acknowledgement that finds its row.
LEMMA FinalStored ==
    ASSUME NEW st \in Reportable, NEW s \in Acks, NEW L \in SUBSET Acks, NEW t, t = MergeDeliveryStatus(st, s), Survives(t, L)
    PROVE  Survives(st, L) /\ Final(t, L) = MergeDeliveryStatus(Final(st, L), s)
  <1>1. st \in Ticks /\ s \in Reportable /\ t \in Reportable /\ \A a \in L : a \in Reportable
    BY MergeIs DEF Ticks, Reportable, Acks
  <1>2. t \in Ticks
    BY <1>1 DEF Ticks, Reportable
  <1>3. CASE L = {}
    BY <1>1, <1>3 DEF Survives, Final
  <1>4. CASE "failed" \in L
    <2>1. L = {"failed"} /\ t \in {"sent", "failed"}
      BY <1>4 DEF Survives
    <2>2. st \in {"sent", "failed"}
      BY <2>1, <1>1, MergeIs DEF Reportable, Acks
    <2>3. MergeDeliveryStatus(st, "failed") = "failed" /\ MergeDeliveryStatus("failed", s) = "failed"
      <3>1. "failed" \in Ticks /\ "failed" \in Reportable
        BY DEF Ticks, Reportable
      <3> QED BY <1>1, <2>2, <3>1, MergeIs
    <2> QED BY <2>1, <2>2, <2>3 DEF Survives, Final
  <1>5. CASE L # {} /\ "failed" \notin L
    <2>1. \A a \in L : a \in {"delivered", "read"} /\ MergeDeliveryStatus(t, a) = a
      BY <1>5 DEF Survives, Acks
    <2>2. t # "failed"
      BY <1>1, <1>2, <1>5, <2>1, MergeIs
    <2>3. "delivered" \in L => t # "read"
      BY <1>1, <1>2, <2>1, MergeIs
    <2>4. st # "failed" /\ ("delivered" \in L => st # "read")
      BY <1>1, <2>2, <2>3, MergeIs
    <2>5. \A a \in L : MergeDeliveryStatus(st, a) = a
      BY <1>1, <2>1, <2>4, MergeIs DEF Reportable
    <2>6. PICK f : f = IF "read" \in L THEN "read" ELSE "delivered"
      OBVIOUS
    <2>7. Final(t, L) = f /\ Final(st, L) = f /\ f \in Ticks
      BY <1>5, <2>1, <2>6 DEF Final, Ticks
    <2>8. MergeDeliveryStatus(f, s) = f
      <3>1. CASE f = "read"
        BY <1>1, <2>7, <3>1, MergeIs
      <3>2. CASE f = "delivered"
        <4>1. "delivered" \in L
          BY <1>5, <2>1, <2>6, <3>2
        <4>2. s # "read"
          BY <4>1, <1>1, <2>3, <2>4, MergeIs
        <4> QED BY <1>1, <2>7, <3>2, <4>2, MergeIs DEF Acks
      <3> QED BY <2>6, <3>1, <3>2
    <2> QED BY <1>5, <2>5, <2>7, <2>8 DEF Survives
  <1> QED BY <1>3, <1>4, <1>5

\* An acknowledgement that finds no row yet.
LEMMA FinalWaits ==
    ASSUME NEW s \in Acks, NEW L \in SUBSET Acks, NEW K, K = L \cup {s}, Survives("sent", K)
    PROVE  Survives("sent", L) /\ Final("sent", K) = MergeDeliveryStatus(Final("sent", L), s)
  <1>1. s \in Reportable /\ "sent" \in Ticks /\ "read" \in Ticks /\ "delivered" \in Ticks /\ "failed" \in Ticks
    BY DEF Ticks, Reportable, Acks
  <1>2. Survives("sent", L)
    BY DEF Survives
  <1>3. CASE s = "failed"
    <2>1. K = {"failed"}
      BY <1>3 DEF Survives
    <2>2. L = {} \/ L = {"failed"}
      BY <2>1
    <2> QED BY <1>1, <1>2, <1>3, <2>1, <2>2, MergeIs DEF Final
  <1>4. CASE s # "failed"
    <2>1. "failed" \notin K
      BY <1>4 DEF Survives
    <2>2. \A a \in L : a \in {"read", "delivered"}
      BY <2>1 DEF Acks
    <2>3. CASE L = {}
      BY <1>1, <1>2, <1>4, <2>3, MergeIs DEF Final, Acks
    <2>4. CASE "read" \in L
      BY <1>1, <1>2, <1>4, <2>4, MergeIs DEF Final, Acks
    <2>5. CASE L # {} /\ "read" \notin L
      <3>1. "delivered" \in L /\ Final("sent", L) = "delivered"
        BY <2>2, <2>5 DEF Final
      <3>2. CASE s = "read"
        BY <1>1, <1>2, <3>1, <3>2, MergeIs DEF Final
      <3>3. CASE s = "delivered"
        BY <1>1, <1>2, <3>1, <3>3, <2>5, MergeIs DEF Final
      <3> QED BY <1>4, <3>2, <3>3 DEF Acks
    <2> QED BY <2>3, <2>4, <2>5
  <1> QED BY <1>3, <1>4

\* An acknowledgement that has waited finds its row.
LEMMA FinalRetries ==
    ASSUME NEW st \in Reportable, NEW L \in SUBSET Acks, NEW a \in L, MergeDeliveryStatus(st, a) = a,
           NEW K, K = L \ {a}, Survives(a, K)
    PROVE  Survives(st, L) /\ Final(st, L) = Final(a, K)
  <1>1. st \in Ticks /\ a \in Reportable /\ a \in Ticks /\ a \in Acks /\ \A b \in L : b \in Reportable
    BY DEF Ticks, Reportable, Acks
  <1>2. CASE a = "failed"
    <2>1. K = {}
      <3>1. ASSUME NEW b \in K PROVE FALSE
        <4>1. b # "failed" /\ b \in Reportable
          BY <1>1, <1>2
        <4>2. MergeDeliveryStatus(a, b) = b
          BY DEF Survives
        <4> QED BY <4>1, <4>2, <1>1, <1>2, MergeIs
      <3> QED BY <3>1
    <2>2. L = {"failed"}
      BY <1>2, <2>1
    <2>3. st \in {"sent", "failed"}
      BY <1>1, <1>2, MergeIs DEF Reportable
    <2> QED BY <1>2, <2>1, <2>2, <2>3 DEF Survives, Final
  <1>3. CASE a # "failed"
    <2>1. "failed" \notin K
      <3>1. a \notin {"sent", "failed"}
        BY <1>1, <1>3 DEF Acks
      <3> QED BY <3>1 DEF Survives
    <2>2. "failed" \notin L /\ \A b \in L : b \in {"delivered", "read"}
      BY <1>1, <1>3, <2>1 DEF Acks
    <2>3. st # "failed" /\ (a = "delivered" => st # "read")
      BY <1>1, <1>3, MergeIs
    <2>4. ASSUME NEW b \in L PROVE MergeDeliveryStatus(st, b) = b
      <3>1. CASE b = "read"
        BY <1>1, <2>3, <3>1, MergeIs
      <3>2. CASE b = "delivered"
        <4>1. a # "read"
          <5>1. SUFFICES ASSUME a = "read" PROVE FALSE
            OBVIOUS
          <5>2. b \in K
            BY <3>2, <5>1
          <5>3. MergeDeliveryStatus(a, b) = b
            BY <5>2 DEF Survives
          <5> QED BY <1>1, <3>2, <5>1, <5>3, MergeIs
        <4>2. a = "delivered"
          BY <2>2, <4>1
        <4> QED BY <1>1, <2>3, <3>2, <4>2
      <3> QED BY <2>2, <3>1, <3>2
    <2>5. Survives(st, L)
      BY <2>2, <2>4 DEF Survives
    <2>6. CASE a = "read"
      <3>1. K = {}
        <4>1. ASSUME NEW b \in K PROVE FALSE
          <5>1. b = "delivered" /\ b \in Reportable
            BY <1>1, <2>2, <2>6
          <5>2. MergeDeliveryStatus(a, b) = b
            BY DEF Survives
          <5> QED BY <1>1, <2>6, <5>1, <5>2, MergeIs
        <4> QED BY <4>1
      <3> QED BY <2>5, <2>6, <3>1 DEF Final
    <2>7. CASE a = "delivered"
      <3>1. K = {} \/ K = {"read"}
        BY <2>2, <2>7
      <3> QED BY <2>5, <2>7, <3>1 DEF Final
    <2> QED BY <2>2, <2>6, <2>7
  <1> QED BY <1>2, <1>3

-----------------------------------------------------------------------------
(* The bubbles of a thread                                                   *)

BubbleKeys == {"temp", "row", "wa"}

LEMMA BubbleIs ==
    ASSUME NEW k \in BubbleKeys, NEW m \in Texts, NEW s \in Ticks
    PROVE  /\ Bubble(k, m, s) \in BubbleSet
           /\ Bubble(k, m, s).key = k /\ Bubble(k, m, s).m = m /\ Bubble(k, m, s).status = s
  BY DEF Bubble, BubbleSet, BubbleKeys

LEMMA BubbleFields ==
    ASSUME NEW b \in BubbleSet
    PROVE  b.key \in BubbleKeys /\ b.m \in Texts /\ b.status \in Ticks /\ b = Bubble(b.key, b.m, b.status)
  BY DEF Bubble, BubbleSet, BubbleKeys

LEMMA ListFields ==
    ASSUME NEW list \in Seq(BubbleSet)
    PROVE  /\ Len(list) \in Nat /\ DOMAIN list = 1 .. Len(list)
           /\ \A i \in 1 .. Len(list) : /\ list[i] \in BubbleSet /\ list[i].key \in BubbleKeys
                                        /\ list[i].m \in Texts /\ list[i].status \in Ticks
  <1>1. Len(list) \in Nat /\ DOMAIN list = 1 .. Len(list) /\ \A i \in 1 .. Len(list) : list[i] \in BubbleSet
    OBVIOUS
  <1> QED BY <1>1, BubbleFields

\* Two lists have the same of a message.
ListSame(list, after, n) ==
    /\ \A k \in BubbleKeys : \A s \in Ticks : On(after, k, n, s) <=> On(list, k, n, s)
    /\ OncePerKey(list, n) => OncePerKey(after, n)

Rewritten(list, k, j, m, h) == [i \in DOMAIN list |-> IF i \in Find(list, k, m) THEN Bubble(j, m, h[i]) ELSE list[i]]

\* The bubbles of one key of a message are rewritten.
LEMMA RewriteIs ==
    ASSUME NEW list \in Seq(BubbleSet), NEW k \in BubbleKeys, NEW j \in BubbleKeys, NEW m \in Texts,
           NEW h \in [1 .. Len(list) -> Ticks], NEW after, after = Rewritten(list, k, j, m, h)
    PROVE  /\ after \in Seq(BubbleSet) /\ Len(after) = Len(list)
           /\ \A i \in 1 .. Len(list) :
                 IF list[i].key = k /\ list[i].m = m
                 THEN after[i].key = j /\ after[i].m = m /\ after[i].status = h[i]
                 ELSE after[i] = list[i]
           /\ \A n \in Texts \ {m} : ListSame(list, after, n)
  <1>1. /\ Len(list) \in Nat /\ DOMAIN list = 1 .. Len(list)
        /\ \A i \in 1 .. Len(list) : list[i] \in BubbleSet
    BY ListFields
  <1>2. \A i \in 1 .. Len(list) : i \in Find(list, k, m) <=> list[i].key = k /\ list[i].m = m
    BY <1>1 DEF Find
  <1>3. \A i \in 1 .. Len(list) : Bubble(j, m, h[i]) \in BubbleSet /\ Bubble(j, m, h[i]).key = j
                                  /\ Bubble(j, m, h[i]).m = m /\ Bubble(j, m, h[i]).status = h[i]
    BY BubbleIs
  <1>4. /\ after = [i \in 1 .. Len(list) |-> after[i]]
        /\ \A i \in 1 .. Len(list) : after[i] = IF i \in Find(list, k, m) THEN Bubble(j, m, h[i]) ELSE list[i]
    BY <1>1 DEF Rewritten
  <1>5. after \in Seq(BubbleSet) /\ Len(after) = Len(list)
    <2>1. \A i \in 1 .. Len(list) : after[i] \in BubbleSet
      BY <1>1, <1>3, <1>4
    <2>2. after \in [1 .. Len(list) -> BubbleSet]
      BY <1>4, <2>1
    <2> QED BY <1>1, <2>2
  <1>6. \A i \in 1 .. Len(list) :
                 IF list[i].key = k /\ list[i].m = m
                 THEN after[i].key = j /\ after[i].m = m /\ after[i].status = h[i]
                 ELSE after[i] = list[i]
    BY <1>2, <1>3, <1>4
  <1>7. ASSUME NEW n \in Texts \ {m} PROVE ListSame(list, after, n)
    <2>1. \A i \in 1 .. Len(list) : (after[i].m = n <=> list[i].m = n) /\ (list[i].m = n => after[i] = list[i])
      BY <1>6
    <2>2. \A q \in BubbleKeys : \A s \in Ticks : On(after, q, n, s) <=> On(list, q, n, s)
      BY <1>5, <2>1 DEF On
    <2>3. ASSUME OncePerKey(list, n), NEW p \in 1 .. Len(list), NEW q \in 1 .. Len(list),
                 after[p].m = n, after[q].m = n, after[p].key = after[q].key
          PROVE  p = q
      <3>1. list[p].m = n /\ list[q].m = n /\ list[p].key = list[q].key
        BY <2>1, <2>3
      <3> QED BY <2>3, <3>1 DEF OncePerKey
    <2>4. OncePerKey(list, n) => OncePerKey(after, n)
      BY <1>5, <2>3 DEF OncePerKey
    <2> QED BY <2>2, <2>4 DEF ListSame
  <1> QED BY <1>5, <1>6, <1>7

\* A report is merged into the bubble of a message.
Merged(list, m, s) ==
    [i \in DOMAIN list |-> IF i \in Find(list, "wa", m) THEN Bubble("wa", m, MergeDeliveryStatus(list[i].status, s)) ELSE list[i]]

LEMMA MergedIs ==
    ASSUME NEW list \in Seq(BubbleSet), NEW m \in Texts, NEW s \in Reportable, NEW after, after = Merged(list, m, s)
    PROVE  /\ after \in Seq(BubbleSet)
           /\ \A n \in Texts \ {m} : ListSame(list, after, n)
           /\ OncePerKey(list, m) => OncePerKey(after, m)
           /\ \A k \in {"temp", "row"} : \A x \in Ticks : On(after, k, m, x) <=> On(list, k, m, x)
           /\ \A y : On(after, "wa", m, y) <=> \E x \in Ticks : On(list, "wa", m, x) /\ y = MergeDeliveryStatus(x, s)
  <1>0. "wa" \in BubbleKeys
    BY DEF BubbleKeys
  <1>1. /\ Len(list) \in Nat /\ DOMAIN list = 1 .. Len(list)
        /\ \A i \in 1 .. Len(list) : list[i] \in BubbleSet /\ list[i].status \in Ticks
    BY ListFields
  <1>2. PICK h : h = [i \in 1 .. Len(list) |-> MergeDeliveryStatus(list[i].status, s)]
    OBVIOUS
  <1>3. h \in [1 .. Len(list) -> Ticks]
    <2>1. \A i \in 1 .. Len(list) : MergeDeliveryStatus(list[i].status, s) \in Reportable
      BY <1>1, MergeIs
    <2> QED BY <1>2, <2>1 DEF Reportable, Ticks
  <1>4. after = Rewritten(list, "wa", "wa", m, h)
    <2>1. \A i \in DOMAIN list : h[i] = MergeDeliveryStatus(list[i].status, s)
      BY <1>1, <1>2
    <2> QED BY <2>1 DEF Merged, Rewritten
  <1>5. /\ after \in Seq(BubbleSet) /\ Len(after) = Len(list)
        /\ \A i \in 1 .. Len(list) :
                 IF list[i].key = "wa" /\ list[i].m = m
                 THEN after[i].key = "wa" /\ after[i].m = m /\ after[i].status = h[i]
                 ELSE after[i] = list[i]
        /\ \A n \in Texts \ {m} : ListSame(list, after, n)
    BY <1>0, <1>3, <1>4, RewriteIs
  <1>6. \A i \in 1 .. Len(list) : after[i].key = list[i].key /\ after[i].m = list[i].m
    BY <1>5
  <1>7. OncePerKey(list, m) => OncePerKey(after, m)
    <2> SUFFICES ASSUME OncePerKey(list, m), NEW i \in 1 .. Len(list), NEW j \in 1 .. Len(list),
                        after[i].m = m, after[j].m = m, after[i].key = after[j].key
                 PROVE  i = j
      BY <1>5 DEF OncePerKey
    <2>1. list[i].m = m /\ list[j].m = m /\ list[i].key = list[j].key
      BY <1>6
    <2> QED BY <2>1 DEF OncePerKey
  <1>8. \A k \in {"temp", "row"} : \A x \in Ticks : On(after, k, m, x) <=> On(list, k, m, x)
    BY <1>5, <1>6 DEF On
  <1>9. ASSUME NEW y PROVE On(after, "wa", m, y) <=> \E x \in Ticks : On(list, "wa", m, x) /\ y = MergeDeliveryStatus(x, s)
    <2>1. ASSUME On(after, "wa", m, y) PROVE \E x \in Ticks : On(list, "wa", m, x) /\ y = MergeDeliveryStatus(x, s)
      <3>1. PICK i \in 1 .. Len(list) : after[i].key = "wa" /\ after[i].m = m /\ after[i].status = y
        BY <1>5, <2>1 DEF On
      <3>2. list[i].key = "wa" /\ list[i].m = m /\ y = h[i]
        BY <1>5, <1>6, <3>1
      <3>3. On(list, "wa", m, list[i].status) /\ y = MergeDeliveryStatus(list[i].status, s)
        BY <1>2, <3>2 DEF On
      <3> QED BY <1>1, <3>3
    <2>2. ASSUME NEW x \in Ticks, On(list, "wa", m, x), y = MergeDeliveryStatus(x, s) PROVE On(after, "wa", m, y)
      <3>1. PICK i \in 1 .. Len(list) : list[i].key = "wa" /\ list[i].m = m /\ list[i].status = x
        BY <2>2 DEF On
      <3>2. after[i].key = "wa" /\ after[i].m = m /\ after[i].status = y
        BY <1>2, <1>5, <2>2, <3>1
      <3> QED BY <1>5, <3>2 DEF On
    <2> QED BY <2>1, <2>2
  <1> QED BY <1>5, <1>7, <1>8, <1>9

\* A bubble is added at the end.
Longer(list, k, m, s) == Append(list, Bubble(k, m, s))

LEMMA AppendedIs ==
    ASSUME NEW list \in Seq(BubbleSet), NEW k \in BubbleKeys, NEW m \in Texts, NEW s \in Ticks, NEW after,
           after = Longer(list, k, m, s), Find(list, k, m) = {}
    PROVE  /\ after \in Seq(BubbleSet)
           /\ \A n \in Texts \ {m} : ListSame(list, after, n)
           /\ OncePerKey(list, m) => OncePerKey(after, m)
           /\ \A q \in BubbleKeys \ {k} : \A x \in Ticks : On(after, q, m, x) <=> On(list, q, m, x)
           /\ \A x : On(after, k, m, x) <=> x = s
  <1>1. PICK b \in BubbleSet : b = Bubble(k, m, s) /\ b.key = k /\ b.m = m /\ b.status = s
    BY BubbleIs
  <1>2. /\ after \in Seq(BubbleSet) /\ Len(list) \in Nat /\ Len(after) = Len(list) + 1
        /\ after[Len(list) + 1] = b /\ \A i \in 1 .. Len(list) : after[i] = list[i]
    BY <1>1 DEF Longer
  <1>3. 1 .. Len(after) = (1 .. Len(list)) \cup {Len(list) + 1} /\ DOMAIN list = 1 .. Len(list)
    BY <1>2
  <1>4. \A i \in 1 .. Len(list) : ~(list[i].key = k /\ list[i].m = m)
    BY <1>3 DEF Find
  <1>5. ASSUME NEW n \in Texts \ {m} PROVE ListSame(list, after, n)
    <2>1. \A q \in BubbleKeys : \A x \in Ticks : On(after, q, n, x) <=> On(list, q, n, x)
      BY <1>1, <1>2, <1>3 DEF On
    <2>2. OncePerKey(list, n) => OncePerKey(after, n)
      BY <1>1, <1>2, <1>3 DEF OncePerKey
    <2> QED BY <2>1, <2>2 DEF ListSame
  <1>6. OncePerKey(list, m) => OncePerKey(after, m)
    BY <1>1, <1>2, <1>3, <1>4 DEF OncePerKey
  <1>7. \A q \in BubbleKeys \ {k} : \A x \in Ticks : On(after, q, m, x) <=> On(list, q, m, x)
    BY <1>1, <1>2, <1>3 DEF On
  <1>8. \A x : On(after, k, m, x) <=> x = s
    BY <1>1, <1>2, <1>3, <1>4 DEF On
  <1> QED BY <1>2, <1>5, <1>6, <1>7, <1>8

\* The temporary bubble gets the id of the message.
LEMMA RenamedIs ==
    ASSUME NEW list \in Seq(BubbleSet), NEW m \in Texts, Find(list, "wa", m) = {}, NEW after,
           after = [i \in DOMAIN list |-> IF i \in Find(list, "temp", m) THEN Bubble("wa", m, "sent") ELSE list[i]]
    PROVE  /\ after \in Seq(BubbleSet)
           /\ \A n \in Texts \ {m} : ListSame(list, after, n)
           /\ OncePerKey(list, m) => OncePerKey(after, m)
           /\ \A x \in Ticks : /\ On(after, "row", m, x) <=> On(list, "row", m, x)
                               /\ ~On(after, "temp", m, x)
                               /\ On(after, "wa", m, x) => x = "sent"
           /\ (\E x \in Ticks : On(list, "temp", m, x)) => On(after, "wa", m, "sent")
  <1>0. "wa" \in BubbleKeys /\ "temp" \in BubbleKeys /\ "sent" \in Ticks
    BY DEF BubbleKeys, Ticks
  <1>1. /\ Len(list) \in Nat /\ DOMAIN list = 1 .. Len(list)
        /\ \A i \in 1 .. Len(list) : list[i] \in BubbleSet /\ list[i].status \in Ticks
    BY ListFields
  <1>2. PICK h : h = [i \in 1 .. Len(list) |-> "sent"]
    OBVIOUS
  <1>3. h \in [1 .. Len(list) -> Ticks] /\ \A i \in 1 .. Len(list) : h[i] = "sent"
    BY <1>0, <1>2
  <1>4. \E k \in {"temp"} : \E j \in {"wa"} : after = Rewritten(list, k, j, m, h)
    BY <1>1, <1>3 DEF Rewritten
  <1>11. PICK from \in BubbleKeys, to \in BubbleKeys : from = "temp" /\ to = "wa" /\ after = Rewritten(list, from, to, m, h)
    BY <1>0, <1>4
  <1>12. /\ after \in Seq(BubbleSet) /\ Len(after) = Len(list)
         /\ \A i \in 1 .. Len(list) :
                 IF list[i].key = from /\ list[i].m = m
                 THEN after[i].key = to /\ after[i].m = m /\ after[i].status = h[i]
                 ELSE after[i] = list[i]
         /\ \A n \in Texts \ {m} : ListSame(list, after, n)
    BY ONLY list \in Seq(BubbleSet), m \in Texts, <1>3, <1>11, RewriteIs
<1>5. /\ after \in Seq(BubbleSet) /\ Len(after) = Len(list)
        /\ \A i \in 1 .. Len(list) :
                 IF list[i].key = "temp" /\ list[i].m = m
                 THEN after[i].key = "wa" /\ after[i].m = m /\ after[i].status = h[i]
                 ELSE after[i] = list[i]
        /\ \A n \in Texts \ {m} : ListSame(list, after, n)
    BY <1>11, <1>12
  <1>6. \A i \in 1 .. Len(list) : ~(list[i].key = "wa" /\ list[i].m = m)
    BY <1>1 DEF Find
  <1>7. OncePerKey(list, m) => OncePerKey(after, m)
    <2> SUFFICES ASSUME OncePerKey(list, m), NEW i \in 1 .. Len(list), NEW j \in 1 .. Len(list),
                        after[i].m = m, after[j].m = m, after[i].key = after[j].key
                 PROVE  i = j
      BY <1>5 DEF OncePerKey
    <2>1. list[i].m = m /\ list[j].m = m /\ list[i].key = list[j].key
      BY <1>5, <1>6
    <2> QED BY <2>1 DEF OncePerKey
  <1>8. ASSUME NEW x \in Ticks
        PROVE  /\ On(after, "row", m, x) <=> On(list, "row", m, x)
               /\ ~On(after, "temp", m, x)
               /\ On(after, "wa", m, x) => x = "sent"
    <2>1. On(after, "row", m, x) <=> On(list, "row", m, x)
      BY <1>5 DEF On
    <2>2. ~On(after, "temp", m, x)
      BY <1>5 DEF On
    <2>3. On(after, "wa", m, x) => x = "sent"
      BY <1>3, <1>5, <1>6 DEF On
    <2> QED BY <2>1, <2>2, <2>3
  <1>9. (\E x \in Ticks : On(list, "temp", m, x)) => On(after, "wa", m, "sent")
    BY <1>3, <1>5 DEF On
  <1>13. after \in Seq(BubbleSet) /\ \A n \in Texts \ {m} : ListSame(list, after, n)
    BY ONLY <1>12
  <1>14. \A x \in Ticks : /\ On(after, "row", m, x) <=> On(list, "row", m, x)
                          /\ ~On(after, "temp", m, x)
                          /\ On(after, "wa", m, x) => x = "sent"
    BY <1>8
  <1> QED BY ONLY <1>7, <1>9, <1>13, <1>14

\* The temporary bubble is marked as failed.
LEMMA FailedIs ==
    ASSUME NEW list \in Seq(BubbleSet), NEW m \in Texts, NEW after,
           after = [i \in DOMAIN list |-> IF i \in Find(list, "temp", m) THEN Bubble("temp", m, "failed") ELSE list[i]]
    PROVE  /\ after \in Seq(BubbleSet)
           /\ \A n \in Texts \ {m} : ListSame(list, after, n)
           /\ OncePerKey(list, m) => OncePerKey(after, m)
           /\ \A x \in Ticks : /\ On(after, "row", m, x) <=> On(list, "row", m, x)
                               /\ On(after, "wa", m, x) <=> On(list, "wa", m, x)
                               /\ On(after, "temp", m, x) => x = "failed" /\ \E y \in Ticks : On(list, "temp", m, y)
  <1>0. "temp" \in BubbleKeys /\ "failed" \in Ticks
    BY DEF BubbleKeys, Ticks
  <1>1. /\ Len(list) \in Nat /\ DOMAIN list = 1 .. Len(list)
        /\ \A i \in 1 .. Len(list) : list[i] \in BubbleSet /\ list[i].status \in Ticks
    BY ListFields
  <1>2. PICK h : h = [i \in 1 .. Len(list) |-> "failed"]
    OBVIOUS
  <1>3. h \in [1 .. Len(list) -> Ticks] /\ \A i \in 1 .. Len(list) : h[i] = "failed"
    BY <1>0, <1>2
  <1>4. \E k \in {"temp"} : \E j \in {"temp"} : after = Rewritten(list, k, j, m, h)
    BY <1>1, <1>3 DEF Rewritten
  <1>11. PICK from \in BubbleKeys, to \in BubbleKeys : from = "temp" /\ to = "temp" /\ after = Rewritten(list, from, to, m, h)
    BY <1>0, <1>4
  <1>12. /\ after \in Seq(BubbleSet) /\ Len(after) = Len(list)
         /\ \A i \in 1 .. Len(list) :
                 IF list[i].key = from /\ list[i].m = m
                 THEN after[i].key = to /\ after[i].m = m /\ after[i].status = h[i]
                 ELSE after[i] = list[i]
         /\ \A n \in Texts \ {m} : ListSame(list, after, n)
    BY ONLY list \in Seq(BubbleSet), m \in Texts, <1>3, <1>11, RewriteIs
<1>5. /\ after \in Seq(BubbleSet) /\ Len(after) = Len(list)
        /\ \A i \in 1 .. Len(list) :
                 IF list[i].key = "temp" /\ list[i].m = m
                 THEN after[i].key = "temp" /\ after[i].m = m /\ after[i].status = h[i]
                 ELSE after[i] = list[i]
        /\ \A n \in Texts \ {m} : ListSame(list, after, n)
    BY <1>11, <1>12
  <1>6. \A i \in 1 .. Len(list) : after[i].key = list[i].key /\ after[i].m = list[i].m
    BY <1>5
  <1>7. OncePerKey(list, m) => OncePerKey(after, m)
    <2> SUFFICES ASSUME OncePerKey(list, m), NEW i \in 1 .. Len(list), NEW j \in 1 .. Len(list),
                        after[i].m = m, after[j].m = m, after[i].key = after[j].key
                 PROVE  i = j
      BY <1>5 DEF OncePerKey
    <2>1. list[i].m = m /\ list[j].m = m /\ list[i].key = list[j].key
      BY <1>6
    <2> QED BY <2>1 DEF OncePerKey
  <1>8. ASSUME NEW x \in Ticks, NEW q, q # "temp" PROVE On(after, q, m, x) <=> On(list, q, m, x)
    <2>1. \A i \in 1 .. Len(list) : after[i].key = q \/ list[i].key = q => after[i] = list[i] \/ list[i].m # m
      BY <1>5, <1>6, <1>8
    <2> QED BY <1>5, <1>6, <2>1 DEF On
  <1>9. ASSUME NEW x \in Ticks, On(after, "temp", m, x) PROVE x = "failed" /\ \E y \in Ticks : On(list, "temp", m, y)
    <2>1. PICK i \in 1 .. Len(list) : after[i].key = "temp" /\ after[i].m = m /\ after[i].status = x
      BY <1>5, <1>9 DEF On
    <2>2. list[i].key = "temp" /\ list[i].m = m /\ x = h[i]
      BY <1>5, <1>6, <2>1
    <2>3. On(list, "temp", m, list[i].status)
      BY <2>2 DEF On
    <2> QED BY <1>1, <1>3, <2>2, <2>3
  <1>13. after \in Seq(BubbleSet) /\ \A n \in Texts \ {m} : ListSame(list, after, n)
    BY ONLY <1>12
  <1>14. \A x \in Ticks : /\ On(after, "row", m, x) <=> On(list, "row", m, x)
                          /\ On(after, "wa", m, x) <=> On(list, "wa", m, x)
    BY ONLY <1>8
  <1>15. \A x \in Ticks : On(after, "temp", m, x) => x = "failed" /\ \E y \in Ticks : On(list, "temp", m, y)
    BY ONLY <1>9
  <1> QED BY ONLY <1>7, <1>13, <1>14, <1>15

-----------------------------------------------------------------------------
(* What a step leaves alone                                                  *)

ServerSame(n) ==
    /\ n \in Typed => call'[n] = call[n]
    /\ stored'[n] = stored[n] /\ reported'[n] = reported[n] /\ (n \in echoed' <=> n \in echoed)
    /\ LateOf(n)' = LateOf(n) /\ (n \in lost => n \in lost')
StreamSame(n) == (Announced(n)' <=> Announced(n)) /\ AcksOf(n)' = AcksOf(n) /\ (FailsFirst(n)' <=> FailsFirst(n))
PageSame(n) == ListSame(cache.list, cache'.list, n) /\ (sending' = n <=> sending = n)

LEMMA RowFrame ==
    ASSUME NEW n \in Texts, ServerSame(n), RowHolds(n), AcksAreKept(n)
    PROVE  RowHolds(n)' /\ AcksAreKept(n)'
  <1>1. RowHolds(n)'
    BY DEF ServerSame, RowHolds
  <1>2. AcksAreKept(n)'
    BY DEF ServerSame, AcksAreKept
  <1> QED BY <1>1, <1>2

LEMMA PageFrame ==
    ASSUME NEW n \in Texts, ServerSame(n), StreamSame(n), PageSame(n), PageHolds(n)
    PROVE  PageHolds(n)'
  <1>1. ThreadHolds(n)'
    <2>1. \A k \in BubbleKeys : \A s \in Ticks : On(cache'.list, k, n, s) <=> On(cache.list, k, n, s)
      BY DEF PageSame, ListSame
    <2>2. \A s \in Ticks : /\ On(cache'.list, "row", n, s) <=> On(cache.list, "row", n, s)
                           /\ On(cache'.list, "temp", n, s) <=> On(cache.list, "temp", n, s)
                           /\ On(cache'.list, "wa", n, s) <=> On(cache.list, "wa", n, s)
      BY <2>1 DEF BubbleKeys
    <2>3. OncePerKey(cache'.list, n)
      BY DEF PageHolds, ThreadHolds, PageSame, ListSame
    <2>4. \A s \in Ticks :
              /\ On(cache'.list, "row", n, s) => n \in Typed /\ call'[n] = "failed" /\ s = "failed"
              /\ On(cache'.list, "temp", n, s) => n \in Typed /\ ((sending' = n /\ s = "pending") \/ (call'[n] = "failed" /\ s = "failed"))
              /\ On(cache'.list, "wa", n, s) => reported'[n] # {} /\ s \in Reportable /\ (n \in Typed => s \in reported'[n])
      BY <2>2 DEF PageHolds, ThreadHolds, ServerSame, PageSame
    <2>5. ~((\E s \in Ticks : On(cache'.list, "row", n, s)) /\ \E s \in Ticks : On(cache'.list, "temp", n, s))
      BY <2>2 DEF PageHolds, ThreadHolds
    <2>6. n \in echoed' => Announced(n)' \/ \E s \in Ticks : On(cache'.list, "wa", n, s)
      BY <2>2 DEF PageHolds, ThreadHolds, ServerSame, StreamSame
    <2> QED BY <2>3, <2>4, <2>5, <2>6 DEF ThreadHolds
  <1>2. Matters(n)' => PageAgrees(n)'
    <2>1. Matters(n)' => Matters(n)
      BY DEF Matters, ServerSame
    <2>2. "wa" \in BubbleKeys /\ \A x \in Reportable : x \in Ticks
      BY DEF BubbleKeys, Reportable, Ticks
    <2>3. \A s \in Ticks : On(cache'.list, "wa", n, s) <=> On(cache.list, "wa", n, s)
      BY <2>2 DEF PageSame, ListSame
    <2>4. ASSUME NEW x \in Reportable, Agrees(n, x) PROVE Agrees(n, x)'
      <3>1. Ending(x, AcksOf(n)', FailsFirst(n)') = Ending(x, AcksOf(n), FailsFirst(n))
        BY DEF StreamSame, Ending
      <3>2. RowStatus(n)' = RowStatus(n) /\ LateOf(n)' = LateOf(n)
        BY DEF RowStatus, ServerSame
      <3>3. Survives(RowStatus(n), LateOf(n)) => Ending(x, AcksOf(n), FailsFirst(n)) = Final(RowStatus(n), LateOf(n))
        BY <2>4 DEF Agrees
      <3> QED BY <3>1, <3>2, <3>3 DEF Agrees
    <2> SUFFICES ASSUME Matters(n)', NEW x \in Reportable,
                        On(cache'.list, "wa", n, x) \/ (x = "sent" /\ ~\E s \in Ticks : On(cache'.list, "wa", n, s))
                 PROVE  Agrees(n, x)'
      BY DEF PageAgrees
    <2>5. On(cache.list, "wa", n, x) \/ (x = "sent" /\ ~\E s \in Ticks : On(cache.list, "wa", n, s))
      BY <2>2, <2>3
    <2>6. PageAgrees(n)
      BY <2>1 DEF PageHolds
    <2>7. Agrees(n, x)
      BY <2>5, <2>6 DEF PageAgrees
    <2> QED BY <2>4, <2>7
  <1> QED BY <1>1, <1>2 DEF PageHolds

\* What the row of a message gives a fetch.
BubblesOf(rows) ==
    {Bubble(IF rows[m].keyed THEN "wa" ELSE "row", m, rows[m].status) : m \in {n \in Texts : rows[n].status # "none"}}
CopiesOf(reports) == {Bubble("wa", m, "read") : m \in {n \in Texts : reports[n] # {}}}

LEMMA BubblesAre ==
    ASSUME NEW b \in BubbleSet, NEW rows, NEW reports
    PROVE  /\ b \in BubblesOf(rows) <=> /\ rows[b.m].status # "none" /\ b.status = rows[b.m].status
                                   /\ b.key = IF rows[b.m].keyed THEN "wa" ELSE "row"
           /\ b \in CopiesOf(reports) <=> reports[b.m] # {} /\ b.key = "wa" /\ b.status = "read"
  <1>1. b.m \in Texts /\ b.key \in BubbleKeys /\ b.status \in Ticks /\ b = Bubble(b.key, b.m, b.status)
    BY BubbleFields
  <1>2. \A k, m, s : Bubble(k, m, s).key = k /\ Bubble(k, m, s).m = m /\ Bubble(k, m, s).status = s
    BY DEF Bubble
  <1>3. b \in BubblesOf(rows) <=> \E m \in Texts : rows[m].status # "none" /\ b = Bubble(IF rows[m].keyed THEN "wa" ELSE "row", m, rows[m].status)
    BY DEF BubblesOf
  <1>4. b \in CopiesOf(reports) <=> \E m \in Texts : reports[m] # {} /\ b = Bubble("wa", m, "read")
    BY DEF CopiesOf
  <1>5. ASSUME b \in BubblesOf(rows)
        PROVE  /\ rows[b.m].status # "none" /\ b.status = rows[b.m].status
               /\ b.key = IF rows[b.m].keyed THEN "wa" ELSE "row"
    <2>1. PICK m \in Texts : rows[m].status # "none" /\ b = Bubble(IF rows[m].keyed THEN "wa" ELSE "row", m, rows[m].status)
      BY <1>3, <1>5
    <2>2. b.m = m /\ b.status = rows[m].status /\ b.key = IF rows[m].keyed THEN "wa" ELSE "row"
      BY <1>2, <2>1
    <2> QED BY <2>1, <2>2
  <1>6. ASSUME b \in CopiesOf(reports) PROVE reports[b.m] # {} /\ b.key = "wa" /\ b.status = "read"
    <2>1. PICK m \in Texts : reports[m] # {} /\ b = Bubble("wa", m, "read")
      BY <1>4, <1>6
    <2>2. b.m = m /\ b.status = "read" /\ b.key = "wa"
      BY <1>2, <2>1
    <2> QED BY <2>1, <2>2
  <1>7. ASSUME rows[b.m].status # "none", b.status = rows[b.m].status, b.key = IF rows[b.m].keyed THEN "wa" ELSE "row"
        PROVE  b \in BubblesOf(rows)
    BY <1>1, <1>3, <1>7
  <1>8. ASSUME reports[b.m] # {}, b.key = "wa", b.status = "read" PROVE b \in CopiesOf(reports)
    BY <1>1, <1>4, <1>8
  <1> QED BY <1>5, <1>6, <1>7, <1>8

LEMMA RowBubbleIs ==
    ASSUME NEW b \in BubbleSet
    PROVE  /\ b \in RowBubbles <=> /\ stored[b.m].status # "none" /\ b.status = stored[b.m].status
                                   /\ b.key = IF stored[b.m].keyed THEN "wa" ELSE "row"
           /\ b \in HistoryBubbles <=> reported[b.m] # {} /\ b.key = "wa" /\ b.status = "read"
  <1>1. RowBubbles = BubblesOf(stored) /\ HistoryBubbles = CopiesOf(reported)
    BY DEF RowBubbles, HistoryBubbles, BubblesOf, CopiesOf
  <1> QED BY <1>1, BubblesAre

LEMMA RowBubbleIsNext ==
    ASSUME NEW b \in BubbleSet
    PROVE  /\ b \in RowBubbles' <=> /\ stored'[b.m].status # "none" /\ b.status = stored'[b.m].status
                                    /\ b.key = IF stored'[b.m].keyed THEN "wa" ELSE "row"
           /\ b \in HistoryBubbles' <=> reported'[b.m] # {} /\ b.key = "wa" /\ b.status = "read"
  <1>1. RowBubbles' = BubblesOf(stored') /\ HistoryBubbles' = CopiesOf(reported')
    BY DEF RowBubbles, HistoryBubbles, BubblesOf, CopiesOf
  <1> QED BY <1>1, BubblesAre

\* A message that nothing has touched is as it was read.
LEMMA ReadFrame ==
    ASSUME NEW n \in Texts, ServerSame(n), sending' = n <=> sending = n, fetch' = fetch, ReadHolds(n), late \subseteq Typed \X Acks,
           late' \subseteq Typed \X Acks
    PROVE  ReadHolds(n)'
  <1>1. n \notin Unsettled'
    <2>1. ASSUME NEW a \in late', a[1] = n PROVE FALSE
      <3>1. a[2] \in Acks /\ a = <<n, a[2]>>
        BY <2>1
      <3>2. a[2] \in LateOf(n)'
        BY <3>1, <2>1 DEF LateOf, Acks
      <3>3. <<n, a[2]>> \in late
        BY <3>2 DEF ServerSame, LateOf
      <3>4. n \in {b[1] : b \in late}
        BY <3>3
      <3> QED BY <3>4 DEF ReadHolds, Unsettled
    <2>2. n \notin {m \in Typed : sending' = m \/ call'[m] \in {"asked", "inserted", "taken"}}
      BY DEF ReadHolds, Unsettled, ServerSame
    <2>3. n \notin {m \in Typed : ~stored'[m].keyed /\ reported'[m] # {}}
      BY DEF ReadHolds, Unsettled, ServerSame
    <2>4. n \notin {a[1] : a \in late'}
      BY <2>1
    <2> QED BY <2>2, <2>3, <2>4 DEF Unsettled
  <1>2. ASSUME NEW b \in BubbleSet, b.m = n
        PROVE  (b \in RowBubbles' <=> b \in RowBubbles) /\ (b \in HistoryBubbles' <=> b \in HistoryBubbles)
    <2>1. stored'[b.m] = stored[b.m] /\ reported'[b.m] = reported[b.m]
      BY <1>2 DEF ServerSame
    <2> QED BY <2>1, RowBubbleIs, RowBubbleIsNext
  <1> QED BY <1>1, <1>2 DEF ReadHolds

-----------------------------------------------------------------------------
(* Events on their way to the page                                           *)

LEMMA EventIs == ASSUME NEW e \in EventSet PROVE e.type \in {"message", "ack"} /\ e.m \in Texts /\ e.status \in Reportable
  BY DEF EventSet

\* What the acknowledgements on their way say.
LEMMA AcksAre ==
    ASSUME NEW n \in Texts, stream \in Seq(EventSet), StreamHolds
    PROVE  /\ AcksOf(n) \subseteq Acks /\ AcksOf(n) \subseteq reported[n]
           /\ FailsFirst(n) => "failed" \in AcksOf(n)
           /\ AcksOf(n) = {"failed"} => FailsFirst(n)
           /\ AcksOf(n) # {} => n \in Typed \cup Phoned
  <1>1. Len(stream) \in Nat /\ \A i \in 1 .. Len(stream) : stream[i] \in EventSet
    OBVIOUS
  <1>2. \A i \in 1 .. Len(stream) : stream[i].status \in Reportable /\ stream[i].m \in Texts
    BY <1>1, EventIs
  <1>3. AcksOf(n) \subseteq Acks /\ AcksOf(n) \subseteq reported[n] /\ (AcksOf(n) # {} => n \in Typed \cup Phoned)
    BY <1>2 DEF AcksOf, StreamHolds, Acks, Reportable
  <1>4. FailsFirst(n) => "failed" \in AcksOf(n)
    BY DEF FailsFirst, AcksOf, Reportable
  <1>5. ASSUME AcksOf(n) = {"failed"} PROVE FailsFirst(n)
    <2>1. PICK T : T = {i \in 1 .. Len(stream) : stream[i].type = "ack" /\ stream[i].m = n}
      OBVIOUS
    <2>2. T \in SUBSET Nat /\ T # {}
      BY <1>1, <1>5, <2>1 DEF AcksOf
    <2>3. PICK i \in T : \A j \in T : i <= j
      BY <2>2, LeastOf
    <2>4. stream[i].type = "ack" /\ stream[i].m = n /\ i \in 1 .. Len(stream)
      BY <2>1
    <2>5. stream[i].status = "failed"
      BY <1>2, <1>5, <2>4 DEF AcksOf
    <2>6. \A j \in 1 .. Len(stream) : stream[j].type = "ack" /\ stream[j].m = n => j >= i
      BY <1>1, <2>1, <2>3, <2>4
    <2> QED BY <2>4, <2>5, <2>6 DEF FailsFirst
  <1> QED BY <1>3, <1>4, <1>5

\* An event is sent.
LEMMA EventSent ==
    ASSUME stream \in Seq(EventSet), NEW e \in EventSet, stream' = Append(stream, e), StreamHolds
    PROVE  /\ stream' \in Seq(EventSet)
           /\ \A n \in Texts \ {e.m} : StreamSame(n)
           /\ e.type = "message" => /\ Announced(e.m)' /\ AcksOf(e.m)' = AcksOf(e.m) /\ (FailsFirst(e.m)' <=> FailsFirst(e.m))
           /\ e.type = "ack" => /\ Announced(e.m)' <=> Announced(e.m)
                                /\ AcksOf(e.m)' = AcksOf(e.m) \cup {e.status}
                                /\ FailsFirst(e.m)' <=> FailsFirst(e.m) \/ (AcksOf(e.m) = {} /\ e.status = "failed")
  <1>1. PICK last \in Nat : last = Len(stream) + 1
    OBVIOUS
  <1>2. /\ stream' \in Seq(EventSet) /\ Len(stream') = last /\ stream'[last] = e
        /\ \A i \in 1 .. Len(stream) : stream'[i] = stream[i] /\ i \in Nat /\ i < last
        /\ 1 .. Len(stream') = (1 .. Len(stream)) \cup {last}
    BY <1>1
  <1>3. \A i \in 1 .. Len(stream) : stream[i].status \in Reportable
    <2>1. \A i \in 1 .. Len(stream) : stream[i] \in EventSet
      OBVIOUS
    <2> QED BY <2>1, EventIs
  <1>4. e.type \in {"message", "ack"} /\ e.m \in Texts /\ e.status \in Reportable
    BY EventIs
  <1>5. ASSUME NEW n \in Texts, n # e.m \/ e.type = "message"
        PROVE  AcksOf(n)' = AcksOf(n) /\ (FailsFirst(n)' <=> FailsFirst(n))
    <2>1. \A i \in 1 .. Len(stream') : stream'[i].type = "ack" /\ stream'[i].m = n => i \in 1 .. Len(stream)
      BY <1>2, <1>5
    <2>2. AcksOf(n)' = AcksOf(n)
      BY <1>2, <2>1 DEF AcksOf
    <2>3. FailsFirst(n)' <=> FailsFirst(n)
      BY <1>2, <2>1 DEF FailsFirst
    <2> QED BY <2>2, <2>3
  <1>6. ASSUME NEW n \in Texts, n # e.m \/ e.type = "ack" PROVE Announced(n)' <=> Announced(n)
    <2>1. \A i \in 1 .. Len(stream') : stream'[i].type = "message" /\ stream'[i].m = n => i \in 1 .. Len(stream)
      BY <1>2, <1>6
    <2> QED BY <1>2, <2>1 DEF Announced
  <1>7. e.type = "message" => Announced(e.m)'
    BY <1>2 DEF Announced
  <1>8. ASSUME e.type = "ack"
        PROVE  /\ AcksOf(e.m)' = AcksOf(e.m) \cup {e.status}
               /\ FailsFirst(e.m)' <=> FailsFirst(e.m) \/ (AcksOf(e.m) = {} /\ e.status = "failed")
    <2>1. AcksOf(e.m)' = AcksOf(e.m) \cup {e.status}
      BY <1>2, <1>4, <1>8 DEF AcksOf
    <2>2. ASSUME FailsFirst(e.m) PROVE FailsFirst(e.m)'
      <3>1. PICK i \in 1 .. Len(stream) :
                /\ stream[i].type = "ack" /\ stream[i].m = e.m /\ stream[i].status = "failed"
                /\ \A j \in 1 .. Len(stream) : stream[j].type = "ack" /\ stream[j].m = e.m => j >= i
        BY <2>2 DEF FailsFirst
      <3>2. \A j \in 1 .. Len(stream') : stream'[j].type = "ack" /\ stream'[j].m = e.m => j >= i
        BY <1>2, <3>1
      <3> QED BY <1>2, <3>1, <3>2 DEF FailsFirst
    <2>3. ASSUME AcksOf(e.m) = {}, e.status = "failed" PROVE FailsFirst(e.m)'
      <3>1. \A j \in 1 .. Len(stream) : ~(stream[j].type = "ack" /\ stream[j].m = e.m)
        BY <1>3, <2>3 DEF AcksOf
      <3>2. \A j \in 1 .. Len(stream') : stream'[j].type = "ack" /\ stream'[j].m = e.m => j >= last
        BY <1>2, <3>1
      <3> QED BY <1>2, <1>8, <2>3, <3>2 DEF FailsFirst
    <2>4. ASSUME FailsFirst(e.m)' PROVE FailsFirst(e.m) \/ (AcksOf(e.m) = {} /\ e.status = "failed")
      <3>1. PICK i \in 1 .. Len(stream') :
                /\ stream'[i].type = "ack" /\ stream'[i].m = e.m /\ stream'[i].status = "failed"
                /\ \A j \in 1 .. Len(stream') : stream'[j].type = "ack" /\ stream'[j].m = e.m => j >= i
        BY <2>4 DEF FailsFirst
      <3>2. CASE i \in 1 .. Len(stream)
        BY <1>2, <3>1, <3>2 DEF FailsFirst
      <3>3. CASE i = last
        <4>1. \A j \in 1 .. Len(stream) : ~(stream[j].type = "ack" /\ stream[j].m = e.m)
          BY <1>2, <3>1, <3>3
        <4> QED BY <1>2, <3>1, <3>3, <4>1 DEF AcksOf
      <3> QED BY <1>2, <3>2, <3>3
    <2> QED BY <2>1, <2>2, <2>3, <2>4
  <1>9. \A n \in Texts \ {e.m} : StreamSame(n)
    BY <1>5, <1>6 DEF StreamSame
  <1>10. e.type = "message" => /\ Announced(e.m)' /\ AcksOf(e.m)' = AcksOf(e.m) /\ (FailsFirst(e.m)' <=> FailsFirst(e.m))
    BY <1>4, <1>5, <1>7
  <1>11. e.type = "ack" => (Announced(e.m)' <=> Announced(e.m))
    BY <1>4, <1>6
  <1> QED BY <1>2, <1>8, <1>9, <1>10, <1>11

\* The first event is heard.
LEMMA EventHeard ==
    ASSUME stream \in Seq(EventSet), stream # <<>>, stream' = Tail(stream), StreamHolds, NEW e, e = Head(stream)
    PROVE  /\ e \in EventSet /\ stream' \in Seq(EventSet)
           /\ \A i \in 1 .. Len(stream') : \E j \in 1 .. Len(stream) : stream'[i] = stream[j]
           /\ \E j \in 1 .. Len(stream) : e = stream[j]
           /\ \A n \in Texts \ {e.m} : StreamSame(n)
           /\ e.type = "message" => AcksOf(e.m)' = AcksOf(e.m) /\ (FailsFirst(e.m)' <=> FailsFirst(e.m))
           /\ e.type = "ack" => /\ Announced(e.m)' <=> Announced(e.m)
                                /\ AcksOf(e.m) = AcksOf(e.m)' \cup {e.status}
                                /\ FailsFirst(e.m) <=> e.status = "failed"
  <1>1. /\ Len(stream) \in Nat \ {0} /\ Len(stream') = Len(stream) - 1 /\ stream' \in Seq(EventSet)
        /\ e = stream[1] /\ e \in EventSet
        /\ \A i \in 1 .. Len(stream') : stream'[i] = stream[i + 1] /\ i + 1 \in 1 .. Len(stream)
    OBVIOUS
  <1>2. \A j \in 1 .. Len(stream) : j = 1 \/ (j - 1 \in 1 .. Len(stream') /\ stream'[j - 1] = stream[j])
    <2> SUFFICES ASSUME NEW j \in 1 .. Len(stream), j # 1 PROVE j - 1 \in 1 .. Len(stream') /\ stream'[j - 1] = stream[j]
      OBVIOUS
    <2>1. PICK i \in Int : i = j - 1
      OBVIOUS
    <2>2. i \in 1 .. Len(stream') /\ i + 1 = j
      BY <1>1, <2>1
    <2> QED BY <1>1, <2>1, <2>2
  <1>3. e.type \in {"message", "ack"} /\ e.m \in Texts /\ e.status \in Reportable
    BY <1>1, EventIs
  <1>4. ASSUME NEW n \in Texts, n # e.m \/ e.type = "message"
        PROVE  AcksOf(n)' = AcksOf(n) /\ (FailsFirst(n)' <=> FailsFirst(n))
    <2>1. ~(stream[1].type = "ack" /\ stream[1].m = n)
      BY <1>1, <1>4
    <2>2. AcksOf(n)' = AcksOf(n)
      <3>1. ASSUME NEW s \in AcksOf(n)' PROVE s \in AcksOf(n)
        BY <1>1 DEF AcksOf
      <3>2. ASSUME NEW s \in AcksOf(n) PROVE s \in AcksOf(n)'
        <4>1. PICK j \in 1 .. Len(stream) : stream[j].type = "ack" /\ stream[j].m = n /\ stream[j].status = s
          BY DEF AcksOf
        <4>2. PICK i \in 1 .. Len(stream') : stream'[i] = stream[j]
          BY <1>2, <2>1, <4>1
        <4>3. s \in Reportable
          BY DEF AcksOf
        <4> QED BY <4>1, <4>2, <4>3 DEF AcksOf
      <3> QED BY <3>1, <3>2
    <2>3. ASSUME FailsFirst(n) PROVE FailsFirst(n)'
      <3>1. PICK i \in 1 .. Len(stream) :
                /\ stream[i].type = "ack" /\ stream[i].m = n /\ stream[i].status = "failed"
                /\ \A j \in 1 .. Len(stream) : stream[j].type = "ack" /\ stream[j].m = n => j >= i
        BY <2>3 DEF FailsFirst
      <3>2. PICK k : k = i - 1
        OBVIOUS
      <3>3. k \in 1 .. Len(stream') /\ stream'[k] = stream[i]
        BY <1>2, <2>1, <3>1, <3>2
      <3>4. ASSUME NEW j \in 1 .. Len(stream'), stream'[j].type = "ack" /\ stream'[j].m = n PROVE j >= k
        <4>1. j + 1 >= i
          BY <1>1, <3>1, <3>4
        <4> QED BY <1>1, <3>2, <4>1
      <3> QED BY <3>1, <3>3, <3>4 DEF FailsFirst
    <2>4. ASSUME FailsFirst(n)' PROVE FailsFirst(n)
      <3>1. PICK i \in 1 .. Len(stream') :
                /\ stream'[i].type = "ack" /\ stream'[i].m = n /\ stream'[i].status = "failed"
                /\ \A j \in 1 .. Len(stream') : stream'[j].type = "ack" /\ stream'[j].m = n => j >= i
        BY <2>4 DEF FailsFirst
      <3>2. ASSUME NEW j \in 1 .. Len(stream), stream[j].type = "ack" /\ stream[j].m = n PROVE j >= i + 1
        <4>1. j - 1 \in 1 .. Len(stream') /\ stream'[j - 1] = stream[j]
          BY <1>2, <2>1, <3>2
        <4>2. j - 1 >= i
          BY <3>1, <3>2, <4>1
        <4> QED BY <1>1, <4>2
      <3>3. i + 1 \in 1 .. Len(stream) /\ stream'[i] = stream[i + 1]
        BY <1>1
      <3> QED BY <3>1, <3>2, <3>3 DEF FailsFirst
    <2> QED BY <2>2, <2>3, <2>4
  <1>5. ASSUME NEW n \in Texts, n # e.m \/ e.type = "ack" PROVE Announced(n)' <=> Announced(n)
    <2>1. ~(stream[1].type = "message" /\ stream[1].m = n)
      BY <1>1, <1>5
    <2> QED BY <1>1, <1>2, <2>1 DEF Announced
  <1>6. ASSUME e.type = "ack"
        PROVE  AcksOf(e.m) = AcksOf(e.m)' \cup {e.status} /\ (FailsFirst(e.m) <=> e.status = "failed")
    <2>1. AcksOf(e.m) = AcksOf(e.m)' \cup {e.status}
      <3>1. ASSUME NEW s \in AcksOf(e.m)' PROVE s \in AcksOf(e.m)
        BY <1>1 DEF AcksOf
      <3>2. e.status \in AcksOf(e.m)
        BY <1>1, <1>3, <1>6 DEF AcksOf
      <3>3. ASSUME NEW s \in AcksOf(e.m), s # e.status PROVE s \in AcksOf(e.m)'
        <4>1. PICK j \in 1 .. Len(stream) : stream[j].type = "ack" /\ stream[j].m = e.m /\ stream[j].status = s
          BY DEF AcksOf
        <4>2. j # 1
          BY <1>1, <3>3, <4>1
        <4>3. PICK i \in 1 .. Len(stream') : stream'[i] = stream[j]
          BY <1>2, <4>2
        <4>4. s \in Reportable
          BY DEF AcksOf
        <4> QED BY <4>1, <4>3, <4>4 DEF AcksOf
      <3> QED BY <3>1, <3>2, <3>3
    <2>2. 1 \in 1 .. Len(stream) /\ \A j \in 1 .. Len(stream) : j >= 1
      BY <1>1
    <2>3. e.status = "failed" => FailsFirst(e.m)
      BY <1>1, <1>6, <2>2 DEF FailsFirst
    <2>4. ASSUME FailsFirst(e.m) PROVE e.status = "failed"
      <3>1. PICK i \in 1 .. Len(stream) :
                /\ stream[i].type = "ack" /\ stream[i].m = e.m /\ stream[i].status = "failed"
                /\ \A j \in 1 .. Len(stream) : stream[j].type = "ack" /\ stream[j].m = e.m => j >= i
        BY <2>4 DEF FailsFirst
      <3>2. 1 >= i
        BY <1>1, <1>6, <2>2, <3>1
      <3>3. i = 1
        BY <2>2, <3>2
      <3> QED BY <1>1, <3>1, <3>3
    <2> QED BY <2>1, <2>3, <2>4
  <1>7. \A n \in Texts \ {e.m} : StreamSame(n)
    BY <1>4, <1>5 DEF StreamSame
  <1>8. e.type = "message" => AcksOf(e.m)' = AcksOf(e.m) /\ (FailsFirst(e.m)' <=> FailsFirst(e.m))
    BY <1>3, <1>4
  <1>9. e.type = "ack" => (Announced(e.m)' <=> Announced(e.m))
    BY <1>3, <1>5
  <1>10. /\ \A i \in 1 .. Len(stream') : \E j \in 1 .. Len(stream) : stream'[i] = stream[j]
         /\ \E j \in 1 .. Len(stream) : e = stream[j]
    BY <1>1
  <1> QED BY <1>1, <1>6, <1>7, <1>8, <1>9, <1>10

-----------------------------------------------------------------------------
(* Steps about one message                                                   *)

LEMMA ShapeIs ==
    ASSUME ChatInv, NEW n \in Texts
    PROVE  /\ stored[n] \in [keyed : BOOLEAN, status : Ticks \cup {"none"}]
           /\ stored[n].keyed \in BOOLEAN /\ stored[n].status \in Ticks \cup {"none"}
           /\ reported[n] \subseteq Reportable /\ LateOf(n) \subseteq Acks
           /\ cache.list \in Seq(BubbleSet) /\ stream \in Seq(EventSet) /\ StreamHolds
           /\ n \in Typed => call[n] \in {"none", "asked", "inserted", "taken", "stored", "failed"}
           /\ RowHolds(n) /\ AcksAreKept(n) /\ (n \notin missed => PageHolds(n))
           /\ late \subseteq Typed \X Acks
  <1>1. stored[n] \in [keyed : BOOLEAN, status : Ticks \cup {"none"}]
    BY DEF ChatInv, ChatShape
  <1>2. cache.list \in Seq(BubbleSet)
    BY DEF ChatInv, ChatShape
  <1>3. LateOf(n) \subseteq Acks /\ late \subseteq Typed \X Acks
    BY DEF ChatInv, ChatShape, LateOf, Acks
  <1> QED BY <1>1, <1>2, <1>3 DEF ChatInv, ChatShape

LEMMA OneMessage ==
    ASSUME ChatInv, ChatShape', StreamHolds', NEW m \in Texts,
           \A n \in Texts \ {m} : ServerSame(n) /\ StreamSame(n) /\ PageSame(n),
           RowHolds(m)', AcksAreKept(m)', missed \subseteq missed', m \notin missed' => PageHolds(m)',
           fetch' = fetch, Touches(m)
    PROVE  ChatInv'
  <1>1. ASSUME NEW n \in Texts PROVE RowHolds(n)' /\ AcksAreKept(n)'
    <2>1. CASE n = m
      BY <2>1
    <2>2. CASE n # m
      BY <2>2, ShapeIs, RowFrame
    <2> QED BY <2>1, <2>2
  <1>2. ASSUME NEW n \in Texts \ missed' PROVE PageHolds(n)'
    <2>1. CASE n = m
      BY <2>1
    <2>2. CASE n # m
      <3>1. n \notin missed
        OBVIOUS
      <3> QED BY <2>2, <3>1, ShapeIs, PageFrame
    <2> QED BY <2>1, <2>2
  <1>3. ASSUME HasRead', NEW n \in Texts \ since' PROVE ReadHolds(n)'
    <2>1. HasRead
      BY <1>3 DEF HasRead
    <2>2. n # m /\ n \notin since
      BY <1>3, <2>1 DEF Touches
    <2>3. ReadHolds(n) /\ ServerSame(n) /\ (sending' = n <=> sending = n)
      BY <2>1, <2>2 DEF ChatInv, PageSame
    <2>4. late \subseteq Typed \X Acks /\ late' \subseteq Typed \X Acks
      BY DEF ChatInv, ChatShape, Acks
    <2> QED BY <2>3, <2>4, ReadFrame
  <1> QED BY <1>1, <1>2, <1>3 DEF ChatInv

\* The server learns more of a message, and the page has what it had.
LEMMA ThreadGrows ==
    ASSUME NEW m \in Texts, cache'.list = cache.list, sending' = sending, ThreadHolds(m),
           m \in Typed /\ call[m] = "failed" => call'[m] = "failed", reported[m] \subseteq reported'[m],
           m \in echoed' => m \in echoed \/ Announced(m)', Announced(m) => Announced(m)'
    PROVE  ThreadHolds(m)'
  <1>1. OncePerKey(cache'.list, m)
    BY DEF ThreadHolds
  <1>2. \A s \in Ticks :
              /\ On(cache'.list, "row", m, s) => m \in Typed /\ call'[m] = "failed" /\ s = "failed"
              /\ On(cache'.list, "temp", m, s) => m \in Typed /\ ((sending' = m /\ s = "pending") \/ (call'[m] = "failed" /\ s = "failed"))
              /\ On(cache'.list, "wa", m, s) => reported'[m] # {} /\ s \in Reportable /\ (m \in Typed => s \in reported'[m])
    BY DEF ThreadHolds
  <1>3. ~((\E s \in Ticks : On(cache'.list, "row", m, s)) /\ \E s \in Ticks : On(cache'.list, "temp", m, s))
    BY DEF ThreadHolds
  <1>4. m \in echoed' => Announced(m)' \/ \E s \in Ticks : On(cache'.list, "wa", m, s)
    BY DEF ThreadHolds
  <1> QED BY <1>1, <1>2, <1>3, <1>4 DEF ThreadHolds

LEMMA AgreesStep ==
    ASSUME NEW m \in Texts, cache'.list = cache.list, PageHolds(m), ThreadHolds(m)', Matters(m)' => Matters(m),
           \A x \in Reportable : Matters(m)' /\ Agrees(m, x) => Agrees(m, x)'
    PROVE  PageHolds(m)'
  <1> SUFFICES ASSUME Matters(m)', NEW x \in Reportable,
                      On(cache'.list, "wa", m, x) \/ (x = "sent" /\ ~\E s \in Ticks : On(cache'.list, "wa", m, s))
               PROVE  Agrees(m, x)'
    BY DEF PageHolds, PageAgrees
  <1>1. Agrees(m, x)
    BY DEF PageHolds, PageAgrees
  <1> QED BY <1>1

\* Nothing the page or the row says of the end has changed.
LEMMA AgreesSame ==
    ASSUME NEW m \in Texts, RowStatus(m)' = RowStatus(m), LateOf(m)' = LateOf(m), AcksOf(m)' = AcksOf(m),
           FailsFirst(m)' <=> FailsFirst(m), NEW x, Agrees(m, x)
    PROVE  Agrees(m, x)'
  <1>1. Ending(x, AcksOf(m)', FailsFirst(m)') = Ending(x, AcksOf(m), FailsFirst(m))
    BY DEF Ending
  <1>2. Survives(RowStatus(m), LateOf(m)) => Ending(x, AcksOf(m), FailsFirst(m)) = Final(RowStatus(m), LateOf(m))
    BY DEF Agrees
  <1> QED BY <1>1, <1>2 DEF Agrees

\* The others, when a step of the server is about one message and sends nothing.
LEMMA SilentOthers ==
    ASSUME ChatInv, NEW m \in Texts, UNCHANGED <<echoed, stream, cache, sending>>,
           \A n \in Typed \ {m} : call'[n] = call[n], \A n \in Texts \ {m} : stored'[n] = stored[n] /\ reported'[n] = reported[n],
           \A n \in Texts \ {m} : LateOf(n)' = LateOf(n), lost \subseteq lost'
    PROVE  \A n \in Texts \ {m} : ServerSame(n) /\ StreamSame(n) /\ PageSame(n)
  <1>1. ASSUME NEW n \in Texts \ {m} PROVE ServerSame(n) /\ StreamSame(n) /\ PageSame(n)
    <2>1. ServerSame(n)
      BY DEF ServerSame
    <2>2. StreamSame(n)
      BY DEF StreamSame, Announced, AcksOf, FailsFirst
    <2>3. PageSame(n)
      BY DEF PageSame, ListSame
    <2> QED BY <2>1, <2>2, <2>3
  <1> QED BY <1>1

LEMMA SilentStream ==
    ASSUME ChatInv, stream' = stream, \A n \in Texts : reported[n] \subseteq reported'[n]
    PROVE  StreamHolds'
  <1>1. \A i \in 1 .. Len(stream) : stream[i] \in EventSet
    BY DEF ChatInv, ChatShape
  <1>2. \A i \in 1 .. Len(stream) : stream[i].m \in Texts
    BY <1>1, EventIs
  <1> QED BY <1>2 DEF ChatInv, StreamHolds

StoredSet == [keyed : BOOLEAN, status : Ticks \cup {"none"}]

LEMMA RowIs ==
    ASSUME NEW k \in BOOLEAN, NEW s \in Ticks \cup {"none"}
    PROVE  Row(k, s) \in StoredSet /\ Row(k, s).keyed = k /\ Row(k, s).status = s
  BY DEF Row, StoredSet

LEMMA RowPut ==
    ASSUME ChatInv, NEW m \in Texts, NEW r \in StoredSet, stored' = [stored EXCEPT ![m] = r]
    PROVE  stored' \in [Texts -> StoredSet] /\ stored'[m] = r /\ \A n \in Texts \ {m} : stored'[n] = stored[n]
  BY DEF ChatInv, ChatShape, StoredSet

LEMMA CallPut ==
    ASSUME ChatInv, NEW m \in Typed, NEW pc \in {"none", "asked", "inserted", "taken", "stored", "failed"},
           call' = [call EXCEPT ![m] = pc]
    PROVE  /\ call' \in [Typed -> {"none", "asked", "inserted", "taken", "stored", "failed"}]
           /\ call'[m] = pc /\ \A n \in Typed \ {m} : call'[n] = call[n]
  BY DEF ChatInv, ChatShape

LEMMA ReportPut ==
    ASSUME ChatInv, NEW m \in Texts, NEW R \in SUBSET Reportable, reported' = [reported EXCEPT ![m] = R]
    PROVE  /\ reported' \in [Texts -> SUBSET Reportable]
           /\ reported'[m] = R /\ \A n \in Texts \ {m} : reported'[n] = reported[n]
  BY DEF ChatInv, ChatShape

\* A step of the server about one message that sends nothing to the page.
LEMMA SilentStep ==
    ASSUME ChatInv, NEW m \in Texts, UNCHANGED <<echoed, socket, gaps, stream, cache, open, fetch, sending, missed>>, Touches(m),
           call' \in [Typed -> {"none", "asked", "inserted", "taken", "stored", "failed"}], \A n \in Typed \ {m} : call'[n] = call[n],
           stored' \in [Texts -> StoredSet], \A n \in Texts \ {m} : stored'[n] = stored[n],
           reported' \in [Texts -> SUBSET Reportable], \A n \in Texts \ {m} : reported'[n] = reported[n],
           late' \subseteq Typed \X Acks, \A n \in Texts \ {m} : LateOf(n)' = LateOf(n),
           lost' \subseteq Texts, lost \subseteq lost', reported[m] \subseteq reported'[m],
           RowHolds(m)', AcksAreKept(m)', m \in Typed /\ call[m] = "failed" => call'[m] = "failed",
           Matters(m)' => Matters(m), \A x \in Reportable : Matters(m)' /\ Agrees(m, x) => Agrees(m, x)'
    PROVE  ChatInv'
  <1>1. ChatShape'
    <2>1. since' \subseteq Texts
      BY DEF Touches, ChatInv, ChatShape
    <2> QED BY <2>1 DEF ChatInv, ChatShape, StoredSet, Acks
  <1>2. \A n \in Texts \ {m} : ServerSame(n) /\ StreamSame(n) /\ PageSame(n)
    BY SilentOthers
  <1>3. \A n \in Texts : reported[n] \subseteq reported'[n]
    OBVIOUS
  <1>4. StreamHolds'
    BY <1>3, SilentStream
  <1>5. ASSUME m \notin missed PROVE PageHolds(m)'
    <2>1. PageHolds(m)
      BY <1>5, ShapeIs
    <2>2. (Announced(m)' <=> Announced(m)) /\ (m \in echoed' <=> m \in echoed) /\ cache'.list = cache.list
      BY DEF Announced
    <2>3. ThreadHolds(m)'
      BY <2>1, <2>2, ThreadGrows DEF PageHolds
    <2> QED BY <2>1, <2>2, <2>3, AgreesStep
  <1>6. missed \subseteq missed' /\ (m \notin missed' => PageHolds(m)')
    BY <1>5
  <1> QED BY <1>1, <1>2, <1>4, <1>6, OneMessage

LEMMA InsertsStep == ASSUME ChatInv, NEW m \in Typed, Inserts(m) PROVE ChatInv'
  <1>1. m \in Texts /\ call[m] = "asked" /\ UNCHANGED <<reported, echoed, late, lost, socket, gaps, stream, cache, open, fetch, sending, missed>>
        /\ Touches(m)
    BY DEF Inserts, Texts
  <1>2. RowHolds(m) /\ AcksAreKept(m)
    BY <1>1, ShapeIs
  <1>3. reported[m] = {} /\ ~stored[m].keyed /\ stored[m].status = "none"
    BY <1>1, <1>2 DEF RowHolds
  <1>4. PICK s \in {"pending", "none"}, pc \in {"inserted", "failed"} :
            /\ (s = "pending" <=> pc = "inserted") /\ call' = [call EXCEPT ![m] = pc]
            /\ \/ s = "pending" /\ stored' = [stored EXCEPT ![m] = Row(FALSE, "pending")]
               \/ s = "none" /\ stored' = stored
    BY DEF Inserts
  <1>5. Row(FALSE, "pending") \in StoredSet /\ Row(FALSE, "pending").keyed = FALSE /\ Row(FALSE, "pending").status = "pending"
    BY RowIs DEF Ticks
  <1>6. /\ call' \in [Typed -> {"none", "asked", "inserted", "taken", "stored", "failed"}] /\ call'[m] = pc
        /\ \A n \in Typed \ {m} : call'[n] = call[n]
    BY <1>4, CallPut
  <1>7. /\ stored' \in [Texts -> StoredSet]
        /\ ~stored'[m].keyed /\ stored'[m].status = s /\ \A n \in Texts \ {m} : stored'[n] = stored[n]
    <2>1. CASE s = "pending" /\ stored' = [stored EXCEPT ![m] = Row(FALSE, "pending")]
      <3>1. stored' \in [Texts -> StoredSet] /\ stored'[m] = Row(FALSE, "pending") /\ \A n \in Texts \ {m} : stored'[n] = stored[n]
        BY <1>1, <1>5, <2>1, RowPut
      <3> QED BY <1>5, <2>1, <3>1
    <2>2. CASE s = "none" /\ stored' = stored
      BY <1>3, <2>2 DEF ChatInv, ChatShape, StoredSet
    <2> QED BY <1>4, <2>1, <2>2
  <1>8. m \notin Phoned /\ m \notin Received
    BY ChatAssumption DEF Texts
  <1>9. RowHolds(m)'
    BY <1>1, <1>2, <1>3, <1>4, <1>6, <1>7, <1>8 DEF RowHolds
  <1>10. \A n \in Texts : LateOf(n)' = LateOf(n)
    BY <1>1 DEF LateOf
  <1>11. AcksAreKept(m)'
    BY <1>1, <1>2, <1>3, <1>7, <1>10 DEF AcksAreKept
  <1>12. \A x \in Reportable : Matters(m)' /\ Agrees(m, x) => Agrees(m, x)'
    <2>1. AcksOf(m)' = AcksOf(m) /\ (FailsFirst(m)' <=> FailsFirst(m)) /\ RowStatus(m)' = RowStatus(m)
      BY <1>1, <1>3, <1>7 DEF AcksOf, FailsFirst, RowStatus
    <2> QED BY <1>1, <1>10, <2>1, AgreesSame
  <1>13. Matters(m)' => Matters(m)
    BY <1>1 DEF Matters
  <1>14. /\ reported' \in [Texts -> SUBSET Reportable] /\ late' \subseteq Typed \X Acks /\ lost' \subseteq Texts
         /\ reported' = reported /\ lost' = lost /\ call[m] # "failed"
    BY <1>1 DEF ChatInv, ChatShape, Acks
  <1> QED BY <1>1, <1>6, <1>7, <1>9, <1>10, <1>11, <1>12, <1>13, <1>14, SilentStep

LEMMA TakesStep == ASSUME ChatInv, NEW m \in Typed, Takes(m) PROVE ChatInv'
  <1>1. m \in Texts /\ call[m] = "inserted" /\ UNCHANGED <<echoed, late, lost, socket, gaps, stream, cache, open, fetch, sending, missed>>
        /\ Touches(m)
    BY DEF Takes, Texts
  <1>2. RowHolds(m) /\ AcksAreKept(m)
    BY <1>1, ShapeIs
  <1>3. reported[m] = {} /\ ~stored[m].keyed /\ stored[m].status = "pending"
    BY <1>1, <1>2 DEF RowHolds
  <1>4. PICK s \in {"pending", "failed"}, pc \in {"taken", "failed"}, R \in SUBSET Reportable :
            /\ call' = [call EXCEPT ![m] = pc]
            /\ \/ s = "pending" /\ pc = "taken" /\ stored' = stored /\ R = {"sent"} /\ reported' = [reported EXCEPT ![m] = R]
               \/ /\ s = "failed" /\ pc = "failed" /\ stored' = [stored EXCEPT ![m] = Row(FALSE, "failed")]
                  /\ R = {} /\ reported' = reported
    <2>1. {"sent"} \in SUBSET Reportable /\ {} \in SUBSET Reportable
      BY DEF Reportable
    <2> QED BY <2>1 DEF Takes
  <1>5. Row(FALSE, "failed") \in StoredSet /\ Row(FALSE, "failed").keyed = FALSE /\ Row(FALSE, "failed").status = "failed"
    BY RowIs DEF Ticks
  <1>6. /\ call' \in [Typed -> {"none", "asked", "inserted", "taken", "stored", "failed"}] /\ call'[m] = pc
        /\ \A n \in Typed \ {m} : call'[n] = call[n]
    BY <1>4, CallPut
  <1>7. /\ stored' \in [Texts -> StoredSet]
        /\ ~stored'[m].keyed /\ stored'[m].status = s /\ \A n \in Texts \ {m} : stored'[n] = stored[n]
    <2>1. CASE s = "failed" /\ stored' = [stored EXCEPT ![m] = Row(FALSE, "failed")]
      <3>1. stored' \in [Texts -> StoredSet] /\ stored'[m] = Row(FALSE, "failed") /\ \A n \in Texts \ {m} : stored'[n] = stored[n]
        BY <1>1, <1>5, <2>1, RowPut
      <3> QED BY <1>5, <2>1, <3>1
    <2>2. CASE s = "pending" /\ stored' = stored
      BY <1>3, <2>2 DEF ChatInv, ChatShape, StoredSet
    <2> QED BY <1>4, <2>1, <2>2
  <1>8. /\ reported' \in [Texts -> SUBSET Reportable] /\ reported'[m] = R /\ \A n \in Texts \ {m} : reported'[n] = reported[n]
    <2>1. CASE reported' = [reported EXCEPT ![m] = R]
      BY <1>1, <2>1, ReportPut
    <2>2. CASE R = {} /\ reported' = reported
      BY <1>3, <2>2 DEF ChatInv, ChatShape
    <2> QED BY <1>4, <2>1, <2>2
  <1>9. m \notin Phoned /\ m \notin Received
    BY ChatAssumption DEF Texts
  <1>10. (pc = "taken" /\ R = {"sent"} /\ s = "pending") \/ (pc = "failed" /\ R = {} /\ s = "failed")
    BY <1>4
  <1>11. m \notin echoed'
    BY <1>1, <1>2, <1>3 DEF RowHolds
  <1>12. RowHolds(m)'
    <2>1. CASE pc = "taken" /\ R = {"sent"} /\ s = "pending"
      BY <1>6, <1>7, <1>8, <1>9, <1>11, <2>1 DEF RowHolds
    <2>2. CASE pc = "failed" /\ R = {} /\ s = "failed"
      BY <1>6, <1>7, <1>8, <1>9, <1>11, <2>2 DEF RowHolds
    <2> QED BY <1>10, <2>1, <2>2
  <1>13. \A n \in Texts : LateOf(n)' = LateOf(n)
    BY <1>1 DEF LateOf
  <1>14. AcksAreKept(m)'
    BY <1>1, <1>2, <1>3, <1>7, <1>8, <1>10, <1>13 DEF AcksAreKept
  <1>15. \A x \in Reportable : Matters(m)' /\ Agrees(m, x) => Agrees(m, x)'
    <2>1. AcksOf(m)' = AcksOf(m) /\ (FailsFirst(m)' <=> FailsFirst(m)) /\ RowStatus(m)' = RowStatus(m)
      BY <1>1, <1>3, <1>7 DEF AcksOf, FailsFirst, RowStatus
    <2> QED BY <1>1, <1>13, <2>1, AgreesSame
  <1>16. Matters(m)' => Matters(m)
    BY <1>1 DEF Matters
  <1>17. /\ late' \subseteq Typed \X Acks /\ lost' \subseteq Texts /\ lost' = lost /\ call[m] # "failed" /\ reported[m] \subseteq reported'[m]
    BY <1>1, <1>3 DEF ChatInv, ChatShape, Acks
  <1> QED BY <1>1, <1>6, <1>7, <1>8, <1>12, <1>13, <1>14, <1>15, <1>16, <1>17, SilentStep

LEMMA StoresStep == ASSUME ChatInv, NEW m \in Typed, Stores(m) PROVE ChatInv'
  <1>1. m \in Texts /\ call[m] = "taken" /\ UNCHANGED <<reported, echoed, late, lost, socket, gaps, stream, cache, open, fetch, sending, missed>>
        /\ Touches(m) /\ call' = [call EXCEPT ![m] = "stored"]
    BY DEF Stores, Texts
  <1>2. RowHolds(m) /\ AcksAreKept(m)
    BY <1>1, ShapeIs
  <1>3. "sent" \in reported[m] /\ ~stored[m].keyed /\ stored[m].status = "pending"
    BY <1>1, <1>2 DEF RowHolds
  <1>4. Row(TRUE, "sent") \in StoredSet /\ Row(TRUE, "sent").keyed = TRUE /\ Row(TRUE, "sent").status = "sent"
    BY RowIs DEF Ticks
  <1>5. /\ call' \in [Typed -> {"none", "asked", "inserted", "taken", "stored", "failed"}] /\ call'[m] = "stored"
        /\ \A n \in Typed \ {m} : call'[n] = call[n]
    BY <1>1, CallPut
  <1>6. /\ stored' \in [Texts -> StoredSet] /\ \A n \in Texts \ {m} : stored'[n] = stored[n]
        /\ \/ stored'[m].keyed /\ stored'[m].status = "sent"
           \/ ~stored'[m].keyed /\ stored'[m].status = "pending"
    <2>1. CASE stored' = [stored EXCEPT ![m] = Row(TRUE, "sent")]
      <3>1. stored' \in [Texts -> StoredSet] /\ stored'[m] = Row(TRUE, "sent") /\ \A n \in Texts \ {m} : stored'[n] = stored[n]
        BY <1>1, <1>4, <2>1, RowPut
      <3> QED BY <1>4, <3>1
    <2>2. CASE stored' = stored
      BY <1>3, <2>2 DEF ChatInv, ChatShape, StoredSet
    <2> QED BY <2>1, <2>2 DEF Stores
  <1>7. m \notin Phoned /\ m \notin Received
    BY ChatAssumption DEF Texts
  <1>8. RowHolds(m)'
    BY <1>1, <1>2, <1>3, <1>5, <1>6, <1>7 DEF RowHolds
  <1>9. \A n \in Texts : LateOf(n)' = LateOf(n)
    BY <1>1 DEF LateOf
  <1>10. AcksAreKept(m)'
    <2>1. MergeDeliveryStatus("sent", "sent") = "sent"
      BY MergeIs DEF Ticks, Reportable
    <2> QED BY <1>1, <1>2, <1>3, <1>6, <1>9, <2>1 DEF AcksAreKept
  <1>11. \A x \in Reportable : Matters(m)' /\ Agrees(m, x) => Agrees(m, x)'
    <2>1. AcksOf(m)' = AcksOf(m) /\ (FailsFirst(m)' <=> FailsFirst(m)) /\ RowStatus(m)' = RowStatus(m)
      BY <1>1, <1>3, <1>6 DEF AcksOf, FailsFirst, RowStatus
    <2> QED BY <1>1, <1>9, <2>1, AgreesSame
  <1>12. Matters(m)' => Matters(m)
    BY <1>1 DEF Matters
  <1>13. /\ reported' \in [Texts -> SUBSET Reportable] /\ late' \subseteq Typed \X Acks /\ lost' \subseteq Texts
         /\ reported' = reported /\ lost' = lost /\ call[m] # "failed"
    BY <1>1 DEF ChatInv, ChatShape, Acks
  <1> QED BY <1>1, <1>5, <1>6, <1>8, <1>9, <1>10, <1>11, <1>12, <1>13, SilentStep

LEMMA PhoneSendsStep == ASSUME ChatInv, NEW m \in Texts, PhoneSends(m) PROVE ChatInv'
  <1>1. m \in Phoned /\ reported[m] = {} /\ UNCHANGED <<call, stored, echoed, late, lost, socket, gaps, stream, cache, open, fetch, sending, missed>>
        /\ Touches(m) /\ reported' = [reported EXCEPT ![m] = {"sent"}]
    BY DEF PhoneSends
  <1>2. RowHolds(m) /\ AcksAreKept(m)
    BY ShapeIs
  <1>3. ~stored[m].keyed /\ m \notin Typed
    BY <1>1, <1>2, ChatAssumption DEF RowHolds
  <1>4. /\ reported' \in [Texts -> SUBSET Reportable] /\ reported'[m] = {"sent"} /\ \A n \in Texts \ {m} : reported'[n] = reported[n]
    <2>1. {"sent"} \in SUBSET Reportable
      BY DEF Reportable
    <2> QED BY <1>1, <2>1, ReportPut
  <1>5. RowHolds(m)'
    BY <1>1, <1>2, <1>3, <1>4, ChatAssumption DEF RowHolds
  <1>6. \A n \in Texts : LateOf(n)' = LateOf(n)
    BY <1>1 DEF LateOf
  <1>7. AcksAreKept(m)'
    BY <1>1, <1>2, <1>3, <1>4, <1>6 DEF AcksAreKept
  <1>8. ~Matters(m)'
    BY <1>1, <1>3 DEF Matters
  <1>9. /\ call' \in [Typed -> {"none", "asked", "inserted", "taken", "stored", "failed"}] /\ stored' \in [Texts -> StoredSet]
        /\ late' \subseteq Typed \X Acks /\ lost' \subseteq Texts /\ lost' = lost /\ reported[m] \subseteq reported'[m]
        /\ call' = call /\ stored' = stored
    BY <1>1 DEF ChatInv, ChatShape, Acks, StoredSet
  <1> QED BY <1>1, <1>3, <1>4, <1>5, <1>6, <1>7, <1>8, <1>9, SilentStep

-----------------------------------------------------------------------------
(* Steps of the server that send an event, and the acknowledgement that is   *)
(* tried once more                                                           *)

LEMMA EmitStep ==
    ASSUME ChatInv, NEW m \in Texts, NEW e \in EventSet, e.m = m, Emit(e),
           UNCHANGED <<call, lost, socket, gaps, cache, open, fetch, sending>>,
           stored' \in [Texts -> StoredSet], \A n \in Texts \ {m} : stored'[n] = stored[n],
           reported' \in [Texts -> SUBSET Reportable], \A n \in Texts \ {m} : reported'[n] = reported[n],
           late' \subseteq Typed \X Acks, \A n \in Texts \ {m} : LateOf(n)' = LateOf(n),
           echoed' \subseteq Texts, \A n \in Texts \ {m} : n \in echoed' <=> n \in echoed,
           m \in echoed' => m \in echoed \/ e.type = "message",
           reported[m] \subseteq reported'[m], e.status \in reported'[m],
           e.type = "message" => e.status = "sent", e.type = "ack" => e.status # "sent" /\ m \in Typed \cup Phoned,
           RowHolds(m)', AcksAreKept(m)',
           m \notin missed /\ PageHolds(m) /\ stream' = Append(stream, e) /\ Matters(m)' => PageAgrees(m)'
    PROVE  ChatInv'
  <1>1. /\ since' \subseteq Texts /\ missed' \subseteq Texts /\ missed \subseteq missed' /\ Touches(m)
        /\ stream' = Append(stream, e) \/ (stream' = stream /\ m \in missed')
        /\ cache.has \/ missed' = Texts
    BY DEF Emit, Touches, ChatInv, ChatShape
  <1>2. stream \in Seq(EventSet) /\ StreamHolds
    BY DEF ChatInv, ChatShape
  <1>3. /\ stream' \in Seq(EventSet) /\ \A n \in Texts \ {m} : StreamSame(n)
        /\ \A i \in 1 .. Len(stream') : stream'[i] = e \/ \E j \in 1 .. Len(stream) : stream'[i] = stream[j]
    <2>1. CASE stream' = Append(stream, e)
      <3>1. stream' \in Seq(EventSet) /\ \A n \in Texts \ {m} : StreamSame(n)
        BY <1>2, <2>1, EventSent
      <3>2. \A i \in 1 .. Len(stream') : stream'[i] = e \/ \E j \in 1 .. Len(stream) : stream'[i] = stream[j]
        BY <1>2, <2>1
      <3> QED BY <3>1, <3>2
    <2>2. CASE stream' = stream
      BY <1>2, <2>2 DEF StreamSame, Announced, AcksOf, FailsFirst
    <2> QED BY <1>1, <2>1, <2>2
  <1>4. ChatShape'
    BY <1>1, <1>3 DEF ChatInv, ChatShape, StoredSet, Acks
  <1>5. StreamHolds'
    <2>1. ASSUME NEW i \in 1 .. Len(stream')
          PROVE  /\ stream'[i].status \in reported'[stream'[i].m]
                 /\ stream'[i].type = "message" => stream'[i].status = "sent"
                 /\ stream'[i].type = "ack" => stream'[i].status # "sent" /\ stream'[i].m \in Typed \cup Phoned
      <3>1. CASE stream'[i] = e
        BY <3>1
      <3>2. CASE \E j \in 1 .. Len(stream) : stream'[i] = stream[j]
        <4>1. PICK j \in 1 .. Len(stream) : stream'[i] = stream[j]
          BY <3>2
        <4>2. stream[j] \in EventSet
          BY <1>2
        <4>3. stream[j].m \in Texts
          BY <4>2, EventIs
        <4>4. reported[stream[j].m] \subseteq reported'[stream[j].m]
          BY <4>3
        <4> QED BY <1>2, <4>1, <4>4 DEF StreamHolds
      <3> QED BY <1>3, <3>1, <3>2
    <2> QED BY <2>1 DEF StreamHolds
  <1>6. \A n \in Texts \ {m} : ServerSame(n) /\ StreamSame(n) /\ PageSame(n)
    <2>1. ASSUME NEW n \in Texts \ {m} PROVE ServerSame(n) /\ StreamSame(n) /\ PageSame(n)
      <3>1. ServerSame(n)
        BY DEF ServerSame
      <3>2. StreamSame(n)
        BY <1>3
      <3>3. PageSame(n)
        BY DEF PageSame, ListSame
      <3> QED BY <3>1, <3>2, <3>3
    <2> QED BY <2>1
  <1>7. ASSUME m \notin missed' PROVE PageHolds(m)'
    <2>1. m \notin missed /\ stream' = Append(stream, e)
      BY <1>1, <1>7
    <2>2. PageHolds(m)
      BY <2>1, ShapeIs
    <2>3. (e.type = "message" => Announced(m)') /\ (e.type = "ack" => (Announced(m)' <=> Announced(m)))
      BY <1>2, <2>1, EventSent
    <2>4. e.type \in {"message", "ack"}
      BY EventIs
    <2>5. m \in echoed' => m \in echoed \/ Announced(m)'
      BY <2>3
    <2>6. Announced(m) => Announced(m)'
      BY <2>3, <2>4
    <2>7. ThreadHolds(m)'
      <3>1. cache'.list = cache.list /\ ThreadHolds(m) /\ (m \in Typed /\ call[m] = "failed" => call'[m] = "failed")
        BY <2>2 DEF PageHolds
      <3> QED BY <2>5, <2>6, <3>1, ThreadGrows
    <2> QED BY <2>1, <2>2, <2>7 DEF PageHolds
  <1> QED BY <1>1, <1>4, <1>5, <1>6, <1>7, OneMessage

LEMMA EventMade ==
    ASSUME NEW k \in {"message", "ack"}, NEW m \in Texts, NEW s \in Reportable
    PROVE  /\ [type |-> k, m |-> m, status |-> s] \in EventSet
           /\ [type |-> k, m |-> m, status |-> s].type = k /\ [type |-> k, m |-> m, status |-> s].m = m
           /\ [type |-> k, m |-> m, status |-> s].status = s
  BY DEF EventSet

\* The page has what it had, and what it will have follows.
LEMMA AgreesOn ==
    ASSUME NEW m \in Texts, cache'.list = cache.list, PageAgrees(m), \A x \in Reportable : Agrees(m, x) => Agrees(m, x)'
    PROVE  PageAgrees(m)'
  BY DEF PageAgrees

LEMMA EchoesStep == ASSUME ChatInv, NEW m \in Texts, Echoes(m) PROVE ChatInv'
  <1>1. m \in Typed \cup Phoned /\ reported[m] # {} /\ echoed' = echoed \cup {m}
        /\ Emit([type |-> "message", m |-> m, status |-> "sent"])
        /\ UNCHANGED <<call, stored, reported, late, lost, socket, gaps, cache, open, fetch, sending>>
    BY DEF Echoes
  <1>2. PICK e \in EventSet : e.type = "message" /\ e.m = m /\ e.status = "sent" /\ Emit(e)
    <2>1. "message" \in {"message", "ack"} /\ "sent" \in Reportable
      BY DEF Reportable
    <2> QED BY <1>1, <2>1, EventMade
  <1>3. RowHolds(m) /\ AcksAreKept(m)
    BY ShapeIs
  <1>4. RowHolds(m)'
    BY <1>1, <1>3 DEF RowHolds
  <1>5. \A n \in Texts : LateOf(n)' = LateOf(n)
    BY <1>1 DEF LateOf
  <1>6. AcksAreKept(m)'
    BY <1>1, <1>3, <1>5 DEF AcksAreKept
  <1>7. ASSUME m \notin missed, PageHolds(m), stream' = Append(stream, e), Matters(m)' PROVE PageAgrees(m)'
    <2>1. AcksOf(m)' = AcksOf(m) /\ (FailsFirst(m)' <=> FailsFirst(m))
      BY <1>2, <1>7, ShapeIs, EventSent
    <2>2. RowStatus(m)' = RowStatus(m) /\ Matters(m)
      BY <1>1, <1>7 DEF RowStatus, Matters
    <2>3. \A x \in Reportable : Agrees(m, x) => Agrees(m, x)'
      BY <1>5, <2>1, <2>2, AgreesSame
    <2> QED BY <1>1, <1>7, <2>2, <2>3, AgreesOn DEF PageHolds
  <1>8. /\ reported' \in [Texts -> SUBSET Reportable] /\ stored' \in [Texts -> StoredSet]
        /\ late' \subseteq Typed \X Acks /\ echoed' \subseteq Texts /\ reported' = reported /\ stored' = stored
    BY <1>1 DEF ChatInv, ChatShape, Acks, StoredSet
  <1>9. e.status \in reported'[m]
    BY <1>1, <1>2, <1>3 DEF RowHolds
  <1> QED BY <1>1, <1>2, <1>4, <1>5, <1>6, <1>7, <1>8, <1>9, EmitStep

LEMMA ReceivesStep == ASSUME ChatInv, NEW m \in Texts, Receives(m) PROVE ChatInv'
  <1>1. m \in Received /\ reported[m] = {} /\ echoed' = echoed \cup {m} /\ reported' = [reported EXCEPT ![m] = {"sent"}]
        /\ Emit([type |-> "message", m |-> m, status |-> "sent"])
        /\ UNCHANGED <<call, late, lost, socket, gaps, cache, open, fetch, sending>>
        /\ (stored' = [stored EXCEPT ![m] = Row(TRUE, "sent")] \/ stored' = stored)
    BY DEF Receives
  <1>2. PICK e \in EventSet : e.type = "message" /\ e.m = m /\ e.status = "sent" /\ Emit(e)
    <2>1. "message" \in {"message", "ack"} /\ "sent" \in Reportable
      BY DEF Reportable
    <2> QED BY <1>1, <2>1, EventMade
  <1>3. RowHolds(m) /\ AcksAreKept(m)
    BY ShapeIs
  <1>4. m \notin Typed /\ m \notin Phoned
    BY <1>1, ChatAssumption
  <1>5. ~stored[m].keyed /\ stored[m].status = "none"
    BY <1>1, <1>3 DEF RowHolds
  <1>6. /\ reported' \in [Texts -> SUBSET Reportable] /\ reported'[m] = {"sent"} /\ \A n \in Texts \ {m} : reported'[n] = reported[n]
    <2>1. {"sent"} \in SUBSET Reportable
      BY DEF Reportable
    <2> QED BY <1>1, <2>1, ReportPut
  <1>7. /\ stored' \in [Texts -> StoredSet] /\ \A n \in Texts \ {m} : stored'[n] = stored[n]
        /\ \/ stored'[m].keyed /\ stored'[m].status = "sent"
           \/ ~stored'[m].keyed /\ stored'[m].status = "none"
    <2>1. Row(TRUE, "sent") \in StoredSet /\ Row(TRUE, "sent").keyed = TRUE /\ Row(TRUE, "sent").status = "sent"
      BY RowIs DEF Ticks
    <2>2. CASE stored' = [stored EXCEPT ![m] = Row(TRUE, "sent")]
      <3>1. stored' \in [Texts -> StoredSet] /\ stored'[m] = Row(TRUE, "sent") /\ \A n \in Texts \ {m} : stored'[n] = stored[n]
        BY <2>1, <2>2, RowPut
      <3> QED BY <2>1, <3>1
    <2>3. CASE stored' = stored
      BY <1>5, <2>3 DEF ChatInv, ChatShape, StoredSet
    <2> QED BY <1>1, <2>2, <2>3
  <1>8. \A n \in Texts : LateOf(n)' = LateOf(n)
    BY <1>1 DEF LateOf
  <1>9. RowHolds(m)'
    BY <1>1, <1>4, <1>6, <1>7 DEF RowHolds
  <1>10. LateOf(m) = {} /\ AcksAreKept(m)'
    BY <1>1, <1>3, <1>4, <1>6, <1>8 DEF AcksAreKept
  <1>11. ASSUME m \notin missed, PageHolds(m), stream' = Append(stream, e), Matters(m)' PROVE PageAgrees(m)'
    <2>1. AcksOf(m)' = AcksOf(m) /\ (FailsFirst(m)' <=> FailsFirst(m))
      BY <1>2, <1>11, ShapeIs, EventSent
    <2>2. AcksOf(m) = {} /\ ~FailsFirst(m)
      BY <1>1, <1>4, ShapeIs, AcksAre
    <2>3. stored'[m].keyed /\ stored'[m].status = "sent"
      BY <1>4, <1>7, <1>11 DEF Matters
    <2>4. ASSUME NEW x \in Reportable,
                 On(cache'.list, "wa", m, x) \/ (x = "sent" /\ ~\E s \in Ticks : On(cache'.list, "wa", m, s))
          PROVE  Agrees(m, x)'
      <3>1. ~On(cache.list, "wa", m, x)
        BY <1>1, <1>11 DEF PageHolds, ThreadHolds, Reportable, Ticks
      <3>2. x = "sent"
        BY <1>1, <2>4, <3>1
      <3>3. RowStatus(m)' = "sent" /\ LateOf(m)' = {}
        BY <1>8, <1>10, <2>3 DEF RowStatus
      <3>4. Ending(x, AcksOf(m)', FailsFirst(m)') = "sent"
        BY <2>1, <2>2, <3>2 DEF Ending
      <3>5. Final(RowStatus(m)', LateOf(m)') = "sent"
        BY <3>3 DEF Final
      <3> QED BY <3>4, <3>5 DEF Agrees
    <2> QED BY <2>4 DEF PageAgrees
  <1>12. /\ late' \subseteq Typed \X Acks /\ echoed' \subseteq Texts
    BY <1>1 DEF ChatInv, ChatShape, Acks
  <1> QED BY <1>1, <1>2, <1>6, <1>7, <1>8, <1>9, <1>10, <1>11, <1>12, EmitStep

\* What a report makes of a tick is one of the two.
LEMMA MergeEither ==
    ASSUME NEW c \in Ticks, NEW s \in Reportable
    PROVE  MergeDeliveryStatus(c, s) = c \/ MergeDeliveryStatus(c, s) = s
  BY DEF MergeDeliveryStatus

\* A tick that an acknowledgement does not change is not changed by it later.
LEMMA MergeStays ==
    ASSUME NEW c \in Ticks, NEW b \in Acks, NEW t, t = MergeDeliveryStatus(c, b)
    PROVE  /\ MergeDeliveryStatus(t, b) = t
           /\ \A a \in Reportable : MergeDeliveryStatus(c, a) = c => MergeDeliveryStatus(t, a) = t
  <1>1. b \in Reportable /\ t \in Reportable
    BY MergeIs DEF Reportable, Acks
  <1>2. t \in Ticks
    BY <1>1 DEF Ticks, Reportable
  <1>3. CASE b = "failed"
    <2>1. CASE c \in {"pending", "sent"}
      <3>1. t = "failed"
        BY <1>1, <1>3, <2>1, MergeIs
      <3> QED BY <1>1, <1>2, <3>1, MergeIs
    <2>2. CASE c \notin {"pending", "sent"}
      <3>1. t = c
        BY <1>1, <1>3, <2>2, MergeIs
      <3> QED BY <3>1
    <2> QED BY <2>1, <2>2
  <1>4. CASE b # "failed" /\ c = "failed"
    <2>1. t = c
      BY <1>1, <1>4, MergeIs
    <2> QED BY <2>1
  <1>5. CASE b = "read" /\ c # "failed"
    <2>1. t = "read"
      BY <1>1, <1>5, MergeIs
    <2>2. ASSUME NEW a \in Reportable PROVE MergeDeliveryStatus("read", a) = "read"
      <3>1. "read" \in Ticks
        BY DEF Ticks
      <3> QED BY <3>1, MergeIs
    <2> QED BY <1>5, <2>1, <2>2, <1>1
  <1>6. CASE b = "delivered" /\ c # "failed"
    <2>1. CASE c = "read"
      <3>1. t = c
        BY <1>1, <1>6, <2>1, MergeIs
      <3> QED BY <3>1
    <2>2. CASE c # "read"
      <3>1. c \in {"pending", "sent", "delivered"}
        BY <1>6, <2>2 DEF Ticks
      <3>2. t = "delivered"
        BY <1>1, <1>6, <3>1, MergeIs
      <3>3. ASSUME NEW a \in Reportable, MergeDeliveryStatus(c, a) = c PROVE MergeDeliveryStatus(t, a) = t
        <4>1. a # "read"
          BY <2>2, <3>3, <1>6, MergeIs
        <4>2. CASE a = "failed"
          BY <1>2, <3>2, <4>2, MergeIs
        <4>3. CASE a # "failed"
          <5>1. a \in {"sent", "delivered"}
            BY <4>1, <4>3 DEF Reportable
          <5> QED BY <1>2, <3>2, <5>1, MergeIs
        <4> QED BY <4>2, <4>3
      <3>4. MergeDeliveryStatus(t, b) = t
        BY <1>1, <1>2, <1>6, <3>2, MergeIs
      <3> QED BY <3>3, <3>4
    <2> QED BY <2>1, <2>2
  <1> QED BY <1>3, <1>4, <1>5, <1>6 DEF Acks

LEMMA AcknowledgesStep == ASSUME ChatInv, NEW m \in Texts, Acknowledges(m) PROVE ChatInv'
  <1>1. m \in Typed \cup Phoned /\ reported[m] # {}
        /\ UNCHANGED <<call, echoed, lost, socket, gaps, cache, open, fetch, sending>>
    BY DEF Acknowledges
  <1>2. PICK s \in Reports \ reported[m] :
          /\ reported' = [reported EXCEPT ![m] = reported[m] \cup {s}]
          /\ IF stored[m].keyed
             THEN /\ stored' = [stored EXCEPT ![m] = Row(TRUE, MergeDeliveryStatus(stored[m].status, s))]
                  /\ UNCHANGED late
             ELSE /\ late' = IF m \in Typed THEN late \cup {<<m, s>>} ELSE late
                  /\ UNCHANGED stored
          /\ Emit([type |-> "ack", m |-> m, status |-> s])
    <2>1. PICK s \in Reports \ reported[m] :
          /\ reported' = [reported EXCEPT ![m] = @ \cup {s}]
          /\ IF stored[m].keyed
             THEN /\ stored' = [stored EXCEPT ![m] = Row(TRUE, MergeDeliveryStatus(stored[m].status, s))]
                  /\ UNCHANGED late
             ELSE /\ late' = IF m \in Typed THEN late \cup {<<m, s>>} ELSE late
                  /\ UNCHANGED stored
          /\ Emit([type |-> "ack", m |-> m, status |-> s])
      BY DEF Acknowledges
    <2> QED BY <2>1
  <1>3. s \in Acks /\ s \in Reportable /\ s # "sent"
    BY ChatAssumption DEF Acks, Reportable
  <1>4. PICK e \in EventSet : e.type = "ack" /\ e.m = m /\ e.status = s /\ Emit(e)
    <2>1. "ack" \in {"message", "ack"}
      OBVIOUS
    <2> QED BY <1>2, <1>3, <2>1, EventMade
  <1>5. RowHolds(m) /\ AcksAreKept(m) /\ reported[m] \subseteq Reportable /\ LateOf(m) \subseteq Acks
    BY ShapeIs
  <1>6. m \notin Received /\ (m \in Typed <=> m \notin Phoned)
    BY <1>1, ChatAssumption
  <1>7. /\ reported' \in [Texts -> SUBSET Reportable] /\ reported'[m] = reported[m] \cup {s}
        /\ \A n \in Texts \ {m} : reported'[n] = reported[n]
    <2>1. reported[m] \cup {s} \in SUBSET Reportable
      BY <1>3, <1>5
    <2> QED BY <1>2, <2>1, ReportPut
  <1>8. "sent" \in reported[m]
    BY <1>1, <1>5 DEF RowHolds
  <1>9. CASE stored[m].keyed
    <2>1. stored[m].status \in reported[m] /\ m \in Typed /\ m \notin Phoned
      BY <1>5, <1>6, <1>9 DEF RowHolds
    <2>2. PICK st : st = stored[m].status
      OBVIOUS
    <2>3. st \in Reportable /\ st \in Ticks
      BY <1>5, <2>1, <2>2 DEF Reportable, Ticks
    <2>4. PICK t : t = MergeDeliveryStatus(st, s)
      OBVIOUS
    <2>5. t \in reported'[m] /\ t \in Ticks
      BY <1>3, <1>7, <2>1, <2>2, <2>3, <2>4, MergeEither DEF Reportable, Ticks
    <2>6. Row(TRUE, t) \in StoredSet /\ Row(TRUE, t).keyed = TRUE /\ Row(TRUE, t).status = t
      BY <2>5, RowIs
    <2>7. stored' = [stored EXCEPT ![m] = Row(TRUE, t)] /\ late' = late
      BY <1>2, <1>9, <2>2, <2>4
    <2>8. stored' \in [Texts -> StoredSet] /\ stored'[m] = Row(TRUE, t) /\ \A n \in Texts \ {m} : stored'[n] = stored[n]
      BY <2>6, <2>7, RowPut
    <2>9. stored'[m].keyed /\ stored'[m].status = t
      BY <2>6, <2>8
    <2>10. call[m] = "stored"
      BY <1>1, <1>5, <1>9, <2>1, ShapeIs DEF RowHolds
    <2>11. RowHolds(m)'
      BY <1>1, <1>6, <1>7, <1>8, <2>1, <2>5, <2>9, <2>10 DEF RowHolds
    <2>12. \A n \in Texts : LateOf(n)' = LateOf(n)
      BY <2>7 DEF LateOf
    <2>13. AcksAreKept(m)'
      <3>1. LateOf(m)' \subseteq reported'[m]
        BY <1>5, <1>7, <2>12 DEF AcksAreKept
      <3>2. ASSUME m \in Typed \ lost, NEW a \in reported'[m], a \notin LateOf(m)' PROVE MergeDeliveryStatus(t, a) = t
        <4>1. MergeDeliveryStatus(t, s) = t /\ \A b \in Reportable : MergeDeliveryStatus(st, b) = st => MergeDeliveryStatus(t, b) = t
          BY <1>3, <2>3, <2>4, MergeStays
        <4>2. CASE a = s
          BY <4>1, <4>2
        <4>3. CASE a # s
          <5>1. a \in reported[m] /\ a \in Reportable /\ a \notin LateOf(m)
            BY <1>5, <1>7, <2>12, <3>2, <4>3
          <5>2. MergeDeliveryStatus(st, a) = st
            BY <1>5, <1>9, <2>2, <3>2, <5>1 DEF AcksAreKept
          <5> QED BY <4>1, <5>1, <5>2
        <4> QED BY <4>2, <4>3
      <3>3. lost' = lost
        BY <1>1
      <3> QED BY <2>9, <3>1, <3>2, <3>3 DEF AcksAreKept
    <2>14. ASSUME m \notin missed, PageHolds(m), stream' = Append(stream, e), Matters(m)' PROVE PageAgrees(m)'
      <3>1. AcksOf(m)' = AcksOf(m) \cup {s} /\ (FailsFirst(m)' <=> FailsFirst(m) \/ (AcksOf(m) = {} /\ s = "failed"))
        BY <1>4, <2>14, ShapeIs, EventSent
      <3>2. /\ AcksOf(m) \subseteq Acks /\ (FailsFirst(m) => "failed" \in AcksOf(m)) /\ (AcksOf(m) = {"failed"} => FailsFirst(m))
        BY ShapeIs, AcksAre
      <3>3. ASSUME NEW x \in Reportable, Agrees(m, x) PROVE Agrees(m, x)'
        <4>1. PICK ff \in BOOLEAN : ff <=> FailsFirst(m)
          OBVIOUS
        <4>2. PICK gg \in BOOLEAN : gg <=> FailsFirst(m)'
          OBVIOUS
        <4>3. Ending(x, AcksOf(m)', gg) = MergeDeliveryStatus(Ending(x, AcksOf(m), ff), s)
          <5>1. PICK B : B = AcksOf(m)'
            OBVIOUS
          <5>2. /\ AcksOf(m) \in SUBSET Acks /\ (ff => "failed" \in AcksOf(m)) /\ (AcksOf(m) = {"failed"} => ff)
                /\ B = AcksOf(m) \cup {s} /\ (gg <=> ff \/ (AcksOf(m) = {} /\ s = "failed"))
            BY <3>1, <3>2, <4>1, <4>2, <5>1
          <5>3. Ending(x, B, gg) = MergeDeliveryStatus(Ending(x, AcksOf(m), ff), s)
            BY <1>3, <5>2, EndingAppends
          <5> QED BY <5>1, <5>3
        <4>4. Ending(x, AcksOf(m), ff) = Ending(x, AcksOf(m), FailsFirst(m))
          BY <4>1 DEF Ending
        <4>5. Ending(x, AcksOf(m)', gg) = Ending(x, AcksOf(m)', FailsFirst(m)')
          BY <4>2 DEF Ending
        <4>6. RowStatus(m) = st /\ RowStatus(m)' = t /\ LateOf(m)' = LateOf(m)
          BY <1>9, <2>2, <2>9, <2>12 DEF RowStatus
        <4>7. ASSUME Survives(t, LateOf(m)) PROVE Ending(x, AcksOf(m)', FailsFirst(m)') = Final(t, LateOf(m))
          <5>1. Survives(st, LateOf(m)) /\ Final(t, LateOf(m)) = MergeDeliveryStatus(Final(st, LateOf(m)), s)
            BY <1>3, <1>5, <2>3, <2>4, <4>7, FinalStored
          <5>2. Ending(x, AcksOf(m), FailsFirst(m)) = Final(st, LateOf(m))
            BY <3>3, <4>6, <5>1 DEF Agrees
          <5> QED BY <4>3, <4>4, <4>5, <5>1, <5>2
        <4> QED BY <4>6, <4>7 DEF Agrees
      <3>4. Matters(m)
        BY <1>1, <2>1, <2>14 DEF Matters
      <3> QED BY <1>1, <2>14, <3>3, <3>4, AgreesOn DEF PageHolds
    <2>15. late' \subseteq Typed \X Acks /\ echoed' \subseteq Texts /\ echoed' = echoed /\ lost' = lost
      BY <1>1, <2>7 DEF ChatInv, ChatShape, Acks
    <2> QED BY <1>1, <1>3, <1>4, <1>7, <2>8, <2>11, <2>12, <2>13, <2>14, <2>15, EmitStep
  <1>10. CASE ~stored[m].keyed
    <2>1. stored' = stored /\ late' = IF m \in Typed THEN late \cup {<<m, s>>} ELSE late
      BY <1>2, <1>10
    <2>2. late \subseteq Typed \X Acks
      BY ShapeIs
    <2>3. late' \subseteq Typed \X Acks
      BY <1>3, <2>1, <2>2
    <2>4. /\ \A n \in Texts \ {m} : LateOf(n)' = LateOf(n)
          /\ LateOf(m)' = IF m \in Typed THEN LateOf(m) \cup {s} ELSE LateOf(m)
      BY <1>3, <2>1 DEF LateOf, Acks
    <2>5. RowHolds(m)'
      BY <1>1, <1>5, <1>6, <1>7, <1>8, <1>10, <2>1 DEF RowHolds
    <2>6. AcksAreKept(m)'
      <3>1. LateOf(m)' \subseteq reported'[m]
        BY <1>5, <1>7, <2>4 DEF AcksAreKept
      <3>2. ASSUME m \in Typed \ lost, NEW a \in reported'[m], a \notin LateOf(m)' PROVE a = "sent"
        BY <1>5, <1>7, <1>10, <2>4, <3>2 DEF AcksAreKept
      <3> QED BY <1>1, <1>10, <2>1, <3>1, <3>2 DEF AcksAreKept
    <2>7. ASSUME m \notin missed, PageHolds(m), stream' = Append(stream, e), Matters(m)' PROVE PageAgrees(m)'
      <3>1. AcksOf(m)' = AcksOf(m) \cup {s} /\ (FailsFirst(m)' <=> FailsFirst(m) \/ (AcksOf(m) = {} /\ s = "failed"))
        BY <1>4, <2>7, ShapeIs, EventSent
      <3>2. /\ AcksOf(m) \subseteq Acks /\ (FailsFirst(m) => "failed" \in AcksOf(m)) /\ (AcksOf(m) = {"failed"} => FailsFirst(m))
        BY ShapeIs, AcksAre
      <3>3. m \in Typed /\ Matters(m)
        BY <1>1, <1>10, <2>1, <2>7 DEF Matters
      <3>4. ASSUME NEW x \in Reportable, Agrees(m, x) PROVE Agrees(m, x)'
        <4>1. PICK ff \in BOOLEAN : ff <=> FailsFirst(m)
          OBVIOUS
        <4>2. PICK gg \in BOOLEAN : gg <=> FailsFirst(m)'
          OBVIOUS
        <4>3. Ending(x, AcksOf(m)', gg) = MergeDeliveryStatus(Ending(x, AcksOf(m), ff), s)
          <5>1. PICK B : B = AcksOf(m)'
            OBVIOUS
          <5>2. /\ AcksOf(m) \in SUBSET Acks /\ (ff => "failed" \in AcksOf(m)) /\ (AcksOf(m) = {"failed"} => ff)
                /\ B = AcksOf(m) \cup {s} /\ (gg <=> ff \/ (AcksOf(m) = {} /\ s = "failed"))
            BY <3>1, <3>2, <4>1, <4>2, <5>1
          <5>3. Ending(x, B, gg) = MergeDeliveryStatus(Ending(x, AcksOf(m), ff), s)
            BY <1>3, <5>2, EndingAppends
          <5> QED BY <5>1, <5>3
        <4>4. Ending(x, AcksOf(m), ff) = Ending(x, AcksOf(m), FailsFirst(m))
          BY <4>1 DEF Ending
        <4>5. Ending(x, AcksOf(m)', gg) = Ending(x, AcksOf(m)', FailsFirst(m)')
          BY <4>2 DEF Ending
        <4>6. RowStatus(m) = "sent" /\ RowStatus(m)' = "sent"
          BY <1>10, <2>1 DEF RowStatus
        <4>7. PICK K : K = LateOf(m)'
          OBVIOUS
        <4>8. K = LateOf(m) \cup {s}
          BY <2>4, <3>3, <4>7
        <4>9. ASSUME Survives("sent", K) PROVE Ending(x, AcksOf(m)', FailsFirst(m)') = Final("sent", K)
          <5>1. Survives("sent", LateOf(m)) /\ Final("sent", K) = MergeDeliveryStatus(Final("sent", LateOf(m)), s)
            BY <1>3, <1>5, <4>8, <4>9, FinalWaits
          <5>2. Ending(x, AcksOf(m), FailsFirst(m)) = Final("sent", LateOf(m))
            BY <3>4, <4>6, <5>1 DEF Agrees
          <5> QED BY <4>3, <4>4, <4>5, <5>1, <5>2
        <4> QED BY <4>6, <4>7, <4>9 DEF Agrees
      <3> QED BY <1>1, <2>7, <3>3, <3>4, AgreesOn DEF PageHolds
    <2>8. echoed' \subseteq Texts /\ echoed' = echoed /\ lost' = lost /\ stored' \in [Texts -> StoredSet]
          /\ \A n \in Texts \ {m} : stored'[n] = stored[n]
      BY <1>1, <2>1 DEF ChatInv, ChatShape, StoredSet
    <2> QED BY <1>1, <1>3, <1>4, <1>7, <2>3, <2>4, <2>5, <2>6, <2>7, <2>8, EmitStep
  <1> QED BY <1>9, <1>10

LEMMA RetriesAckStep == ASSUME ChatInv, RetriesAck PROVE ChatInv'
  <1>1. PICK w \in late :
        /\ late' = late \ {w}
        /\ stored' = IF stored[w[1]].keyed
                     THEN [stored EXCEPT ![w[1]] = Row(TRUE, MergeDeliveryStatus(stored[w[1]].status, w[2]))] ELSE stored
        /\ lost' = IF stored'[w[1]].status = MergeDeliveryStatus("sent", w[2]) THEN lost ELSE lost \cup {w[1]}
        /\ Touches(w[1])
        /\ UNCHANGED <<call, reported, echoed, socket, gaps, stream, cache, open, fetch, sending, missed>>
    BY DEF RetriesAck
  <1>2. late \subseteq Typed \X Acks
    BY DEF ChatInv, ChatShape, Acks
  <1>3. PICK m \in Typed, a \in Acks : w = <<m, a>> /\ w[1] = m /\ w[2] = a
    BY <1>2
  <1>4. m \in Texts /\ m \notin Phoned /\ m \notin Received
    BY ChatAssumption DEF Texts
  <1>5. RowHolds(m) /\ AcksAreKept(m) /\ reported[m] \subseteq Reportable /\ LateOf(m) \subseteq Acks
    BY <1>4, ShapeIs
  <1>6. a \in LateOf(m) /\ a \in reported[m] /\ a \in Reportable
    BY <1>3, <1>5 DEF LateOf, Acks, AcksAreKept, Reportable
  <1>7. /\ \A n \in Texts \ {m} : LateOf(n)' = LateOf(n)
        /\ LateOf(m)' = LateOf(m) \ {a}
    BY <1>1, <1>3 DEF LateOf, Acks
  <1>8. MergeDeliveryStatus("sent", a) = a
    <2>1. "sent" \in Ticks
      BY DEF Ticks
    <2> QED BY <1>6, <2>1, MergeIs DEF Acks
  <1>9. late' \subseteq Typed \X Acks /\ lost' \subseteq Texts /\ lost \subseteq lost'
        /\ call' \in [Typed -> {"none", "asked", "inserted", "taken", "stored", "failed"}] /\ call' = call
        /\ reported' \in [Texts -> SUBSET Reportable] /\ reported' = reported
    BY <1>1, <1>2, <1>3, <1>4 DEF ChatInv, ChatShape
  <1>10. Matters(m)' => Matters(m)
    BY <1>9 DEF Matters
  <1>11. CASE stored[m].keyed
    <2>1. stored[m].status \in reported[m]
      BY <1>5, <1>11 DEF RowHolds
    <2>2. PICK st : st = stored[m].status
      OBVIOUS
    <2>3. st \in Reportable /\ st \in Ticks
      BY <1>5, <2>1, <2>2 DEF Reportable, Ticks
    <2>4. PICK t : t = MergeDeliveryStatus(st, a)
      OBVIOUS
    <2>5. t \in reported[m] /\ t \in Ticks
      BY <1>5, <1>6, <2>1, <2>2, <2>3, <2>4, MergeEither DEF Reportable, Ticks
    <2>6. Row(TRUE, t) \in StoredSet /\ Row(TRUE, t).keyed = TRUE /\ Row(TRUE, t).status = t
      BY <2>5, RowIs
    <2>7. stored' = [stored EXCEPT ![m] = Row(TRUE, t)]
      BY <1>1, <1>3, <1>11, <2>2, <2>4
    <2>8. stored' \in [Texts -> StoredSet] /\ stored'[m] = Row(TRUE, t) /\ \A n \in Texts \ {m} : stored'[n] = stored[n]
      BY <1>4, <2>6, <2>7, RowPut
    <2>9. stored'[m].keyed /\ stored'[m].status = t
      BY <2>6, <2>8
    <2>10. m \notin lost' => t = a
      BY <1>1, <1>3, <1>8, <2>9
    <2>11. call[m] = "stored"
      BY <1>4, <1>5, <1>6, <1>11, ShapeIs DEF RowHolds
    <2>12. RowHolds(m)'
      BY <1>1, <1>4, <1>5, <2>5, <2>9, <2>11 DEF RowHolds
    <2>13. AcksAreKept(m)'
      <3>1. LateOf(m)' \subseteq reported'[m]
        BY <1>5, <1>7, <1>9 DEF AcksAreKept
      <3>2. ASSUME m \notin lost', NEW b \in reported[m], b \notin LateOf(m)' PROVE MergeDeliveryStatus(t, b) = t
        <4>1. MergeDeliveryStatus(t, a) = t /\ \A c \in Reportable : MergeDeliveryStatus(st, c) = st => MergeDeliveryStatus(t, c) = t
          BY <2>3, <2>4, MergeStays
        <4>2. CASE b = a
          BY <4>1, <4>2
        <4>3. CASE b # a
          <5>1. b \in Reportable /\ b \notin LateOf(m) /\ m \notin lost
            BY <1>5, <1>7, <1>9, <3>2, <4>3
          <5>2. MergeDeliveryStatus(st, b) = st
            BY <1>5, <1>11, <2>2, <5>1 DEF AcksAreKept
          <5> QED BY <4>1, <5>1, <5>2
        <4> QED BY <4>2, <4>3
      <3> QED BY <1>9, <2>9, <3>1, <3>2 DEF AcksAreKept
    <2>14. ASSUME NEW x \in Reportable, Matters(m)', Agrees(m, x) PROVE Agrees(m, x)'
      <3>1. t = a
        BY <2>10, <2>14 DEF Matters
      <3>2. PICK K : K = LateOf(m)'
        OBVIOUS
      <3>3. RowStatus(m) = st /\ RowStatus(m)' = a
        BY <1>11, <2>2, <2>9, <3>1 DEF RowStatus
      <3>4. Ending(x, AcksOf(m)', FailsFirst(m)') = Ending(x, AcksOf(m), FailsFirst(m))
        <4>1. AcksOf(m)' = AcksOf(m) /\ (FailsFirst(m)' <=> FailsFirst(m))
          BY <1>1 DEF AcksOf, FailsFirst
        <4> QED BY <4>1 DEF Ending
      <3>5. ASSUME Survives(a, K) PROVE Ending(x, AcksOf(m), FailsFirst(m)) = Final(a, K)
        <4>1. K = LateOf(m) \ {a} /\ MergeDeliveryStatus(st, a) = a
          BY <1>7, <2>4, <3>1, <3>2
        <4>2. Survives(st, LateOf(m)) /\ Final(st, LateOf(m)) = Final(a, K)
          BY <1>5, <1>6, <2>3, <3>5, <4>1, FinalRetries
        <4>3. Ending(x, AcksOf(m), FailsFirst(m)) = Final(st, LateOf(m))
          BY <2>14, <3>3, <4>2 DEF Agrees
        <4> QED BY <4>2, <4>3
      <3> QED BY <3>2, <3>3, <3>4, <3>5 DEF Agrees
    <2> QED BY <1>1, <1>3, <1>4, <1>7, <1>9, <1>10, <2>8, <2>12, <2>13, <2>14, SilentStep
  <1>12. CASE ~stored[m].keyed
    <2>1. stored' = stored
      BY <1>1, <1>3, <1>12
    <2>2. stored[m].status = "pending"
      BY <1>4, <1>5, <1>6, <1>12, ShapeIs DEF RowHolds
    <2>3. m \in lost'
      BY <1>1, <1>3, <1>8, <2>1, <2>2 DEF Acks
    <2>4. RowHolds(m)'
      BY <1>1, <1>5, <2>1 DEF RowHolds
    <2>5. AcksAreKept(m)'
      BY <1>5, <1>7, <1>9, <2>3 DEF AcksAreKept
    <2>6. ~Matters(m)'
      BY <2>3 DEF Matters
    <2>7. stored' \in [Texts -> StoredSet] /\ \A n \in Texts \ {m} : stored'[n] = stored[n]
      BY <2>1 DEF ChatInv, ChatShape, StoredSet
    <2> QED BY <1>1, <1>3, <1>4, <1>7, <1>9, <1>10, <2>4, <2>5, <2>6, <2>7, SilentStep
  <1> QED BY <1>11, <1>12

-----------------------------------------------------------------------------
(* Steps of the page about one message                                       *)

LEMMA WrittenIs ==
    ASSUME NEW list \in Seq(BubbleSet)
    PROVE  Written(list) \in [has : BOOLEAN, stale : BOOLEAN, list : Seq(BubbleSet)] /\ Written(list).has /\ Written(list).list = list
  BY DEF Written

LEMMA FindIs ==
    ASSUME NEW list \in Seq(BubbleSet), NEW k, NEW m
    PROVE  Find(list, k, m) = {} <=> ~\E s \in Ticks : On(list, k, m, s)
  <1>1. DOMAIN list = 1 .. Len(list) /\ \A i \in 1 .. Len(list) : list[i].status \in Ticks
    BY ListFields
  <1>2. ASSUME NEW s \in Ticks, On(list, k, m, s) PROVE Find(list, k, m) # {}
    BY <1>1, <1>2 DEF On, Find
  <1>3. ASSUME NEW i \in Find(list, k, m) PROVE On(list, k, m, list[i].status) /\ list[i].status \in Ticks
    BY <1>1 DEF On, Find
  <1> QED BY <1>2, <1>3

LEMMA SameIs == ASSUME NEW list, NEW n PROVE ListSame(list, list, n)
  BY DEF ListSame

\* Merging or appending is about one message.
LEMMA MergedOrAppended ==
    ASSUME NEW list \in Seq(BubbleSet), NEW k \in BubbleKeys, NEW m \in Texts, NEW s \in Ticks, NEW after,
           after = MergeOrAppend(list, Bubble(k, m, s))
    PROVE  after \in Seq(BubbleSet) /\ \A n \in Texts \ {m} : ListSame(list, after, n)
  <1>1. PICK b : b = Bubble(k, m, s) /\ b.key = k /\ b.m = m /\ b.status = s
    BY BubbleIs
  <1>2. CASE Find(list, k, m) = {}
    <2>1. after = Longer(list, k, m, s)
      BY <1>1, <1>2 DEF MergeOrAppend, Longer
    <2> QED BY ONLY list \in Seq(BubbleSet), k \in BubbleKeys, m \in Texts, s \in Ticks, <1>2, <2>1, AppendedIs
  <1>3. CASE Find(list, k, m) # {}
    <2>1. DOMAIN list = 1 .. Len(list) /\ \A i \in 1 .. Len(list) : list[i].status \in Ticks
      BY ListFields
    <2>2. PICK h : h = [i \in 1 .. Len(list) |-> MergeDeliveryStatus(list[i].status, s)]
      OBVIOUS
    <2>3. ASSUME NEW c \in Ticks PROVE MergeDeliveryStatus(c, s) \in Ticks
      BY DEF MergeDeliveryStatus, Ticks
    <2>4. h \in [1 .. Len(list) -> Ticks]
      BY <2>1, <2>2, <2>3
    <2>5. after = Rewritten(list, k, k, m, h)
      <3>1. after = [i \in DOMAIN list |-> IF i \in Find(list, k, m) THEN Bubble(k, m, MergeDeliveryStatus(list[i].status, s)) ELSE list[i]]
        BY <1>1, <1>3 DEF MergeOrAppend
      <3>2. \A i \in DOMAIN list : h[i] = MergeDeliveryStatus(list[i].status, s)
        BY <2>1, <2>2
      <3> QED BY <3>1, <3>2 DEF Rewritten
    <2> QED BY <2>4, <2>5, RewriteIs
  <1> QED BY <1>2, <1>3

\* The bubbles of one key of a message are removed.
Removed(list, k, m) == Picked(list, DOMAIN list \ Find(list, k, m))

LEMMA RemovedIs ==
    ASSUME NEW list \in Seq(BubbleSet), NEW k, NEW m, NEW after,
           after = Removed(list, k, m)
    PROVE  /\ after \in Seq(BubbleSet)
           /\ \A n : OncePerKey(list, n) => OncePerKey(after, n)
           /\ \A q, n, x : On(after, q, n, x) <=> On(list, q, n, x) /\ ~(q = k /\ n = m)
  <1>0. PICK I : I = DOMAIN list \ Find(list, k, m)
    OBVIOUS
  <1>1. /\ Len(list) \in Nat /\ I \in SUBSET (1 .. Len(list)) /\ after = Picked(list, I)
        /\ \A i \in 1 .. Len(list) : i \in I <=> ~(list[i].key = k /\ list[i].m = m)
    BY <1>0, ListFields DEF Find, Removed
  <1>2. /\ after \in Seq(BubbleSet) /\ Len(after) \in Nat
        /\ \E f \in [1 .. Len(after) -> I] :
                 /\ \A n \in 1 .. Len(after) : after[n] = list[f[n]]
                 /\ \A i, n \in 1 .. Len(after) : i < n => f[i] < f[n]
                 /\ \A i \in I : \E n \in 1 .. Len(after) : f[n] = i
    <2>1. PICK S : S = BubbleSet
      OBVIOUS
    <2>2. list \in Seq(S) /\ I \in SUBSET (1 .. Len(list)) /\ after = Picked(list, I)
      BY <1>1, <2>1
    <2>3. /\ after \in Seq(S) /\ Len(after) \in Nat
          /\ \E f \in [1 .. Len(after) -> I] :
                 /\ \A n \in 1 .. Len(after) : after[n] = list[f[n]]
                 /\ \A i, n \in 1 .. Len(after) : i < n => f[i] < f[n]
                 /\ \A i \in I : \E n \in 1 .. Len(after) : f[n] = i
      BY ONLY <2>2, PickedIs
    <2> QED BY <2>1, <2>3
  <1>3. PICK f \in [1 .. Len(after) -> I] :
                 /\ \A n \in 1 .. Len(after) : after[n] = list[f[n]]
                 /\ \A i, n \in 1 .. Len(after) : i < n => f[i] < f[n]
                 /\ \A i \in I : \E n \in 1 .. Len(after) : f[n] = i
    BY <1>2
  <1>4. \A i \in 1 .. Len(after) : f[i] \in 1 .. Len(list) /\ f[i] \in I
    BY <1>1, <1>3
  <1>5. ASSUME NEW n, OncePerKey(list, n) PROVE OncePerKey(after, n)
    <2> SUFFICES ASSUME NEW i \in 1 .. Len(after), NEW j \in 1 .. Len(after),
                        after[i].m = n, after[j].m = n, after[i].key = after[j].key
                 PROVE  i = j
      BY DEF OncePerKey
    <2>1. list[f[i]].m = n /\ list[f[j]].m = n /\ list[f[i]].key = list[f[j]].key
      BY <1>3
    <2>2. f[i] = f[j]
      BY <1>4, <1>5, <2>1 DEF OncePerKey
    <2>3. f[i] \in Int /\ f[j] \in Int /\ i \in Int /\ j \in Int
      <3>1. f[i] \in 1 .. Len(list) /\ f[j] \in 1 .. Len(list)
        BY <1>4
      <3>2. Len(list) \in Nat /\ Len(after) \in Nat
        BY <1>1, <1>2
      <3> QED BY ONLY <3>1, <3>2, i \in 1 .. Len(after), j \in 1 .. Len(after)
    <2>4. (i < j => f[i] < f[j]) /\ (j < i => f[j] < f[i])
      BY <1>3
    <2> QED BY <2>2, <2>3, <2>4
  <1>6. ASSUME NEW q, NEW n, NEW x PROVE On(after, q, n, x) <=> On(list, q, n, x) /\ ~(q = k /\ n = m)
    <2>1. ASSUME On(after, q, n, x) PROVE On(list, q, n, x) /\ ~(q = k /\ n = m)
      <3>1. PICK i \in 1 .. Len(after) : after[i].key = q /\ after[i].m = n /\ after[i].status = x
        BY <2>1 DEF On
      <3>2. list[f[i]].key = q /\ list[f[i]].m = n /\ list[f[i]].status = x
        BY <1>3, <3>1
      <3> QED BY <1>1, <1>4, <3>2 DEF On
    <2>2. ASSUME On(list, q, n, x), ~(q = k /\ n = m) PROVE On(after, q, n, x)
      <3>1. PICK i \in 1 .. Len(list) : list[i].key = q /\ list[i].m = n /\ list[i].status = x
        BY <2>2 DEF On
      <3>2. i \in I
        BY <1>1, <2>2, <3>1
      <3>3. PICK j \in 1 .. Len(after) : f[j] = i
        BY <1>3, <3>2
      <3>4. after[j] = list[i]
        BY <1>3, <3>3
      <3> QED BY <3>1, <3>4 DEF On
    <2> QED BY <2>1, <2>2
  <1> QED BY <1>2, <1>5, <1>6

\* A step of the page about one message.
LEMMA PageStep ==
    ASSUME ChatInv, NEW m \in Texts, UNCHANGED <<stored, reported, echoed, late, lost, socket, gaps, open, fetch>>, Touches(m),
           call' \in [Typed -> {"none", "asked", "inserted", "taken", "stored", "failed"}], \A n \in Typed \ {m} : call'[n] = call[n],
           cache' \in [has : BOOLEAN, stale : BOOLEAN, list : Seq(BubbleSet)], cache.has => cache'.has,
           ~cache'.has => cache' = cache,
           \A n \in Texts \ {m} : ListSame(cache.list, cache'.list, n),
           sending' \in Typed \cup {Nobody}, \A n \in Texts \ {m} : sending' = n <=> sending = n,
           stream' \in Seq(EventSet), StreamHolds', \A n \in Texts \ {m} : StreamSame(n),
           missed \subseteq missed', missed' \subseteq Texts,
           RowHolds(m)', m \notin missed' => PageHolds(m)'
    PROVE  ChatInv'
  <1>1. since' \subseteq Texts
    BY DEF Touches, ChatInv, ChatShape
  <1>2. cache'.has \/ (cache'.list = <<>> /\ missed' = Texts)
    BY DEF ChatInv, ChatShape
  <1>3. ChatShape'
    BY <1>1, <1>2 DEF ChatInv, ChatShape
  <1>4. AcksAreKept(m)'
    <2>1. LateOf(m)' = LateOf(m) /\ AcksAreKept(m)
      BY ShapeIs DEF LateOf
    <2> QED BY <2>1 DEF AcksAreKept
  <1>5. \A n \in Texts \ {m} : ServerSame(n) /\ StreamSame(n) /\ PageSame(n)
    BY DEF ServerSame, LateOf, PageSame
  <1> QED BY <1>3, <1>4, <1>5, OneMessage

\* What is on its way is not heard by a step of the page that leaves the stream alone.
LEMMA StreamKept ==
    ASSUME ChatInv, stream' = stream, reported' = reported
    PROVE  stream' \in Seq(EventSet) /\ StreamHolds' /\ \A n \in Texts : StreamSame(n)
  BY DEF ChatInv, ChatShape, StreamHolds, StreamSame, Announced, AcksOf, FailsFirst

\* The tick of the page is merged with the acknowledgement at the head of the stream.
LEMMA HearsAck ==
    ASSUME ChatInv, NEW m \in Texts, m \notin missed, UNCHANGED <<call, stored, reported, echoed, late, lost, sending>>,
           NEW e, stream # <<>>, stream' = Tail(stream), e = Head(stream), e.type = "ack", e.m = m,
           Find(cache.list, "wa", m) # {}, cache'.list = Merged(cache.list, m, e.status)
    PROVE  PageHolds(m)'
  <1>1. PageHolds(m) /\ cache.list \in Seq(BubbleSet) /\ StreamHolds /\ stream \in Seq(EventSet)
    BY ShapeIs
  <1>2. PICK s : s = e.status
    OBVIOUS
  <1>3. /\ e \in EventSet /\ \E j \in 1 .. Len(stream) : e = stream[j]
        /\ Announced(m)' <=> Announced(m)
        /\ AcksOf(m) = AcksOf(m)' \cup {s}
        /\ FailsFirst(m) <=> s = "failed"
    BY <1>1, <1>2, EventHeard
  <1>4. s \in Reportable /\ s \in Acks /\ s \in reported[m]
    <2>1. s \in Reportable
      BY <1>2, <1>3, EventIs
    <2>2. s # "sent" /\ s \in reported[m]
      BY <1>1, <1>2, <1>3 DEF StreamHolds
    <2> QED BY <2>1, <2>2 DEF Reportable, Acks
  <1>5. /\ OncePerKey(cache.list, m) => OncePerKey(cache'.list, m)
        /\ \A k \in {"temp", "row"} : \A x \in Ticks : On(cache'.list, k, m, x) <=> On(cache.list, k, m, x)
        /\ \A y : On(cache'.list, "wa", m, y) <=> \E x \in Ticks : On(cache.list, "wa", m, x) /\ y = MergeDeliveryStatus(x, s)
    <2>1. PICK after : after = cache'.list
      OBVIOUS
    <2>2. after = Merged(cache.list, m, s)
      BY <1>2, <2>1
    <2>3. /\ OncePerKey(cache.list, m) => OncePerKey(after, m)
          /\ \A k \in {"temp", "row"} : \A x \in Ticks : On(after, k, m, x) <=> On(cache.list, k, m, x)
          /\ \A y : On(after, "wa", m, y) <=> \E x \in Ticks : On(cache.list, "wa", m, x) /\ y = MergeDeliveryStatus(x, s)
      BY <1>1, <1>4, <2>2, MergedIs
    <2> QED BY <2>1, <2>3
  <1>6. PICK z \in Ticks : On(cache.list, "wa", m, z)
    BY <1>1, FindIs
  <1>7. \A x \in Ticks : On(cache.list, "wa", m, x) => x \in Reportable /\ reported[m] # {} /\ (m \in Typed => x \in reported[m])
    BY <1>1 DEF PageHolds, ThreadHolds
  <1>8. \E y \in Ticks : On(cache'.list, "wa", m, y)
    <2>1. MergeDeliveryStatus(z, s) \in Reportable
      BY <1>4, MergeIs
    <2> QED BY <1>5, <1>6, <2>1 DEF Reportable, Ticks
  <1>9. ThreadHolds(m)'
    <2>1. OncePerKey(cache'.list, m)
      BY <1>1, <1>5 DEF PageHolds, ThreadHolds
    <2>2. ASSUME NEW y \in Ticks
          PROVE  /\ On(cache'.list, "row", m, y) => m \in Typed /\ call'[m] = "failed" /\ y = "failed"
                 /\ On(cache'.list, "temp", m, y) => m \in Typed /\ ((sending' = m /\ y = "pending") \/ (call'[m] = "failed" /\ y = "failed"))
      BY <1>1, <1>5 DEF PageHolds, ThreadHolds
    <2>3. ASSUME NEW y \in Ticks, On(cache'.list, "wa", m, y)
          PROVE  reported'[m] # {} /\ y \in Reportable /\ (m \in Typed => y \in reported'[m])
      <3>1. PICK x \in Ticks : On(cache.list, "wa", m, x) /\ y = MergeDeliveryStatus(x, s)
        BY <1>5, <2>3
      <3>2. (y = x \/ y = s) /\ y \in Reportable
        BY <1>4, <3>1, MergeEither, MergeIs
      <3> QED BY <1>4, <1>7, <3>1, <3>2
    <2>4. ~((\E y \in Ticks : On(cache'.list, "row", m, y)) /\ \E y \in Ticks : On(cache'.list, "temp", m, y))
      BY <1>1, <1>5 DEF PageHolds, ThreadHolds
    <2> QED BY <1>8, <2>1, <2>2, <2>3, <2>4 DEF ThreadHolds
  <1>10. ASSUME Matters(m)' PROVE PageAgrees(m)'
    <2>1. Matters(m)
      BY <1>10 DEF Matters
    <2>2. ASSUME NEW y \in Reportable, On(cache'.list, "wa", m, y) PROVE Agrees(m, y)'
      <3>1. PICK x \in Ticks : On(cache.list, "wa", m, x) /\ y = MergeDeliveryStatus(x, s)
        BY <1>5, <2>2
      <3>2. x \in Reportable
        BY <1>7, <3>1
      <3>3. Agrees(m, x)
        BY <1>1, <2>1, <3>1, <3>2 DEF PageHolds, PageAgrees
      <3>4. PICK ff \in BOOLEAN : ff <=> FailsFirst(m)
        OBVIOUS
      <3>5. PICK gg \in BOOLEAN : gg <=> FailsFirst(m)'
        OBVIOUS
      <3>6. PICK B : B = AcksOf(m)'
        OBVIOUS
      <3>7. gg => "failed" \in B
        BY <3>5, <3>6 DEF FailsFirst, AcksOf, Reportable
      <3>8. AcksOf(m) \subseteq Acks
        BY <1>1, AcksAre
      <3>9. B \in SUBSET Acks /\ AcksOf(m) \in SUBSET Acks /\ AcksOf(m) = B \cup {s} /\ (ff <=> s = "failed")
        BY <1>3, <3>4, <3>6, <3>8
      <3>10. Ending(y, B, gg) = Ending(x, AcksOf(m), ff)
        BY <1>4, <3>1, <3>2, <3>7, <3>9, EndingHears
      <3>11. Ending(y, B, gg) = Ending(y, AcksOf(m)', FailsFirst(m)')
        BY <3>5, <3>6 DEF Ending
      <3>12. Ending(x, AcksOf(m), ff) = Ending(x, AcksOf(m), FailsFirst(m))
        BY <3>4 DEF Ending
      <3>13. RowStatus(m)' = RowStatus(m) /\ LateOf(m)' = LateOf(m)
        BY DEF RowStatus, LateOf
      <3> QED BY <3>3, <3>10, <3>11, <3>12, <3>13 DEF Agrees
    <2> QED BY <1>8, <2>2 DEF PageAgrees
  <1> QED BY <1>9, <1>10 DEF PageHolds

\* The announcement of a message at the head of the stream is merged or appended.
LEMMA HearsMessage ==
    ASSUME ChatInv, NEW m \in Texts, m \notin missed, UNCHANGED <<call, stored, reported, echoed, late, lost, sending>>,
           NEW e, stream # <<>>, stream' = Tail(stream), e = Head(stream), e.type = "message", e.m = m,
           cache'.list = MergeOrAppend(cache.list, Bubble("wa", m, "sent"))
    PROVE  PageHolds(m)'
  <1>1. PageHolds(m) /\ cache.list \in Seq(BubbleSet) /\ StreamHolds /\ stream \in Seq(EventSet) /\ RowHolds(m)
    BY ShapeIs
  <1>2. /\ e \in EventSet /\ \E j \in 1 .. Len(stream) : e = stream[j]
        /\ AcksOf(m)' = AcksOf(m) /\ (FailsFirst(m)' <=> FailsFirst(m))
    BY <1>1, EventHeard
  <1>3. e.status = "sent" /\ "sent" \in reported[m] /\ "sent" \in Reportable /\ "sent" \in Ticks /\ "wa" \in BubbleKeys
    BY <1>1, <1>2 DEF StreamHolds, Reportable, Ticks, BubbleKeys
  <1>4. Bubble("wa", m, "sent").key = "wa" /\ Bubble("wa", m, "sent").m = m /\ Bubble("wa", m, "sent").status = "sent"
    BY <1>3, BubbleIs
  <1>5. PICK after : after = cache'.list
    OBVIOUS
  <1>6. \A x \in Ticks : On(cache.list, "wa", m, x) => x \in Reportable /\ reported[m] # {} /\ (m \in Typed => x \in reported[m])
    BY <1>1 DEF PageHolds, ThreadHolds
  <1>7. /\ OncePerKey(cache.list, m) => OncePerKey(after, m)
        /\ \A k \in {"temp", "row"} : \A x \in Ticks : On(after, k, m, x) <=> On(cache.list, k, m, x)
        /\ \E x \in Ticks : On(after, "wa", m, x)
        /\ \A x \in Ticks : On(after, "wa", m, x) =>
              \/ On(cache.list, "wa", m, x)
              \/ x = "sent" /\ ~\E s \in Ticks : On(cache.list, "wa", m, s)
    <2>1. CASE Find(cache.list, "wa", m) = {}
      <3>1. after = Longer(cache.list, "wa", m, "sent")
        BY <1>4, <1>5, <2>1 DEF MergeOrAppend, Longer
      <3>2. /\ OncePerKey(cache.list, m) => OncePerKey(after, m)
            /\ \A q \in BubbleKeys \ {"wa"} : \A x \in Ticks : On(after, q, m, x) <=> On(cache.list, q, m, x)
            /\ \A x : On(after, "wa", m, x) <=> x = "sent"
        BY <1>1, <1>3, <2>1, <3>1, AppendedIs
      <3>3. ~\E s \in Ticks : On(cache.list, "wa", m, s)
        BY <1>1, <2>1, FindIs
      <3> QED BY <1>3, <3>2, <3>3 DEF BubbleKeys
    <2>2. CASE Find(cache.list, "wa", m) # {}
      <3>1. after = Merged(cache.list, m, "sent")
        BY <1>4, <1>5, <2>2 DEF MergeOrAppend, Merged
      <3>2. /\ OncePerKey(cache.list, m) => OncePerKey(after, m)
            /\ \A k \in {"temp", "row"} : \A x \in Ticks : On(after, k, m, x) <=> On(cache.list, k, m, x)
            /\ \A y : On(after, "wa", m, y) <=> \E x \in Ticks : On(cache.list, "wa", m, x) /\ y = MergeDeliveryStatus(x, "sent")
        BY <1>1, <1>3, <3>1, MergedIs
      <3>3. \A x \in Ticks : On(cache.list, "wa", m, x) => MergeDeliveryStatus(x, "sent") = x
        BY <1>3, <1>6, MergeIs DEF Reportable
      <3>4. \E x \in Ticks : On(cache.list, "wa", m, x)
        BY <1>1, <2>2, FindIs
      <3> QED BY <3>2, <3>3, <3>4
    <2> QED BY <2>1, <2>2
  <1>8. ThreadHolds(m)'
    <2>1. OncePerKey(cache'.list, m)
      BY <1>1, <1>5, <1>7 DEF PageHolds, ThreadHolds
    <2>2. ASSUME NEW y \in Ticks
          PROVE  /\ On(cache'.list, "row", m, y) => m \in Typed /\ call'[m] = "failed" /\ y = "failed"
                 /\ On(cache'.list, "temp", m, y) => m \in Typed /\ ((sending' = m /\ y = "pending") \/ (call'[m] = "failed" /\ y = "failed"))
      BY <1>1, <1>5, <1>7 DEF PageHolds, ThreadHolds
    <2>3. ASSUME NEW y \in Ticks, On(cache'.list, "wa", m, y)
          PROVE  reported'[m] # {} /\ y \in Reportable /\ (m \in Typed => y \in reported'[m])
      BY <1>3, <1>5, <1>6, <1>7, <2>3
    <2>4. ~((\E y \in Ticks : On(cache'.list, "row", m, y)) /\ \E y \in Ticks : On(cache'.list, "temp", m, y))
      BY <1>1, <1>5, <1>7 DEF PageHolds, ThreadHolds
    <2>5. \E y \in Ticks : On(cache'.list, "wa", m, y)
      BY <1>5, <1>7
    <2> QED BY <2>1, <2>2, <2>3, <2>4, <2>5 DEF ThreadHolds
  <1>9. ASSUME Matters(m)' PROVE PageAgrees(m)'
    <2>1. PageAgrees(m)
      BY <1>1, <1>9 DEF Matters, PageHolds
    <2>2. RowStatus(m)' = RowStatus(m) /\ LateOf(m)' = LateOf(m)
      BY DEF RowStatus, LateOf
    <2>3. ASSUME NEW y \in Reportable, On(cache'.list, "wa", m, y) PROVE Agrees(m, y)'
      <3>1. y \in Ticks
        BY DEF Reportable, Ticks
      <3>2. Agrees(m, y)
        BY <1>5, <1>7, <2>1, <2>3, <3>1 DEF PageAgrees
      <3> QED BY <1>2, <2>2, <3>2, AgreesSame
    <2> QED BY <1>5, <1>7, <2>3 DEF PageAgrees
  <1> QED BY <1>8, <1>9 DEF PageHolds

LEMMA HearsStep == ASSUME ChatInv, Hears PROVE ChatInv'
  <1>1. PICK e : e = Head(stream)
    OBVIOUS
  <1>2. /\ stream # <<>> /\ stream' = Tail(stream) /\ Touches(e.m)
        /\ UNCHANGED <<call, stored, reported, echoed, late, lost, socket, gaps, open, fetch, sending>>
    BY <1>1 DEF Hears, serverVars
  <1>3. stream \in Seq(EventSet) /\ StreamHolds /\ cache.list \in Seq(BubbleSet)
        /\ cache \in [has : BOOLEAN, stale : BOOLEAN, list : Seq(BubbleSet)]
    BY DEF ChatInv, ChatShape
  <1>4. /\ e \in EventSet /\ stream' \in Seq(EventSet)
        /\ \A i \in 1 .. Len(stream') : \E j \in 1 .. Len(stream) : stream'[i] = stream[j]
        /\ \E j \in 1 .. Len(stream) : e = stream[j]
        /\ \A n \in Texts \ {e.m} : StreamSame(n)
    BY <1>1, <1>2, <1>3, EventHeard
  <1>5. PICK m \in Texts, s \in Reportable : m = e.m /\ s = e.status /\ (e.type = "message" => s = "sent") /\ e.type \in {"message", "ack"}
    <2>1. e.m \in Texts /\ e.status \in Reportable /\ e.type \in {"message", "ack"}
      BY <1>4, EventIs
    <2>2. e.type = "message" => e.status = "sent"
      BY <1>3, <1>4 DEF StreamHolds
    <2> QED BY <2>1, <2>2
  <1>6. StreamHolds'
    BY <1>2, <1>3, <1>4 DEF StreamHolds
  <1>7. "wa" \in BubbleKeys /\ s \in Ticks
    BY DEF BubbleKeys, Ticks, Reportable
  <1>8. /\ cache' \in [has : BOOLEAN, stale : BOOLEAN, list : Seq(BubbleSet)] /\ (cache.has => cache'.has) /\ (~cache'.has => cache' = cache)
        /\ \A n \in Texts \ {m} : ListSame(cache.list, cache'.list, n)
        /\ missed \subseteq missed' /\ missed' \subseteq Texts
        /\ m \notin missed' => PageHolds(m)'
    <2>0. missed \subseteq Texts /\ (cache.has \/ missed = Texts)
      BY DEF ChatInv, ChatShape
    <2>1. CASE e.type = "message" /\ ~cache.has
      <3>1. cache' = cache /\ missed' = missed
        BY <1>1, <2>1 DEF Hears, Appended
      <3> QED BY <1>3, <2>0, <2>1, <3>1, SameIs
    <2>2. CASE e.type = "message" /\ cache.has
      <3>1. cache' = Written(MergeOrAppend(cache.list, Bubble("wa", m, s))) /\ missed' = missed
        BY <1>1, <1>5, <2>2 DEF Hears, Appended
      <3>2. PICK after : after = MergeOrAppend(cache.list, Bubble("wa", m, s))
        OBVIOUS
      <3>3. after \in Seq(BubbleSet) /\ \A n \in Texts \ {m} : ListSame(cache.list, after, n)
        BY <1>3, <1>7, <3>2, MergedOrAppended
      <3>4. cache' \in [has : BOOLEAN, stale : BOOLEAN, list : Seq(BubbleSet)] /\ cache'.has /\ cache'.list = after
        BY <3>1, <3>2, <3>3, WrittenIs
      <3>5. ASSUME m \notin missed PROVE PageHolds(m)'
        <4>1. cache'.list = MergeOrAppend(cache.list, Bubble("wa", m, "sent"))
          BY <1>5, <2>2, <3>2, <3>4
        <4> QED BY <1>1, <1>2, <1>5, <2>2, <3>5, <4>1, HearsMessage
      <3> QED BY <2>0, <3>1, <3>3, <3>4, <3>5
    <2>3. CASE e.type = "ack" /\ Find(cache.list, "wa", m) = {}
      <3>1. cache' = cache /\ missed' = missed \cup {m}
        BY <1>1, <1>5, <2>3 DEF Hears
      <3> QED BY <1>3, <2>0, <3>1, SameIs
    <2>4. CASE e.type = "ack" /\ Find(cache.list, "wa", m) # {}
      <3>1. cache' = Written(Merged(cache.list, m, s)) /\ missed' = missed
        BY <1>1, <1>5, <2>4 DEF Hears, Merged
      <3>2. PICK after : after = Merged(cache.list, m, s)
        OBVIOUS
      <3>3. after \in Seq(BubbleSet) /\ \A n \in Texts \ {m} : ListSame(cache.list, after, n)
        BY <1>3, <3>2, MergedIs
      <3>4. cache' \in [has : BOOLEAN, stale : BOOLEAN, list : Seq(BubbleSet)] /\ cache'.has /\ cache'.list = after
        BY <3>1, <3>2, <3>3, WrittenIs
      <3>5. ASSUME m \notin missed PROVE PageHolds(m)'
        <4>1. cache'.list = Merged(cache.list, m, e.status)
          BY <1>5, <3>2, <3>4
        <4> QED BY <1>1, <1>2, <1>5, <2>4, <3>5, <4>1, HearsAck
      <3> QED BY <2>0, <3>1, <3>3, <3>4, <3>5
    <2> QED BY <1>5, <2>1, <2>2, <2>3, <2>4
  <1>9. /\ call' \in [Typed -> {"none", "asked", "inserted", "taken", "stored", "failed"}] /\ sending' \in Typed \cup {Nobody}
        /\ call' = call /\ sending' = sending
    BY <1>2 DEF ChatInv, ChatShape
  <1>10. RowHolds(m)'
    BY <1>2, ShapeIs DEF RowHolds
  <1> QED BY <1>2, <1>4, <1>5, <1>6, <1>8, <1>9, <1>10, PageStep

LEMMA PageSendsStep == ASSUME ChatInv, NEW m \in Typed, PageSends(m) PROVE ChatInv'
  <1>1. /\ m \in Texts /\ sending = Nobody /\ call[m] = "none" /\ sending' = m /\ call' = [call EXCEPT ![m] = "asked"]
        /\ cache' = Appended(Bubble("temp", m, "pending")) /\ Touches(m)
        /\ UNCHANGED <<stored, reported, echoed, late, lost, socket, gaps, stream, open, fetch, missed>>
    BY DEF PageSends, Texts
  <1>2. /\ cache.list \in Seq(BubbleSet) /\ cache \in [has : BOOLEAN, stale : BOOLEAN, list : Seq(BubbleSet)]
        /\ missed \subseteq Texts /\ (cache.has \/ missed = Texts) /\ RowHolds(m)
    BY <1>1, ShapeIs DEF ChatInv, ChatShape
  <1>3. "temp" \in BubbleKeys /\ "pending" \in Ticks
    BY DEF BubbleKeys, Ticks
  <1>4. Bubble("temp", m, "pending").key = "temp" /\ Bubble("temp", m, "pending").m = m
    BY <1>1, <1>3, BubbleIs
  <1>5. /\ call' \in [Typed -> {"none", "asked", "inserted", "taken", "stored", "failed"}]
        /\ call'[m] = "asked" /\ \A n \in Typed \ {m} : call'[n] = call[n]
    BY <1>1, CallPut
  <1>6. /\ cache' \in [has : BOOLEAN, stale : BOOLEAN, list : Seq(BubbleSet)] /\ (cache.has => cache'.has) /\ (~cache'.has => cache' = cache)
        /\ \A n \in Texts \ {m} : ListSame(cache.list, cache'.list, n)
        /\ cache.has => cache'.list = MergeOrAppend(cache.list, Bubble("temp", m, "pending"))
    <2>1. CASE ~cache.has
      <3>1. cache' = cache
        BY <1>1, <2>1 DEF Appended
      <3> QED BY <1>2, <2>1, <3>1, SameIs
    <2>2. CASE cache.has
      <3>1. cache' = Written(MergeOrAppend(cache.list, Bubble("temp", m, "pending")))
        BY <1>1, <2>2 DEF Appended
      <3>2. PICK after : after = MergeOrAppend(cache.list, Bubble("temp", m, "pending"))
        OBVIOUS
      <3>3. after \in Seq(BubbleSet) /\ \A n \in Texts \ {m} : ListSame(cache.list, after, n)
        BY <1>1, <1>2, <1>3, <3>2, MergedOrAppended
      <3>4. cache' \in [has : BOOLEAN, stale : BOOLEAN, list : Seq(BubbleSet)] /\ cache'.has /\ cache'.list = after
        BY <3>1, <3>2, <3>3, WrittenIs
      <3> QED BY <3>2, <3>3, <3>4
    <2> QED BY <2>1, <2>2
  <1>7. RowHolds(m)'
    BY <1>1, <1>2, <1>5 DEF RowHolds
  <1>8. ASSUME m \notin missed PROVE PageHolds(m)'
    <2>1. PageHolds(m) /\ cache.has
      BY <1>1, <1>2, <1>8, ShapeIs
    <2>2. m # Nobody
      BY <1>1, ChatAssumption
    <2>3. \A x \in Ticks : ~On(cache.list, "temp", m, x) /\ ~On(cache.list, "row", m, x)
      BY <1>1, <2>1, <2>2 DEF PageHolds, ThreadHolds
    <2>4. PICK after : after = cache'.list
      OBVIOUS
    <2>5. Find(cache.list, "temp", m) = {}
      BY <1>2, <2>3, FindIs
    <2>6. after = Longer(cache.list, "temp", m, "pending")
      BY <1>4, <1>6, <2>1, <2>4, <2>5 DEF MergeOrAppend, Longer
    <2>7. /\ OncePerKey(cache.list, m) => OncePerKey(after, m)
          /\ \A q \in BubbleKeys \ {"temp"} : \A x \in Ticks : On(after, q, m, x) <=> On(cache.list, q, m, x)
          /\ \A x : On(after, "temp", m, x) <=> x = "pending"
      BY <1>1, <1>2, <1>3, <2>5, <2>6, AppendedIs
    <2>8. \A x \in Ticks : /\ On(cache'.list, "row", m, x) <=> On(cache.list, "row", m, x)
                           /\ On(cache'.list, "wa", m, x) <=> On(cache.list, "wa", m, x)
      BY <2>4, <2>7 DEF BubbleKeys
    <2>9. ThreadHolds(m)'
      <3>1. OncePerKey(cache'.list, m)
        BY <2>1, <2>4, <2>7 DEF PageHolds, ThreadHolds
      <3>2. \A x \in Ticks : ~On(cache'.list, "row", m, x) /\ (On(cache'.list, "temp", m, x) => x = "pending")
        BY <2>3, <2>4, <2>7, <2>8
      <3>3. \A x \in Ticks : On(cache'.list, "wa", m, x) => reported'[m] # {} /\ x \in Reportable /\ (m \in Typed => x \in reported'[m])
        BY <1>1, <2>1, <2>8 DEF PageHolds, ThreadHolds
      <3>4. m \notin echoed'
        BY <1>1, <1>2 DEF RowHolds
      <3> QED BY <1>1, <3>1, <3>2, <3>3, <3>4 DEF ThreadHolds
    <2>10. ASSUME Matters(m)' PROVE PageAgrees(m)'
      <3>1. PageAgrees(m)
        BY <1>1, <2>1, <2>10 DEF PageHolds, Matters
      <3>2. RowStatus(m)' = RowStatus(m) /\ LateOf(m)' = LateOf(m) /\ AcksOf(m)' = AcksOf(m) /\ (FailsFirst(m)' <=> FailsFirst(m))
        BY <1>1 DEF RowStatus, LateOf, AcksOf, FailsFirst
      <3>3. \A x \in Reportable : x \in Ticks /\ (Agrees(m, x) => Agrees(m, x)')
        BY <1>1, <3>2, AgreesSame DEF Reportable, Ticks
      <3> QED BY <2>8, <3>1, <3>3 DEF PageAgrees
    <2> QED BY <2>9, <2>10 DEF PageHolds
  <1>9. stream' \in Seq(EventSet) /\ StreamHolds' /\ \A n \in Texts : StreamSame(n)
    BY <1>1, StreamKept
  <1>10. \A n \in Texts \ {m} : sending' = n <=> sending = n
    BY <1>1, ChatAssumption
  <1>11. missed \subseteq missed' /\ missed' \subseteq Texts /\ sending' \in Typed \cup {Nobody} /\ (m \notin missed' => PageHolds(m)')
    BY <1>1, <1>2, <1>8
  <1> QED BY <1>1, <1>5, <1>6, <1>7, <1>9, <1>10, <1>11, PageStep

\* The lists of SendAnswered().
LEMMA AnsweredIs ==
    ASSUME NEW list \in Seq(BubbleSet), NEW m \in Texts, NEW after, after = SendAnswered(list, m)
    PROVE  /\ after \in Seq(BubbleSet)
           /\ \A n \in Texts \ {m} : ListSame(list, after, n)
           /\ OncePerKey(list, m) => OncePerKey(after, m)
           /\ \A x \in Ticks : /\ On(after, "row", m, x) <=> On(list, "row", m, x)
                               /\ ~On(after, "temp", m, x)
                               /\ On(after, "wa", m, x) => \/ On(list, "wa", m, x)
                                                           \/ x = "sent" /\ ~\E s \in Ticks : On(list, "wa", m, s)
           /\ (\E x \in Ticks : On(list, "wa", m, x)) => \E x \in Ticks : On(after, "wa", m, x)
  <1>1. CASE Find(list, "wa", m) # {}
    <2>1. after = Removed(list, "temp", m)
      BY <1>1 DEF SendAnswered, Removed
    <2>2. /\ after \in Seq(BubbleSet)
          /\ \A n : OncePerKey(list, n) => OncePerKey(after, n)
          /\ \A q, n, x : On(after, q, n, x) <=> On(list, q, n, x) /\ ~(q = "temp" /\ n = m)
      BY ONLY list \in Seq(BubbleSet), <2>1, RemovedIs
    <2>3. \A n \in Texts \ {m} : ListSame(list, after, n)
      BY ONLY <2>2 DEF ListSame
    <2> QED BY ONLY <2>2, <2>3
  <1>2. CASE Find(list, "wa", m) = {}
    <2>1. after = [i \in DOMAIN list |-> IF i \in Find(list, "temp", m) THEN Bubble("wa", m, "sent") ELSE list[i]]
      BY <1>2 DEF SendAnswered
    <2>2. /\ after \in Seq(BubbleSet)
          /\ \A n \in Texts \ {m} : ListSame(list, after, n)
          /\ OncePerKey(list, m) => OncePerKey(after, m)
          /\ \A x \in Ticks : /\ On(after, "row", m, x) <=> On(list, "row", m, x)
                              /\ ~On(after, "temp", m, x)
                              /\ On(after, "wa", m, x) => x = "sent"
      BY ONLY list \in Seq(BubbleSet), m \in Texts, <1>2, <2>1, RenamedIs
    <2>3. ~\E s \in Ticks : On(list, "wa", m, s)
      BY <1>2, FindIs
    <2> QED BY ONLY <2>2, <2>3
  <1> QED BY <1>1, <1>2

LEMMA SendSucceedsStep == ASSUME ChatInv, NEW m \in Typed, SendSucceeds(m) PROVE ChatInv'
  <1>1. /\ m \in Texts /\ sending = m /\ call[m] = "stored" /\ sending' = Nobody
        /\ cache' = Written(SendAnswered(cache.list, m)) /\ Touches(m)
        /\ UNCHANGED <<call, stored, reported, echoed, late, lost, socket, gaps, stream, open, fetch, missed>>
    BY DEF SendSucceeds, Texts, serverVars
  <1>2. /\ cache.list \in Seq(BubbleSet) /\ missed \subseteq Texts /\ RowHolds(m)
    BY <1>1, ShapeIs DEF ChatInv, ChatShape
  <1>3. PICK after : after = SendAnswered(cache.list, m)
    OBVIOUS
  <1>4. /\ after \in Seq(BubbleSet)
        /\ \A n \in Texts \ {m} : ListSame(cache.list, after, n)
        /\ OncePerKey(cache.list, m) => OncePerKey(after, m)
        /\ \A x \in Ticks : /\ On(after, "row", m, x) <=> On(cache.list, "row", m, x)
                            /\ ~On(after, "temp", m, x)
                            /\ On(after, "wa", m, x) => \/ On(cache.list, "wa", m, x)
                                                        \/ x = "sent" /\ ~\E s \in Ticks : On(cache.list, "wa", m, s)
        /\ (\E x \in Ticks : On(cache.list, "wa", m, x)) => \E x \in Ticks : On(after, "wa", m, x)
    BY <1>1, <1>2, <1>3, AnsweredIs
  <1>5. cache' \in [has : BOOLEAN, stale : BOOLEAN, list : Seq(BubbleSet)] /\ cache'.has /\ cache'.list = after
    BY <1>1, <1>3, <1>4, WrittenIs
  <1>6. ASSUME m \notin missed PROVE PageHolds(m)'
    <2>1. PageHolds(m)
      BY <1>1, <1>6, ShapeIs
    <2>2. "sent" \in reported[m] /\ "sent" \in Reportable
      BY <1>1, <1>2 DEF RowHolds, Reportable
    <2>3. ThreadHolds(m)'
      <3>1. OncePerKey(cache'.list, m)
        BY <1>4, <1>5, <2>1 DEF PageHolds, ThreadHolds
      <3>2. \A x \in Ticks : ~On(cache'.list, "temp", m, x) /\ ~On(cache'.list, "row", m, x)
        BY <1>1, <1>4, <1>5, <2>1 DEF PageHolds, ThreadHolds
      <3>3. \A x \in Ticks : On(cache'.list, "wa", m, x) => reported'[m] # {} /\ x \in Reportable /\ (m \in Typed => x \in reported'[m])
        BY <1>1, <1>4, <1>5, <2>1, <2>2 DEF PageHolds, ThreadHolds
      <3>4. m \in echoed' => Announced(m)' \/ \E x \in Ticks : On(cache'.list, "wa", m, x)
        BY <1>1, <1>4, <1>5, <2>1 DEF PageHolds, ThreadHolds, Announced
      <3> QED BY <3>1, <3>2, <3>3, <3>4 DEF ThreadHolds
    <2>4. ASSUME Matters(m)' PROVE PageAgrees(m)'
      <3>1. PageAgrees(m)
        BY <1>1, <2>1, <2>4 DEF PageHolds, Matters
      <3>2. RowStatus(m)' = RowStatus(m) /\ LateOf(m)' = LateOf(m) /\ AcksOf(m)' = AcksOf(m) /\ (FailsFirst(m)' <=> FailsFirst(m))
        BY <1>1 DEF RowStatus, LateOf, AcksOf, FailsFirst
      <3>3. \A x \in Reportable : x \in Ticks /\ (Agrees(m, x) => Agrees(m, x)')
        BY <1>1, <3>2, AgreesSame DEF Reportable, Ticks
      <3>4. ASSUME NEW x \in Reportable,
                   On(cache'.list, "wa", m, x) \/ (x = "sent" /\ ~\E s \in Ticks : On(cache'.list, "wa", m, s))
            PROVE  On(cache.list, "wa", m, x) \/ (x = "sent" /\ ~\E s \in Ticks : On(cache.list, "wa", m, s))
        BY <1>4, <1>5, <3>3, <3>4
      <3> QED BY <3>1, <3>3, <3>4 DEF PageAgrees
    <2> QED BY <2>3, <2>4 DEF PageHolds
  <1>7. stream' \in Seq(EventSet) /\ StreamHolds' /\ \A n \in Texts : StreamSame(n)
    BY <1>1, StreamKept
  <1>8. \A n \in Texts \ {m} : sending' = n <=> sending = n
    BY <1>1, ChatAssumption
  <1>9. missed \subseteq missed' /\ missed' \subseteq Texts /\ sending' \in Typed \cup {Nobody} /\ (m \notin missed' => PageHolds(m)')
    BY <1>1, <1>2, <1>6
  <1>10. call' \in [Typed -> {"none", "asked", "inserted", "taken", "stored", "failed"}] /\ call' = call /\ RowHolds(m)'
    <2>1. RowHolds(m)'
      BY <1>1, <1>2 DEF RowHolds
    <2> QED BY <1>1, <2>1 DEF ChatInv, ChatShape
  <1> QED BY <1>1, <1>4, <1>5, <1>7, <1>8, <1>9, <1>10, PageStep

LEMMA SendFailsStep == ASSUME ChatInv, NEW m \in Typed, SendFails(m) PROVE ChatInv'
  <1>1. /\ m \in Texts /\ sending = m /\ sending' = Nobody /\ Touches(m)
        /\ cache' = Written([i \in DOMAIN cache.list |->
                            IF i \in Find(cache.list, "temp", m) THEN Bubble("temp", m, "failed") ELSE cache.list[i]])
        /\ missed' = IF call[m] = "failed" THEN missed ELSE missed \cup {m}
        /\ UNCHANGED <<call, stored, reported, echoed, late, lost, socket, gaps, stream, open, fetch>>
    BY DEF SendFails, Texts, serverVars
  <1>2. /\ cache.list \in Seq(BubbleSet) /\ missed \subseteq Texts /\ RowHolds(m)
    BY <1>1, ShapeIs DEF ChatInv, ChatShape
  <1>3. PICK after : after = [i \in DOMAIN cache.list |->
                            IF i \in Find(cache.list, "temp", m) THEN Bubble("temp", m, "failed") ELSE cache.list[i]]
    OBVIOUS
  <1>4. cache' = Written(after)
    BY <1>1, <1>3
  <1>5. m \in Texts
    BY <1>1
  <1>6. /\ after \in Seq(BubbleSet)
        /\ \A n \in Texts \ {m} : ListSame(cache.list, after, n)
        /\ OncePerKey(cache.list, m) => OncePerKey(after, m)
        /\ \A x \in Ticks : /\ On(after, "row", m, x) <=> On(cache.list, "row", m, x)
                            /\ On(after, "wa", m, x) <=> On(cache.list, "wa", m, x)
                            /\ On(after, "temp", m, x) => x = "failed" /\ \E y \in Ticks : On(cache.list, "temp", m, y)
    <2>1. PICK list : list = cache.list
      OBVIOUS
    <2>2. /\ list \in Seq(BubbleSet)
          /\ after = [i \in DOMAIN list |-> IF i \in Find(list, "temp", m) THEN Bubble("temp", m, "failed") ELSE list[i]]
      BY <1>2, <1>3, <2>1
    <2>3. /\ after \in Seq(BubbleSet)
          /\ \A n \in Texts \ {m} : ListSame(list, after, n)
          /\ OncePerKey(list, m) => OncePerKey(after, m)
          /\ \A x \in Ticks : /\ On(after, "row", m, x) <=> On(list, "row", m, x)
                              /\ On(after, "wa", m, x) <=> On(list, "wa", m, x)
                              /\ On(after, "temp", m, x) => x = "failed" /\ \E y \in Ticks : On(list, "temp", m, y)
      BY ONLY <1>5, <2>2, FailedIs
    <2> QED BY ONLY <2>1, <2>3
  <1>7. cache' \in [has : BOOLEAN, stale : BOOLEAN, list : Seq(BubbleSet)] /\ cache'.has /\ cache'.list = after
    BY ONLY <1>4, <1>6, WrittenIs
  <1>8. UNCHANGED <<call, stored, reported, echoed, late, lost, socket, gaps, stream, open, fetch>> /\ Touches(m)
        /\ sending = m /\ sending' = Nobody /\ missed \subseteq missed' /\ missed' \subseteq Texts
        /\ (m \notin missed' => m \notin missed /\ call[m] = "failed")
    BY <1>1, <1>2
  <1>9. ASSUME m \notin missed' PROVE PageHolds(m)'
    <2>1. PageHolds(m) /\ call[m] = "failed"
      BY <1>5, <1>8, <1>9, ShapeIs
    <2>2. ThreadHolds(m)'
      <3>1. OncePerKey(cache'.list, m)
        BY <1>6, <1>7, <2>1 DEF PageHolds, ThreadHolds
      <3>2. \A x \in Ticks : /\ On(cache'.list, "temp", m, x) => x = "failed"
                             /\ On(cache'.list, "row", m, x) => x = "failed"
        BY <1>6, <1>7, <2>1 DEF PageHolds, ThreadHolds
      <3>3. \A x \in Ticks : On(cache'.list, "wa", m, x) => reported'[m] # {} /\ x \in Reportable /\ (m \in Typed => x \in reported'[m])
        BY <1>6, <1>7, <1>8, <2>1 DEF PageHolds, ThreadHolds
      <3>4. m \in echoed' => Announced(m)' \/ \E x \in Ticks : On(cache'.list, "wa", m, x)
        BY <1>6, <1>7, <1>8, <2>1 DEF PageHolds, ThreadHolds, Announced
      <3>5. ~((\E x \in Ticks : On(cache'.list, "row", m, x)) /\ \E x \in Ticks : On(cache'.list, "temp", m, x))
        BY <1>6, <1>7, <2>1 DEF PageHolds, ThreadHolds
      <3> QED BY <1>8, <2>1, <3>1, <3>2, <3>3, <3>4, <3>5 DEF ThreadHolds
    <2>3. ASSUME Matters(m)' PROVE PageAgrees(m)'
      <3>1. PageAgrees(m)
        BY <1>8, <2>1, <2>3 DEF PageHolds, Matters
      <3>2. RowStatus(m)' = RowStatus(m) /\ LateOf(m)' = LateOf(m) /\ AcksOf(m)' = AcksOf(m) /\ (FailsFirst(m)' <=> FailsFirst(m))
        BY <1>8 DEF RowStatus, LateOf, AcksOf, FailsFirst
      <3>3. \A x \in Reportable : x \in Ticks /\ (Agrees(m, x) => Agrees(m, x)')
        BY <1>5, <3>2, AgreesSame DEF Reportable, Ticks
      <3> QED BY <1>6, <1>7, <3>1, <3>3 DEF PageAgrees
    <2> QED BY <2>2, <2>3 DEF PageHolds
  <1>10. stream' \in Seq(EventSet) /\ StreamHolds' /\ \A n \in Texts : StreamSame(n)
    BY <1>8, StreamKept
  <1>11. (\A n \in Texts \ {m} : sending' = n <=> sending = n) /\ sending' \in Typed \cup {Nobody}
    BY <1>8, ChatAssumption
  <1>12. call' \in [Typed -> {"none", "asked", "inserted", "taken", "stored", "failed"}] /\ call' = call /\ RowHolds(m)'
    <2>1. RowHolds(m)'
      BY <1>2, <1>8 DEF RowHolds
    <2> QED BY <1>8, <2>1 DEF ChatInv, ChatShape
  <1> QED BY ONLY ChatInv, <1>5, <1>6, <1>7, <1>8, <1>9, <1>10, <1>11, <1>12, PageStep

-----------------------------------------------------------------------------
(* Steps of the socket, of the window and of a fetch                         *)

LEMMA ViewStep ==
    ASSUME ChatInv, ChatShape', UNCHANGED <<call, stored, reported, echoed, late, lost, sending>>,
           StreamHolds', missed \subseteq missed', \A n \in Texts \ missed' : StreamSame(n) /\ PageSame(n),
           HasRead' => \A n \in Texts \ since' : ReadHolds(n)'
    PROVE  ChatInv'
  <1>1. \A n \in Texts : ServerSame(n)
    BY DEF ServerSame, LateOf
  <1>2. ASSUME NEW n \in Texts PROVE RowHolds(n)' /\ AcksAreKept(n)'
    BY <1>1, ShapeIs, RowFrame
  <1>3. ASSUME NEW n \in Texts \ missed' PROVE PageHolds(n)'
    <2>1. n \notin missed
      OBVIOUS
    <2> QED BY <1>1, <2>1, ShapeIs, PageFrame
  <1> QED BY <1>2, <1>3 DEF ChatInv

LEMMA StillRead ==
    ASSUME ChatInv, UNCHANGED <<call, stored, reported, echoed, late, lost, sending, fetch>>, since \subseteq since'
    PROVE  HasRead' => \A n \in Texts \ since' : ReadHolds(n)'
  <1> SUFFICES ASSUME HasRead', NEW n \in Texts \ since' PROVE ReadHolds(n)'
    OBVIOUS
  <1>1. HasRead /\ n \notin since
    BY DEF HasRead
  <1>2. ReadHolds(n) /\ ServerSame(n)
    BY <1>1 DEF ChatInv, ServerSame, LateOf
  <1>3. late \subseteq Typed \X Acks /\ late' \subseteq Typed \X Acks
    BY DEF ChatInv, ChatShape, Acks
  <1> QED BY <1>2, <1>3, ReadFrame

LEMMA ReadingIs ==
    /\ Reading \in [busy : BOOLEAN, db : AnswerSet, history : AnswerSet] /\ Idle \in [busy : BOOLEAN, db : AnswerSet, history : AnswerSet]
    /\ \A r \in {Reading, Idle} : /\ ~r.db.asked /\ ~r.history.asked
                                  /\ \A a \in {r.db, r.history} : IsFiniteSet(a.bubbles) /\ ~a.ok /\ a.bubbles = {}
  <1>1. Unread \in AnswerSet /\ ~Unread.asked /\ ~Unread.ok /\ Unread.bubbles = {}
    BY DEF Unread, AnswerSet
  <1>2. IsFiniteSet({})
    BY FS_EmptySet
  <1>3. Reading.db = Unread /\ Reading.history = Unread /\ Idle.db = Unread /\ Idle.history = Unread
    BY DEF Reading, Idle
  <1>4. Reading \in [busy : BOOLEAN, db : AnswerSet, history : AnswerSet] /\ Idle \in [busy : BOOLEAN, db : AnswerSet, history : AnswerSet]
    BY <1>1 DEF Reading, Idle
  <1> QED BY <1>1, <1>2, <1>3, <1>4

\* A step that leaves the messages alone: the thread may be invalidated, and a fetch may begin.
LEMMA WindowStep ==
    ASSUME ChatInv, UNCHANGED <<call, stored, reported, echoed, late, lost, gaps, stream, sending, missed>>,
           socket' \in {"off", "connected", "joined"}, open' \in BOOLEAN,
           cache' \in [has : BOOLEAN, stale : BOOLEAN, list : Seq(BubbleSet)], cache'.has = cache.has, cache'.list = cache.list,
           (fetch' = fetch /\ since' = since) \/ (fetch' = Reading /\ since' = {})
    PROVE  ChatInv'
  <1>1. ChatShape'
    <2>1. CASE fetch' = fetch /\ since' = since
      BY <2>1 DEF ChatInv, ChatShape
    <2>2. CASE fetch' = Reading /\ since' = {}
      <3>1. fetch' \in [busy : BOOLEAN, db : AnswerSet, history : AnswerSet]
            /\ \A a \in {fetch'.db, fetch'.history} : IsFiniteSet(a.bubbles) /\ (a.ok => a.asked) /\ (~a.ok => a.bubbles = {})
        BY <2>2, ReadingIs
      <3>2. since' \subseteq Texts
        BY <2>2
      <3> QED BY <3>1, <3>2 DEF ChatInv, ChatShape
    <2> QED BY <2>1, <2>2
  <1>2. StreamHolds' /\ \A n \in Texts \ missed' : StreamSame(n) /\ PageSame(n)
    BY StreamKept, SameIs DEF PageSame
  <1>3. HasRead' => \A n \in Texts \ since' : ReadHolds(n)'
    <2>1. CASE fetch' = fetch /\ since' = since
      BY <2>1, StillRead
    <2>2. CASE fetch' = Reading /\ since' = {}
      BY <2>2, ReadingIs DEF HasRead
    <2> QED BY <2>1, <2>2
  <1> QED BY <1>1, <1>2, <1>3, ViewStep

LEMMA ConnectsStep == ASSUME ChatInv, Connects PROVE ChatInv'
  <1>1. /\ UNCHANGED <<call, stored, reported, echoed, late, lost, gaps, stream, open, sending, missed>> /\ socket' = "connected"
        /\ cache' = cache \/ cache' = [has |-> cache.has, stale |-> cache.has, list |-> cache.list]
        /\ (fetch' = fetch /\ since' = since) \/ (fetch' = Reading /\ since' = {})
    BY DEF Connects, serverVars
  <1>2. cache \in [has : BOOLEAN, stale : BOOLEAN, list : Seq(BubbleSet)] /\ open \in BOOLEAN
    BY DEF ChatInv, ChatShape
  <1>3. cache' \in [has : BOOLEAN, stale : BOOLEAN, list : Seq(BubbleSet)] /\ cache'.has = cache.has /\ cache'.list = cache.list
    <2>1. CASE cache' = cache
      BY <1>2, <2>1
    <2>2. CASE cache' = [has |-> cache.has, stale |-> cache.has, list |-> cache.list]
      BY <1>2, <2>2
    <2> QED BY <1>1, <2>1, <2>2
  <1> QED BY <1>1, <1>2, <1>3, WindowStep

LEMMA WindowSteps == ASSUME ChatInv, Joins \/ Opens \/ Leaves PROVE ChatInv'
  <1>1. /\ UNCHANGED <<call, stored, reported, echoed, late, lost, gaps, stream, cache, sending, missed>>
        /\ socket' = socket \/ socket' = "joined"
        /\ open' = open \/ open' \in BOOLEAN
        /\ (fetch' = fetch /\ since' = since) \/ (fetch' = Reading /\ since' = {})
    BY DEF Joins, Opens, Leaves, serverVars
  <1>2. cache' \in [has : BOOLEAN, stale : BOOLEAN, list : Seq(BubbleSet)] /\ open' \in BOOLEAN /\ socket' \in {"off", "connected", "joined"}
    BY <1>1 DEF ChatInv, ChatShape
  <1> QED BY <1>1, <1>2, WindowStep

LEMMA DropsStep == ASSUME ChatInv, Drops PROVE ChatInv'
  <1>1. /\ gaps < MaxGaps /\ socket' = "off" /\ gaps' = gaps + 1 /\ stream' = <<>>
        /\ missed' = missed \cup {e.m : e \in ToSet(stream)} /\ since' \subseteq since \cup {e.m : e \in ToSet(stream)} /\ since \subseteq since'
        /\ UNCHANGED <<call, stored, reported, echoed, late, lost, cache, open, fetch, sending>>
    BY DEF Drops, serverVars
  <1>2. stream \in Seq(EventSet) /\ gaps \in 0 .. MaxGaps /\ MaxGaps \in Nat /\ missed \subseteq Texts /\ since \subseteq Texts
    BY ChatAssumption DEF ChatInv, ChatShape
  <1>3. PICK T : T = {e.m : e \in ToSet(stream)}
    OBVIOUS
  <1>4. T \subseteq Texts /\ \A i \in 1 .. Len(stream) : stream[i].m \in T
    <2>1. \A e : e \in ToSet(stream) <=> \E i \in 1 .. Len(stream) : e = stream[i]
      BY <1>2 DEF ToSet
    <2>2. \A i \in 1 .. Len(stream) : stream[i] \in EventSet
      BY <1>2
    <2> QED BY <1>3, <2>1, <2>2, EventIs
  <1>5. missed' \subseteq Texts /\ missed \subseteq missed' /\ since' \subseteq Texts
    BY <1>1, <1>2, <1>3, <1>4
  <1>6. gaps' \in 0 .. MaxGaps
    BY <1>1, <1>2
  <1>7. stream' \in Seq(EventSet) /\ Len(stream') = 0
    BY <1>1
  <1>8. ChatShape'
    <2>1. cache'.has \/ (cache'.list = <<>> /\ missed' = Texts)
      BY <1>1, <1>5 DEF ChatInv, ChatShape
    <2> QED BY <1>1, <1>5, <1>6, <1>7, <2>1 DEF ChatInv, ChatShape
  <1>9. StreamHolds'
    BY <1>7 DEF StreamHolds
  <1>10. ASSUME NEW n \in Texts \ missed' PROVE StreamSame(n) /\ PageSame(n)
    <2>1. \A i \in 1 .. Len(stream) : stream[i].m # n
      BY <1>1, <1>3, <1>4
    <2>2. Announced(n)' <=> Announced(n)
      BY <1>7, <2>1 DEF Announced
    <2>3. AcksOf(n)' = AcksOf(n)
      BY <1>7, <2>1 DEF AcksOf
    <2>4. FailsFirst(n)' <=> FailsFirst(n)
      BY <1>7, <2>1 DEF FailsFirst
    <2> QED BY <1>1, <2>2, <2>3, <2>4, SameIs DEF StreamSame, PageSame
  <1>11. HasRead' => \A n \in Texts \ since' : ReadHolds(n)'
    BY <1>1, StillRead
  <1> QED BY <1>1, <1>5, <1>8, <1>9, <1>10, <1>11, ViewStep

LEMMA CollectsStep == ASSUME ChatInv, Collects PROVE ChatInv'
  <1>1. /\ cache' = [has |-> FALSE, stale |-> FALSE, list |-> <<>>] /\ missed' = Texts
        /\ UNCHANGED <<call, stored, reported, echoed, late, lost, socket, gaps, stream, open, fetch, sending, since>>
    BY DEF Collects, serverVars
  <1>2. cache' \in [has : BOOLEAN, stale : BOOLEAN, list : Seq(BubbleSet)] /\ cache'.list = <<>>
    BY <1>1
  <1>3. ChatShape'
    BY <1>1, <1>2 DEF ChatInv, ChatShape
  <1>4. StreamHolds' /\ missed \subseteq missed' /\ \A n \in Texts \ missed' : StreamSame(n) /\ PageSame(n)
    BY <1>1, StreamKept DEF ChatInv, ChatShape
  <1>5. HasRead' => \A n \in Texts \ since' : ReadHolds(n)'
    BY <1>1, StillRead
  <1> QED BY <1>1, <1>3, <1>4, <1>5, ViewStep

\* The set of what a function gives on a finite set is finite.
ImageOf(f, S) == {f[x] : x \in S}

LEMMA ImageFinite ==
    ASSUME NEW S, NEW T, IsFiniteSet(S), NEW f \in [S -> T]
    PROVE  IsFiniteSet(ImageOf(f, S))
  <1>0. PICK R : R = ImageOf(f, S)
    OBVIOUS
  <1>1. f \in [S -> R]
    <2>1. f = [x \in S |-> f[x]] /\ \A x \in S : f[x] \in R
      BY <1>0 DEF ImageOf
    <2> QED BY ONLY <2>1
  <1>2. f \in Surjection(S, R)
    <2>1. \A y \in R : \E x \in S : f[x] = y
      BY <1>0 DEF ImageOf
    <2> QED BY ONLY <1>1, <2>1 DEF Surjection
  <1> QED BY <1>0, <1>2, FS_Surjection

LEMMA AnswersAre == ASSUME ChatInv PROVE /\ RowBubbles \subseteq BubbleSet /\ IsFiniteSet(RowBubbles)
                                         /\ HistoryBubbles \subseteq BubbleSet /\ IsFiniteSet(HistoryBubbles)
  <1>1. IsFiniteSet(Texts)
    <2>1. IsFiniteSet(Typed \cup Phoned)
      BY ChatAssumption, FS_Union
    <2>2. IsFiniteSet((Typed \cup Phoned) \cup Received)
      BY <2>1, ChatAssumption, FS_Union
    <2> QED BY <2>2 DEF Texts
  <1>2. PICK S : S = {n \in Texts : stored[n].status # "none"}
    OBVIOUS
  <1>3. PICK R : R = {n \in Texts : reported[n] # {}}
    OBVIOUS
  <1>4. IsFiniteSet(S) /\ IsFiniteSet(R) /\ S \subseteq Texts /\ R \subseteq Texts
    <2>1. S \subseteq Texts /\ R \subseteq Texts
      BY <1>2, <1>3
    <2> QED BY <1>1, <2>1, FS_Subset
  <1>5. PICK f : f = [m \in S |-> Bubble(IF stored[m].keyed THEN "wa" ELSE "row", m, stored[m].status)]
    OBVIOUS
  <1>6. PICK g : g = [m \in R |-> Bubble("wa", m, "read")]
    OBVIOUS
  <1>7. ASSUME NEW m \in S PROVE f[m] \in BubbleSet
    <2>1. PICK k \in BubbleKeys : k = IF stored[m].keyed THEN "wa" ELSE "row"
      BY DEF BubbleKeys
    <2>2. stored[m].status \in Ticks /\ m \in Texts
      BY <1>2, <1>4, ShapeIs
    <2>3. f[m] = Bubble(k, m, stored[m].status)
      BY <1>5, <2>1
    <2> QED BY <2>2, <2>3, BubbleIs
  <1>8. ASSUME NEW m \in R PROVE g[m] \in BubbleSet
    <2>1. "wa" \in BubbleKeys /\ "read" \in Ticks /\ m \in Texts
      BY <1>4 DEF BubbleKeys, Ticks
    <2> QED BY <1>6, <2>1, BubbleIs
  <1>9. f \in [S -> BubbleSet] /\ g \in [R -> BubbleSet]
    BY <1>5, <1>6, <1>7, <1>8
  <1>10. RowBubbles = ImageOf(f, S) /\ HistoryBubbles = ImageOf(g, R)
    BY <1>2, <1>3, <1>5, <1>6 DEF RowBubbles, HistoryBubbles, ImageOf
  <1>11. RowBubbles \subseteq BubbleSet /\ HistoryBubbles \subseteq BubbleSet
    BY <1>9, <1>10 DEF ImageOf
  <1>12. IsFiniteSet(RowBubbles)
    BY <1>4, <1>9, <1>10, ImageFinite
  <1>13. IsFiniteSet(HistoryBubbles)
    BY <1>4, <1>9, <1>10, ImageFinite
  <1> QED BY <1>11, <1>12, <1>13

-----------------------------------------------------------------------------
(* A fetch                                                                   *)

LEMMA AnswerStep ==
    ASSUME ChatInv, UNCHANGED <<call, stored, reported, echoed, late, lost, socket, gaps, stream, cache, open, sending, missed>>,
           since' = since \cup Unsettled, fetch.busy, fetch'.busy = fetch.busy,
           fetch' \in [busy : BOOLEAN, db : AnswerSet, history : AnswerSet],
           \/ /\ fetch'.history = fetch.history
              /\ fetch'.db.asked /\ fetch'.db.bubbles = IF fetch'.db.ok THEN RowBubbles ELSE {}
           \/ /\ fetch'.db = fetch.db
              /\ fetch'.history.asked /\ fetch'.history.bubbles = IF fetch'.history.ok THEN HistoryBubbles ELSE {}
    PROVE  ChatInv'
  <1>1. IsFiniteSet(RowBubbles) /\ IsFiniteSet(HistoryBubbles) /\ IsFiniteSet({})
    BY AnswersAre, FS_EmptySet
  <1>2. \A a \in {fetch.db, fetch.history} : IsFiniteSet(a.bubbles) /\ (a.ok => a.asked) /\ (~a.ok => a.bubbles = {})
    BY DEF ChatInv, ChatShape
  <1>3. \A a \in {fetch'.db, fetch'.history} : IsFiniteSet(a.bubbles) /\ (a.ok => a.asked) /\ (~a.ok => a.bubbles = {})
    BY <1>1, <1>2
  <1>4. Unsettled \subseteq Texts /\ since' \subseteq Texts
    <2>1. late \subseteq Typed \X Acks /\ since \subseteq Texts
      BY DEF ChatInv, ChatShape, Acks
    <2>2. \A a \in late : a[1] \in Typed
      BY <2>1
    <2>3. Typed \subseteq Texts
      BY DEF Texts
    <2> QED BY <2>1, <2>2, <2>3 DEF Unsettled
  <1>5. ChatShape'
    BY <1>3, <1>4 DEF ChatInv, ChatShape
  <1>6. StreamHolds' /\ missed \subseteq missed' /\ \A n \in Texts \ missed' : StreamSame(n) /\ PageSame(n)
    BY StreamKept, SameIs DEF PageSame
  <1>7. ASSUME NEW n \in Texts \ since' PROVE ReadHolds(n)'
    <2>1. n \notin Unsettled /\ n \notin since
      OBVIOUS
    <2>2. Unsettled' = Unsettled /\ RowBubbles' = RowBubbles /\ HistoryBubbles' = HistoryBubbles
      BY DEF Unsettled, RowBubbles, HistoryBubbles
    <2>3. HasRead => ReadHolds(n)
      BY <2>1 DEF ChatInv
    <2>4. /\ fetch.db.ok => \A b \in BubbleSet : b.m = n => (b \in fetch.db.bubbles <=> b \in RowBubbles)
          /\ fetch.history.ok => \A b \in BubbleSet : b.m = n => (b \in fetch.history.bubbles <=> b \in HistoryBubbles)
      BY <1>2, <2>3 DEF HasRead, ReadHolds
    <2>5. /\ fetch'.db.ok => \A b \in BubbleSet : b.m = n => (b \in fetch'.db.bubbles <=> b \in RowBubbles)
          /\ fetch'.history.ok => \A b \in BubbleSet : b.m = n => (b \in fetch'.history.bubbles <=> b \in HistoryBubbles)
      BY <2>4
    <2> QED BY <2>1, <2>2, <2>5 DEF ReadHolds
  <1> QED BY <1>5, <1>6, <1>7, ViewStep

LEMMA AnswerSteps == ASSUME ChatInv, RowsArrive \/ HistoryArrives PROVE ChatInv'
  <1>1. /\ UNCHANGED <<call, stored, reported, echoed, late, lost, socket, gaps, stream, cache, open, sending, missed>>
        /\ since' = since \cup Unsettled /\ fetch.busy
    BY DEF RowsArrive, HistoryArrives, Answer, serverVars
  <1>2. fetch \in [busy : BOOLEAN, db : AnswerSet, history : AnswerSet]
    BY DEF ChatInv, ChatShape
  <1>3. RowBubbles \subseteq BubbleSet /\ HistoryBubbles \subseteq BubbleSet
    BY AnswersAre
  <1>4. CASE RowsArrive
    <2>1. PICK ok \in BOOLEAN : fetch' = [fetch EXCEPT !["db"] = [asked |-> TRUE, ok |-> ok, bubbles |-> IF ok THEN RowBubbles ELSE {}]]
      BY <1>4 DEF RowsArrive, Answer
    <2>2. PICK B \in SUBSET BubbleSet : B = IF ok THEN RowBubbles ELSE {}
      BY <1>3
    <2>3. PICK a \in AnswerSet : a = [asked |-> TRUE, ok |-> ok, bubbles |-> B]
      BY DEF AnswerSet
    <2>4. fetch' = [fetch EXCEPT !["db"] = a]
      BY <2>1, <2>2, <2>3
    <2>5. fetch' \in [busy : BOOLEAN, db : AnswerSet, history : AnswerSet] /\ fetch'.busy = fetch.busy
          /\ fetch'.history = fetch.history /\ fetch'.db = a
      BY <1>2, <2>4
    <2>6. fetch'.db.asked /\ fetch'.db.bubbles = IF fetch'.db.ok THEN RowBubbles ELSE {}
      BY <2>2, <2>3, <2>5
    <2> QED BY <1>1, <2>5, <2>6, AnswerStep
  <1>5. CASE HistoryArrives
    <2>1. PICK ok \in BOOLEAN : fetch' = [fetch EXCEPT !["history"] = [asked |-> TRUE, ok |-> ok, bubbles |-> IF ok THEN HistoryBubbles ELSE {}]]
      BY <1>5 DEF HistoryArrives, Answer
    <2>2. PICK B \in SUBSET BubbleSet : B = IF ok THEN HistoryBubbles ELSE {}
      BY <1>3
    <2>3. PICK a \in AnswerSet : a = [asked |-> TRUE, ok |-> ok, bubbles |-> B]
      BY DEF AnswerSet
    <2>4. fetch' = [fetch EXCEPT !["history"] = a]
      BY <2>1, <2>2, <2>3
    <2>5. fetch' \in [busy : BOOLEAN, db : AnswerSet, history : AnswerSet] /\ fetch'.busy = fetch.busy
          /\ fetch'.db = fetch.db /\ fetch'.history = a
      BY <1>2, <2>4
    <2>6. fetch'.history.asked /\ fetch'.history.bubbles = IF fetch'.history.ok THEN HistoryBubbles ELSE {}
      BY <2>2, <2>3, <2>5
    <2> QED BY <1>1, <2>5, <2>6, AnswerStep
  <1> QED BY <1>4, <1>5

\* A sequence of a finite set has each of its members once.
LEMMA SequenceOf ==
    ASSUME NEW S, IsFiniteSet(S), NEW list, list = SetToSeq(S)
    PROVE  /\ list \in Seq(S) /\ \A x \in S : \E i \in 1 .. Len(list) : list[i] = x
           /\ \A i, j \in 1 .. Len(list) : list[i] = list[j] => i = j
  <1>1. PICK c \in Nat : c = Cardinality(S) /\ ExistsBijection(1 .. c, S)
    BY FS_CardinalityType
  <1>2. PICK f : f \in Bijection(1 .. c, S)
    BY <1>1 DEF ExistsBijection
  <1>3. f \in [1 .. c -> S] /\ IsInjective(f)
    BY <1>2 DEF Bijection, Injection
  <1>4. list \in [1 .. c -> S] /\ IsInjective(list)
    <2>1. list = CHOOSE g \in [1 .. c -> S] : IsInjective(g)
      BY <1>1 DEF SetToSeq
    <2> QED BY ONLY <1>3, <2>1
  <1>5. list \in Injection(1 .. c, S)
    BY <1>4 DEF Injection
  <1>6. IsFiniteSet(1 .. c) /\ Cardinality(1 .. c) = c
    BY FS_Interval
  <1>7. list \in Surjection(1 .. c, S)
    BY <1>1, <1>5, <1>6, FS_Injection
  <1>8. list \in Seq(S) /\ Len(list) = c /\ DOMAIN list = 1 .. c
    BY ONLY <1>1, <1>4
  <1>9. \A x \in S : \E i \in 1 .. c : list[i] = x
    BY <1>7 DEF Surjection
  <1>10. \A i, j \in 1 .. c : list[i] = list[j] => i = j
    BY <1>4, <1>8 DEF IsInjective
  <1> QED BY <1>8, <1>9, <1>10

\* What the two answers make of the thread, for a message that nothing has touched.
LEMMA FetchedIs ==
    ASSUME ChatInv, HasRead, fetch.db.ok, NEW n \in Texts, n \notin since, fetch.history.ok \/ stored[n].keyed, NEW k \in BubbleKeys, NEW s \in Ticks
    PROVE  Bubble(k, n, s) \in fetch.db.bubbles \cup {b \in fetch.history.bubbles : ~\E r \in fetch.db.bubbles : r.key = b.key /\ r.m = b.m}
           <=> \/ /\ stored[n].status # "none" /\ s = stored[n].status /\ k = IF stored[n].keyed THEN "wa" ELSE "row"
               \/ /\ ~stored[n].keyed /\ reported[n] # {} /\ k = "wa" /\ s = "read"
  <1>1. PICK b : b = Bubble(k, n, s) /\ b \in BubbleSet /\ b.key = k /\ b.m = n /\ b.status = s
    BY BubbleIs
  <1>2. ReadHolds(n) /\ RowHolds(n) /\ reported[n] \subseteq Reportable
    BY ShapeIs DEF ChatInv
  <1>3. b \in fetch.db.bubbles <=> stored[n].status # "none" /\ s = stored[n].status /\ k = IF stored[n].keyed THEN "wa" ELSE "row"
    BY <1>1, <1>2, RowBubbleIs DEF ReadHolds
  <1>4. fetch.history.ok => (b \in fetch.history.bubbles <=> reported[n] # {} /\ k = "wa" /\ s = "read")
    BY <1>1, <1>2, RowBubbleIs DEF ReadHolds
  <1>5. ~fetch.history.ok => b \notin fetch.history.bubbles
    BY DEF ChatInv, ChatShape
  <1>6. fetch.db.bubbles \subseteq BubbleSet
    BY DEF ChatInv, ChatShape, AnswerSet
  <1>7. (\E r \in fetch.db.bubbles : r.key = k /\ r.m = n) <=> stored[n].status # "none" /\ k = IF stored[n].keyed THEN "wa" ELSE "row"
    <2>1. ASSUME NEW r \in fetch.db.bubbles, r.key = k, r.m = n PROVE stored[n].status # "none" /\ k = IF stored[n].keyed THEN "wa" ELSE "row"
      <3>1. r \in BubbleSet
        BY <1>6
      <3>2. r \in RowBubbles
        BY <1>2, <2>1, <3>1 DEF ReadHolds
      <3> QED BY <2>1, <3>1, <3>2, RowBubbleIs
    <2>2. ASSUME stored[n].status # "none", k = IF stored[n].keyed THEN "wa" ELSE "row" PROVE \E r \in fetch.db.bubbles : r.key = k /\ r.m = n
      <3>1. stored[n].status \in Ticks
        BY <2>2, ShapeIs
      <3>2. PICK r : r = Bubble(k, n, stored[n].status) /\ r \in BubbleSet /\ r.key = k /\ r.m = n /\ r.status = stored[n].status
        BY <3>1, BubbleIs
      <3>3. r \in RowBubbles
        BY <2>2, <3>2, RowBubbleIs
      <3> QED BY <1>2, <3>2, <3>3 DEF ReadHolds
    <2> QED BY <2>1, <2>2
  <1>8. stored[n].keyed => stored[n].status # "none"
    BY <1>2 DEF RowHolds, Reportable
  <1>9. b \in fetch.db.bubbles \cup {c \in fetch.history.bubbles : ~\E r \in fetch.db.bubbles : r.key = c.key /\ r.m = c.m}
        <=> b \in fetch.db.bubbles \/ (b \in fetch.history.bubbles /\ ~\E r \in fetch.db.bubbles : r.key = k /\ r.m = n)
    BY <1>1
  <1> QED BY <1>1, <1>3, <1>4, <1>5, <1>7, <1>8, <1>9

\* The thread that a fetch leaves, for a message that nothing has touched.
LEMMA FetchedHolds ==
    ASSUME ChatInv, HasRead, fetch.db.ok, NEW n \in Texts, n \notin since, fetch.history.ok \/ stored[n].keyed,
           UNCHANGED <<call, stored, reported, echoed, late, lost, stream, sending>>,
           cache'.list \in Seq(BubbleSet), OncePerKey(cache'.list, n),
           \A k \in BubbleKeys : \A s \in Ticks : On(cache'.list, k, n, s) <=>
               \/ /\ stored[n].status # "none" /\ s = stored[n].status /\ k = IF stored[n].keyed THEN "wa" ELSE "row"
               \/ /\ ~stored[n].keyed /\ reported[n] # {} /\ k = "wa" /\ s = "read"
    PROVE  PageHolds(n)'
  <1>1. RowHolds(n) /\ AcksAreKept(n) /\ reported[n] \subseteq Reportable /\ late \subseteq Typed \X Acks /\ stream \in Seq(EventSet) /\ StreamHolds
    BY ShapeIs
  <1>2. n \notin Unsettled
    BY DEF ChatInv, ReadHolds
  <1>3. n \in Typed => sending # n /\ call[n] \notin {"asked", "inserted", "taken"} /\ (stored[n].keyed \/ reported[n] = {})
    BY <1>2 DEF Unsettled
  <1>4. LateOf(n) = {}
    <2>1. ASSUME NEW s \in LateOf(n) PROVE FALSE
      <3>1. <<n, s>> \in late
        BY DEF LateOf
      <3>2. <<n, s>>[1] = n
        OBVIOUS
      <3> QED BY <1>2, <3>1, <3>2 DEF Unsettled
    <2> QED BY <2>1
  <1>5. \A s \in Ticks :
          /\ On(cache'.list, "row", n, s) <=> ~stored[n].keyed /\ stored[n].status # "none" /\ s = stored[n].status
          /\ ~On(cache'.list, "temp", n, s)
          /\ On(cache'.list, "wa", n, s) <=> IF stored[n].keyed THEN s = stored[n].status ELSE reported[n] # {} /\ s = "read"
    <2>1. stored[n].keyed => stored[n].status # "none"
      BY <1>1 DEF RowHolds, Reportable
    <2>2. "row" \in BubbleKeys /\ "temp" \in BubbleKeys /\ "wa" \in BubbleKeys
      BY DEF BubbleKeys
    <2> QED BY <2>1, <2>2
  <1>6. n \in Typed => call[n] \in {"none", "asked", "inserted", "taken", "stored", "failed"}
    BY ShapeIs
  <1>7. stored[n].keyed => stored[n].status \in reported[n]
    BY <1>1 DEF RowHolds
  <1>8. ThreadHolds(n)'
    <2>1. ASSUME NEW s \in Ticks, On(cache'.list, "row", n, s) PROVE n \in Typed /\ call[n] = "failed" /\ s = "failed"
      <3>1. ~stored[n].keyed /\ stored[n].status # "none" /\ s = stored[n].status
        BY <1>5, <2>1
      <3>2. n \in Typed
        BY <1>1, <3>1 DEF RowHolds, Texts
      <3>3. reported[n] = {}
        BY <1>3, <3>1, <3>2
      <3> QED BY <1>1, <1>3, <1>6, <3>1, <3>2, <3>3 DEF RowHolds
    <2>2. ASSUME NEW s \in Ticks, On(cache'.list, "wa", n, s) PROVE reported[n] # {} /\ s \in Reportable /\ (n \in Typed => s \in reported[n])
      <3>1. CASE stored[n].keyed
        BY <1>1, <1>5, <1>7, <2>2, <3>1
      <3>2. CASE ~stored[n].keyed
        BY <1>3, <1>5, <2>2, <3>2 DEF Reportable
      <3> QED BY <3>1, <3>2
    <2>3. ASSUME n \in echoed PROVE \E s \in Ticks : On(cache'.list, "wa", n, s)
      <3>1. reported[n] # {}
        BY <1>1, <2>3 DEF RowHolds
      <3>2. CASE stored[n].keyed
        BY <1>1, <1>5, <1>7, <3>2 DEF Reportable, Ticks
      <3>3. CASE ~stored[n].keyed
        BY <1>5, <3>1, <3>3 DEF Ticks
      <3> QED BY <3>2, <3>3
    <2>4. \A s \in Ticks : ~On(cache'.list, "temp", n, s)
      BY <1>5
    <2> QED BY <2>1, <2>2, <2>3, <2>4 DEF ThreadHolds
  <1>9. ASSUME Matters(n)' PROVE PageAgrees(n)'
    <2>1. n \notin lost /\ (n \in Typed \/ stored[n].keyed)
      BY <1>9 DEF Matters
    <2>2. AcksOf(n)' = AcksOf(n) /\ (FailsFirst(n)' <=> FailsFirst(n)) /\ LateOf(n)' = {} /\ RowStatus(n)' = RowStatus(n)
      BY <1>4 DEF AcksOf, FailsFirst, LateOf, RowStatus
    <2>3. /\ AcksOf(n) \subseteq Acks /\ AcksOf(n) \subseteq reported[n]
          /\ FailsFirst(n) => "failed" \in AcksOf(n)
          /\ AcksOf(n) # {} => n \in Typed \cup Phoned
      BY <1>1, AcksAre
    <2>4. ASSUME NEW x \in Reportable,
                 On(cache'.list, "wa", n, x) \/ (x = "sent" /\ ~\E s \in Ticks : On(cache'.list, "wa", n, s))
          PROVE  Agrees(n, x)'
      <3>1. x \in Ticks
        BY DEF Reportable, Ticks
      <3>2. RowStatus(n) = x
        <4>1. CASE stored[n].keyed
          <5>1. stored[n].status \in Ticks
            BY <1>1, <1>7, <4>1 DEF Reportable, Ticks
          <5>2. On(cache'.list, "wa", n, stored[n].status)
            BY <1>5, <4>1, <5>1
          <5> QED BY <1>5, <2>4, <3>1, <4>1, <5>1, <5>2 DEF RowStatus
        <4>2. CASE ~stored[n].keyed
          <5>1. n \in Typed /\ reported[n] = {}
            BY <1>3, <2>1, <4>2
          <5>2. x = "sent"
            BY <1>5, <2>4, <3>1, <4>2, <5>1
          <5> QED BY <4>2, <5>2 DEF RowStatus
        <4> QED BY <4>1, <4>2
      <3>3. \A a \in AcksOf(n) : MergeDeliveryStatus(x, a) = x
        <4>1. ASSUME NEW a \in AcksOf(n) PROVE MergeDeliveryStatus(x, a) = x
          <5>1. a \in reported[n] /\ a \notin LateOf(n)
            BY <1>4, <2>3
          <5>2. n \notin Phoned \/ ~stored[n].keyed
            BY <1>1 DEF RowHolds
          <5>3. n \in Typed
            BY <2>1, <2>3, <5>2
          <5>4. stored[n].keyed
            BY <1>3, <5>1, <5>3
          <5> QED BY <1>1, <2>1, <3>2, <5>1, <5>3, <5>4 DEF AcksAreKept, RowStatus
        <4> QED BY <4>1
      <3>4. PICK ff \in BOOLEAN : ff <=> FailsFirst(n)
        OBVIOUS
      <3>5. Ending(x, AcksOf(n), ff) = x
        <4>1. AcksOf(n) \in SUBSET Acks /\ (ff => "failed" \in AcksOf(n))
          BY <2>3, <3>4
        <4> QED BY <3>3, <4>1, EndingStands
      <3>6. Ending(x, AcksOf(n)', FailsFirst(n)') = Ending(x, AcksOf(n), ff)
        BY <2>2, <3>4 DEF Ending
      <3>7. Final(RowStatus(n)', LateOf(n)') = x
        BY <2>2, <3>2 DEF Final
      <3> QED BY <3>5, <3>6, <3>7 DEF Agrees
    <2> QED BY <2>4 DEF PageAgrees
  <1> QED BY <1>8, <1>9 DEF PageHolds

LEMMA FetchEndsStep == ASSUME ChatInv, FetchEnds PROVE ChatInv'
  <1>1. /\ fetch.db.asked /\ fetch.history.asked /\ fetch' = Idle /\ since' = {}
        /\ UNCHANGED <<call, stored, reported, echoed, late, lost, socket, gaps, stream, open, sending>>
    BY DEF FetchEnds, serverVars
  <1>2. HasRead
    BY <1>1 DEF HasRead
  <1>3. ~HasRead'
    BY <1>1, ReadingIs DEF HasRead
  <1>4. fetch' \in [busy : BOOLEAN, db : AnswerSet, history : AnswerSet]
        /\ \A a \in {fetch'.db, fetch'.history} : IsFiniteSet(a.bubbles) /\ (a.ok => a.asked) /\ (~a.ok => a.bubbles = {})
    BY <1>1, ReadingIs
  <1>5. missed \subseteq Texts /\ cache \in [has : BOOLEAN, stale : BOOLEAN, list : Seq(BubbleSet)]
    BY DEF ChatInv, ChatShape
  <1>6. CASE ~fetch.db.ok /\ ~fetch.history.ok
    <2>1. cache' = cache /\ missed' = missed
      BY <1>6 DEF FetchEnds
    <2>2. ChatShape'
      BY <1>1, <1>4, <2>1 DEF ChatInv, ChatShape
    <2>3. StreamHolds' /\ missed \subseteq missed' /\ \A n \in Texts \ missed' : StreamSame(n) /\ PageSame(n)
      BY <1>1, <2>1, StreamKept, SameIs DEF PageSame
    <2> QED BY <1>1, <1>3, <2>2, <2>3, ViewStep
  <1>7. CASE fetch.db.ok \/ fetch.history.ok
    <2>1. PICK U : U = fetch.db.bubbles \cup {b \in fetch.history.bubbles : ~\E r \in fetch.db.bubbles : r.key = b.key /\ r.m = b.m}
      OBVIOUS
    <2>2. PICK list : list = SetToSeq(U)
      OBVIOUS
    <2>3. cache' = Written(list)
      BY <1>7, <2>1, <2>2 DEF FetchEnds, MergeChatMessages
    <2>4. missed' = since \cup (IF fetch.db.ok THEN {} ELSE Texts)
                               \cup (IF fetch.history.ok THEN {} ELSE {m \in Texts : ~stored[m].keyed})
      BY <1>7 DEF FetchEnds
    <2>5. U \subseteq BubbleSet /\ IsFiniteSet(U)
      <3>1. /\ fetch.db.bubbles \subseteq BubbleSet /\ fetch.history.bubbles \subseteq BubbleSet
            /\ IsFiniteSet(fetch.db.bubbles) /\ IsFiniteSet(fetch.history.bubbles)
        BY DEF ChatInv, ChatShape, AnswerSet
      <3>2. PICK H : H = {b \in fetch.history.bubbles : ~\E r \in fetch.db.bubbles : r.key = b.key /\ r.m = b.m}
        OBVIOUS
      <3>3. H \subseteq fetch.history.bubbles
        BY <3>2
      <3>4. IsFiniteSet(H)
        BY <3>1, <3>3, FS_Subset
      <3>5. U = fetch.db.bubbles \cup H
        BY <2>1, <3>2
      <3> QED BY <3>1, <3>3, <3>4, <3>5, FS_Union
    <2>6. /\ list \in Seq(U) /\ \A x \in U : \E i \in 1 .. Len(list) : list[i] = x
          /\ \A i, j \in 1 .. Len(list) : list[i] = list[j] => i = j
      BY <2>2, <2>5, SequenceOf
    <2>7. list \in Seq(BubbleSet) /\ \A i \in 1 .. Len(list) : list[i] \in U
      BY <2>5, <2>6
    <2>8. cache' \in [has : BOOLEAN, stale : BOOLEAN, list : Seq(BubbleSet)] /\ cache'.has /\ cache'.list = list
      BY <2>3, <2>7, WrittenIs
    <2>9. \A k \in BubbleKeys, n \in Texts, s \in Ticks : On(list, k, n, s) <=> Bubble(k, n, s) \in U
      <3> SUFFICES ASSUME NEW k \in BubbleKeys, NEW n \in Texts, NEW s \in Ticks PROVE On(list, k, n, s) <=> Bubble(k, n, s) \in U
        OBVIOUS
      <3>1. PICK b : b = Bubble(k, n, s) /\ b.key = k /\ b.m = n /\ b.status = s
        BY BubbleIs
      <3>2. ASSUME b \in U PROVE On(list, k, n, s)
        BY <2>6, <3>1, <3>2 DEF On
      <3>3. ASSUME On(list, k, n, s) PROVE b \in U
        <4>1. PICK i \in 1 .. Len(list) : list[i].key = k /\ list[i].m = n /\ list[i].status = s
          BY <3>3 DEF On
        <4>2. list[i] \in U /\ list[i] \in BubbleSet
          BY <2>5, <2>7
        <4>3. list[i] = b
          BY <3>1, <4>1, <4>2, BubbleFields
        <4> QED BY <4>2, <4>3
      <3> QED BY <3>1, <3>2, <3>3
    <2>10. missed' \subseteq Texts
      <3>1. since \subseteq Texts
        BY DEF ChatInv, ChatShape
      <3> QED BY <2>4, <3>1
    <2>11. ChatShape'
      <3>1. since' \subseteq Texts /\ cache'.has
        BY <1>1, <2>8
      <3> QED BY <1>1, <1>4, <2>8, <2>10, <3>1 DEF ChatInv, ChatShape
    <2>12. StreamHolds' /\ \A n \in Texts : StreamSame(n)
      BY <1>1, StreamKept
    <2>13. ASSUME NEW n \in Texts PROVE RowHolds(n)' /\ AcksAreKept(n)'
      <3>1. ServerSame(n)
        BY <1>1 DEF ServerSame, LateOf
      <3> QED BY <3>1, ShapeIs, RowFrame
    <2>14. ASSUME NEW n \in Texts \ missed' PROVE PageHolds(n)'
      <3>1. n \notin since /\ fetch.db.ok /\ (fetch.history.ok \/ stored[n].keyed) /\ n \in Texts
        BY <2>4
      <3>2. \A k \in BubbleKeys : \A s \in Ticks : On(list, k, n, s) <=>
               \/ /\ stored[n].status # "none" /\ s = stored[n].status /\ k = IF stored[n].keyed THEN "wa" ELSE "row"
               \/ /\ ~stored[n].keyed /\ reported[n] # {} /\ k = "wa" /\ s = "read"
        BY <1>2, <2>1, <2>9, <3>1, FetchedIs
      <3>3. OncePerKey(list, n)
        <4> SUFFICES ASSUME NEW i \in 1 .. Len(list), NEW j \in 1 .. Len(list),
                            list[i].m = n, list[j].m = n, list[i].key = list[j].key
                     PROVE  i = j
          BY DEF OncePerKey
        <4>1. list[i] \in BubbleSet /\ list[j] \in BubbleSet
          BY <2>5, <2>7
        <4>2. PICK k \in BubbleKeys, s \in Ticks, t \in Ticks : k = list[i].key /\ s = list[i].status /\ t = list[j].status
          BY <4>1, BubbleFields
        <4>3. On(list, k, n, s) /\ On(list, k, n, t)
          BY <4>2 DEF On
        <4>4. s = t
          BY <3>2, <4>3
        <4>5. list[i] = list[j]
          BY <4>1, <4>2, <4>4, BubbleFields
        <4> QED BY <2>6, <4>5
      <3> QED BY <1>1, <1>2, <2>7, <2>8, <3>1, <3>2, <3>3, FetchedHolds
    <2> QED BY <1>3, <2>11, <2>12, <2>13, <2>14 DEF ChatInv
  <1> QED BY <1>6, <1>7

-----------------------------------------------------------------------------
(* The thread                                                                *)

LEMMA ChatStarts == ASSUME ChatInit PROVE ChatInv
  <1>1. cache \in [has : BOOLEAN, stale : BOOLEAN, list : Seq(BubbleSet)] /\ cache.list = <<>> /\ missed = Texts
    BY DEF ChatInit
  <1>2. fetch \in [busy : BOOLEAN, db : AnswerSet, history : AnswerSet] /\ ~HasRead
        /\ \A a \in {fetch.db, fetch.history} : IsFiniteSet(a.bubbles) /\ (a.ok => a.asked) /\ (~a.ok => a.bubbles = {})
    BY ReadingIs DEF ChatInit, HasRead
  <1>3. Row(FALSE, "none") \in StoredSet /\ Row(FALSE, "none").keyed = FALSE /\ Row(FALSE, "none").status = "none"
    BY RowIs
  <1>4. /\ stored \in [Texts -> StoredSet] /\ \A m \in Texts : ~stored[m].keyed /\ stored[m].status = "none" /\ reported[m] = {}
    BY <1>3 DEF ChatInit
  <1>5. stream = <<>> /\ stream \in Seq(EventSet) /\ Len(stream) = 0
    BY DEF ChatInit
  <1>6. 0 \in 0 .. MaxGaps
    BY ChatAssumption
  <1>7. ChatShape
    BY <1>1, <1>2, <1>4, <1>5, <1>6 DEF ChatInit, ChatShape, StoredSet
  <1>8. StreamHolds
    BY <1>5 DEF StreamHolds
  <1>9. ASSUME NEW m \in Texts PROVE RowHolds(m) /\ AcksAreKept(m)
    <2>1. m \in Typed => call[m] = "none"
      BY DEF ChatInit
    <2>2. LateOf(m) = {} /\ m \notin echoed
      BY DEF ChatInit, LateOf
    <2> QED BY <1>4, <2>1, <2>2 DEF RowHolds, AcksAreKept
  <1> QED BY <1>1, <1>2, <1>7, <1>8, <1>9 DEF ChatInv

LEMMA ChatStep == ASSUME ChatInv, [ChatNext]_chatVars PROVE ChatInv'
  <1>1. CASE \E m \in Typed : Inserts(m) \/ Takes(m) \/ Stores(m) \/ PageSends(m) \/ SendSucceeds(m) \/ SendFails(m)
    BY <1>1, InsertsStep, TakesStep, StoresStep, PageSendsStep, SendSucceedsStep, SendFailsStep
  <1>2. CASE \E m \in Texts : PhoneSends(m) \/ Echoes(m) \/ Receives(m) \/ Acknowledges(m)
    BY <1>2, PhoneSendsStep, EchoesStep, ReceivesStep, AcknowledgesStep
  <1>3. CASE RetriesAck \/ Connects \/ Joins \/ Drops \/ Hears
    BY <1>3, RetriesAckStep, ConnectsStep, WindowSteps, DropsStep, HearsStep
  <1>4. CASE Opens \/ Leaves \/ Collects \/ RowsArrive \/ HistoryArrives \/ FetchEnds
    BY <1>4, WindowSteps, CollectsStep, AnswerSteps, FetchEndsStep
  <1>5. CASE UNCHANGED chatVars
    <2>1. /\ UNCHANGED <<call, stored, reported, echoed, late, lost, gaps, stream, sending, missed>>
          /\ UNCHANGED <<socket, open, cache, fetch, since>>
      BY <1>5 DEF chatVars
    <2>2. /\ socket' \in {"off", "connected", "joined"} /\ open' \in BOOLEAN
          /\ cache' \in [has : BOOLEAN, stale : BOOLEAN, list : Seq(BubbleSet)] /\ cache'.has = cache.has /\ cache'.list = cache.list
      BY <2>1 DEF ChatInv, ChatShape
    <2> QED BY <2>1, <2>2, WindowStep
  <1> QED BY <1>1, <1>2, <1>3, <1>4, <1>5 DEF ChatNext

\* What is shown of a message: once, and twice at most while the page awaits the answer of its send.
LEMMA ShownOnce ==
    ASSUME ChatInv, NEW m \in Texts \ missed
    PROVE  Cardinality(Shown(m)) <= IF sending = m THEN 2 ELSE 1
  <1>1. cache.list \in Seq(BubbleSet) /\ ThreadHolds(m) /\ RowHolds(m)
    BY ShapeIs DEF PageHolds
  <1>2. PICK S : S = Shown(m)
    OBVIOUS
  <1>3. \A i \in S : /\ i \in 1 .. Len(cache.list) /\ cache.list[i].m = m /\ cache.list[i].key \in {"temp", "row", "wa"}
                     /\ cache.list[i].status \in Ticks
    BY <1>1, <1>2, ListFields DEF Shown, BubbleKeys
  <1>4. \A i \in S : On(cache.list, cache.list[i].key, m, cache.list[i].status)
    BY <1>3 DEF On
  <1>5. \A i, j \in S : cache.list[i].key = cache.list[j].key => i = j
    <2> SUFFICES ASSUME NEW i \in S, NEW j \in S, cache.list[i].key = cache.list[j].key PROVE i = j
      OBVIOUS
    <2>1. OncePerKey(cache.list, m)
      BY <1>1 DEF ThreadHolds
    <2>2. i \in 1 .. Len(cache.list) /\ j \in 1 .. Len(cache.list) /\ cache.list[i].m = m /\ cache.list[j].m = m
      BY <1>3
    <2> QED BY <2>1, <2>2 DEF OncePerKey
  <1>6. ASSUME NEW i \in S, NEW j \in S, cache.list[i].key = "row", cache.list[j].key = "temp" PROVE FALSE
    BY <1>1, <1>3, <1>4, <1>6 DEF ThreadHolds
  <1>7. \A i, j \in S : (cache.list[i].key = "wa" <=> cache.list[j].key = "wa") => i = j
    BY <1>3, <1>5, <1>6
  <1>8. ASSUME sending # m, NEW i \in S, NEW j \in S PROVE i = j
    <2>1. ASSUME NEW a \in S, NEW b \in S, cache.list[a].key = "wa", cache.list[b].key # "wa" PROVE FALSE
      <3>1. reported[m] # {}
        BY <1>1, <1>3, <1>4, <2>1 DEF ThreadHolds
      <3>2. m \in Typed /\ call[m] = "failed"
        BY <1>1, <1>3, <1>4, <1>8, <2>1 DEF ThreadHolds
      <3> QED BY <1>1, <3>1, <3>2 DEF RowHolds
    <2> QED BY <1>7, <2>1
  <1>9. CASE S = {}
    <2>1. Cardinality(S) = 0
      BY <1>9, FS_EmptySet
    <2> QED BY <1>2, <2>1
  <1>10. CASE \E i \in S : S = {i}
    <2>1. PICK i \in S : S = {i}
      BY <1>10
    <2>2. Cardinality({i}) = 1
      BY FS_Singleton
    <2> QED BY <1>2, <2>1, <2>2
  <1>11. CASE \E i, j \in S : i # j
    <2>1. PICK i \in S, j \in S : i # j
      BY <1>11
    <2>2. sending = m
      BY <1>8, <2>1
    <2>3. S = {i} \cup {j}
      BY <1>7, <2>1
    <2>4. IsFiniteSet({i}) /\ Cardinality({i}) = 1
      BY FS_Singleton
    <2>5. Cardinality({i} \cup {j}) = 2
      <3>1. PICK T : T = {i}
        OBVIOUS
      <3>2. IsFiniteSet(T) /\ Cardinality(T) = 1 /\ j \notin T
        BY <2>1, <2>4, <3>1
      <3>3. Cardinality(T \cup {j}) = Cardinality(T) + 1
        BY ONLY <3>2, FS_AddElement
      <3> QED BY ONLY <3>1, <3>2, <3>3
    <2> QED BY <1>2, <2>2, <2>3, <2>5
  <1> QED BY <1>9, <1>10, <1>11

LEMMA ChatIsSound == ASSUME ChatInv PROVE ChatTypeOK /\ ChatIsTrue
  <1>1. ChatTypeOK
    <2>1. reported \in [Texts -> SUBSET Ticks]
      <3>1. Reportable \subseteq Ticks
        BY DEF Reportable, Ticks
      <3>2. SUBSET Reportable \subseteq SUBSET Ticks
        BY <3>1
      <3>3. reported \in [Texts -> SUBSET Reportable]
        BY DEF ChatInv, ChatShape
      <3> QED BY <3>2, <3>3
    <2>2. \A b \in ToSet(cache.list) : b.key \in {"temp", "row", "wa"} /\ b.m \in Texts /\ b.status \in Ticks
      <3>1. cache.list \in Seq(BubbleSet)
        BY DEF ChatInv, ChatShape
      <3>2. \A b \in ToSet(cache.list) : b \in BubbleSet
        BY <3>1 DEF ToSet
      <3> QED BY <3>2, BubbleFields DEF BubbleKeys
    <2> QED BY <2>1, <2>2 DEF ChatInv, ChatShape, ChatTypeOK
  <1>2. ASSUME NEW m \in Texts \ missed
        PROVE  /\ Cardinality(Shown(m)) <= IF sending = m THEN 2 ELSE 1
               /\ m \in Typed => \A i \in Shown(m) :
                     cache.list[i].status \in reported[m] \cup {"pending", "sent"} \cup (IF call[m] = "failed" THEN {"failed"} ELSE {})
               /\ Quiet(m) => \E i \in Shown(m) :
                     /\ cache.list[i].key = "wa"
                     /\ stored[m].keyed /\ m \notin lost => cache.list[i].status = stored[m].status
    <2>1. cache.list \in Seq(BubbleSet) /\ PageHolds(m) /\ ThreadHolds(m) /\ RowHolds(m)
      BY ShapeIs DEF PageHolds
    <2>2. \A i \in Shown(m) : /\ i \in 1 .. Len(cache.list) /\ cache.list[i].m = m /\ cache.list[i].key \in {"temp", "row", "wa"}
                              /\ cache.list[i].status \in Ticks
      BY <2>1, ListFields DEF Shown, BubbleKeys
    <2>3. ASSUME m \in Typed, NEW i \in Shown(m)
          PROVE  cache.list[i].status \in reported[m] \cup {"pending", "sent"} \cup (IF call[m] = "failed" THEN {"failed"} ELSE {})
      <3>1. On(cache.list, cache.list[i].key, m, cache.list[i].status)
        BY <2>2 DEF On
      <3> QED BY <2>1, <2>2, <2>3, <3>1 DEF ThreadHolds
    <2>4. ASSUME Quiet(m) PROVE \E i \in Shown(m) :
                     /\ cache.list[i].key = "wa"
                     /\ stored[m].keyed /\ m \notin lost => cache.list[i].status = stored[m].status
      <3>1. Len(stream) = 0 /\ m \in echoed /\ LateOf(m) = {}
        <4>1. Len(stream) = 0 /\ m \in echoed
          BY <2>4 DEF Quiet
        <4>2. ASSUME NEW s \in LateOf(m) PROVE FALSE
          <5>1. <<m, s>> \in late /\ <<m, s>>[1] = m
            BY DEF LateOf
          <5> QED BY <2>4, <5>1 DEF Quiet
        <4> QED BY <4>1, <4>2
      <3>2. ~Announced(m) /\ AcksOf(m) = {} /\ ~FailsFirst(m)
        BY <3>1 DEF Announced, AcksOf, FailsFirst
      <3>3. PICK x \in Ticks : On(cache.list, "wa", m, x)
        BY <2>1, <3>1, <3>2 DEF ThreadHolds
      <3>4. PICK i \in 1 .. Len(cache.list) : cache.list[i].key = "wa" /\ cache.list[i].m = m /\ cache.list[i].status = x
        BY <3>3 DEF On
      <3>5. i \in Shown(m)
        BY <2>1, <3>4, ListFields DEF Shown
      <3>6. ASSUME stored[m].keyed, m \notin lost PROVE x = stored[m].status
        <4>1. x \in Reportable
          BY <2>1, <3>3 DEF ThreadHolds
        <4>2. Agrees(m, x)
          BY <2>1, <3>3, <3>6, <4>1 DEF PageHolds, PageAgrees, Matters
        <4>3. Survives(RowStatus(m), LateOf(m)) /\ Final(RowStatus(m), LateOf(m)) = stored[m].status
          BY <3>1, <3>6 DEF Survives, Final, RowStatus
        <4>4. Ending(x, AcksOf(m), FailsFirst(m)) = x
          BY <3>2, <4>1 DEF Ending, Reportable
        <4> QED BY <4>2, <4>3, <4>4 DEF Agrees
      <3> QED BY <3>4, <3>5, <3>6
    <2> QED BY <2>3, <2>4, ShownOnce
  <1>3. ChatIsTrue
    BY <1>2 DEF ChatIsTrue
  <1> QED BY <1>1, <1>3

\* The thread of a chat: what it shows is once there, with a tick that WhatsApp has reported, and in the end that of
\* the database.
THEOREM ThreadStaysTrue == ChatSpec => [](ChatTypeOK /\ ChatIsTrue)
  <1>1. ChatInit => ChatInv
    BY ChatStarts
  <1>2. ChatInv /\ [ChatNext]_chatVars => ChatInv'
    BY ChatStep
  <1>3. ChatInv => ChatTypeOK /\ ChatIsTrue
    BY ChatIsSound
  <1> QED BY <1>1, <1>2, <1>3, PTL DEF ChatSpec

-----------------------------------------------------------------------------
\* EventsReachThePage (events.gateway.ts: handleSubscribe, handleUnsubscribe, handleDisconnect): every open socket is
\* tracked for an eviction, and every other that is tracked went while its key was looked up (a deserted one); an open
\* socket whose requests have been answered is in the rooms its page has asked for and in no other, unless an unsubscribe
\* was handled while an earlier subscribe waited for its look-up (an overtaken one, which keeps the room).
THEOREM GatewayStaysTrue == GatewaySpec => []EventsReachThePage
  <1>1. GatewayInit => GatewayInv
    BY GatewayStarts
  <1>2. GatewayInv /\ [GatewayNext]_gatewayVars => GatewayInv'
    BY GatewayStep
  <1>3. GatewayInv => EventsReachThePage
    BY GatewayIsTrue
  <1> QED BY <1>1, <1>2, <1>3, PTL DEF GatewaySpec

\* ListsAreSound (the pages of webhooks, templates, keys and instances): with nothing under way the list is what the
\* server has, unless others changed it, an answer was lost or a call was answered while the page was away; a text stays
\* in its form until it is saved or left, unless it was typed while another call of that form was under way; one text
\* becomes one row, unless an answer was lost or it is a webhook, whose button may be pressed twice; and a secret is shown
\* until it is closed, unless the user had gone on to something else.
THEOREM ListsStaySound == ListSpec => []ListsAreSound
  <1>1. ListInit => ListInv
    BY ListStarts
  <1>2. ListInv /\ [ListNext]_listVars => ListInv'
    BY ListStep
  <1>3. ListInv => ListsAreSound
    BY ListIsTrue
  <1> QED BY <1>1, <1>2, <1>3, PTL DEF ListSpec

\* SettingsAreKept (plugin-secrets.ts: redactSecretConfig(), restoreSecretConfig(); the configuration pages): whatever is
\* edited, no mask is stored in place of a secret; and a save of a form nothing has changed under stores what was typed,
\* the rows by their names, and, where the edit was Calm, every masked secret in its own row.  With names used twice, or
\* rows renamed and also added, removed or given a name that was there, a secret may end in another row.
THEOREM SettingsStayKept == SettingsSpec => []SettingsAreKept
  <1>1. SettingsInit => SettingsInv
    BY SettingsStarts
  <1>2. SettingsInv /\ [SettingsNext]_settingsVars => SettingsInv'
    BY SettingsStep
  <1>3. SettingsInv => SettingsAreKept
    BY SettingsAreTrue
  <1> QED BY <1>1, <1>2, <1>3, PTL DEF SettingsSpec

-----------------------------------------------------------------------------
(* The parts together                                                       *)

\* A part whose turn it is not stands still: each keeps its own invariant.
DashboardInv ==
    /\ part \in {"chat", "events", "lists", "settings"}
    /\ ChatInv /\ GatewayInv /\ ListInv /\ SettingsInv

LEMMA DashboardHolds == DashboardSpec => []DashboardInv
  <1>1. DashboardInit => DashboardInv
    BY ChatStarts, GatewayStarts, ListStarts, SettingsStarts DEF DashboardInit, DashboardInv
  <1>2. DashboardInv /\ [DashboardNext]_dashboardVars => DashboardInv'
    <2> SUFFICES ASSUME DashboardInv, [DashboardNext]_dashboardVars PROVE DashboardInv'
      OBVIOUS
    <2>1. /\ [ChatNext]_chatVars /\ [GatewayNext]_gatewayVars /\ [ListNext]_listVars /\ [SettingsNext]_settingsVars
          /\ part' = part
      BY DEF DashboardNext, dashboardVars
    <2>2. part' \in {"chat", "events", "lists", "settings"}
      BY <2>1 DEF DashboardInv
    <2>3. ChatInv' /\ GatewayInv' /\ ListInv' /\ SettingsInv'
      BY <2>1, ChatStep, GatewayStep, ListStep, SettingsStep DEF DashboardInv
    <2> QED BY <2>2, <2>3 DEF DashboardInv
  <1> QED BY <1>1, <1>2, PTL DEF DashboardSpec

\* DashboardTypes (LiveChat, EventsGateway, ListPages, PluginSettings): whatever a part keeps is one of the values the
\* page or the server knows how to show.
THEOREM DashboardTypeCorrect == DashboardSpec => []DashboardTypes
  <1>1. DashboardInv => DashboardTypes
    <2> SUFFICES ASSUME DashboardInv PROVE DashboardTypes
      OBVIOUS
    <2>1. ChatTypeOK /\ GatewayTypeOK /\ ListTypeOK /\ SettingsTypeOK
      BY ChatIsSound, GatewayIsTrue, ListIsTrue, SettingsAreTrue DEF DashboardInv
    <2> QED BY <2>1 DEF DashboardInv, DashboardTypes
  <1> QED BY <1>1, DashboardHolds, PTL

\* LiveIsTrue (Chats.tsx, useChatMessages.ts, message.service.ts; events.gateway.ts; the pages that show a list;
\* plugin-secrets.ts): the thread of a chat shows what happened to each message it has heard of or read, once and with
\* the status it reached, and each of the other parts keeps its promise.
THEOREM LiveStaysTrue == DashboardSpec => []LiveIsTrue
  <1>1. DashboardInv => LiveIsTrue
    BY ChatIsSound, GatewayIsTrue, ListIsTrue, SettingsAreTrue DEF DashboardInv, LiveIsTrue
  <1> QED BY <1>1, DashboardHolds, PTL

=============================================================================
