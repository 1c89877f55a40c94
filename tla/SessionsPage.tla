----------------------------- MODULE SessionsPage -----------------------------
(***************************************************************************)
(* The page of the sessions: dashboard/src/pages/Sessions.tsx over         *)
(* hooks/useWebSocket.ts, and what the server answers it.                  *)
(*                                                                         *)
(* The page keeps a list it loads, changes after its own calls, and keeps  *)
(* up to date from the socket; and one modal that shows the QR code or a   *)
(* pairing code of a session and polls until that session has settled.     *)
(* Handlers go on with the list they saw when the button was clicked.      *)
(***************************************************************************)
EXTENDS Integers, Sequences, FiniteSets

CONSTANTS
    Cards,       \* the sessions
    NoCard,      \* none of them
    AtFirst,     \* the statuses they may have when the page has loaded
    MaxSteps,    \* bound: buttons that call the server, changes the engines make and losses, together
    MaxInFlight, \* bound: calls under way when the user or the timer makes another
    PageFaults   \* which of "socket", "answer" (of a call) may be lost

ASSUME PageAssumption ==
    /\ NoCard \notin Cards
    /\ AtFirst \subseteq {"new", "created", "qr_ready", "ready"}
    /\ {MaxSteps, MaxInFlight} \subseteq Nat
    /\ PageFaults \subseteq {"socket", "answer"}

VARIABLES
    server,    \* the status of each session there
    shownList, \* `sessions`: the status the page shows for each, "gone" when it shows none
    loading,   \* is the page hidden behind its spinner?
    room,      \* is the socket in the room of the events?
    events,    \* session.status on their way
    fetches,   \* the calls under way
    modal,     \* qrData
    named,     \* currentSessionName
    pairing,   \* the session whose pairing code is shown
    steps,
    doubt,     \* history: sessions the page may be wrong about
    muddled    \* history: has a call for one session reached into the modal of another?

pageVars == <<server, shownList, loading, room, events, fetches, modal, named, pairing, steps, doubt, muddled>>

\* "new" is not created yet, "gone" is deleted.
Absent == {"new", "gone"}
Reads == {"list", "poll", "show", "get", "pair"}
Running == {"initializing", "qr_ready", "authenticating", "ready"}
Pending == {"initializing", "connecting", "qr_ready", "authenticating"}

NoModal == [of |-> NoCard, name |-> NoCard, code |-> FALSE]

PageInit ==
    /\ server \in [Cards -> AtFirst]
    /\ shownList = server
    /\ loading = FALSE /\ room = TRUE /\ events = <<>> /\ fetches = {}
    /\ modal = NoModal /\ named = NoCard /\ pairing = NoCard
    /\ steps = 0
    /\ doubt = {} /\ muddled = FALSE

-----------------------------------------------------------------------------
(* The server                                                               *)

\* snap is the list the handler saw, or the one that was read for it.
Change(of, type, snap) ==
    [of |-> of, type |-> type, snap |-> snap, then |-> "end", at |-> "sent", answer |-> "none", crossed |-> {}]

Blank == [s \in Cards |-> "gone"]

\* getQRCode() and requestPairingCode() need an engine; the first a code that has not been used yet, too.
Reply(s, type) ==
    CASE type = "list" -> "ok"
      [] type = "get" -> server[s]
      [] type = "pair" -> IF server[s] \in Running \ {"ready"} THEN "ok" ELSE "refused"
      [] OTHER -> IF server[s] = "qr_ready" THEN "ok" ELSE "refused"

\* A call that only reads finds what is there when it is sent: a change before it is read could as well come before.
Inquiry(s, type, then) ==
    [Change(s, type, IF type = "list" THEN server ELSE Blank)
        EXCEPT !.then = then, !.at = "served", !.answer = Reply(s, type)]

\* A session changes: those in the room are told, and what was read or seen before is stale.
Crossed(s, calls) == {IF c.type \in Reads \ {"list"} THEN c ELSE [c EXCEPT !.crossed = @ \cup {s}] : c \in calls}

Tells(s, status) ==
    IF room THEN events' = Append(events, [of |-> s, status |-> status]) /\ doubt' = doubt
    ELSE events' = events /\ doubt' = doubt \cup {s}

PageRests == UNCHANGED <<shownList, loading, modal, named, pairing>>

Step == steps < MaxSteps /\ steps' = steps + 1
MayCall == Cardinality(fetches) < MaxInFlight

\* An engine gets on: a QR code, its scan, the login; it may fail or lose its link.
EngineChanges(s) ==
    /\ Step
    /\ server[s] \in Running
    /\ \E status \in {"failed", "disconnected"} \cup
                     (CASE server[s] = "initializing" -> {"qr_ready", "ready"}
                        [] server[s] = "qr_ready" -> {"authenticating"}
                        [] server[s] = "authenticating" -> {"ready"}
                        [] OTHER -> {}) :
          /\ server' = [server EXCEPT ![s] = status]
          /\ Tells(s, status)
    /\ fetches' = Crossed(s, fetches)
    /\ PageRests /\ UNCHANGED <<room, muddled>>

\* start(), stop(), forceKill(), delete() and create(): the status before, and after.
Allowed(c) ==
    CASE c.type = "start" -> server[c.of] \notin Running \cup Absent
      [] c.type = "create" -> server[c.of] = "new"
      [] OTHER -> server[c.of] \notin Absent
LeftBy(type) ==
    CASE type = "start" -> "initializing"
      [] type = "create" -> "created"
      [] type = "delete" -> "gone"
      [] OTHER -> "disconnected"

Serve(c) ==
    /\ c.at = "sent"
    /\ \/ /\ Allowed(c)
          /\ server' = [server EXCEPT ![c.of] = LeftBy(c.type)]
          /\ fetches' = Crossed(c.of, fetches \ {c}) \cup {[c EXCEPT !.at = "served", !.answer = "ok"]}
          /\ IF c.type \in {"create", "delete"} \/ server[c.of] = LeftBy(c.type) THEN UNCHANGED <<events, doubt>>
             ELSE Tells(c.of, LeftBy(c.type))
       \/ /\ ~Allowed(c)
          /\ fetches' = (fetches \ {c}) \cup {[c EXCEPT !.at = "served", !.answer = "refused"]}
          /\ UNCHANGED <<server, events, doubt>>
    /\ PageRests /\ UNCHANGED <<room, steps, muddled>>

-----------------------------------------------------------------------------
(* The modal                                                                *)

\* What else is under way for the modal of another session.
Meddles(s, calls) == \E c \in calls : c.of # s /\ c.type \in {"poll", "get", "show", "pair"}

MutOpens(s, calls) ==
    /\ modal' = [of |-> s, name |-> s, code |-> FALSE] /\ named' = s /\ pairing' = pairing
    /\ fetches' = calls \cup {Inquiry(s, "show", "end")}
    /\ muddled' = (muddled \/ Meddles(s, calls))

\* handleShowQR(): what an earlier modal left is reset; the modal shows at once, and the QR code follows.
Opens(s, calls) ==
    /\ modal' = [of |-> s, name |-> s, code |-> FALSE] /\ named' = s /\ pairing' = NoCard
    /\ fetches' = calls \cup {Inquiry(s, "show", "end")}
    /\ muddled' = (muddled \/ Meddles(s, calls))

NotOpened(calls) == fetches' = calls /\ UNCHANGED <<modal, named, pairing, muddled>>

\* fetchSessions()
Fetch(s, calls, then) == fetches' = calls \cup {Inquiry(s, "list", then)} /\ loading' = TRUE

\* A code came: it is shown, whatever the modal shows now; the effect of qrData sets the name.
Shows(s, name) == modal' = [of |-> s, name |-> name, code |-> TRUE] /\ named' = name
Shuts == modal' = NoModal /\ named' = NoCard

\* Every 5 seconds; a session the list shows as ready is not asked about.
Poll ==
    /\ modal # NoModal /\ MayCall /\ ~\E c \in fetches : c.type \in {"poll", "get"} /\ c.of = modal.of
    /\ IF shownList[modal.of] = "ready" THEN Shuts /\ UNCHANGED fetches
       ELSE fetches' = fetches \cup {Inquiry(modal.of, "poll", "end")} /\ UNCHANGED <<modal, named>>
    /\ UNCHANGED <<server, shownList, loading, room, events, pairing, steps, doubt, muddled>>

\* handleCloseQRModal()
CloseModal ==
    /\ modal # NoModal /\ ~loading
    /\ modal' = NoModal /\ pairing' = NoCard
    /\ UNCHANGED <<server, shownList, loading, room, events, fetches, named, steps, doubt, muddled>>

\* The answers of fetchQR(), of handleShowQR() and of the pairing form.
ModalAnswer(c, answer) ==
    LET rest == fetches \ {c}
        Same == UNCHANGED <<modal, named>>
        NoFetch == fetches' = rest /\ UNCHANGED loading
    IN /\ \/ c.type = "poll" /\ answer = "ok" /\ Shows(c.of, named) /\ NoFetch /\ UNCHANGED pairing
          \/ c.type = "poll" /\ answer # "ok" /\ Same /\ fetches' = rest \cup {Inquiry(c.of, "get", "end")}
             /\ UNCHANGED <<loading, pairing>>
          \/ c.type = "get" /\ answer \in Pending /\ Same /\ NoFetch /\ UNCHANGED pairing
          \/ c.type = "get" /\ answer \notin Pending /\ Shuts /\ Fetch(c.of, rest, "end") /\ UNCHANGED pairing
          \/ c.type = "show" /\ answer = "ok" /\ Shows(c.of, c.of) /\ NoFetch /\ UNCHANGED pairing
          \/ c.type = "show" /\ answer # "ok" /\ Same /\ NoFetch /\ UNCHANGED pairing
          \/ c.type = "pair" /\ pairing' = (IF answer = "ok" THEN c.of ELSE pairing) /\ Same /\ NoFetch
       /\ muddled' = (muddled \/ (modal # NoModal /\ modal.of # c.of))
       /\ UNCHANGED <<shownList, doubt>>

-----------------------------------------------------------------------------
(* The list                                                                 *)

\* Handlers that saw an older list than the page shows now.
Overtaken(seen, calls) ==
    {IF c.type \in Reads THEN c ELSE [c EXCEPT !.crossed = @ \cup {s \in Cards \ {c.of} : seen[s] # c.snap[s]}] : c \in calls}

\* What a handler writes: the list it saw, but for its own session.
Patched(c) == [c.snap EXCEPT ![c.of] = IF c.type = "start" THEN "connecting" ELSE LeftBy(c.type)]

ListAnswer(c, answer) ==
    LET rest == IF answer = "ok" THEN Overtaken(c.snap, fetches \ {c}) ELSE fetches \ {c}
        fresh == IF answer = "refused" THEN "none" ELSE c.snap[c.of]
    IN /\ c.type = "list"
       /\ loading' = FALSE
       /\ IF answer = "refused" THEN UNCHANGED <<shownList, doubt>> ELSE shownList' = c.snap /\ doubt' = c.crossed
       /\ IF c.then = "show" \/ (c.then = "showUnlessReady" /\ fresh # "ready")
          THEN Opens(c.of, rest) ELSE NotOpened(rest)

\* handleCreate(), handleDelete(), handleStart(), handleStop() and handleForceKill() after their call.
ChangeAnswer(c, answer) ==
    LET rest == IF answer = "ok" THEN Overtaken(Patched(c), fetches \ {c}) ELSE fetches \ {c} IN
    /\ c.type \notin Reads
    /\ \/ /\ answer = "ok"
          /\ shownList' = Patched(c)
          /\ doubt' = doubt \cup c.crossed \cup (IF c.type = "start" THEN {c.of} ELSE {})
          /\ IF c.type = "start" THEN Fetch(c.of, rest, "show") ELSE fetches' = rest /\ UNCHANGED loading
       \/ /\ answer = "refused"
          /\ doubt' = doubt \cup c.crossed \cup {c.of}
          /\ CASE c.type = "start" -> Fetch(c.of, rest, "showUnlessReady")
               [] c.type \in {"stop", "kill"} -> Fetch(c.of, rest, "end")
               [] OTHER -> fetches' = rest /\ UNCHANGED loading
          /\ UNCHANGED shownList
    /\ UNCHANGED <<modal, named, pairing, muddled>>

\* The answer arrives, or is lost.  That of a start comes when its engine is up, or failed.
Returns(c) ==
    /\ c.at = "served"
    /\ \/ /\ LET due == IF c.type = "start" /\ server[c.of] \notin Running THEN "refused" ELSE c.answer
             IN ModalAnswer(c, due) \/ ListAnswer(c, due) \/ ChangeAnswer(c, due)
          /\ UNCHANGED steps
       \/ /\ "answer" \in PageFaults /\ Step
          /\ ModalAnswer(c, "refused") \/ ListAnswer(c, "refused") \/ ChangeAnswer(c, "refused")
    /\ UNCHANGED <<server, room, events>>

\* onSessionStatus(): only an actual change counts; a failure is looked up for its reason.
HearsStatus ==
    /\ events # <<>> /\ events' = Tail(events)
    /\ LET e == Head(events)
           seen == Overtaken([shownList EXCEPT ![e.of] = e.status], fetches)
       IN IF shownList[e.of] \in Absent \cup {e.status} THEN UNCHANGED <<shownList, fetches, loading, doubt>>
          ELSE /\ shownList' = [shownList EXCEPT ![e.of] = e.status]
               /\ doubt' = IF fetches = {} /\ e.status = server[e.of] THEN doubt \ {e.of} ELSE doubt
               /\ IF e.status = "failed" THEN Fetch(e.of, seen, "end") ELSE fetches' = seen /\ UNCHANGED loading
    /\ UNCHANGED <<server, room, modal, named, pairing, steps, muddled>>

\* The socket goes, with what was on its way; it comes back and joins, and nothing is loaded again.
SocketDrops ==
    /\ "socket" \in PageFaults /\ room /\ Step
    /\ room' = FALSE /\ events' = <<>>
    /\ doubt' = doubt \cup {events[i].of : i \in DOMAIN events}
    /\ PageRests /\ UNCHANGED <<server, fetches, muddled>>
SocketJoins ==
    /\ ~room /\ room' = TRUE
    /\ PageRests /\ UNCHANGED <<server, events, fetches, steps, doubt, muddled>>

-----------------------------------------------------------------------------
(* The buttons, which the spinner and the modal cover                       *)

Press(c) ==
    /\ Step /\ MayCall
    /\ ~loading
    /\ fetches' = fetches \cup {c}
    /\ UNCHANGED <<server, shownList, loading, room, events, modal, named, pairing, doubt, muddled>>

Buttons(status) ==
    (IF status \in {"created", "disconnected", "failed", "authenticating"} THEN {"start"} ELSE {"stop"})
    \cup {"delete"} \cup (IF status = "failed" THEN {"kill"} ELSE {})

ClickCard(s) ==
    /\ modal = NoModal /\ shownList[s] \notin Absent
    /\ \E type \in Buttons(shownList[s]) : Press(Change(s, type, shownList))
ClickCreate(s) == modal = NoModal /\ shownList[s] = "new" /\ Press(Change(s, "create", shownList))
ClickPair ==
    /\ modal # NoModal /\ pairing = NoCard
    /\ ~\E c \in fetches : c.type = "pair"
    /\ Press(Inquiry(modal.of, "pair", "end"))
ClickShow(s) ==
    /\ modal = NoModal /\ ~loading /\ shownList[s] = "qr_ready"
    /\ Step /\ MayCall
    /\ Opens(s, fetches)
    /\ UNCHANGED <<server, shownList, loading, room, events, doubt>>

PageNext ==
    \/ \E s \in Cards : EngineChanges(s) \/ ClickCard(s) \/ ClickCreate(s) \/ ClickShow(s)
    \/ \E c \in fetches : Serve(c) \/ Returns(c)
    \/ Poll \/ CloseModal \/ ClickPair \/ HearsStatus \/ SocketDrops \/ SocketJoins

\* The timer runs, and every call for a session gets on.
PageFairness ==
    /\ WF_pageVars(Poll)
    /\ \A s \in Cards : WF_pageVars(\E c \in fetches : c.of = s /\ (Serve(c) \/ Returns(c)))

PageSpec == PageInit /\ [][PageNext]_pageVars /\ PageFairness

-----------------------------------------------------------------------------

Shown == {"new", "gone", "created", "initializing", "connecting", "qr_ready", "authenticating", "ready", "disconnected", "failed"}

PageTypeOK ==
    /\ server \in [Cards -> Shown \ {"connecting"}] /\ shownList \in [Cards -> Shown]
    /\ modal.of \in Cards \cup {NoCard} /\ named \in Cards \cup {NoCard} /\ pairing \in Cards \cup {NoCard}
    /\ \A c \in fetches : c.of \in Cards /\ c.at \in {"sent", "served"} /\ c.crossed \subseteq Cards
    /\ doubt \subseteq Cards

\* When nothing is on its way, the page shows the status every session has, except of those that changed while
\* a call was under way that wrote an older list, or while the socket was away.
ListIsTrue ==
    events = <<>> /\ fetches = {} => \A s \in Cards \ doubt : shownList[s] = server[s]

\* The modal shows the name, the QR code and the pairing code of one session, unless it was opened while
\* something for another session was still to be answered.
ModalIsOfOneSession ==
    ~muddled /\ modal # NoModal => modal.name = modal.of /\ pairing \in {NoCard, modal.of}

PageIsTrue == ListIsTrue /\ ModalIsOfOneSession

\* The modal of a session that has been linked, has failed or was stopped goes away by itself.
ModalCloses == \A s \in Cards : []<>~(modal.of = s /\ server[s] \notin Pending)

===============================================================================
