-------------------------- MODULE SessionLifecycle --------------------------
(***************************************************************************)
(* src/modules/session/session.service.ts and the lifecycle half of the    *)
(* two engine adapters: who registers, replaces, tears down and reconnects *)
(* the WhatsApp engine of a session, and what the session row says.        *)
(*                                                                         *)
(* The process is one event loop.  An async method runs to its next await  *)
(* without interruption, so one action is the code between two awaits of   *)
(* one call, and a call in flight is a task that remembers where it waits. *)
(* Statements of the `data` connection take effect in the order they are   *)
(* issued (SQLite, one connection), so a status write is part of the step  *)
(* that issues it and only its await is left as an interleaving point.     *)
(***************************************************************************)
EXTENDS Integers, FiniteSets

CONSTANTS
    Sessions,
    Engines,         \* engine instances; one that nobody refers to any more may be made again
    Tasks,           \* calls in flight: bounds how many overlap
    None,            \* no engine, no session
    Adapter,         \* "wwjs" or "baileys"
    Requests,        \* which operations callers send; "stop" stands for stop and forceKill
    MaxAttempts,     \* maxReconnectAttempts of the session config, clamped
    MaxConcurrent,   \* MAX_CONCURRENT_SESSIONS, 0 = unlimited
    DbFails,         \* may the statements whose failure the code handles fail?
    Restarts         \* may the process drain, exit or crash, and boot again?

ASSUME SetsAssumption ==
    /\ IsFiniteSet(Sessions) /\ IsFiniteSet(Engines) /\ IsFiniteSet(Tasks)
    /\ None \notin Sessions \cup Engines
ASSUME ConfigAssumption ==
    /\ Adapter \in {"wwjs", "baileys"}
    /\ Requests \subseteq {"start", "stop", "delete"}
    /\ MaxAttempts \in Nat /\ MaxConcurrent \in Nat
    /\ DbFails \in BOOLEAN /\ Restarts \in BOOLEAN

VARIABLES
    sess,      \* per session: its row and its entries in the service's maps and sets
    eng,       \* per engine instance: the adapter's own state
    task,      \* per task: the call it runs and where it waits
    proc       \* the process: "up", "draining" (ShutdownService) or "destroying" (app.close)

vars == <<sess, eng, task, proc>>

Status == {"CREATED", "INITIALIZING", "QR_READY", "AUTHENTICATING", "READY",
           "DISCONNECTED", "FAILED"}
EngineStatus == Status \ {"CREATED"}
ActiveStatus == {"INITIALIZING", "QR_READY", "AUTHENTICATING", "READY"}

-----------------------------------------------------------------------------
(* The session: what the service keeps about one id.                       *)

NewSession ==
    [row       |-> "CREATED",  \* the status column, "GONE" once the row is deleted
     engine    |-> None,       \* engines.get(id)
     stopping  |-> FALSE,      \* stoppingSessions.has(id)
     starting  |-> FALSE,      \* initializingSessions.has(id)
     tracked   |-> FALSE,      \* reconnectStates.has(id)
     attempts  |-> 0,          \*   .attempts
     timer     |-> FALSE,      \*   .timer is armed
     reason    |-> FALSE]      \* sessionErrors.has(id)

\* updateStatus(): an UPDATE by id, which finds nothing once the row is deleted.
SetStatus(r, status) == [r EXCEPT !.row = IF @ = "GONE" THEN @ ELSE status]

\* cancelReconnect(): disarm the timer and forget the state.
CancelReconnect(r) == [r EXCEPT !.tracked = FALSE, !.attempts = 0, !.timer = FALSE]

\* Mutation: the attempts are compared with their maximum after the increment's slot is taken.
MutScheduleReconnect(r) ==
    IF proc # "up" \/ ~r.tracked THEN r
    ELSE IF r.attempts > MaxAttempts
         THEN [SetStatus(r, "FAILED") EXCEPT !.reason = TRUE]
         ELSE [r EXCEPT !.attempts = @ + 1, !.timer = TRUE]

\* scheduleReconnect(): nothing while draining or when nobody tracks the session, FAILED once
\* the attempts are used up, one (re)armed timer otherwise.
ScheduleReconnect(r) ==
    IF proc # "up" \/ ~r.tracked THEN r
    ELSE IF r.attempts >= MaxAttempts
         THEN [SetStatus(r, "FAILED") EXCEPT !.reason = TRUE]
         ELSE [r EXCEPT !.attempts = @ + 1, !.timer = TRUE]

Evict(r) == [r EXCEPT !.engine = None]

(* The callbacks initializeEngine() hands to the engine.                    *)
OnStateChanged(r, st) == SetStatus(r, st)
OnReady(r)        == [SetStatus(r, "READY") EXCEPT !.attempts = 0, !.reason = FALSE]
OnDisconnected(r) == ScheduleReconnect(SetStatus(r, "DISCONNECTED"))

OnError(r) == Evict([CancelReconnect(SetStatus(r, "FAILED")) EXCEPT !.reason = TRUE])

-----------------------------------------------------------------------------
(* The engine adapter.  Phases: "none" (no such instance), "new" (made and *)
(* registered, initialize() not called), "prep" (initialize() is awaiting  *)
(* the version pin or the auth files: there is no client or socket yet),   *)
(* "live" (a browser or a socket exists), "clearing" (wwjs gave its client *)
(* up and is removing the auth files), "closing" (torn down, or dead).     *)

NoEngine == [owner |-> None, phase |-> "none", st |-> "DISCONNECTED", qr |-> FALSE]

\* The phases in which disconnect(), destroy() and forceDestroy() do something.  wwjs returns
\* early while it has no client; Baileys sets intentionalClose, which connect() honours after
\* its awaits and which a later initialize() clears again.
Stoppable == IF Adapter = "wwjs" THEN {"live"} ELSE {"prep", "live", "closing"}

TornDown(g) ==
    IF g.phase \in Stoppable THEN [g EXCEPT !.phase = "closing", !.st = "DISCONNECTED"] ELSE g

\* Mutation: the identity comparison is a test for presence.
MutIsLive(e) == eng[e].owner # None

\* isLiveEngine(): callbacks of an engine that is not the registered one are ignored.
IsLive(e) == eng[e].owner # None /\ sess[eng[e].owner].engine = e

\* The teardown's setStatus(DISCONNECTED) reaches the row while the engine is registered.
TeardownSeen(r, e) ==
    IF r.engine = e /\ eng[e].phase \in Stoppable /\ eng[e].st # "DISCONNECTED"
    THEN OnStateChanged(r, "DISCONNECTED") ELSE r

\* An instance that neither the map nor a call refers to is mute (isLiveEngine()): the model may
\* forget it and use its name again.
Reusable(e) == ~IsLive(e) /\ \A t \in Tasks : task[t].e # e

-----------------------------------------------------------------------------
(* Tasks.                                                                   *)

Idle == [op |-> "none", s |-> None, pc |-> "idle", e |-> None, retired |-> FALSE]

Goto(t, pc) == [task EXCEPT ![t].pc = pc]
End(t)      == [task EXCEPT ![t] = Idle]

Init ==
    /\ sess = [s \in Sessions |-> NewSession]
    /\ eng = [e \in Engines |-> NoEngine]
    /\ task = [t \in Tasks |-> Idle]
    /\ proc = "up"

\* A request arrives and findOne() reads the row; a missing row is a 404.
Request(t, op, s) ==
    /\ task[t].pc = "idle"
    /\ sess[s].row # "GONE"
    /\ task' = [task EXCEPT ![t] = [Idle EXCEPT !.op = op, !.s = s, !.pc = "find"]]
    /\ UNCHANGED <<sess, eng, proc>>

(* initializeEngine(), up to its first await: create, register, clear the  *)
(* old failure, write INITIALIZING.  r is the session as the caller left   *)
(* it.  A write that fails sends the caller to its catch block.            *)
InitializeEngine(t, op, s, r) ==
    \E e \in {d \in Engines : Reusable(d)}, written \in {TRUE, ~DbFails} :
       LET registered == [r EXCEPT !.engine = e, !.reason = FALSE] IN
       /\ eng' = [eng EXCEPT ![e] = [NoEngine EXCEPT !.owner = s, !.phase = "new"]]
       /\ sess' = [sess EXCEPT ![s] = IF written THEN SetStatus(registered, "INITIALIZING")
                                      ELSE registered]
       /\ task' = [task EXCEPT ![t] = [Idle EXCEPT !.op = op, !.s = s, !.e = e,
                                         !.pc = IF written THEN "initStatus" ELSE "thrown"]]
       /\ UNCHANGED proc

\* The engine registered in r, if any, is torn down.
Torn(r, es) ==
    IF r.engine = None THEN es ELSE [es EXCEPT ![r.engine] = TornDown(@)]
Becomes(s, r) == [sess EXCEPT ![s] = r]

-----------------------------------------------------------------------------
(* start()                                                                  *)

Occupied == {s \in Sessions : sess[s].engine # None \/ sess[s].starting}

\* Mutation: only the engines are counted, not the reservations.
MutAdmissible(s) ==
    /\ sess[s].engine = None
    /\ ~sess[s].starting
    /\ MaxConcurrent > 0 => Cardinality({q \in Sessions : sess[q].engine # None}) < MaxConcurrent

Admissible(s) ==
    /\ sess[s].engine = None
    /\ ~sess[s].starting
    /\ MaxConcurrent > 0 => Cardinality(Occupied) < MaxConcurrent

StartRejected(t) ==
    /\ task[t].op = "start" /\ task[t].pc = "find"
    /\ ~Admissible(task[t].s)
    /\ task' = End(t)
    /\ UNCHANGED <<sess, eng, proc>>

\* The check and the reservation are one tick; the session:starting hook is awaited next.
StartReserved(t) ==
    /\ task[t].op = "start" /\ task[t].pc = "find"
    /\ Admissible(task[t].s)
    /\ sess' = Becomes(task[t].s,
                  CancelReconnect([sess[task[t].s] EXCEPT !.starting = TRUE, !.stopping = FALSE]))
    /\ task' = Goto(t, "hook")
    /\ UNCHANGED <<eng, proc>>

StartHookDone(t) ==
    /\ task[t].pc = "hook"
    /\ InitializeEngine(t, "start", task[t].s,
          [sess[task[t].s] EXCEPT !.tracked = TRUE, !.attempts = 0, !.timer = FALSE])

-----------------------------------------------------------------------------
(* The rest of initializeEngine(), shared by start() and executeReconnect().*)

\* updateStatus(INITIALIZING) has returned: call engine.initialize().
BeginInitialize(t) ==
    /\ task[t].pc = "initStatus"
    /\ LET e == task[t].e IN
       /\ eng' = [eng EXCEPT ![e].phase = "prep", ![e].st = "INITIALIZING"]
       /\ sess' = IF IsLive(e)
                  THEN Becomes(task[t].s, OnStateChanged(sess[task[t].s], "INITIALIZING"))
                  ELSE sess
    /\ task' = Goto(t, "initWait")
    /\ UNCHANGED proc

\* The adapter's own preparation ends: the browser is launched, the socket is opened.
Launched(e) ==
    /\ eng[e].phase = "prep"
    /\ eng' = [eng EXCEPT ![e].phase = "live"]
    /\ UNCHANGED <<sess, task, proc>>

\* Mutation: the reservation is forgotten.
MutUnreserve(op, r) == r

\* The caller is done; start()'s finally block drops the reservation.
Unreserve(op, r) == IF op = "start" THEN [r EXCEPT !.starting = FALSE] ELSE r

\* Mutation: the guard trusts the row alone.
MutInitResolved(t) ==
    /\ task[t].pc = "initWait"
    /\ eng[task[t].e].phase \in {"live", "clearing", "closing"}
    /\ task' = [task EXCEPT ![t].pc = "guard", ![t].retired = sess[task[t].s].row = "GONE"]
    /\ UNCHANGED <<sess, eng, proc>>

\* engine.initialize() resolved; isSessionRetired() is asked.  A read that fails is "not
\* retired" for a reconnect and an error for start(), which keeps the engine.
InitResolved(t) ==
    /\ task[t].pc = "initWait"
    /\ eng[task[t].e].phase \in {"live", "clearing", "closing"}
    /\ LET r == sess[task[t].s] IN
       \/ /\ task' = [task EXCEPT ![t].pc = "guard",
                                  ![t].retired = r.stopping \/ r.row = "GONE"]
          /\ UNCHANGED sess
       \/ /\ DbFails /\ ~r.stopping
          /\ task' = IF task[t].op = "start" THEN End(t)
                     ELSE [task EXCEPT ![t].pc = "guard", ![t].retired = FALSE]
          /\ sess' = Becomes(task[t].s, Unreserve(task[t].op, r))
    /\ UNCHANGED <<eng, proc>>

\* The post-init guard: a session that must stay down loses whatever engine the map holds.
Guard(t) ==
    /\ task[t].pc = "guard"
    /\ LET r == sess[task[t].s] IN
       IF task[t].retired /\ r.engine # None
       THEN /\ eng' = Torn(r, eng)
            /\ sess' = Becomes(task[t].s, TeardownSeen(r, r.engine))
            /\ task' = Goto(t, "undo")
       ELSE /\ sess' = Becomes(task[t].s, Unreserve(task[t].op, r))
            /\ task' = End(t)
            /\ UNCHANGED eng
    /\ UNCHANGED proc

GuardTornDown(t) ==
    /\ task[t].pc = "undo"
    /\ sess' = Becomes(task[t].s, Unreserve(task[t].op, Evict(sess[task[t].s])))
    /\ task' = End(t)
    /\ UNCHANGED <<eng, proc>>

(* The catch blocks of start() and executeReconnect(): both take the engine *)
(* the map holds for the half-built one, evict it and reap it.  start()     *)
(* awaits the reaping and then writes FAILED, a reconnect tries again.      *)
Catch(t, r, es) ==
    /\ eng' = Torn(r, es)
    /\ IF task[t].op = "reconnect"
       THEN /\ sess' = Becomes(task[t].s, ScheduleReconnect(Evict(r)))
            /\ task' = End(t)
       ELSE IF r.engine = None
            THEN /\ sess' = Becomes(task[t].s, [r EXCEPT !.starting = FALSE])
                 /\ task' = End(t)
            ELSE /\ sess' = Becomes(task[t].s, [Evict(r) EXCEPT !.reason = TRUE])
                 /\ task' = Goto(t, "reap")
    /\ UNCHANGED proc

\* engine.initialize() rejects, the instance is useless.  The adapter reports FAILED and calls
\* onError first, which evicts the engine if it is still the registered one.  The wwjs
\* preparation resolves its version pin and cannot fail.
InitRejected(t) ==
    /\ task[t].pc = "initWait"
    /\ eng[task[t].e].phase \in {"live", "clearing", "closing"} \cup
          (IF Adapter = "baileys" THEN {"prep"} ELSE {})
    /\ LET e == task[t].e
           r == sess[task[t].s]
       IN Catch(t, IF IsLive(e) THEN OnError(r) ELSE r,
                [eng EXCEPT ![e].phase = "closing", ![e].st = "FAILED"])

\* The call threw outside the engine: the INITIALIZING write failed, or the deadline passed.
Thrown(t) ==
    /\ task[t].pc = "thrown"
    /\ Catch(t, sess[task[t].s], eng)

\* Mutations: the abandoned engine is not killed; the deadline does not exist.
MutInitTimedOut(t) ==
    /\ task[t].pc = "initWait"
    /\ Adapter = "wwjs" => eng[task[t].e].phase # "prep"
    /\ sess' = Becomes(task[t].s, [Evict(sess[task[t].s]) EXCEPT !.reason = TRUE])
    /\ task' = Goto(t, "timedOut")
    /\ UNCHANGED <<eng, proc>>

MutNoDeadline(t) == FALSE /\ task[t].pc = "initWait" /\ UNCHANGED vars

\* The deadline on engine.initialize() passes: evict (by id) first, then force-destroy.  It is
\* at least 60 s and the only wait of the wwjs preparation, the version fetch, aborts at 5 s.
InitTimedOut(t) ==
    /\ task[t].pc = "initWait"
    /\ Adapter = "wwjs" => eng[task[t].e].phase # "prep"
    /\ eng' = [eng EXCEPT ![task[t].e] = TornDown(@)]
    /\ sess' = Becomes(task[t].s, [Evict(sess[task[t].s]) EXCEPT !.reason = TRUE])
    /\ task' = Goto(t, "timedOut")
    /\ UNCHANGED proc

TimeoutTornDown(t) ==
    /\ task[t].pc = "timedOut"
    /\ sess' = Becomes(task[t].s, SetStatus(sess[task[t].s], "DISCONNECTED"))
    /\ task' = Goto(t, "thrown")
    /\ UNCHANGED <<eng, proc>>

StartReaped(t) ==
    /\ task[t].pc = "reap"
    /\ sess' = Becomes(task[t].s, [SetStatus(sess[task[t].s], "FAILED") EXCEPT !.starting = FALSE])
    /\ task' = End(t)
    /\ UNCHANGED <<eng, proc>>

-----------------------------------------------------------------------------
(* executeReconnect()                                                       *)

\* The timer fires on a session that was stopped since: nothing happens.
ReconnectSuppressed(s) ==
    /\ sess[s].timer /\ sess[s].stopping
    /\ sess' = Becomes(s, [sess[s] EXCEPT !.timer = FALSE])
    /\ UNCHANGED <<eng, task, proc>>

\* The timer fires: the registered engine is destroyed first; without one the
\* re-initialization starts in the same tick.
ReconnectFires(t, s) ==
    /\ task[t].pc = "idle"
    /\ sess[s].timer /\ ~sess[s].stopping
    /\ LET r == [sess[s] EXCEPT !.timer = FALSE] IN
       \/ /\ r.engine # None
          /\ eng' = Torn(r, eng)
          /\ sess' = Becomes(s, TeardownSeen(r, r.engine))
          /\ task' = [task EXCEPT ![t] = [Idle EXCEPT !.op = "reconnect", !.s = s,
                                                      !.pc = "destroy"]]
          /\ UNCHANGED proc
       \/ /\ r.engine = None
          /\ InitializeEngine(t, "reconnect", s, r)

\* The old engine is gone: the map entry is deleted by id and a new engine takes its place.
Reinitialize(t) ==
    /\ task[t].pc = "destroy"
    /\ InitializeEngine(t, "reconnect", task[t].s, sess[task[t].s])

-----------------------------------------------------------------------------
(* stop(), forceKill() and delete()                                         *)

\* What follows the teardown: the final status for stop, the hook for delete.
AfterTeardown(t, r) ==
    IF task[t].op = "stop"
    THEN /\ sess' = Becomes(task[t].s, SetStatus(r, "DISCONNECTED"))
         /\ task' = End(t)
    ELSE /\ sess' = Becomes(task[t].s, r)
         /\ task' = Goto(t, "drop")

\* The part before the first await: mark, cancel the reconnect, tear the engine down.
TearDown(t) ==
    /\ task[t].op \in {"stop", "delete"} /\ task[t].pc = "find"
    /\ LET r == CancelReconnect([sess[task[t].s] EXCEPT !.stopping = TRUE]) IN
       IF r.engine # None
       THEN /\ eng' = Torn(r, eng)
            /\ sess' = Becomes(task[t].s, TeardownSeen(r, r.engine))
            /\ task' = Goto(t, "down")
       ELSE /\ AfterTeardown(t, r)
            /\ UNCHANGED eng
    /\ UNCHANGED proc

\* Mutation: the map is not reconciled.
MutTornDownDone(t) ==
    /\ task[t].pc = "down"
    /\ AfterTeardown(t, sess[task[t].s])
    /\ UNCHANGED <<eng, proc>>

TornDownDone(t) ==
    /\ task[t].pc = "down"
    /\ AfterTeardown(t, Evict(sess[task[t].s]))
    /\ UNCHANGED <<eng, proc>>

\* The finally block of delete().
Unmark(r) == [r EXCEPT !.stopping = FALSE, !.reason = FALSE]

\* The session:deleted hook has run; the rows go in one transaction, or stay.
DropRows(t) ==
    /\ task[t].pc = "drop"
    /\ \/ /\ sess' = Becomes(task[t].s, [sess[task[t].s] EXCEPT !.row = "GONE"])
          /\ task' = Goto(t, "purge")
       \/ /\ DbFails
          /\ sess' = Becomes(task[t].s, Unmark(sess[task[t].s]))
          /\ task' = End(t)
    /\ UNCHANGED <<eng, proc>>

\* The engine's files are purged.
Purged(t) ==
    /\ task[t].pc = "purge"
    /\ sess' = Becomes(task[t].s, Unmark(sess[task[t].s]))
    /\ task' = End(t)
    /\ UNCHANGED <<eng, proc>>

-----------------------------------------------------------------------------
(* Events of the engines.  An engine that was replaced goes on emitting.    *)

\* The callback of engine e turns its session into r, unless e was superseded.
Callback(e, r) == IF IsLive(e) THEN Becomes(eng[e].owner, r) ELSE sess

Owner(e) == sess[eng[e].owner]

\* The phases in which the client still reports its end; the wwjs handlers of disconnected and
\* auth_failure do not look at the teardown flag.
Reporting == IF Adapter = "wwjs" THEN {"live", "clearing", "closing"} ELSE {"live"}

\* A QR code arrives; it is rendered asynchronously.
QrReceived(e) ==
    /\ eng[e].phase = "live"
    /\ Adapter = "wwjs" => eng[e].st # "FAILED"
    /\ eng' = [eng EXCEPT ![e].qr = TRUE]
    /\ UNCHANGED <<sess, task, proc>>

QrRendered(e) ==
    /\ eng[e].qr
    /\ eng' = [eng EXCEPT ![e].qr = FALSE, ![e].st = "QR_READY"]
    /\ sess' = IF Adapter = "baileys" /\ eng[e].st = "QR_READY" THEN sess
               ELSE Callback(e, OnStateChanged(Owner(e), "QR_READY"))
    /\ UNCHANGED <<task, proc>>

Authenticated(e) ==
    /\ Adapter = "wwjs" /\ eng[e].phase = "live"
    /\ eng[e].st \notin {"AUTHENTICATING", "READY", "FAILED"}
    /\ eng' = [eng EXCEPT ![e].st = "AUTHENTICATING"]
    /\ sess' = Callback(e, OnStateChanged(Owner(e), "AUTHENTICATING"))
    /\ UNCHANGED <<task, proc>>

\* The client is connected, by its event or by the reconciliation probe.  A page that is being
\* destroyed does not get that far any more; one whose auth files are being removed may.
Ready(e) ==
    /\ eng[e].phase \in {"live", "clearing"}
    /\ Adapter = "wwjs" => eng[e].st \notin {"READY", "DISCONNECTED", "FAILED"}
    /\ eng' = [eng EXCEPT ![e].st = "READY"]
    /\ sess' = Callback(e, OnReady(Owner(e)))
    /\ UNCHANGED <<task, proc>>

\* The phone logged the session out, or (wwjs) the page lost its session.
Disconnected(e) ==
    /\ eng[e].phase \in Reporting
    /\ eng' = [eng EXCEPT ![e].st = "DISCONNECTED",
                          ![e].phase = IF Adapter = "baileys" THEN "closing" ELSE @]
    /\ sess' = Callback(e, OnDisconnected(Owner(e)))
    /\ UNCHANGED <<task, proc>>

\* Authenticated but never ready: wwjs forgets its client, removes the auth files ...  The 90 s
\* it waits outlast the deadline of the initialization (60 s unless WWEBJS_AUTH_TIMEOUT_MS
\* raises it), so the call that made the engine is over.
StuckAuth(e) ==
    /\ Adapter = "wwjs" /\ eng[e].phase = "live" /\ eng[e].st = "AUTHENTICATING"
    /\ \A t \in Tasks : task[t].e # e
    /\ eng' = [eng EXCEPT ![e].phase = "clearing"]
    /\ UNCHANGED <<sess, task, proc>>

\* ... and then reports a disconnect and destroys the client in the background.
AuthCleared(e) ==
    /\ eng[e].phase = "clearing"
    /\ eng' = [eng EXCEPT ![e].phase = "closing", ![e].st = "DISCONNECTED"]
    /\ sess' = Callback(e, OnDisconnected(Owner(e)))
    /\ UNCHANGED <<task, proc>>

\* A terminal failure (credentials rejected, reconnects of the adapter exhausted).
Failed(e) ==
    /\ eng[e].phase \in Reporting
    /\ LET failed == [eng[e] EXCEPT !.st = "FAILED",
                                    !.phase = IF Adapter = "baileys" THEN "closing" ELSE @]
       IN eng' = [eng EXCEPT ![e] = IF IsLive(e) THEN TornDown(failed) ELSE failed]
    /\ sess' = Callback(e, OnError(Owner(e)))
    /\ UNCHANGED <<task, proc>>

\* Baileys: a transient drop, the adapter reconnects by itself.
Dropped(e) ==
    /\ Adapter = "baileys" /\ eng[e].phase = "live" /\ eng[e].st # "INITIALIZING"
    /\ eng' = [eng EXCEPT ![e].st = "INITIALIZING"]
    /\ sess' = Callback(e, OnStateChanged(Owner(e), "INITIALIZING"))
    /\ UNCHANGED <<task, proc>>

\* wwjs: a call on a ready engine found the page detached.
Detached(e) ==
    /\ Adapter = "wwjs" /\ eng[e].phase = "live" /\ eng[e].st = "READY"
    /\ eng' = [eng EXCEPT ![e].st = "DISCONNECTED"]
    /\ sess' = Callback(e, OnStateChanged(Owner(e), "DISCONNECTED"))
    /\ UNCHANGED <<task, proc>>

-----------------------------------------------------------------------------
(* The process                                                              *)

\* ShutdownService.markShuttingDown(): the drain window begins; nothing else stops.
Drain ==
    /\ Restarts /\ proc = "up"
    /\ proc' = "draining"
    /\ UNCHANGED <<sess, eng, task>>

\* onModuleDestroy(): no timer and no reconnect state survives, every registered engine is
\* destroyed; the map is cleared when the process is about to exit.
Destroy ==
    /\ proc = "draining"
    /\ proc' = "destroying"
    /\ sess' = [s \in Sessions |->
                  LET r == CancelReconnect(sess[s])
                  IN IF r.engine = None THEN r ELSE TeardownSeen(r, r.engine)]
    /\ eng' = [e \in Engines |-> IF IsLive(e) THEN TornDown(eng[e]) ELSE eng[e]]
    /\ UNCHANGED task

\* The process exits or crashes and boots: memory is new, onModuleInit() demotes the rows that
\* claim a running engine.
Restart ==
    /\ Restarts
    /\ proc' = "up"
    /\ sess' = [s \in Sessions |->
                  [NewSession EXCEPT !.row = IF sess[s].row \in ActiveStatus THEN "DISCONNECTED"
                                             ELSE sess[s].row]]
    /\ eng' = [e \in Engines |-> NoEngine]
    /\ task' = [t \in Tasks |-> Idle]

-----------------------------------------------------------------------------

TaskStep(t) ==
    \/ StartRejected(t) \/ StartReserved(t) \/ StartHookDone(t) \/ BeginInitialize(t)
    \/ Guard(t) \/ GuardTornDown(t) \/ Thrown(t) \/ InitTimedOut(t) \/ TimeoutTornDown(t)
    \/ StartReaped(t) \/ Reinitialize(t) \/ TearDown(t) \/ TornDownDone(t) \/ DropRows(t)
    \/ Purged(t)

\* What a call waits for from its engine.
EngineAnswers(t) == InitResolved(t) \/ InitRejected(t)

EngineStep(e) ==
    \/ Launched(e) \/ QrReceived(e) \/ QrRendered(e) \/ Authenticated(e) \/ Ready(e)
    \/ Disconnected(e) \/ StuckAuth(e) \/ AuthCleared(e) \/ Failed(e) \/ Dropped(e) \/ Detached(e)

Next ==
    \/ \E t \in Tasks, s \in Sessions, op \in Requests : Request(t, op, s)
    \/ \E t \in Tasks, s \in Sessions : ReconnectFires(t, s)
    \/ \E s \in Sessions : ReconnectSuppressed(s)
    \/ \E t \in Tasks : TaskStep(t) \/ EngineAnswers(t)
    \/ \E e \in Engines : EngineStep(e)
    \/ Drain \/ Destroy \/ Restart

\* Continuations run and awaits end: hooks and teardowns are bounded by timers (10 s), an
\* initialization by its deadline, the wwjs preparation by the abort of its fetch (5 s).  Engines,
\* whose initialize() may hang, callers and the process owe nothing.
Fairness ==
    /\ \A t \in Tasks : WF_vars(TaskStep(t))
    /\ Adapter = "wwjs" => \A e \in Engines : WF_vars(Launched(e))

Spec == Init /\ [][Next]_vars /\ Fairness

-----------------------------------------------------------------------------

SessionRecord ==
    [row : Status \cup {"GONE"}, engine : Engines \cup {None}, stopping : BOOLEAN,
     starting : BOOLEAN, tracked : BOOLEAN, attempts : 0..MaxAttempts, timer : BOOLEAN,
     reason : BOOLEAN]
EngineRecord ==
    [owner : Sessions \cup {None}, phase : {"none", "new", "prep", "live", "clearing", "closing"},
     st : EngineStatus, qr : BOOLEAN]
TaskRecord ==
    [op : {"none", "start", "reconnect", "stop", "delete"}, s : Sessions \cup {None},
     pc : {"idle", "find", "hook", "initStatus", "initWait", "guard", "undo", "reap", "timedOut",
           "thrown", "destroy", "down", "drop", "purge"},
     e : Engines \cup {None}, retired : BOOLEAN]

\* Every variable has its type; in particular attempts never passes its maximum.
TypeOK ==
    /\ sess \in [Sessions -> SessionRecord]
    /\ eng \in [Engines -> EngineRecord]
    /\ task \in [Tasks -> TaskRecord]
    /\ proc \in {"up", "draining", "destroying"}

\* No call is in flight for s.
Quiet(s) == \A t \in Tasks : task[t].s # s

\* The start() calls of s that hold the reservation.
Starters(s) == {t \in Tasks : task[t].op = "start" /\ task[t].s = s /\ task[t].pc # "find"}

\* The reservation (initializingSessions) is held exactly while one start() call is past its
\* check: no error path leaks it, none drops it early, and no two calls hold it.
ReservationHeldOnce ==
    /\ \A s \in Sessions : sess[s].starting <=> Starters(s) # {}
    /\ \A s \in Sessions : \A t, u \in Starters(s) : t = u

\* A session whose last word was stop() has no registered engine once the calls that raced the
\* stop are over: the post-init guards undo what they did (stoppingSessions).
StoppedStaysDown == \A s \in Sessions : sess[s].stopping /\ Quiet(s) => sess[s].engine = None

\* The row of a stopped session does not move until somebody calls again: an engine that was
\* evicted goes on emitting, and isLiveEngine() keeps it from the row.
StopIsFinal ==
    [][\A s \in Sessions :
         sess[s].stopping /\ Quiet(s) /\ sess'[s].stopping => sess'[s].row = sess[s].row]_vars

\* An engine that may hold a browser or a socket can be reached through the map once the call
\* that made it is over; otherwise nothing ever tears it down ("so it isn't orphaned").
EngineIsRegistered ==
    \A e \in Engines :
       eng[e].phase \in {"prep", "live"} /\ (\A t \in Tasks : task[t].e # e) => IsLive(e)

\* A deleted session has no engine once the calls that raced the delete are over.
DeletedIsGone == \A s \in Sessions : sess[s].row = "GONE" /\ Quiet(s) => sess[s].engine = None

\* A row that claims a connected or connecting session is backed by an engine or by a reconnect
\* on its way, once no call is in flight.
ClaimsAreBacked ==
    \A s \in Sessions :
       Quiet(s) /\ sess[s].engine = None /\ ~sess[s].timer
       => sess[s].row \notin {"INITIALIZING", "AUTHENTICATING", "READY"}

\* A session that failed says why (sessionErrors feeds lastError), within one life of the process.
FailedHasReason == \A s \in Sessions : sess[s].row = "FAILED" /\ Quiet(s) => sess[s].reason

\* MAX_CONCURRENT_SESSIONS bounds the sessions running or initializing an engine.
CapRespected == MaxConcurrent > 0 => Cardinality(Occupied) <= MaxConcurrent

\* A start() always gives the reservation back: its awaits are bounded.
StartReturns == \A s \in Sessions : sess[s].starting ~> ~sess[s].starting

\* A stop takes effect: the engine goes, unless a later call withdraws the mark.
StopTakesEffect ==
    \A s \in Sessions : sess[s].stopping ~> (sess[s].engine = None \/ ~sess[s].stopping)

-----------------------------------------------------------------------------
(* What comments and docs of the repository say, and the code does not do.  *)

\* executeReconnect() retries a rejected re-initialization ("executeReconnect() -> retry").
RejectedReconnectRetries ==
    [][\A t \in Tasks : LET s == task[t].s IN
         /\ task[t].op = "reconnect" /\ task[t].pc = "initWait" /\ task'[t].pc = "idle"
         /\ eng[task[t].e].st # "FAILED" /\ eng'[task[t].e].st = "FAILED"
         /\ sess[s].tracked /\ sess[s].attempts < MaxAttempts /\ proc = "up"
         => sess'[s].timer]_vars

=============================================================================
